------------------------------ MODULE Settings ------------------------------
(***************************************************************************)
(* The desktop program's configuration file and its updates (config.rs,    *)
(* updater.rs, and their callers in main_loop.rs, commands.rs and main.rs) *)
(* The observation loop reads the file on every round and starts one       *)
(* update check per process; the user edits the file, asks for checks,     *)
(* dismisses the reminder and restarts.  fs::write is two steps, truncate  *)
(* and write, and anything may run, or the program stop, between them.     *)
(***************************************************************************)
EXTENDS Naturals

CONSTANTS
    Choices,      \* what the user can set, last_check_at apart
    Defaults,     \* Config::default()
    Versions,     \* what the update server offers, a file name for each
    Checks,       \* update checks at once: "startup", and the user's
    MaxEdits,     \* bound: edits of the file by the user
    MaxRestarts   \* bound: ends of the process

ASSUME SettingsAssumption ==
    /\ Defaults \in Choices
    /\ Checks \cap Versions = {}
    /\ Versions \cap {"none", "missing", "torn"} = {}
    /\ MaxEdits \in Nat /\ MaxRestarts \in Nat

VARIABLES
    config,       \* config.json
    active,       \* active_config (and fallback_config) of the loop
    started,      \* startup_update_check_done
    pc,           \* where each update check is
    offer,        \* the version each check was offered
    package,      \* the downloaded file of each version
    installed,    \* what msiexec has installed (external)
    reminder,     \* AppState.update_state
    saved,        \* update_state.json
    fresh,        \* history: checks whose last installation the user has not put off
    shown,        \* history: the check whose reminder was stored last
    edits, restarts

updateVars == <<pc, offer, package, installed, reminder, saved, fresh, shown>>
vars == <<config, active, started, updateVars, edits, restarts>>

\* A configuration: the user's choices, and whether last_check_at is less
\* than a day old
Configs == [choice : Choices, checked : BOOLEAN]
DefaultConfig == [choice |-> Defaults, checked |-> FALSE]
NoFile == [choice |-> "missing", checked |-> FALSE]
HalfFile == [choice |-> "torn", checked |-> FALSE]
Files == Configs \cup {NoFile, HalfFile}

NoReminder == "none"
Missing == "missing"
Torn == "torn"

Init ==
    /\ config \in Configs \cup {NoFile}
    /\ active = IF config = NoFile THEN DefaultConfig ELSE config
    /\ started = FALSE
    /\ pc = [u \in Checks |-> "idle"]
    /\ offer = [u \in Checks |-> NoReminder]
    /\ package = [v \in Versions |-> Missing]
    /\ installed = {}
    /\ reminder = NoReminder
    /\ saved \in {Missing, NoReminder}
    /\ fresh = {} /\ shown = NoReminder
    /\ edits = 0 /\ restarts = 0

----------------------------------------------------------------------------
\* Config::load

Loads == config # HalfFile
Loaded == IF config = NoFile THEN DefaultConfig ELSE config

\* Once per process, unless the last check is less than a day old
StartsCheck(c) ==
    IF ~started /\ ~c.checked /\ "startup" \in Checks
    THEN pc' = [pc EXCEPT !["startup"] = "check"] ELSE UNCHANGED pc

\* Mutant: the file is read at the start only.
RoundReadsNothing ==
    /\ started' = TRUE
    /\ StartsCheck(active)
    /\ UNCHANGED <<config, active, offer, package, installed, reminder, saved, fresh, shown, edits, restarts>>

\* Mutant: a file that does not load stands for the defaults.
RoundFallsToDefaults ==
    /\ active' = IF Loads THEN Loaded ELSE DefaultConfig
    /\ started' = TRUE
    /\ StartsCheck(active')
    /\ UNCHANGED <<config, offer, package, installed, reminder, saved, fresh, shown, edits, restarts>>

\* A round of the loop: a file that does not load leaves the last known one
Round ==
    /\ active' = IF Loads THEN Loaded ELSE active
    /\ started' = TRUE
    /\ StartsCheck(active')
    /\ UNCHANGED <<config, offer, package, installed, reminder, saved, fresh, shown, edits, restarts>>

\* the user's editor, which replaces the file at once and keeps the fields it
\* does not change; save_config has no caller that succeeds, as Settings.js
\* leaves out a field it requires
Edit ==
    /\ edits < MaxEdits
    /\ edits' = edits + 1
    /\ \E c \in Choices : config' = [choice |-> c, checked |-> Loads /\ Loaded.checked]
    /\ UNCHANGED <<active, started, updateVars, restarts>>

----------------------------------------------------------------------------
\* run_update_check and check_for_updates

Goes(u, from, to) == pc[u] = from /\ pc' = [pc EXCEPT ![u] = to]

updateRest == <<active, started, edits, restarts>>

\* check_for_updates
ManualCheck(u) ==
    /\ u # "startup"
    /\ Goes(u, "idle", "check")
    /\ UNCHANGED <<config, offer, package, installed, reminder, saved, fresh, shown, updateRest>>

\* the server answers: nothing new, or a version; only the startup check
\* records that it checked
Answer(u) ==
    /\ \/ /\ \E v \in Versions : offer' = [offer EXCEPT ![u] = v]
          /\ Goes(u, "check", IF u = "startup" THEN "truncate" ELSE "download")
       \/ /\ Goes(u, "check", IF u = "startup" THEN "truncate" ELSE "idle")
          /\ UNCHANGED offer
    /\ UNCHANGED <<config, package, installed, reminder, saved, fresh, shown, updateRest>>

AfterSave(u) == IF offer[u] \in Versions THEN "download" ELSE "idle"

\* config.save: the copy of AppState.config, which is Config::default(), with
\* the time of the check
TruncateConfig(u) ==
    /\ Goes(u, "truncate", "write")
    /\ config' = HalfFile
    /\ UNCHANGED <<offer, package, installed, reminder, saved, fresh, shown, updateRest>>

WriteConfig(u) ==
    /\ Goes(u, "write", AfterSave(u))
    /\ config' = [DefaultConfig EXCEPT !.checked = TRUE]
    /\ UNCHANGED <<offer, package, installed, reminder, saved, fresh, shown, updateRest>>

\* the save fails, which is only logged
ConfigNotSaved(u) ==
    /\ \E from \in {"truncate", "write"} : Goes(u, from, AfterSave(u))
    /\ UNCHANGED <<config, offer, package, installed, reminder, saved, fresh, shown, updateRest>>

\* The downloaded bytes have the checksum; fs::write to the version's file
TruncatePackage(u) ==
    /\ Goes(u, "download", "fill")
    /\ package' = [package EXCEPT ![offer[u]] = Torn]
    /\ UNCHANGED <<config, offer, installed, reminder, saved, fresh, shown, updateRest>>

FillPackage(u) ==
    /\ Goes(u, "fill", "install")
    /\ package' = [package EXCEPT ![offer[u]] = offer[u]]
    /\ UNCHANGED <<config, offer, installed, reminder, saved, fresh, shown, updateRest>>

\* msiexec installs a whole package; another check may be rewriting it
Install(u) ==
    /\ Goes(u, "install", "remind")
    /\ package[offer[u]] \in Versions
    /\ installed' = installed \cup {package[offer[u]]}
    /\ fresh' = fresh \cup {u}
    /\ UNCHANGED <<config, offer, package, reminder, saved, shown, updateRest>>

\* the server, the download, the disk or msiexec fails
CheckFails(u) ==
    /\ \E from \in {"check", "download", "fill", "install"} : Goes(u, from, "idle")
    /\ offer' = [offer EXCEPT ![u] = NoReminder]
    /\ UNCHANGED <<config, package, installed, reminder, saved, fresh, shown, updateRest>>

Remind(u) ==
    /\ Goes(u, "remind", "save")
    /\ reminder' = offer[u]
    /\ shown' = u
    /\ UNCHANGED <<config, offer, package, installed, saved, fresh, updateRest>>

\* save_update_state; its error is ignored
SaveReminder(u) ==
    /\ Goes(u, "save", "idle")
    /\ saved' = offer[u]
    /\ offer' = [offer EXCEPT ![u] = NoReminder]
    /\ UNCHANGED <<config, package, installed, reminder, fresh, shown, updateRest>>

----------------------------------------------------------------------------

\* Checks that have installed and not told the user yet
Untold == {u \in Checks : pc[u] = "remind"}

\* Mutant: only the file forgets the reminder.
DismissFileOnly ==
    /\ saved' = NoReminder
    /\ fresh' = Untold
    /\ UNCHANGED <<config, pc, offer, package, installed, reminder, shown, updateRest>>

\* dismiss_update_reminder writes both under the lock of the first; it does not
\* reach a check that has yet to tell, even of the version that is put off
Dismiss ==
    /\ reminder' = NoReminder
    /\ saved' = NoReminder
    /\ fresh' = Untold
    /\ UNCHANGED <<config, pc, offer, package, installed, shown, updateRest>>

DayPasses ==
    /\ config \in Configs /\ config.checked
    /\ config' = [config EXCEPT !.checked = FALSE]
    /\ active' = [active EXCEPT !.checked = FALSE]
    /\ UNCHANGED <<started, updateVars, edits, restarts>>

\* The process ends anywhere and main starts again: Config::load with its
\* unwrap_or_default, AppState::new.  Nobody reads update_state.json
Restart ==
    /\ restarts < MaxRestarts
    /\ restarts' = restarts + 1
    /\ active' = IF Loads THEN Loaded ELSE DefaultConfig
    /\ started' = FALSE
    /\ pc' = [u \in Checks |-> "idle"]
    /\ offer' = [u \in Checks |-> NoReminder]
    /\ reminder' = NoReminder
    /\ fresh' = {}
    /\ UNCHANGED <<config, package, installed, saved, shown, edits>>

Update(u) ==
    \/ Answer(u) \/ CheckFails(u)
    \/ TruncateConfig(u) \/ WriteConfig(u) \/ ConfigNotSaved(u)
    \/ TruncatePackage(u) \/ FillPackage(u) \/ Install(u)
    \/ Remind(u) \/ SaveReminder(u)

Next ==
    \/ Round \/ Edit \/ Dismiss \/ DayPasses \/ Restart
    \/ \E u \in Checks : ManualCheck(u) \/ Update(u)

\* The loop's thread goes on with its rounds; a download or an installation
\* may take forever
Spec == Init /\ [][Next]_vars /\ WF_vars(Round)

----------------------------------------------------------------------------
\* Properties

Places == {"idle", "check", "truncate", "write", "download", "fill", "install", "remind", "save"}

\* Every variable has the type of the code's field or file.
TypeOK ==
    /\ config \in Files
    /\ active \in Configs
    /\ started \in BOOLEAN
    /\ pc \in [Checks -> Places]
    /\ offer \in [Checks -> Versions \cup {NoReminder}]
    /\ package \in [Versions -> Versions \cup {Missing, Torn}]
    /\ installed \subseteq Versions
    /\ reminder \in Versions \cup {NoReminder}
    /\ saved \in Versions \cup {NoReminder, Missing}
    /\ fresh \subseteq Checks /\ shown \in Checks \cup {NoReminder}
    /\ edits \in 0 .. MaxEdits /\ restarts \in 0 .. MaxRestarts

\* A reminder that is shown is true: msiexec has installed a whole package of
\* that version, though two checks write the same temporary file; and it is the
\* reminder of a check that told of it after the user last said "later", not
\* one the user has put off.
ReminderIsTrue == reminder \in Versions => reminder \in installed /\ shown \in fresh

\* A file caught half written never takes the settings from a loop that runs:
\* it goes on with the "last known config" (start_main_loop, main_loop.rs:28).
\* Config::load's own comment says otherwise: "Returns Default config if file
\* doesn't exist or is invalid"; an invalid file is an error (config.rs:77).
LastKnownIsKept ==
    [][restarts' = restarts /\ config = HalfFile => active'.choice = active.choice]_vars

\* What the file says for good is what the loop ends up using.
SettingsReachLoop ==
    \A c \in Choices : <>[](config \in Configs /\ config.choice = c) => <>[](active.choice = c)
=============================================================================
