--------------------------- MODULE Settings_proofs ---------------------------
(***************************************************************************)
(* Theorems about the settings and the updates, for every number of        *)
(* versions and of update checks at once.                                  *)
(***************************************************************************)
EXTENDS Settings, TLAPS

-----------------------------------------------------------------------------
(* A file holds a version whole or not at all, and a check that is past    *)
(* its answer has a version in hand.                                       *)

PackagesAreOwn == \A v \in Versions : package[v] \in {Missing, Torn, v}

Offered == {"download", "fill", "install", "remind", "save"}
HasOffer == \A u \in Checks : pc[u] \in Offered => offer[u] \in Versions

\* A check that is about to remind has installed what it offers, and is fresh.
RemindsTruly == \A u \in Checks : pc[u] = "remind" => offer[u] \in installed /\ u \in fresh

UpdateInv == TypeOK /\ PackagesAreOwn /\ HasOffer /\ RemindsTruly /\ ReminderIsTrue

LEMMA Marks ==
  /\ NoReminder \notin Versions /\ Missing \notin Versions /\ Torn \notin Versions
  BY SettingsAssumption DEF NoReminder, Missing, Torn

LEMMA InitUpdate == Init => UpdateInv
<1> SUFFICES ASSUME Init PROVE UpdateInv
  OBVIOUS
<1>1. config \in Files /\ active \in Configs
  BY SettingsAssumption DEF Init, Files, Configs, DefaultConfig
<1>2. /\ pc \in [Checks -> Places] /\ offer \in [Checks -> Versions \cup {NoReminder}]
      /\ package \in [Versions -> Versions \cup {Missing, Torn}]
  BY DEF Init, Places
<1>3. /\ started \in BOOLEAN /\ installed \subseteq Versions /\ fresh \subseteq Checks /\ shown \in Checks \cup {NoReminder}
      /\ reminder \in Versions \cup {NoReminder} /\ saved \in Versions \cup {NoReminder, Missing}
  BY DEF Init
<1>4. edits \in 0 .. MaxEdits /\ restarts \in 0 .. MaxRestarts
  BY SettingsAssumption DEF Init
<1>5. PackagesAreOwn /\ HasOffer /\ RemindsTruly /\ ReminderIsTrue
  BY Marks DEF Init, PackagesAreOwn, HasOffer, RemindsTruly, ReminderIsTrue, Offered
<1> QED BY <1>1, <1>2, <1>3, <1>4, <1>5 DEF UpdateInv, TypeOK

\* The steps that leave the downloads alone.
LEMMA SettingsStep ==
  ASSUME UpdateInv, Round \/ Edit \/ DayPasses
  PROVE  UpdateInv'
<1> USE DEF UpdateInv, TypeOK
<1>1. CASE Round
  <2>1. pc' \in [Checks -> Places] /\ \A u \in Checks : pc'[u] \in Offered => pc'[u] = pc[u]
    BY <1>1 DEF Round, StartsCheck, Places, Offered
  <2>4. started' \in BOOLEAN
    BY <1>1 DEF Round
  <2>2. active' \in Configs
    BY <1>1, SettingsAssumption DEF Round, Loads, Loaded, Files, Configs, DefaultConfig
  <2>3. \A u \in Checks : pc'[u] = "remind" => pc[u] = "remind"
    BY <2>1 DEF Offered
  <2>5. UNCHANGED <<config, offer, package, installed, reminder, saved, fresh, shown, edits, restarts>>
    BY <1>1 DEF Round
  <2> QED BY <2>1, <2>2, <2>3, <2>4, <2>5 DEF PackagesAreOwn, HasOffer, RemindsTruly, ReminderIsTrue
<1>2. CASE Edit
  <2>1. (Loads /\ Loaded.checked) \in BOOLEAN
    OBVIOUS
  <2>2. config' \in Configs
    BY <1>2, <2>1 DEF Edit, Configs
  <2>3. edits' \in 0 .. MaxEdits /\ UNCHANGED <<active, started, updateVars, restarts>>
    BY <1>2, SettingsAssumption DEF Edit
  <2> QED BY <2>2, <2>3 DEF Files, updateVars, PackagesAreOwn, HasOffer, RemindsTruly, ReminderIsTrue
<1>3. CASE DayPasses
  <2>1. config' \in Files /\ active' \in Configs
    BY <1>3 DEF DayPasses, Files, Configs
  <2>2. UNCHANGED <<started, updateVars, edits, restarts>>
    BY <1>3 DEF DayPasses
  <2> QED BY <2>1, <2>2 DEF updateVars, PackagesAreOwn, HasOffer, RemindsTruly, ReminderIsTrue
<1> QED BY <1>1, <1>2, <1>3

\* The steps that take the reminder away.
LEMMA ForgetStep ==
  ASSUME UpdateInv, Dismiss \/ Restart
  PROVE  UpdateInv'
<1> USE DEF UpdateInv, TypeOK
<1>1. CASE Dismiss
  <2>1. fresh' \subseteq Checks
    BY <1>1 DEF Dismiss, Untold
  <2>2. RemindsTruly'
    BY <1>1 DEF Dismiss, Untold, RemindsTruly
  <2> QED BY <1>1, <2>1, <2>2, Marks DEF Dismiss, updateRest, PackagesAreOwn, HasOffer, ReminderIsTrue
<1>2. CASE Restart
  <2>1. active' \in Configs /\ restarts' \in 0 .. MaxRestarts
    BY <1>2, SettingsAssumption DEF Restart, Loads, Loaded, Files, Configs, DefaultConfig
  <2> QED BY <1>2, <2>1, Marks DEF Restart, Places, Offered, PackagesAreOwn, HasOffer, RemindsTruly,
             ReminderIsTrue
<1> QED BY <1>1, <1>2

\* The steps of one check.
LEMMA CheckStep ==
  ASSUME UpdateInv, NEW u \in Checks, ManualCheck(u) \/ Update(u)
  PROVE  UpdateInv'
<1>0. /\ TypeOK /\ PackagesAreOwn /\ HasOffer /\ RemindsTruly /\ ReminderIsTrue
      /\ pc \in [Checks -> Places] /\ offer \in [Checks -> Versions \cup {NoReminder}]
      /\ package \in [Versions -> Versions \cup {Missing, Torn}]
  BY DEF UpdateInv, TypeOK
<1>1. CASE ManualCheck(u) \/ Answer(u)
  <2>1. /\ pc' \in [Checks -> Places] /\ offer' \in [Checks -> Versions \cup {NoReminder}]
        /\ \A w \in Checks : pc'[w] \in Offered => offer'[w] \in Versions
        /\ \A w \in Checks : pc'[w] = "remind" => pc[w] = "remind" /\ offer'[w] = offer[w]
    BY <1>0, <1>1 DEF ManualCheck, Answer, Goes, Places, Offered, HasOffer
  <2>2. UNCHANGED <<config, package, installed, reminder, saved, fresh, shown, updateRest>>
    BY <1>1 DEF ManualCheck, Answer
  <2> QED BY <1>0, <2>1, <2>2 DEF UpdateInv, TypeOK, updateRest, PackagesAreOwn, HasOffer, RemindsTruly,
             ReminderIsTrue
<1>2. CASE TruncateConfig(u) \/ WriteConfig(u) \/ ConfigNotSaved(u)
  <2>1. /\ pc' \in [Checks -> Places]
        /\ \A w \in Checks : pc'[w] \in Offered => offer[w] \in Versions
        /\ \A w \in Checks : pc'[w] = "remind" => pc[w] = "remind"
    BY <1>0, <1>2 DEF TruncateConfig, WriteConfig, ConfigNotSaved, AfterSave, Goes, Places, Offered, HasOffer
  <2>2. config' \in Files
    BY <1>0, <1>2, SettingsAssumption DEF TruncateConfig, WriteConfig, ConfigNotSaved, Files, Configs,
       DefaultConfig, TypeOK
  <2>3. UNCHANGED <<offer, package, installed, reminder, saved, fresh, shown, updateRest>>
    BY <1>2 DEF TruncateConfig, WriteConfig, ConfigNotSaved
  <2> QED BY <1>0, <2>1, <2>2, <2>3 DEF UpdateInv, TypeOK, updateRest, PackagesAreOwn, HasOffer, RemindsTruly,
             ReminderIsTrue
<1>3. CASE TruncatePackage(u) \/ FillPackage(u)
  <2>1. offer[u] \in Versions
    BY <1>0, <1>3 DEF TruncatePackage, FillPackage, Goes, HasOffer, Offered
  <2>2. /\ pc' \in [Checks -> Places]
        /\ \A w \in Checks : pc'[w] \in Offered => pc[w] \in Offered
        /\ \A w \in Checks : pc'[w] = "remind" => pc[w] = "remind"
    BY <1>0, <1>3 DEF TruncatePackage, FillPackage, Goes, Places, Offered
  <2>3. package' \in [Versions -> Versions \cup {Missing, Torn}] /\ PackagesAreOwn'
    BY <1>0, <1>3, <2>1 DEF TruncatePackage, FillPackage, PackagesAreOwn
  <2>4. UNCHANGED <<config, offer, installed, reminder, saved, fresh, shown, updateRest>>
    BY <1>3 DEF TruncatePackage, FillPackage
  <2> QED BY <1>0, <2>2, <2>3, <2>4 DEF UpdateInv, TypeOK, updateRest, HasOffer, RemindsTruly, ReminderIsTrue
<1>4. CASE Install(u)
  <2>1. offer[u] \in Versions /\ package[offer[u]] = offer[u]
    BY <1>0, <1>4, Marks DEF Install, Goes, HasOffer, Offered, PackagesAreOwn
  <2>2. installed' = installed \cup {offer[u]} /\ fresh' = fresh \cup {u}
    BY <1>4, <2>1 DEF Install
  <2>3. /\ pc' \in [Checks -> Places]
        /\ \A w \in Checks : pc'[w] \in Offered => pc[w] \in Offered
        /\ \A w \in Checks : pc'[w] = "remind" => w = u \/ pc[w] = "remind"
    BY <1>0, <1>4 DEF Install, Goes, Places, Offered
  <2>4. UNCHANGED <<config, offer, package, reminder, saved, shown, updateRest>>
    BY <1>4 DEF Install
  <2> QED BY <1>0, <2>1, <2>2, <2>3, <2>4 DEF UpdateInv, TypeOK, updateRest, PackagesAreOwn, HasOffer, RemindsTruly,
             ReminderIsTrue
<1>5. CASE CheckFails(u)
  <2>1. /\ pc' \in [Checks -> Places] /\ offer' \in [Checks -> Versions \cup {NoReminder}]
        /\ pc'[u] = "idle" /\ \A w \in Checks \ {u} : pc'[w] = pc[w] /\ offer'[w] = offer[w]
    BY <1>0, <1>5 DEF CheckFails, Goes, Places
  <2>2. UNCHANGED <<config, package, installed, reminder, saved, fresh, shown, updateRest>>
    BY <1>5 DEF CheckFails
  <2> QED BY <1>0, <2>1, <2>2 DEF UpdateInv, TypeOK, updateRest, PackagesAreOwn, HasOffer, RemindsTruly,
             ReminderIsTrue, Offered
<1>6. CASE Remind(u)
  <2>1. reminder' = offer[u] /\ offer[u] \in Versions /\ offer[u] \in installed /\ u \in fresh /\ shown' = u
    BY <1>0, <1>6 DEF Remind, Goes, HasOffer, Offered, RemindsTruly
  <2>2. /\ pc' \in [Checks -> Places]
        /\ \A w \in Checks : pc'[w] \in Offered => pc[w] \in Offered
        /\ \A w \in Checks : pc'[w] = "remind" => pc[w] = "remind"
    BY <1>0, <1>6 DEF Remind, Goes, Places, Offered
  <2>3. UNCHANGED <<config, offer, package, installed, saved, fresh, updateRest>>
    BY <1>6 DEF Remind
  <2> QED BY <1>0, <2>1, <2>2, <2>3 DEF UpdateInv, TypeOK, updateRest, PackagesAreOwn, HasOffer, RemindsTruly,
             ReminderIsTrue
<1>7. CASE SaveReminder(u)
  <2>1. /\ pc' \in [Checks -> Places] /\ offer' \in [Checks -> Versions \cup {NoReminder}]
        /\ saved' \in Versions \cup {NoReminder, Missing}
        /\ pc'[u] = "idle" /\ \A w \in Checks \ {u} : pc'[w] = pc[w] /\ offer'[w] = offer[w]
    BY <1>0, <1>7 DEF SaveReminder, Goes, Places
  <2>2. UNCHANGED <<config, package, installed, reminder, fresh, shown, updateRest>>
    BY <1>7 DEF SaveReminder
  <2> QED BY <1>0, <2>1, <2>2 DEF UpdateInv, TypeOK, updateRest, PackagesAreOwn, HasOffer, RemindsTruly,
             ReminderIsTrue, Offered
<1> QED BY <1>1, <1>2, <1>3, <1>4, <1>5, <1>6, <1>7 DEF Update

LEMMA UpdateStep == ASSUME UpdateInv, [Next]_vars PROVE UpdateInv'
<1>1. CASE UNCHANGED vars
  BY <1>1 DEF vars, updateVars, UpdateInv, TypeOK, PackagesAreOwn, HasOffer, RemindsTruly, ReminderIsTrue
<1> QED BY <1>1, SettingsStep, ForgetStep, CheckStep DEF Next

-----------------------------------------------------------------------------

\* A reminder that is shown tells of a version that msiexec installed whole,
\* however many checks write the same temporary files, and it is not one that
\* the user has put off: the check that stored it did so after the last "later"
\* (check_for_updates and dismiss_update_reminder of commands.rs).
THEOREM RemindersAreTrue == Spec => []ReminderIsTrue
<1>1. UpdateInv /\ [Next]_vars => UpdateInv'
  BY UpdateStep
<1>2. UpdateInv => ReminderIsTrue
  BY DEF UpdateInv
<1> QED BY InitUpdate, <1>1, <1>2, PTL DEF Spec

\* Every step but a restart leaves the loop its choices while the file is
\* caught half written (start_main_loop's fallback_config).
KeepsLastKnown == restarts' = restarts /\ config = HalfFile => active'.choice = active.choice

LEMMA LastKnownStep == ASSUME UpdateInv, [Next]_vars PROVE KeepsLastKnown
<1> SUFFICES ASSUME restarts' = restarts, config = HalfFile PROVE active'.choice = active.choice
  BY DEF KeepsLastKnown
<1>0. active \in Configs /\ restarts \in Nat
  BY SettingsAssumption DEF UpdateInv, TypeOK
<1>1. CASE Round
  BY <1>1 DEF Round, Loads
<1>2. CASE DayPasses
  BY <1>0, <1>2 DEF DayPasses, Configs
<1>3. CASE Restart
  BY <1>0, <1>3 DEF Restart
<1>4. CASE Edit \/ Dismiss \/ UNCHANGED vars
  BY <1>4 DEF Edit, Dismiss, updateRest, vars
<1>5. ASSUME NEW u \in Checks, ManualCheck(u) \/ Update(u) PROVE active' = active
  BY <1>5 DEF ManualCheck, Update, Answer, CheckFails, TruncateConfig, WriteConfig, ConfigNotSaved,
     TruncatePackage, FillPackage, Install, Remind, SaveReminder, updateRest
<1> QED BY <1>1, <1>2, <1>3, <1>4, <1>5 DEF Next

\* A file caught half written never takes the loop's settings away:
\* start_main_loop falls back to the last ones that loaded, in every state that
\* the checks and the user's edits can bring about.
THEOREM LastSettingsStay == Spec => LastKnownIsKept
<1>1. UpdateInv /\ [Next]_vars => UpdateInv'
  BY UpdateStep
<1>2. UpdateInv /\ [Next]_vars => [KeepsLastKnown]_vars
  BY LastKnownStep
<1>3. Spec => [][KeepsLastKnown]_vars
  BY InitUpdate, <1>1, <1>2, PTL DEF Spec
<1> QED BY <1>3 DEF LastKnownIsKept, KeepsLastKnown
=============================================================================
