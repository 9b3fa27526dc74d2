---------------------------- MODULE Distillation ----------------------------
(***************************************************************************)
(* Distillation, src-tauri/src/distill_commands.rs: events of the ledger   *)
(* become a job's material, a backend process turns it into a memory       *)
(* candidate, and the job's row says how it ended.  The backend is talked  *)
(* to over three pipes, of which the program fills one to the end, then    *)
(* drains the second and looks at the third only when the backend failed.  *)
(* Amounts are counted in pipes: a pipe holds one.                         *)
(***************************************************************************)
EXTENDS EventLedger

CONSTANTS Material,     \* the size of a job's material
          Backends,     \* what distill_command may start
          MaxJobs

ASSUME DistillationAssumption == Material \in Nat /\ MaxJobs \in Nat

VARIABLES job,          \* the rows of the jobs
          candidate,    \* the rows of the memory candidates
          batch,        \* the traces that distill_date still has to do
          call,         \* the backend's process and the job that waits for it
          broken        \* history: the jobs that a failing statement gave up

distillVars == <<job, candidate, batch, call, broken>>

Statuses == {"started", "succeeded", "failed", "abstained"}
EventRange == "event_range"      \* the source of a job without a trace
NoCandidate == 0
Candidate == Len(candidate)
Job == Len(job)

\* "waits" reads all its input and then answers, "answers" does not read,
\* "streams" answers before it has read.
Manners == {"waits", "answers", "streams"}
PipeSize == 1
NoCall == [at |-> "none"]

DistillInit == /\ job = << >> /\ candidate = << >> /\ batch = {} /\ call = NoCall
               /\ broken = {}

----------------------------------------------------------------------------
(* The commands: a trace, a range of events, a day.                        *)

Execution(i) == event[i].type \in {"confirmed", "result"}
Terminal(i) == event[i].type = "result"

Answered(r) == call' = [at |-> "answered", reply |-> r]
Refusal == [kind |-> "error"]

\* build_material_assembly: an event's material is its text and what its
\* content file has, or the error of reading it.
Resolved(inputs) == { i \in inputs : Resolves(i) }

\* create_started_job and the start of the backend, which fails too when no
\* command is configured.
StartJob(source, inputs) ==
  /\ job' = Append(job, [source |-> source, inputs |-> inputs,
                         resolved |-> Resolved(inputs),
                         status |-> "started", output |-> NoCandidate])
  /\ \/ Answered(Refusal)
     \/ \E b \in Backends :
          call' = [at |-> "feeding", left |-> Material, in |-> 0,
                   manner |-> b.manner, out |-> b.out, outPipe |-> 0,
                   err |-> b.err, errPipe |-> 0, exited |-> FALSE]

Distill(traces) ==
  /\ Idle /\ Job + Cardinality(traces) <= MaxJobs
  /\ main' = "distill" /\ batch' = traces
  /\ UNCHANGED <<recording, line, event, content, log, index, faults,
                 job, candidate, call, broken>>

DistillTrace(t) == Distill({t})

\* Each trace with an end on this day, once.
DistillDate == LET ended == { event[i].trace : i \in { i \in index : Terminal(i) } }
               IN ended # {} /\ Distill(ended)

\* A trace without execution events is refused before there is a job.
NextTrace(t) ==
  LET inputs == { i \in QueryTrace(t) : Execution(i) }
  IN /\ main = "distill" /\ call = NoCall /\ t \in batch
     /\ batch' = batch \ {t}
     /\ IF inputs = {} THEN UNCHANGED <<job, call>> ELSE StartJob(t, inputs)
     /\ UNCHANGED <<ledgerVars, candidate, broken>>

DistillEventRange(inputs) ==
  /\ Idle /\ Job < MaxJobs /\ inputs # {}
  /\ main' = "distill"
  /\ StartJob(EventRange, inputs)
  /\ UNCHANGED <<recording, line, event, content, log, index, faults,
                 candidate, batch, broken>>

DistillEnds ==
  /\ main = "distill" /\ call = NoCall /\ batch = {}
  /\ main' = "none"
  /\ UNCHANGED <<recording, line, event, content, log, index, faults, distillVars>>

----------------------------------------------------------------------------
(* call_distillation_backend.                                              *)

Calls(at) == call # NoCall /\ call.at = at
Unchanged == UNCHANGED <<ledgerVars, job, candidate, batch, broken>>

\* write_all, a pipe at a time; a backend that is gone breaks it.
Feed ==
  /\ Calls("feeding") /\ call.left > 0
  /\ \/ /\ ~call.exited /\ call.in < PipeSize
        /\ call' = [call EXCEPT !.left = @ - 1, !.in = @ + 1]
     \/ call.exited /\ Answered(Refusal)
  /\ Unchanged

\* Mutant: the handle of the input is kept until the backend ends.
CloseInputLate ==
  /\ Calls("feeding") /\ call.left = 0 /\ call.exited
  /\ call' = [call EXCEPT !.at = "draining"]
  /\ Unchanged

\* The end of the block drops the input's handle, which closes it.
CloseInput ==
  /\ Calls("feeding") /\ call.left = 0
  /\ call' = [call EXCEPT !.at = "draining"]
  /\ Unchanged

Drain ==
  /\ Calls("draining") /\ call.outPipe > 0
  /\ call' = [call EXCEPT !.outPipe = @ - 1]
  /\ Unchanged

\* The output is at its end when the backend is.  What it says is an
\* abstention, a failure in any of its forms, or an artifact.
AtEnd == Calls("draining") /\ call.outPipe = 0 /\ call.exited

\* Mutant: the source events are not looked at.
ValidateNothing(cites) == [kind |-> "artifact", cites |-> cites]

\* validate_and_convert_response: an artifact cites its own material.
Validate(cites) == IF cites \subseteq job[Job].inputs
                   THEN [kind |-> "artifact", cites |-> cites]
                   ELSE Refusal

ReadAnswer ==
  /\ AtEnd
  /\ \/ Answered([kind |-> "abstention"])
     \/ Answered(Refusal)
     \/ \E cites \in SUBSET DOMAIN event : Answered(Validate(cites))
  /\ Unchanged

(* The backend itself, a process of the user's.                            *)

\* It reads when its manner has it read.
BackendReads ==
  /\ call # NoCall /\ call.at \in {"feeding", "draining"} /\ ~call.exited
  /\ call.in > 0
  /\ call.manner # "answers"
  /\ call.manner = "streams" => call.out = 0
  /\ call' = [call EXCEPT !.in = @ - 1]
  /\ Unchanged

MayAnswer == /\ call # NoCall /\ call.at \in {"feeding", "draining"} /\ ~call.exited
             /\ call.manner = "waits" => call.at = "draining" /\ call.in = 0

BackendComplains ==
  /\ MayAnswer /\ call.err > 0 /\ call.errPipe < PipeSize
  /\ call' = [call EXCEPT !.err = @ - 1, !.errPipe = @ + 1]
  /\ Unchanged

BackendAnswers ==
  /\ MayAnswer /\ call.err = 0 /\ call.out > 0 /\ call.outPipe < PipeSize
  /\ call' = [call EXCEPT !.out = @ - 1, !.outPipe = @ + 1]
  /\ Unchanged

BackendExits ==
  /\ MayAnswer /\ call.err = 0 /\ call.out = 0
  /\ call.manner # "answers" => call.at = "draining" /\ call.in = 0
  /\ call' = [call EXCEPT !.exited = TRUE]
  /\ Unchanged

BackendStep == BackendReads \/ BackendComplains \/ BackendAnswers \/ BackendExits

----------------------------------------------------------------------------
(* run_distillation_job, from the answer on.                               *)

UpdateJobStatus(status, output) ==
  job' = [job EXCEPT ![Job].status = status, ![Job].output = output]

FinishWithout ==
  /\ Calls("answered") /\ call.reply.kind # "artifact"
  /\ UpdateJobStatus(IF call.reply.kind = "abstention" THEN "abstained" ELSE "failed",
                     NoCandidate)
  /\ call' = NoCall
  /\ UNCHANGED <<ledgerVars, candidate, batch, broken>>

\* create_memory_candidate
NewCandidate(cites) == [job |-> Job, cites |-> cites, status |-> "active"]

InsertCandidate ==
  /\ Calls("answered") /\ call.reply.kind = "artifact"
  /\ candidate' = Append(candidate, NewCandidate(call.reply.cites))
  /\ call' = [at |-> "inserted"]
  /\ UNCHANGED <<ledgerVars, job, batch, broken>>

FinishWithCandidate ==
  /\ Calls("inserted")
  /\ UpdateJobStatus("succeeded", Candidate)
  /\ call' = NoCall
  /\ UNCHANGED <<ledgerVars, candidate, batch, broken>>

\* A statement that fails leaves the job "started".  distill_date goes on
\* with its next trace; a program that stopped does not.
JobBreaks ==
  /\ call # NoCall /\ faults < MaxFaults
  /\ faults' = faults + 1
  /\ call' = NoCall
  /\ broken' = broken \cup {Job}
  /\ \/ call.at \in {"answered", "inserted"} /\ UNCHANGED <<main, batch>>
     \/ main' = "none" /\ batch' = {}
  /\ UNCHANGED <<recording, line, event, content, log, index, job, candidate>>

RejectCandidate(c) ==
  /\ Idle /\ candidate[c].status = "active"
  /\ candidate' = [candidate EXCEPT ![c].status = "rejected"]
  /\ UNCHANGED <<ledgerVars, job, batch, call, broken>>

ProgramStep == Feed \/ CloseInput \/ Drain \/ ReadAnswer
               \/ FinishWithout \/ InsertCandidate \/ FinishWithCandidate

DistillStep ==
  \/ \E t \in Traces : DistillTrace(t) \/ NextTrace(t)
  \/ DistillDate
  \/ \E inputs \in SUBSET index : DistillEventRange(inputs)
  \/ DistillEnds \/ ProgramStep \/ BackendStep \/ JobBreaks
  \/ \E c \in DOMAIN candidate : RejectCandidate(c)

----------------------------------------------------------------------------
DistillTypeOK ==
  /\ job \in Seq([source : Traces \cup {EventRange}, inputs : SUBSET DOMAIN event,
                  resolved : SUBSET DOMAIN event, status : Statuses,
                  output : 0..Candidate])
  /\ candidate \in Seq([job : DOMAIN job, cites : SUBSET DOMAIN event,
                        status : {"active", "rejected"}])
  /\ batch \subseteq Traces /\ broken \subseteq DOMAIN job
  /\ call = NoCall \/ call.at \in {"feeding", "draining", "answered", "inserted"}

\* The call of a job is under way, or was given up; between the candidate's
\* row and the job's, in particular.
Unfinished(j) == (j = Job /\ call # NoCall) \/ j \in broken
InBetween(j) == (j = Job /\ Calls("inserted")) \/ j \in broken

\* What the rows of the jobs say is so.  A job that succeeded has the candidate
\* it names and no other, one that failed or abstained has none, and it is
\* "started" exactly while its call is under way or since a statement of it
\* failed: only then can a candidate be there that no row of a job names.  The
\* candidate cites events of the job's material and nothing else, and the
\* material had the text of every content file it named.
JobsTellTheTruth ==
  \A j \in DOMAIN job :
    LET made == { c \in DOMAIN candidate : candidate[c].job = j }
    IN /\ job[j].inputs \subseteq index
       /\ job[j].resolved = { i \in job[j].inputs : HasContent(i) }
       /\ \A c \in made : candidate[c].cites \subseteq job[j].inputs
       /\ job[j].status = "started" <=> Unfinished(j)
       /\ job[j].status = "succeeded" <=> job[j].output # NoCandidate
       /\ job[j].status = "succeeded" => made = {job[j].output}
       /\ made # {} => job[j].status = "succeeded" \/ InBetween(j)

\* A backend that reads before it answers, or does not read at all and whose
\* answer fits a pipe, and whose complaints fit a pipe: for such a one the
\* program does not wait for ever.
GoodCall == /\ call # NoCall /\ call.at = "feeding"
            /\ call.manner # "streams" /\ call.err + call.errPipe <= PipeSize
            /\ call.manner = "answers" => call.out + call.outPipe <= PipeSize
DistillationEnds == GoodCall ~> call = NoCall

BackendFairness == WF_distillVars(BackendStep) /\ WF_distillVars(ProgramStep)
=============================================================================
