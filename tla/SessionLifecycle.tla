-------------------------- MODULE SessionLifecycle --------------------------
(***************************************************************************)
(* What a client of the relay engine may rely on when it polls a session   *)
(* (StatusRequest and ResultRequest of cozmio/relay-engine), whatever the  *)
(* engine's threads do: a session ends at most once, in one way, and with  *)
(* one result; completed and failed sessions have their result from the    *)
(* first moment, an interrupted one gets it afterwards.                    *)
(***************************************************************************)
CONSTANT Sessions

VARIABLES status, result

lifeVars == <<status, result>>

LifeInit == /\ status = [s \in Sessions |-> "Absent"]
            /\ result = [s \in Sessions |-> "none"]

Moves(s, from, to) == /\ status[s] = from
                      /\ status' = [status EXCEPT ![s] = to]
                      /\ UNCHANGED result

Records(s, r) == /\ result[s] = "none"
                 /\ result' = [result EXCEPT ![s] = r]
                 /\ UNCHANGED status

Accept(s) == Moves(s, "Absent", "Pending")
Start(s) == result[s] = "none" /\ Moves(s, "Pending", "Running")
Refuse(s) == status[s] = "Pending" /\ Records(s, "failed")
Record(s) == status[s] = "Running" /\ \E r \in {"ok", "failed"} : Records(s, r)
Complete(s) == result[s] = "ok" /\ Moves(s, "Running", "Completed")
Fail(s) == result[s] = "failed" /\ \E st \in {"Pending", "Running"} : Moves(s, st, "Failed")
Interrupt(s) == result[s] = "none" /\ Moves(s, "Running", "Interrupted")
Explain(s) == status[s] = "Interrupted" /\ Records(s, "interrupted")

LifeNext == \E s \in Sessions :
    \/ Accept(s) \/ Start(s) \/ Refuse(s) \/ Record(s)
    \/ Complete(s) \/ Fail(s) \/ Interrupt(s) \/ Explain(s)

LifeSpec == LifeInit /\ [][LifeNext]_lifeVars
=============================================================================
