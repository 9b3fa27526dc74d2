--------------------------- MODULE MemoryLifecycle ---------------------------
(***************************************************************************)
(* What a reader of the memories may rely on, whichever threads            *)
(* consolidate, apply operations and reject at once, and whatever fails or *)
(* crashes on the way: a memory appears active, it leaves "active" in one  *)
(* step with the appearance of the memory that supersedes it, or by a      *)
(* rejection, and it never comes back.                                     *)
(***************************************************************************)
CONSTANT Ids

VARIABLES life, over

lifeVars == <<life, over>>

Exists(i) == life[i] # "absent"
New(j) == ~Exists(j)

LifeInit ==
    /\ life \in [Ids -> {"absent", "active"}]
    /\ over = [i \in Ids |-> 0]

Remember(j) ==
    /\ New(j)
    /\ life' = [life EXCEPT ![j] = "active"]
    /\ over' = [over EXCEPT ![j] = 0]

Replace(i, j) ==
    /\ Exists(i) /\ New(j)
    /\ life' = [life EXCEPT ![j] = "active", ![i] = "superseded"]
    /\ over' = [over EXCEPT ![j] = i]

Reject(i) ==
    /\ Exists(i)
    /\ life' = [life EXCEPT ![i] = "rejected"]
    /\ UNCHANGED over

LifeNext ==
    \/ \E j \in Ids : Remember(j)
    \/ \E i, j \in Ids : Replace(i, j)
    \/ \E i \in Ids : Reject(i)

LifeSpec == LifeInit /\ [][LifeNext]_lifeVars
=============================================================================
