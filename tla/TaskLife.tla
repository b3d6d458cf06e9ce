------------------------------ MODULE TaskLife ------------------------------
(***************************************************************************)
(* What a parent task's life promises (domain/state_machine.py): whatever   *)
(* the handlers, their deaths and their retries do, the journalled status   *)
(* only moves along the transition table, by one or more of its steps in    *)
(* one commit, and a terminal status is final.                              *)
(***************************************************************************)
EXTENDS TaskTable

VARIABLE status

Init == status = "draft"

Next == status' \in Reachable[status]

Spec == Init /\ [][Next]_status
=============================================================================
