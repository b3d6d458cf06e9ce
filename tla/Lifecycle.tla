------------------------------ MODULE Lifecycle ------------------------------
(***************************************************************************)
(* The abstract life of a WorkerAttempt: the transition table of           *)
(* domain/state_machine.py, plus the only two moves the storage layer may   *)
(* make outside that table, when a restart reclaims an attempt that was     *)
(* claimed or running at process death (storage/store.py).                  *)
(*                                                                         *)
(* It has no queue, no runner, no journal and no checkpoint.  Execution     *)
(* refines it through the journalled status of every attempt.               *)
(***************************************************************************)

CONSTANT Attempt            \* the attempts that may ever be created

VARIABLE status             \* status[a]: "absent" until a is queued

(***************************************************************************)
(* WorkerAttemptStatus, with "absent" for an attempt nobody created yet.    *)
(***************************************************************************)
Live == {"queued", "claimed", "running", "waiting_approval",
         "pause_requested", "cancel_requested", "paused"}

\* WORKER_ATTEMPT_TERMINAL
Terminal == {"succeeded", "partial", "blocked", "failed", "cancelled"}

Status == {"absent"} \cup Live \cup Terminal

(***************************************************************************)
(* WORKER_ATTEMPT_TRANSITIONS: the states a state may be followed by.       *)
(***************************************************************************)
Successors(s) ==
    CASE s = "queued"           -> {"claimed"}
      [] s = "claimed"          -> {"running"}
      [] s = "running"          -> {"waiting_approval", "pause_requested",
                                    "cancel_requested", "succeeded", "partial",
                                    "blocked", "failed"}
      [] s = "waiting_approval" -> {"running", "cancelled", "failed"}
      [] s = "pause_requested"  -> {"paused", "failed"}
      [] s = "cancel_requested" -> {"cancelled", "failed"}
      [] s = "paused"           -> {"queued", "cancelled"}
      [] OTHER                  -> {}

\* _validate_transition accepts exactly the moves of the table.
CanMove(s, t) == s \notin Terminal /\ t \in Successors(s)

\* What reclaim_attempts may do to an attempt whose process died.
Reclaimed(s, t) == s \in {"claimed", "running"} /\ t \in {"queued", "blocked"}

-----------------------------------------------------------------------------

Init == status = [a \in Attempt |-> "absent"]

Create(a) ==
    /\ status[a] = "absent"
    /\ status' = [status EXCEPT ![a] = "queued"]

Move(a) == \E t \in Status :
    /\ CanMove(status[a], t)
    /\ status' = [status EXCEPT ![a] = t]

Reclaim(a) == \E t \in Status :
    /\ Reclaimed(status[a], t)
    /\ status' = [status EXCEPT ![a] = t]

Next == \E a \in Attempt : Create(a) \/ Move(a) \/ Reclaim(a)

Spec == Init /\ [][Next]_status

=============================================================================
