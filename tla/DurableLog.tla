----------------------------- MODULE DurableLog -----------------------------
(***************************************************************************)
(* What the storage layer promises its callers: a log of business           *)
(* operations that only grows, in which an idempotency key occurs once, and  *)
(* in which every operation that was answered can be found, whatever         *)
(* crashes, refused writes and damaged snapshots come in between.            *)
(***************************************************************************)
EXTENDS Naturals, Sequences

CONSTANT Key            \* idempotency keys, one per operation of a client

VARIABLES log,          \* what a restart recovers
          answered      \* the operations reported as done

Logged == {log[i] : i \in 1..Len(log)}

Init == log = <<>> /\ answered = {}

\* The operation is made durable, and its client may or may not hear of it.
Commit(k) ==
    /\ k \notin Logged
    /\ log' = Append(log, k)
    /\ answered' \in {answered, answered \cup {k}}

\* A retry finds the operation done.
Answer(k) ==
    /\ k \in Logged
    /\ answered' = answered \cup {k}
    /\ UNCHANGED log

Next == \E k \in Key : Commit(k) \/ Answer(k)

Spec == Init /\ [][Next]_<<log, answered>>

=============================================================================
