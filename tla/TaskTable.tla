----------------------------- MODULE TaskTable -----------------------------
(* The statuses of a parent task and their transitions                      *)
(* (domain/state_machine.py).                                               *)
EXTENDS Integers

Terminal == {"completed", "partial", "blocked", "failed", "cancelled"}
Live == {"draft", "planned", "queued", "running", "waiting_approval",
         "pause_requested", "cancel_requested", "paused"}

Statuses == Live \cup Terminal

\* TASK_TRANSITIONS
Successors == [s \in Statuses |->
    CASE s = "draft" -> {"planned"}
      [] s = "planned" -> {"queued"}
      [] s = "queued" -> {"running"}
      [] s = "running" -> {"waiting_approval", "pause_requested", "cancel_requested",
                           "completed", "partial", "blocked", "failed"}
      [] s = "waiting_approval" -> {"running", "cancelled", "blocked"}
      [] s = "pause_requested" -> {"paused", "failed"}
      [] s = "cancel_requested" -> {"cancelled", "failed"}
      [] s = "paused" -> {"queued", "cancelled"}
      [] s \in Terminal -> {}]

Closed(C) == \A s \in C : Successors[s] \subseteq C

\* The statuses some number of steps after s: what every closed set with s has.
Reachable == [s \in Statuses |->
    {t \in Statuses : \A C \in SUBSET Statuses : s \in C /\ Closed(C) => t \in C}]
=============================================================================
