------------------------------ MODULE Delivery ------------------------------
(***************************************************************************)
(* What the event stream of a task promises (design document, section 12.7,  *)
(* FR-020): whatever the connections and the process go through, a client    *)
(* that reconnects receives every notice of the task, once and in order.     *)
(***************************************************************************)
EXTENDS Sequences, SequencesExt

VARIABLES
    notices,    \* what has been committed for the task
    got         \* what the client has received

Init == notices = <<>> /\ got = <<>>

Commit ==
    /\ Len(notices') = Len(notices) + 1
    /\ IsPrefix(notices, notices')
    /\ UNCHANGED got

Deliver ==
    /\ Len(got) < Len(notices)
    /\ got' = Append(got, notices[Len(got) + 1])
    /\ UNCHANGED notices

Next == Commit \/ Deliver

InOrder == Init /\ [][Next]_<<notices, got>>
Spec == InOrder /\ WF_<<notices, got>>(Deliver)
=============================================================================
