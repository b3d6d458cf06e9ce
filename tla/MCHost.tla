------------------------------- MODULE MCHost -------------------------------
(* The instances of Host that TLC checks. *)
EXTENDS Host

CONSTANTS epoch, plan, execute, p1, s1, x1, other, nobody

Keys == {epoch, plan, execute, p1, s1, x1, other}
KeysOfControls == "pause" :> {p1} @@ "resume" :> {s1} @@ "cancel" :> {x1}

\* What the other client asks, or nobody; appends may be refused or not.
Scene(op, full) ==
    [ask |-> [k \in Keys |-> IF k = other THEN op ELSE "none"], mode |-> "worker_only",
     registered |-> FALSE, working |-> FALSE, full |-> full]
HostScenarios == {Scene(op, op = "none") : op \in {"none", "evidence", "resume"}}
=============================================================================
