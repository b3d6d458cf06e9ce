------------------------------ MODULE MCTasks ------------------------------
(* The instances of Tasks that TLC checks. *)
EXTENDS TasksClaims

CONSTANTS r1, r2, r3, r4, r5, nobody

FiveRequests == {r1, r2, r3, r4, r5}
Ask(a, b, c, d, e) == r1 :> a @@ r2 :> b @@ r3 :> c @@ r4 :> d @@ r5 :> e

Scene(ask, mode, registered, working, full) ==
    [ask |-> ask, mode |-> mode, registered |-> registered, working |-> working, full |-> full]

\* From the plan to the verdict, with what happens to the work in between; the
\* control requests of a parent; plans and executions that are repeated; a plan
\* after an append that was refused; the epochs of a session.
LifeScenarios ==
    {Scene(Ask("plan", "execute", "evidence", "verify", "none"), "worker_only", TRUE, TRUE, FALSE),
     Scene(Ask("plan", "execute", "pause", "resume", "cancel"), "worker_only", TRUE, FALSE, TRUE),
     Scene(Ask("plan", "plan", "execute", "pause", "execute"), "worker_only", TRUE, FALSE, FALSE),
     Scene(Ask("evidence", "plan", "none", "none", "none"), "worker_only", TRUE, FALSE, TRUE),
     Scene(Ask("register", "ensure", "switch", "switch", "execute"), "automatic", FALSE, FALSE, TRUE)}
=============================================================================
