------------------------------ MODULE MCAudit ------------------------------
(* The instances of Audit that TLC checks. *)
EXTENDS Audit

CONSTANTS r1, r2, r3, nobody

ThreeRequests == {r1, r2, r3}

Scene(a, b, c, att, full) == [ask |-> r1 :> a @@ r2 :> b @@ r3 :> c, att |-> att, full |-> full]

\* Decisions that contradict and repeat each other; handoffs of an attempt that
\* ends meanwhile, and of an ended one; approvals between handoffs; shadows.
AuditScenarios ==
    {Scene("ask", "approve", "reject", <<>>, TRUE),
     Scene("ask", "approve", "approve", <<>>, FALSE),
     Scene("handoff", "none", "none", <<"running">>, TRUE),
     Scene("handoff", "handoff", "none", <<"running">>, FALSE),
     Scene("ask", "handoff", "approve", <<"succeeded", "running">>, FALSE),
     Scene("shadow", "compare", "ask", <<>>, TRUE)}
=============================================================================
