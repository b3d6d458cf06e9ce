---------------------------- MODULE TasksClaims ----------------------------
(***************************************************************************)
(* What the docstrings and the design document say of tasks and sessions    *)
(* and the code does not do.  The README names the configuration that        *)
(* refutes each.                                                            *)
(***************************************************************************)
EXTENDS Tasks

\* integration/parent_verification.py:50-52: "completed is possible only when
\* every child completed".  A task with a plan that is completed in the
\* journal has a successful attempt of every child.
CompletedMeansChildrenDone ==
    dur.task.status = "completed" /\ dur.task.plan # 0 =>
        /\ dur.task.kids # {}
        /\ \A c \in dur.task.kids :
              \E i \in DOMAIN dur.att : dur.att[i] = [child |-> c, status |-> "succeeded"]

\* integration/parent_verification.py:51-53: "every ChangeSet is integrated ...
\* Unknown or missing integration facts are therefore rejected rather than
\* inferred."
CompletedMeansIntegrated ==
    dur.task.status = "completed" /\ dur.task.plan # 0 => \A c \in Ref : dur.integ[c] = "integrated"

\* ValueRoute-*.md:945: a repeated key with the same request returns the former
\* result.  A verdict a client was given is the journal's verdict after any crash.
VerdictIsDurable == \A r \in answered :
    sent[r].op = "verify" => dur.task.version > sent[r].version

\* ValueRoute-*.md:945, of an execute: a client that was told its plan is executed finds
\* an attempt for every child of it, also when the answer came to a retry.
AnsweredExecuteHasAttempts == \A r \in answered :
    sent[r].op = "execute" /\ scenario.mode = "worker_only" /\ dur.task.plan # 0 =>
        \A c \in dur.task.kids : \E i \in OfTask(dur) : dur.att[i].child = c

\* ValueRoute-*.md:945, of a plan: a client that was told its plan is committed finds
\* the task with the plan's children, also when the answer came to a retry.
AnsweredPlanHasChildren == \A r \in answered :
    sent[r].op = "plan" => dur.task.kids # {}

\* ValueRoute-*.md:150: at most one active ControllerEpoch at a time, also for
\* what a restart rebuilds.
OneActiveEpoch == \A e, f \in DOMAIN dur.epochs :
    (dur.epochs[e].status = "active" /\ dur.epochs[f].status = "active") => e = f

\* ValueRoute-*.md:945: a retry of any recorded operation is given its result.
RetryReturnsResult ==
    (current # Nobody /\ reply = "refused" /\ todo = <<>>) => current \notin recorded

\* storage/store.py:125-126: "Callers update their in-memory projection only
\* after this method returns".  A refused append leaves memory as the journal is.
RefusalChangesNothing == Idle => Replayable(mem) = Replayable(dur)

\* A refused request appends nothing.
RefusedPlanLeavesNothing ==
    Idle /\ crashes = 0 /\ refusals = 0 => dur.children \subseteq dur.task.kids
=============================================================================
