-------------------------- MODULE ExecutionClaims --------------------------
(***************************************************************************)
(* What comments, docstrings and the design specification say of the        *)
(* execution subsystem and the code does not keep.  The README names the     *)
(* configuration that refutes each formula, and tells the counterexample.   *)
(***************************************************************************)
EXTENDS Execution

\* supervisor.py: run_forever continuously consumes durable work until the
\* host requests shutdown.  It never dies of an exception.
SupervisorAlive == sup # "dead"

\* supervisor.py, ExecutionSupervisor: the supervisor "can be restarted against
\* the same Store. Safe queued attempts are then consumed again".  While the
\* supervisor works, an attempt does not wait in the queue for ever.
QueuedIsConsumed == \A a \in Attempt :
    [](sup = "running") => (datt[a].status = "queued" ~> datt[a].status # "queued")

\* coordination.py: a request that no handle receives is "still valid for a
\* later runner"; "a runner that is restarted can observe the persisted state
\* instead".  While a supervisor works, a recorded request is answered.
RequestAnswered == \A a \in Attempt :
    [](sup = "running") =>
        (datt[a].status \in {"pause_requested", "cancel_requested"}
            ~> datt[a].status \in {"paused"} \cup L!Terminal)

\* manager.py, request_control: "Queued attempts are left queued and admission
\* is prevented by the parent task control state."  No attempt is claimed
\* while the parent is paused or cancelled.
AdmissionPrevented ==
    [][\A a \in Attempt :
          att[a].status = "queued" /\ att'[a].status = "running"
            => parent = "running"]_vars

\* control.py, _request_worker_control: "Propagate a parent control request to
\* its currently running workers."  When a request stops a running parent, no
\* worker of it is left running without a request.
RequestReachesWorkers ==
    [][up /\ parent = "running" /\ parent' \in {"paused", "cancelled"} =>
          \A a \in Attempt : att'[a].status # "running"]_vars

\* control.py, resume: paused attempts become executable again, for else the
\* durable queue would "silently strand the work".  When the parent runs again
\* and no runner is about to pause an attempt, none is paused.
ResumedWorkRuns ==
    Idle /\ parent = "running" /\ InFlight = {} =>
        \A a \in Attempt : att[a].status # "paused"

\* runner.py, run: it returns the "actual terminal WorkerAttempt state", so an
\* attempt is not left running when no runner holds it.
RunReturnsTerminal == NoOrphanRun

\* runner.py, _cancel_provider: "Cancelling only the local asyncio task does
\* not prove that a remote provider stopped. Preserve that uncertainty as
\* failed."  A cancelled attempt has no provider task that still runs.
CancelledMeansStopped ==
    up => \A a \in Attempt : att[a].status = "cancelled" => prov[a] # "on"

\* claims.py: "only a terminated attempt can be resumed".  An attempt that
\* recover creates refers to a terminal one.
RecoveredAfterEnd ==
    [][\A a \in Attempt :
          att[a].status = "absent" /\ att'[a].resumed # 0
            => att[att'[a].resumed].status \in L!Terminal]_vars

\* Design specification, section 14.2: a change of several aggregates, its
\* events and its idempotency result are one commit frame.  When the parent was
\* set running by execute, its children have their attempts.
ExecuteIsAtomic ==
    Idle /\ parent = "running" =>
        \A c \in 1..NChild : \E a \in Attempt : att[a].child = c

\* Design specification, NFR-002: the number of duplicate attempts is 0.  Two
\* live attempts never work on the same child.
OneLiveAttemptPerChild ==
    \A a, b \in Attempt :
        a # b /\ att[a].status \in L!Live /\ att[b].status \in L!Live
            => att[a].child # att[b].child
=============================================================================
