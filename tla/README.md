# ValueRoute in TLA+

ValueRoute is a local orchestration server: a host registers a controller, submits a parent
task and a plan of children, and the server runs one WorkerAttempt per child against a model
provider, under writer leases, with checkpoints, approvals, integration of the results and
their verification.  One process, one asyncio event loop, one append-only journal as its
database.

This directory holds its TLA+ modules, the TLC configurations that check them, and the theorems
proved about them with TLAPS.  Everything is translated from `src/src/valueroute/` (paths below
are relative to it).

    tlc -workers 2 -config exec_core.cfg MCExecution      # one run
    tlapm WorkspacesProofs.tla                            # the proofs of a module

`PROJECT.json` lists the components, the runs, the source lines each definition models, the
mutants that show that every checked property can fail, the hazards, the findings and the
theorems.

## 1. Inventory

| component | state | operations | what is hard | what makes it correct | module |
|---|---|---|---|---|---|
| **Execution** `execution/*`, `application/control.py`, `storage/checkpoints.py` | `Store.attempts`, `terminal_acks`, `ExecutionHandle`s, checkpoint files, the provider tasks | enqueue_plan, claim, run, heartbeat, pause, resume, cancel, requeue, recover, reclaim | the runner's six awaits against the HTTP handlers; handlers of several durable writes; timeouts, refusals | no attempt is lost, run twice or left behind; a checkpoint can be trusted; capacity holds | `Execution` |
| **Journal** `storage/journal.py`, `storage/store.py` | `active.jsonl`, snapshots, manifest, the sequence, the records | append_frame, idempotent_result, snapshot, recovery | crashes inside a write, damaged files, refused writes, three generations of the same data | what was answered is recovered, once, in order | `Journal` |
| **Write handlers** `storage/store.py`, `api/app.py` | the projection in memory, the journal, the idempotency table | one change of memory, several appends, an answer | a death or a refusal between any two; retries | a retry never does an operation twice, nor half of it | `Frames` |
| **Tasks** `application/*`, `api/app.py`, `integration/parent_verification.py` | sessions, tasks, plans, children, attempts, evidence | plan, execute, pause, resume, cancel, verify, record_evidence | half a plan; a verdict from the facts of an instant | a task is completed only on facts | `Tasks` |
| **Controller epochs** `routing/automatic.py` | epochs | register_epoch, ensure_controller, switch_controller | two appends of a switch, one of which is not replayed | one active controller, the session's | `Tasks` |
| **Evidence** `evidence/*` | evidence, verifications | gate, verify | two frames of an acceptance | accepted means verified by its owner | `Tasks`, `Reviews` |
| **Ownership** `ownership/boundaries.py`, `persistence.py`, `review.py` | the assignment (twice: service and Store), self-reviews | assign, release, transfer, submit, reject, verify | memory in two places; the rebuild at a start | one owner; one open review | `Reviews` |
| **Writer leases** `ownership/manager.py`, `resolver.py` | leases | acquire, release, heartbeat, expire | expired leases that stay active; overlap of regions | leases of one resource exclude each other | `Workspaces`, `Regions` |
| **Integration** `integration/*`, `workspaces/*` | changesets, integration attempts, claims, working copies, the canonical directory | bind, write, deliver, integrate_in_order, recover, adopt | deaths between appends and renames; stale bases | changes land in order, under a lease, and overwrite nothing unseen | `Workspaces` |
| **Approvals** `approvals/*` | approvals | request, decide, expire | deciding twice, late, or both ways | a decision is final | `Audit` |
| **Egress** `egress/*` | egress records, the provider of an attempt | handoff_attempt | three frames; attempts that ended | every handoff is on the record | `Audit` |
| **Shadow records** `routing/shadow.py`, `routing/service.py` | shadow records | analyze_and_shadow, mark_compared | retries | an answered record is durable | `Audit` |
| **Event stream** `observability/events.py`, `api/app.py` | a cursor per connection | replay, follow | reconnects, restarts, gaps in the sequence | every notice once, in order, eventually | `Audit` |
| **AgentScope host** `frameworks/agentscope/*` | a handle: task and version | create, pause, resume, cancel | lost answers, late posts, reused keys | the handle only advances and can catch up | `Host` |
| **Routing advice** `routing/rank.py`, `boundary.py`, `advisory.py` | none | rank, select | floats | | not modelled |
| **Usage, offline evaluation** | none | sums | | | not modelled |
| **Providers** `providers/*` | remote | run, cancel | network | what a runner observes of one is in `Execution` | not modelled |

The components meet in the **Store**: a projection in memory that every handler updates, and a
journal every handler appends to.  At a restart the projection is rebuilt from the journal by
`Store._replay`, which knows some events and ignores others.  The execution component is driven
by the API (`control_task`), which calls `ControlService.transition` and then
`ExecutionManager.enqueue_plan`, and by `ExecutionSupervisor.run_forever`, which the lifespan of
the application starts.  Control requests reach a runner twice: durably, through the status of
the attempt, and through the asyncio events of its `ExecutionHandle`.  Ownership, leases and
integration are called by the host through `app.state`; reviews, approvals, handoffs and events
go through the API.

The hazards are listed with their lines in `PROJECT.json`.

## 2. Modules

    Lifecycle          abstract: the transition table of a WorkerAttempt
       ^ refined by
    Execution          queue, supervisor, runner, control requests, checkpoints, restart
       ^ EXTENDS
    ExecutionClaims    what comments and the design document say and the code does not do
    ExecutionProofs    theorems: types, checkpoint agreement
    LifecycleProofs    theorems: every other safety property of Execution, the refinement
                       (EXTENDS ExecutionProofs)

    DurableLog         abstract: an idempotent log that only grows
       ^ refined by
    Journal            lines, frames, snapshots, manifest, recovery
       ^ EXTENDS
    JournalProofs      theorems: every property of Journal, the refinement

    Tables             tables: a record by its id, entries laid over others
    Frames             how a write handler meets the journal: INSTANCEd by Tasks, Reviews, Audit
    TaskTable          the transition table of a parent task
    TaskLife           abstract: a status that follows that table
       ^ refined by
    Tasks              a session, its epochs, a parent task and its verdict
       ^ EXTENDS
    TasksClaims        what docstrings say of tasks and the code does not do
    TasksProofs        theorems: every property of Tasks, the refinement
    Host               a host that drives its task through the handlers of Tasks

    Regions            overlap, cover and admission of resource regions (no state)
       ^ EXTENDS
    Reviews            the owner of a child and the reviews of its work
    ReviewsProofs      theorems: every property of Reviews
    Workspaces         leases, working copies, integration, the canonical directory
    WorkspacesProofs   theorems: every property of Workspaces

    Delivery           abstract: every notice once, in order, eventually
       ^ refined by
    Audit              approvals, handoffs, shadow records, the event stream
       ^ EXTENDS
    AuditProofs        theorems: every safety property of Audit, the refinement but its liveness

    TableProofs        lemmas the proofs share: finite sets of ids, induction, sequences

    MCExecution ... MCHost     the instances TLC checks

### Execution

*Atomicity.*  A coroutine runs without interruption to its next await, so two handlers
interleave only at awaits.  But every handler makes several durable writes (a claimed, bound,
started and checkpointed attempt is five) and the process may die between any two.  So a
handler is one step that changes the projection (`att`, `ack`, `parent`) and puts its writes in
`todo`; each `Persist` step makes the first of them durable (`datt`, `dack`, `dusage`,
`dparent`, `cps`).  Handlers that loop over all attempts (`reclaim_attempts`, pause, cancel,
resume, execute) keep the loop's position in `job`.  While `todo` or `job` is not empty the
event loop is busy and only `Persist`, the job and `Crash` can happen.

*Durability.*  `datt` and the others hold what `Store._replay` would rebuild.  The replay ignores
`worker.paused`, `worker.pause_requested`, `worker.cancel_requested` and `task.<status>`; such
commits change nothing there and do not appear in `todo`.  `Store.child_ref_ids` is not journalled
at all; `refs` says whether it is still in memory.

*The runner.*  `phase[a]` is the await the runner of `a` is in:

| phase | code |
|---|---|
| `provider` | `asyncio.wait` on the provider task and the cancel event (runner.py:156-163) |
| `cancelling` | `_cancel_provider` (280-307) |
| `returned`, `raised` | the inner `finally` (172-175), after which a result or an exception is handled |
| `finishing` | the outer `finally` (195-199), which awaits the heartbeat task before `_terminal` |

The release of the handle, at the end of `run`, belongs to the step that ends the run.

*The supervisor's filter.*  `run_once` passes over a queued attempt for which `_request_for` finds
no request.  `HasRequest` is that filter: the attempt carries a request (`bound`), or it is named
by the id of a child, from which a request is made up.  An attempt named by its `client_ref`
(`byRef`: executed after a restart had lost `child_ref_ids`) has a request only if a host
registers one (`HostRegister`, supervisor.py:55-65, where `HostRegisters` is TRUE); else it stays
queued, as in the code.

*Left out:* the expiry of claims (no code reads it but the heartbeat that extends it),
`WorkerAdmission` and the workspace binding (they refuse or not before anything changes), the
checkpoints of the parent task and its verification (in `Tasks`), `waiting_approval` (no code
enters it), a commit that fails (`Journal` and `Frames` show what that does).

### Journal

A frame is one line of `active.jsonl` with a sequence number and the idempotency key of its
operation.  A line is `whole` or not and ends in a newline or not.  `Restart` is `_load`: the
snapshot the manifest names or else the newest that decodes, the truncation of a bad last
line, the refusal of any other bad line, and the replay of the records beyond the snapshot.
A crash inside `append_frame` leaves nothing, a part of the line, the whole line, or the line
without its newline.  `os.replace` makes each snapshot file and the manifest atomic, and a crash
between them leaves the file without the manifest.

### Frames

The write handlers of the API contain no await, so they never interleave; what tears them apart
is a death or a refused append.  `mem` is the projection in memory and `dur` the one the journal
would give: `Replay(p, e)`, a parameter, is `Store._replay` of the component.  `Serve` is the
handler up to its first append: it sets `mem`, the list `todo` of appends (each with its event,
whether its frame holds the idempotency result, and the memory the handler goes on with) and
the reply.  `Persist` makes one append, `RefusedByCapacity` raises in its place and leaves
memory as it was by then, `Answer` ends the request.  `Crash` ends the process anywhere and
starts it again with `mem = dur`, if the start does not raise (`Loads`).  A client that got no
answer asks for the same again under the same key: `sent` holds what it has asked, and
`Repeat` answers from the recorded result.

### Tasks

`mem` and `dur` hold a session, its epochs, one parent task (status, version, plan, child ids,
evidence of the one required item, latest checkpoint), plans, children, attempts, and the
integration status of each child.  `create_session` and `create_task` give the initial state.
Every handler is an operator with the guard, the early refusals, the path through the
transition table and the list of its frames: `Plan` appends a boundary and a child at a time and
a plan that is refused by the status leaves them behind; `Verify` and `Plan` record
their result in a frame before the one that moves the task; `ReplaceEpoch` releases and registers
in two frames, of which the replay ignores the first.  Attempts end and integrations happen as
single appends (their detail is in `Execution` and `Workspaces`).  `Verdict` is
`ParentVerification.evaluate` over the facts `verify_task` gathers: attempts whose child id the
task lists, the latest integration of each child, the gate.

### Host

`Host` puts `AgentScopeHost` before those same handlers.  The host has one post under way
(`post`, `conn`); each answer leads it to the next one of `start_task` or to its handle.
A connection may be lost before, while or after the server reads the post; a post that was sent
may still arrive (`strays`).  `result` is the idempotency table with what it holds, so a repeated
request is answered with the task as it was recorded then, and a plan with the version it has
now.  `Conflicts` is the same key with another payload.  Another client changes the task
meanwhile.  The creation of the session and the task precedes the first step.

### Reviews

One child task.  `own` is the assignment `OwnershipBoundaryService` keeps, `assign` the one of the
Store: the first changes before the append and the second after it.  The replay of an owner event
also rebuilds the service, and `broken` is set when it refuses the stream (then no start
succeeds).  Assign, release, transfer and reject are calls of the host without a key; submit and
verify are requests with one.  A verification that passes is two frames, the verification and the
acceptance of the review.  `at` stands for `updated_at`, by which the latest review is chosen.

### Regions

Pure operators: `overlaps` with its selectors, `Covers` of the boundary service and of the
verifier, `Allows` and `ResolvesPath` of the resolver and of the adapters, and `Footprint`, the reference:
the paths, keys or names a region stands for.  A path is the sequence of its names; the
normalisation of "./" by the adapters, which the resolver and the overlap do not do, is kept.

### Workspaces

Leases (`leases`, and `dleases` as a restart rebuilds them) with a clock; the owners' working
copies; the canonical directory as a function from paths to contents.  A revision is a hash of the
content, so it is the content.  A lease operation appends once and is one step, in which the append
may be refused.  `integrate_in_order` is a job with a phase per durable effect: the three
statuses of an integration attempt, and the two renames.  Only the death of the process comes between
them.  `Adopt` is the git adapter, for which a changeset becomes a commit on its base; the
service never integrates it.  `landed` is a history of what reached the canonical directory.

### Audit

Approvals, handoffs of an attempt to another provider and shadow records on `Frames`, and one client of the event stream.  `log` holds the
records of the journal with their sequence numbers (a refused append leaves a gap), `got` what the
client has received.  `Connect` replays from the last event it knows, `Poll` follows, `Ends` is the
end of a stream that does not follow or the timeout of one that does, `Cut` a lost connection.

## 3. Runs

A passing run checks every reachable state of its instance.

| run | question | instance | states |
|---|---|---|---|
| `exec_core` | are attempts safe under the API as it is? | 2 attempts of 2 children, one run at a time, 2 control requests, 2 deaths at any write, a host that registers requests | 0.4 M |
| `exec_hosts` | under a host that uses concurrent runs, handles, a raising cancel hook and `recover`: is a recovered attempt safe from being blocked, and can execute, pause, resume, cancel and a restart exceed the session's capacity? | 1 child, 2 attempts, capacity 1, 2 concurrent runs, 2 control requests, 1 death | 6.6 M |
| `exec_live` | does every journalled attempt end for which the supervisor has a request? | 2 attempts, named by child id or by client_ref, a host that registers requests, 2 deaths at any write, heartbeats up to version 7, no control requests | 99 k |
| `journal` | does a crash, a damaged snapshot or a refused append lose or double an answered operation? | 3 operations, sequence numbers to 5, 2 crashes; either refused appends and a disk that may be full, or 2 damaged files | 0.2 M |
| `tasks` | what holds of a task, the active epoch and the clients' answers? | 5 requests, 2 children, 1 death, 1 refused append; 5 scenarios | 0.7 M |
| `host` | does a host's handle stay in step with its task? | 1 child, a key per action, 2 lost connections, 1 death, another client or a refused append; 3 scenarios with and without a plan | 3.0 M |
| `reviews` | do reviews and owners agree? | 5 requests, 2 owners, 4 regions, 1 death, 2 refused appends; 5 scenarios | 1.0 M |
| `workspaces` | do leases exclude, and what reaches the canonical directory? | 2 refs, 2 paths, 4 keys, 3 leases, time to 2, 1 death, 1 refusal; 5 scenarios | 1.5 M |
| `audit` | are decisions final, handoffs recorded, notices delivered? | 3 requests, 2 providers, 1 death, 1 refused append, 1 lost connection; 6 scenarios | 0.4 M |

*Why the bounds are enough.*  Execution: attempts interact only through the queue order, the capacity,
`sup` and the loops of the control requests: two attempts give every pair of phases.  Two
control requests give pause-resume, pause-cancel and every request that overtakes another; two
deaths give a restart that dies itself, in the middle of `reclaim_attempts`.  With one child and
a capacity of one, the second attempt of `exec_hosts` is the repeated execute or the recovery.
`MaxBeatVersion` only bounds how often a
heartbeat raises the version: between two of them the state is the same.

The modules on `Frames`: a death empties everything but the journal, so what a second death could
add is what a first leaves behind, and requests are asked in any order, before and after it.  A
scenario says which operations the clients of a behaviour ask for, because five arbitrary
requests to one task would only repeat most pairs; the scenarios name those whose order matters,
and each request is retried, refused or overtaken in all the ways the bounds allow.  Two children make "some
but not all" possible.  Workspaces: a lease conflict needs two leases, an expired one that is
replaced a third; two refs give an order and two paths disjoint and
overlapping work.  Host: two lost connections give a lost answer whose retry is lost too, or a late post
and a lost answer.

### Properties

*Execution.*

- `ProjectionIsReplay`: between handlers, memory is exactly what a restart would rebuild.
- `CheckpointAgreement`: at any instant, the checkpoint file a journalled attempt names exists,
  and its safe flag is the attempt's.
- `CheckpointNamesFresh`: no checkpoint file is ever overwritten.
- `NoOrphanRun`: a claimed or running attempt has a runner (without direct use of the handles).
- `SettledMeansStopped`: an attempt recorded as cancelled, paused or succeeded has no provider
  task that runs (without a raising cancel hook).
- `SuccessIsBacked`: a journalled success has its usage and a safe checkpoint in the journal.
- `AckedIsFrozen`: nothing changes an acknowledged attempt again.
- `LifecycleSpec`: the journalled status follows the transition table and, at a restart, the two
  moves of `reclaim_attempts`; nothing else.  This is the refinement of `Lifecycle`.
- `CapacityRespected`: no more attempts of `execute` are live than the session may have.  An
  attempt that a host makes with `recover` is admitted by nobody and not counted.
- `RecoveredNeverBlocked`: a restart blocks no attempt that was recovered from a safe checkpoint.
- `QueuedEnds` (liveness): every queued attempt for which the supervisor has a request, or can
  make one from its child, reaches a terminal status.  The supervisor passes over the others
  (`_request_for`): an attempt named by a client_ref for which no host has registered a request
  stays queued, which is the finding `claim_stranded`.

*Journal.*  `MemoryIsReplay`, `SequenceFresh`, `StartsAgain`, and `DurableLogSpec`:
what a restart would recover, at any instant, is an append-only log in which a key occurs once
and every answered operation is found.  An instance says in `FaultSets` which faults its environment may
show.  The refinement holds with refused appends, with a disk that fills up in
the middle of a write, and with damaged snapshots and manifests; not with refused or failed appends and
damage together, not when a write fails halfway and a later one succeeds, not when a crash separates a frame from its
newline, and not when fsync fails after a whole frame was written: see the findings.

*Tasks.*

- `ProjectionIsReplay`: between requests memory is what a restart rebuilds, but for
  `child_ref_ids` and released epochs, which are known not to be replayed.
- `ActiveEpochIsActive`: the epoch a session names is there and active, at any instant.
- `AnsweredMoveIsJournalled`: when a client was told that its task is planned, executed, paused,
  resumed or cancelled, the journalled task has been in that status and is past the version the
  client asked for, after any death, also when the answer came to a retry; a plan has its number, a
  recorded evidence is there.  It speaks of the frame with the task, and of nothing a handler
  appends in other frames.  A retry of an execute that died between `task.updated` and the first
  `worker.queued` is answered as done with no attempt in the journal; a retry of a plan that died
  between `plan.committed` and `task.updated` with no child ids; a retry of a verify that died
  between its frames with no verdict: `AnsweredExecuteHasAttempts`, `AnsweredPlanHasChildren` and
  `VerdictIsDurable` are refuted, see the findings.  And of a plan it promises a newer version
  only while no append was refused.  The frame of a plan raises the version that the journal has
  (store.py:66-69), and after a refused append that is an older one than the client named.
- `CompletesOnlyOnFacts`: at the instant a task becomes completed in the journal, no attempt the
  task can name has failed or is unfinished, and the integrations and the evidence are as asked.
  The verdict was reached some appends earlier, in memory.
- `TaskLifeSpec`: the refinement of `TaskLife`.

*Host.*  `HandleInStep`: the handle only advances, never past what is durable, to a version at
which the task has the status the host was told; and while nobody else changes the task, a handle
that is behind can catch up by asking again under a key the host has used.

*Reviews.*  `OwnershipIsReplay` (service, Store and journal agree), `AcceptedIsVerified`,
`OneOpenReview`, `PassesUnderOwner` (a verification that passes in the journal is the owner's in
the journal, and is about what the journal says that owner may change, until a second append was
refused: when the release and the next assignment of one owner are both refused, the Store keeps the
old regions and the service, which is asked, has the new ones).

*Workspaces.*  `LeasesExclude` (against `Footprint`), `LandsInOrder` (each ref once, in the
plan's order), `IntegratedHasLanded`, `NoLostUpdate` (what is replaced is what the change was made from),
`LandsUnderLease`.

*Audit.*  `AnsweredIsDurable` (of a handoff: its egress record), `EgressIsAudited`, `DecisionIsFinal`, and `DeliverySpec`, the
refinement of `Delivery`: safety and liveness of the stream.

### Fairness

`Execution!FairSpec`: weak fairness of the event loop's own steps (`Persist`,
`JobStep`, the runner of each attempt, `RunOnce`), of `Restart` (the host restarts a dead
server) and of `ProviderStops \/ Timeout` (the runner passes `provider_timeout` to
`asyncio.wait`, 60 s under the API).  No fairness for control requests, heartbeats and crashes.
`RunOnce(a)` is fair by attempt: `run_once` takes the first queued one for which there is a request,
so such an attempt stays the first until it is taken.  None for `HostRegister`: a host need not
register anything.

`Audit!Spec`: weak fairness of what the event loop does by itself: a handler's appends and its answer, the sending of
what was read and the end of a stream (its timeout); and strong fairness of `Connect`, the client
that comes back, because the server's other requests disable it again and again.  None for `Poll`: a client gets everything by
reconnecting.  The other specifications state safety only.

## 4. Findings

Each row names a configuration with which TLC finds the counterexample.  Those in bold are runs of
the project; the others are kept beside them for whoever repairs the code.

| configuration | module | what happens |
|---|---|---|
| **`claim_supervisor`** | `MCExecution` | The provider returns; `run` awaits its heartbeat task; pause sets the attempt `pause_requested`; `_terminal(succeeded)` raises `StateTransitionError`, which leaves `run_once` and ends `run_forever`.  No attempt runs again until the server restarts. |
| **`claim_stranded`** | | plan, then the process dies; after the restart `child_ref_ids` is empty, and execute names its attempts by client_ref.  No child has such an id, so `_request_for` finds no request and `run_once` passes over them, for ever: they stay `queued` under a running parent.  supervisor.py:19-21: "Safe queued attempts are then consumed again". |
| `claim_request` | | pause, then the process dies before the runner answers.  After the restart the attempt is `pause_requested`: `reclaim_attempts` skips it, the queue does not list it, `resume` requeues only `paused`. |
| `exec_claims` |  | Five, one line of the file each.  `AdmissionPrevented`: Two children queued, one runs; pause the parent; the first run ends and the supervisor takes the second.  `RequestReachesWorkers`: plan, restart, execute: `child_ref_ids` is empty, the attempts carry client_refs.  A host registers a request for one of them, and it runs.  pause: the loop over `task.child_task_ids` finds none, the parent is `paused`, that worker runs on.  `ResumedWorkRuns`: pause and resume before the runner looks: resume finds nothing `paused`; then the runner pauses the attempt, under a running parent.  `ExecuteIsAtomic`: The process dies after the commit of the running parent and before `enqueue_plan`: the retry is answered from the idempotency record, and nothing is ever enqueued.  `OneLiveAttemptPerChild`: execute, pause, execute: two live attempts per child. |
| `claim_direct` | | `WorkerRunner.request_cancel` and a provider that refuses: `_cancel_failed` returns the attempt as it is, `running`, and nobody runs it. |
| `claim_cancel` | | The cancel hook raises: recorded as `cancelled` with `execution_stopped=True` while the provider task runs. |
| `claim_recover` | | `recover` on a running attempt queues a second one for the same child. |
| `claim_newline` | `MCJournal` | A frame without its newline is accepted at restart; the next frame lands on the same line; the restart after that quarantines both.  (With the fault of a write that fails halfway in `FaultSets` instead: the frames after it are answered and unreadable.  With an fsync that fails after a whole frame, `MemoryIsReplay` and `DurableLogSpec` are refuted: the frame is on the disk and will be replayed, and memory does not have it; a retry appends the operation again.) |
| `claim_snapshot` | | A refused append leaves a gap; a snapshot named after it claims a number that a later frame gets; when recovery falls back to that snapshot the frame is skipped. |
| **`claim_complete`** | `MCTasks` | The process dies inside execute before an attempt is enqueued; integration facts and evidence come in; verify finds no child result, hence none that failed: the task is `completed` without one attempt. |
| `tasks_claims` | | Eight more, one INVARIANT line each.  `VerdictIsDurable`: a death between the two frames of verify loses the verdict, and the retry is told it was reached.  `AnsweredExecuteHasAttempts`: a death after the frame with the running task and before the first attempt; the retry is told the task is executed, and no attempt is there.  `AnsweredPlanHasChildren`: a death between `plan.committed` and `task.updated`; the retry is told the plan is committed, and the task lists no child.  `CompletedMeansIntegrated`: when the request lists no changesets, the integration of one child is enough.  `OneActiveEpoch`: after a restart the epoch that was switched away from is active again.  `RetryReturnsResult`: `register_epoch` does not look its key up, and answers a retry with a version conflict.  `RefusalChangesNothing`: a refused append leaves memory ahead of the journal.  `RefusedPlanLeavesNothing`: a plan that the task's status refuses leaves its children in the journal. |
| `workspaces_claims` | `MCWorkspaces` | Six, one line of the file each; the last one with `DottedScenarios`.  `CanonicalSurvives`: A death between the two renames of an integration: no canonical directory, and no start looks for the backup.  `DirectoriesExclude`: A lease of a directory and one of a file in it: `overlaps` compares resources by kind and id, so both are active.  `LandedIsIntegrated`: A death after the rename: the changes are in the canonical directory, the attempt is `running`, then `queued`, and never completed.  `LeasesAlwaysExclude`: A release whose append is refused happens in memory only; the lease that is acquired next overlaps one that is still active in the journal, and after a restart both are.  `LeasesReload`: An acquisition whose append is refused stays in memory, and its release is journalled: the replay of `lease.released` does not find the lease, and no start succeeds.  `LandsUnderLease`: A change lands under a lease of `./d`, which does not overlap another owner's lease of `d`. |
| `claim_owner` | `MCReviews` | A refused append leaves an owner in the service that the Store does not know; the next change of owner is journalled, and the rebuild refuses the stream at every start. |
| `claim_handoff` | `MCAudit` | A death before the third frame of a handoff, which holds the key: the retry hands off again.  (`PROPERTY HandsOffClaimed` in its place: an attempt that has ended is handed off.) |

Two more follow from `RetryReturnsResult` for a host: `start_task` posts the epoch before the task, so
once the epoch is recorded and its answer, or any later one, is lost, `start_task` fails at the epoch however
often it is called.

## 5. Proofs

Every theorem holds for every value of the constants that satisfies the `ASSUME` of its module:
any number of attempts, children, requests, owners, regions, deaths and refused appends.  A theorem is
listed in `PROJECT.json` beside the property it states.

### The shape of the arguments

Almost no property is inductive as it stands, and for one reason: a handler changes memory at
once and makes its appends one by one, and a death or a refusal may come between any two.  The
step that makes an append durable (`Persist`) says only what that append is; why it keeps the
property was known when the handler began.  So each inductive invariant speaks of `todo`: of what
every append still to be made may count on, as being in the journal already or appended EARLIER
in the same handler.  The step of the handler puts that in, `Persist` consumes it at the head and
must show that the tail still has it, and `Crash` and `RefusedByCapacity` keep it because what
holds of a list holds of its beginnings.

| module | theorem | states | inductive invariant |
|---|---|---|---|
| `ExecutionProofs` | `TypeCorrect` | `TypeOK` | itself |
| | `CheckpointCorrect` | `CheckpointAgreement` | `CheckpointInv`: a record in `todo` names a checkpoint that is saved, or that an earlier write of `todo` saves |
| `LifecycleProofs` | `NobodyLeftBehind`, `SettledAfterStop` | `NoOrphanRun`, `SettledMeansStopped` | `HandsInv`: what the phase of a runner says of its attempt and of its provider task; who attends an attempt while a job walks over all of them |
| | `MemoryIsReplayed`, `SuccessAlwaysBacked`, `AckedStaysFrozen`, `NamesAlwaysFresh`, `RecoveredAlwaysResumes`, `LifecycleRefined` | `ProjectionIsReplay`, `SuccessIsBacked`, `AckedIsFrozen`, `CheckpointNamesFresh`, `RecoveredNeverBlocked`, `LifecycleSpec` | `TrailInv`: the durable state of the one attempt a handler writes about follows a trail of `Point`s, each one sound and each move of its status one of `Lifecycle`, which ends in what memory has |
| | `CapacityAlwaysRespected` | `CapacityRespected` | `CapacityInv`: the attempts that have not ended in the journal, and those `enqueue_plan` has still to create, fit |
| `JournalProofs` | `TypeCorrect`, `AlwaysStartsAgain` | `TypeOK`, `StartsAgain` | `TypeInv`, `FileInv`: only the last line can be broken, and then nothing is written until a restart |
| | `MemoryAlwaysReplayed`, `SequenceAlwaysFresh`, `AnsweredAlwaysRecovered`, `DurableLogRefined` | `MemoryIsReplay`, `SequenceFresh`, `AnsweredIsRecovered`, `DurableLogSpec` | `RecoveryInv`: in the environments of `FaultsApart`: the records of the file are in order, and each snapshot a restart may load is a prefix of them whose sequence says how long |
| `TasksProofs` | `TypeCorrect`, `ReplayAgrees`, `NoStaleEpoch`, `AnsweredMovesHold`, `CompletedOnFacts`, `TaskLifeRefined` | `TypeOK`, `ProjectionIsReplay`, `ActiveEpochIsActive`, `AnsweredMoveIsJournalled`, `CompletesOnlyOnFacts`, `TaskLifeSpec` | `TypeInv`, `PathInv` |
| `ReviewsProofs` | `TypeAlwaysOK`, `AcceptedAlwaysVerified`, `AlwaysPassesUnderOwner`, `OwnershipAlwaysReplays`, `AlwaysOneOpenReview` | `TypeOK`, `AcceptedIsVerified`, `PassesUnderOwner`, `OwnershipIsReplay`, `OneOpenReview` | `AcceptedInv`, `OwnInv`, `PassInv`, `ReplayInv`, `OpenInv`, one on top of the other |
| `AuditProofs` | `TypeAlwaysOK`, `EgressAlwaysAudited`, `DecisionFinal`, `AnsweredDurable` | `TypeOK`, `EgressIsAudited`, `DecisionIsFinal`, `AnsweredIsDurable` | `EgressInv`, `DecisionInv`, `ShadowInv`, `AnswersInv`, `LogInv` |
| | `NoticesInOrder` | `Delivery!InOrder`, the safety half of `DeliverySpec` | `StreamInv`: the client has the first notices of the journal, its connection the next, up to the cursor |
| `WorkspacesProofs` | `LeasesKeepApart` | `LeasesExclude` | `LeaseInv`, `ApartInv`: memory and the journal agree until an append is refused, and no two active leases overlap |
| | `TypeCorrect`, `RefsLandInOrder`, `IntegratedMeansLanded`, `NothingIsLost` | `TypeOK`, `LandsInOrder`, `IntegratedHasLanded`, `NoLostUpdate` | `FilesInv`, `JobInv`, `LandInv`: what each phase of the job says of the statuses, the directories and what has landed |
| | `LandingsAreOwned` | `LandsUnderLease` | `OwnerInv`: from the staging to the second rename the changes are open to one owner |

*Execution.*  `TypeOK` is inductive: one lemma per record constructor, per list of writes and per
action.  `CheckpointInv` composes: `Good` says of a handler's result that it keeps the invariant,
`BackedConcat` and `FilesConcat` carry it over the concatenations handlers are built from, one
lemma per ending of a run shows it `Good`.  `TrailInv` generalises it: `Leads(a, p, ws, q)` says that the
writes `ws` take attempt `a` from point `p` to `q`, soundly at each one, and
`LeadsConcat` composes it in the same way.  It holds of one attempt at a time, because the loops
over all attempts are jobs of several steps.

*Tasks.*  A handler of `Tasks` appends a list whose length depends on the number of children,
and a death after any of them is a state of the journal that later requests and retries
build on.  `PathInv` says that there is a path of projections along the appends still to be
made: each the replay of an append on the one before it, its status reachable in the transition table,
its versions no smaller, completed only on facts; that memory is never behind it; that at an
append that holds the result of a request the task is where that request takes it; and that its end is
what memory becomes, as far as the journal tells them apart.  Every handler is shown to leave such a
path (`Plans` and `Executes` by giving it child by child), and a step moves along it.
`AllActive` belongs to it, which says how the code gets away with a replay that ignores the
release of an epoch: in what a restart rebuilds, every epoch is active.

*Workspaces.*  `NotOverlapping` is the lemma about regions: what `overlaps` takes to be disjoint has no
path, key or name in common, one case per selector (two prefixes of one path are prefixes of each other;
two ranges that share a key overlap).  With it `LeasesExclude` follows from an invariant that
speaks of `Overlaps` only.  `LandInv` is why the refs land in order across deaths: what has landed is
what is integrated and at most one ref more, whose attempt was interrupted after the second
rename; that attempt stays unfinished, so every later call stops at it and nothing can land behind it.

*Audit.*  Two steps of the stream look at the journal from different places, and must cut out the same notices.
`OneList` says why they do: what is cut out ascends, and numbers have one ascending list.  So `NoticesAfter`
is known by the set of its numbers, and only that set has to be followed through the steps.

*Refinements.*  `LifecycleRefined`, `DurableLogRefined`, `TaskLifeRefined` and, but for the fairness of
`Delivery`, `NoticesInOrder` are proved in full: the
initial states map to initial states, and with the inductive invariant every step is a step of the
abstract specification or a stutter.  `Execution` maps the durable statuses, `Journal`
what a restart would recover at this instant, `Tasks` the journalled status.

### Hypotheses beyond the assumptions on the constants

- `~DirectHandles` (`NobodyLeftBehind`), `~CancelMayRaise` (`SettledAfterStop`): the properties
  themselves make this exception, because the code does not keep them otherwise; `claim_direct` and
  `claim_cancel` show how.  No handler of the API calls the handles of `WorkerRunner`; whether a cancel
  hook raises is the provider's affair.  `CapacityAlwaysRespected` needs no such hypothesis: attempts
  that a host makes with `recover` are not counted.
- `WholeLinesEnd` (`AlwaysStartsAgain`) and `FaultsApart` (`JournalProofs`, the rest) say of a
  behaviour which faults its environment shows, and the theorems are of the form
  `Spec /\ FaultsApart => []P`.  `WholeLinesEnd`: no write fails halfway and is followed by another, no crash
  parts a frame from its newline.  `FaultsApart`: moreover fsync does not fail, and damaged files do not
  come together with refused or failed appends.  Within these every fault is allowed, any number of
  times and in any order.  Outside, the code does not keep what the theorems say: each of
  "halfway", "newline", "capacity" with "damage", and "full" with "damage" refutes
  `AnsweredIsRecovered` (`claim_newline` and `claim_snapshot`, with that `FaultSets`), and "fsync" refutes
  `MemoryIsReplay`.  So `AnsweredAlwaysRecovered` is not "whatever happens": it is exact about what may.
- `PlainRegions` (`LandingsAreOwned`): the regions a host leases are written without "." names.
  `workspaces/` drops them, `ownership/resolver.py` does not, so a lease of `./d` lets its owner write
  into `d` unseen by the resolver: `MCWorkspaces` with `DottedScenarios` refutes `LandsUnderLease`.

The exceptions for refused appends (`refusals = 0`, `refusals < 2`) are part of the properties, and
§4 has the counterexample for each.

### What the attempts to prove showed

- `Audit`: ids from the number of records (`Cardinality + 1`) collide after a shadow record was
  replaced; they are now larger than every id in use, as `new_id` guarantees.
- `Reviews`: `PassesUnderOwner` is false after two refused appends, which the run with one
  did not reach; the run has two now, and the property says what the first loses.
- `Execution`: a file may exist for the version after the one in memory (a death between saving and
  recording), so "names are fresh" needs the trail; and a job that requests cancellation
  walks over attempts it has not yet marked.
- `Journal`: a snapshot can be numbered ahead of the records it holds when an append was refused after the
  number was taken.  That is why `FaultsApart` is needed, and is the finding `claim_snapshot`.
- `Workspaces`: `LandsUnderLease` needs `PlainRegions`, which the scenarios of the run had without
  saying so; and the values of selectors (`WellFormed`) and of files (`Content`) were not stated.
- `Tasks`: after a refused append a plan moves the journal to a version below the one its client
  was told (`AnsweredMoveIsJournalled`, now with that exception, and a scenario of `tasks` that reaches it).

### Model-checked only

- Liveness: `QueuedEnds`, and that every notice is delivered in the end (`DeliverySpec`).  No backend
  reasons about fairness or ENABLED here.
- The host (`HandleInStep`): see the plan.
- `RECURSIVE` operators and induction over data are out of the provers' reach.  No module that is
  proved about declares one: `TaskTable` defines reachability by closed sets, loops over attempts are
  steps, and where an induction over numbers is needed `SetInduction` gives it as a fact about a
  set.

## 6. Not modelled

- *Pure computation or I/O*: provider network I/O, the HTTP layer (validation, headers, error
  envelopes), the Web console, the ranking and boundary formulas (arithmetic over floats), usage
  reports and the evaluation scripts, plugins, the artifact store, packaging.
- *Of tasks*: the form of a plan (`_validate` issues), `WorkerAdmission`, acceptance contracts of
  several required items, several tasks of one session.
- *Of the journal*: `expected_versions`, which frames record and nothing validates; the instance
  lock.
- *Of clients*: in `Tasks`, `Reviews` and `Audit` a key is always used with the same payload; `Host` models
  the conflict.  `start_task` is modelled from the epoch on.
- *Of workspaces*: the git mode of the local adapter and the git checkout with its dirty check;
  an error of the local adapter after its second rename (the hash of the new canonical
  directory), which leaves the changes landed and the attempt unfinished, as a death there does;
  paths that leave the workspace; `IntegrationQueue.requeue`; the `append_event` hook of the
  integration service; adoption does not ask the resolver, and only `NoLostUpdate` speaks of it.
- *Of audit*: a policy's list of target providers; deadlines without a time zone; `approval.expired`, which no
  code emits.

## 7. Plan

Modelled and checked: the core (Execution, Journal), the write handlers (Frames, Tasks, Reviews,
Audit), leases and integration (Regions, Workspaces), the host (Host).  Proved: every safety
property of Execution, Journal, Tasks, Reviews, Workspaces and Audit.  Left:

1. `Host`: `HandleInStep`, on the invariants of `TasksProofs`: what the results recorded under the
   host's keys say of the journal's task, and that one of them starts from the handle.
