------------------------------ MODULE Execution ------------------------------
(***************************************************************************)
(* WorkerAttempts from the durable queue to a terminal state: the queue,    *)
(* the supervisor, the runner and its provider call, the control requests   *)
(* of the parent task, the heartbeat, the checkpoints and the restart.      *)
(* (execution/*.py, application/control.py, storage/store.py)               *)
(*                                                                         *)
(* Everything runs on ONE asyncio event loop.  A handler runs without       *)
(* interruption up to its next await, so the interleavings are those of     *)
(* the runner's awaits (variable phase) with the HTTP handlers.  But a      *)
(* handler makes several durable writes, and the process may die between    *)
(* any two of them.  So a handler is modelled as                            *)
(*   - one step that updates the in-memory projection and leaves in "todo"  *)
(*     the durable writes the handler makes, in its order,                  *)
(*   - one Persist step per write,                                          *)
(*   - "job", what the handler still has to do when it loops over attempts. *)
(* While todo or job is not empty the loop is busy: only Persist, the job   *)
(* and Crash may happen.                                                    *)
(*                                                                         *)
(* datt, dack, dusage, dparent are what Store._replay rebuilds from the     *)
(* journal; events it ignores (worker.paused, worker.pause_requested,       *)
(* task.paused, ...) change nothing there and are left out.  Claim expiry   *)
(* is left out too: no code reads it except the heartbeat that extends it.  *)
(***************************************************************************)
EXTENDS Integers, Sequences, FiniteSets

CONSTANTS
    NAttempt,       \* bound on the attempts ever created (their ids are 1..NAttempt)
    NChild,         \* children of the parent task's plan
    Concurrency,    \* runs the supervisor keeps in flight (run_forever: 1)
    MaxActive,      \* session.max_active_workers
    MaxCrash,       \* bound on process deaths
    MaxControl,     \* bound on pause, resume, cancel and later execute requests
    MaxBeatVersion, \* bound: a heartbeat only renews below this version
    DirectHandles,  \* may a host call WorkerRunner.request_pause / request_cancel?
    CancelMayRaise, \* may the provider's cancel hook raise?
    HostRecovers,   \* may a host call ExecutionQueue.recover?
    HostRegisters   \* may a host call ExecutionSupervisor.register?

ASSUME ExecutionAssumption ==
    /\ NAttempt \in Nat \ {0}
    /\ NChild \in Nat \ {0}
    /\ Concurrency \in 1..5
    /\ MaxActive \in Nat
    /\ MaxCrash \in Nat
    /\ MaxControl \in Nat
    /\ MaxBeatVersion \in Nat
    /\ DirectHandles \in BOOLEAN
    /\ CancelMayRaise \in BOOLEAN
    /\ HostRecovers \in BOOLEAN
    /\ HostRegisters \in BOOLEAN

Attempt == 1..NAttempt      \* in creation order, the order of Store.attempts

VARIABLES
    up,         \* is the process alive?
    todo,       \* durable writes the running handler still makes
    job,        \* the rest of the running handler
    att,        \* Store.attempts
    ack,        \* Store.terminal_acks
    parent,     \* status of the parent task in Store.tasks
    refs,       \* is Store.child_ref_ids filled?  It is never replayed.
    datt, dack, dparent,    \* the same, as the journal replays them
    dusage,     \* attempts with a journalled usage record
    cps,        \* checkpoint files
    phase,      \* where the runner of an attempt awaits
    pauseReq, cancelReq,    \* the events of the ExecutionHandles
    prov,       \* the provider task of an attempt
    sup,        \* the supervisor loop
    crashes, controls       \* counters for the bounds

vars == <<up, todo, job, att, ack, parent, refs, datt, dack, dparent, dusage, cps,
          phase, pauseReq, cancelReq, prov, sup, crashes, controls>>

memory == <<att, ack, parent, refs>>
durable == <<datt, dack, dparent, dusage, cps>>
runner == <<phase, pauseReq, cancelReq, prov>>
bounds == <<crashes, controls>>

L == INSTANCE Lifecycle WITH status <- [a \in Attempt |-> datt[a].status]

-----------------------------------------------------------------------------
(* Data *)

ParentStatus == {"planned", "running", "paused", "cancelled"}

\* A checkpoint id is cp_<attempt>_<version>.
CpId == Nat \X Nat
NoCp == <<0, 0>>
CpFile == [id : CpId, safe : BOOLEAN]

AttemptRec ==
    [status  : L!Status,
     ver     : Nat,
     child   : Nat,         \* the child of the plan it works on
     byRef   : BOOLEAN,     \* child_task_id is its client_ref, not its id
     cp      : CpId,        \* checkpoint_id
     cpSafe  : BOOLEAN,     \* checkpoint_safe_to_resume
     rcp     : CpId,        \* recovery_checkpoint_id
     resumed : Nat,         \* resumed_from_attempt_id, 0 for none
     claim   : BOOLEAN,     \* holds a claim token
     bound   : BOOLEAN]     \* provider_request is set

Absent ==
    [status |-> "absent", ver |-> 0, child |-> 0, byRef |-> FALSE,
     cp |-> NoCp, cpSafe |-> FALSE, rcp |-> NoCp, resumed |-> 0, claim |-> FALSE, bound |-> FALSE]

\* What a fresh attempt of enqueue_plan looks like: when child_ref_ids does
\* not know the child (b), its client_ref becomes the child_task_id.
Fresh(c, b) ==
    [Absent EXCEPT !.status = "queued", !.ver = 1, !.child = c, !.byRef = b]

\* Durable writes.
WAtt(a, r)  == [kind |-> "att", a |-> a, rec |-> r]
WCp(f)      == [kind |-> "cp", file |-> f]
WAck(a)     == [kind |-> "ack", a |-> a]
WUsage(a)   == [kind |-> "usage", a |-> a]
WParent(s)  == [kind |-> "parent", st |-> s]

Write ==
    [kind : {"att"}, a : Attempt, rec : AttemptRec]
      \cup [kind : {"cp"}, file : CpFile]
      \cup [kind : {"ack", "usage"}, a : Attempt]
      \cup [kind : {"parent"}, st : ParentStatus]

JobKind == {"idle", "call", "pause", "cancel", "resume", "enqueue", "reclaim"}
IdleJob == [kind |-> "idle", next |-> 1]

Phase == {"none", "provider", "cancelling", "returned", "raised", "finishing"}

Idle == up /\ todo = <<>> /\ job.kind = "idle"

\* The loop is inside a job of this kind and has made the writes so far.
InJob(k) == up /\ todo = <<>> /\ job.kind = k

Born == {a \in Attempt : att[a].status # "absent"}

\* The next attempt to be created: ids are handed out in creation order.
IsNext(a) == a \notin Born /\ \A b \in Attempt : b < a => b \in Born

\* active_for_session
ActiveNotPaused == {a \in Born : att[a].status \notin L!Terminal \cup {"paused"}}
ActiveAttempts == {a \in Born : att[a].status \notin L!Terminal}

InFlight == {a \in Attempt : phase[a] # "none"}

\* The control requests of the parent look for child_task_ids of the task.
OfParent(r) == r.status # "absent" /\ ~r.byRef

\* transition_worker_attempt raises outside the table.
AllowedAlways(s, t) == s \notin L!Terminal
Allowed(s, t) == L!CanMove(s, t)

SafeFile(id) == [id |-> id, safe |-> TRUE] \in cps

\* recovery_checkpoint_id or checkpoint_id
RecoveryPointNewest(r) == r.cp
RecoveryPoint(r) == IF r.rcp # NoCp THEN r.rcp ELSE r.cp

-----------------------------------------------------------------------------
(* Persistence, process death and restart *)

\* LocalJournal.append_frame or CheckpointStore.save: the next write is durable.
Persist ==
    /\ up
    /\ todo # <<>>
    /\ todo' = Tail(todo)
    /\ LET w == Head(todo) IN
        /\ datt' = IF w.kind = "att" THEN [datt EXCEPT ![w.a] = w.rec] ELSE datt
        /\ cps' = IF w.kind = "cp" THEN cps \cup {w.file} ELSE cps
        /\ dack' = IF w.kind = "ack" THEN dack \cup {w.a} ELSE dack
        /\ dusage' = IF w.kind = "usage" THEN dusage \cup {w.a} ELSE dusage
        /\ dparent' = IF w.kind = "parent" THEN w.st ELSE dparent
    /\ UNCHANGED <<up, job, memory, runner, sup, bounds>>

\* The process dies: what is not durable is gone, and so are the provider
\* tasks it ran.
Crash ==
    /\ up
    /\ crashes < MaxCrash
    /\ crashes' = crashes + 1
    /\ up' = FALSE
    /\ todo' = <<>>
    /\ job' = IdleJob
    /\ phase' = [a \in Attempt |-> "none"]
    /\ pauseReq' = {}
    /\ cancelReq' = {}
    /\ prov' = [a \in Attempt |-> "off"]
    /\ refs' = FALSE
    /\ UNCHANGED <<att, ack, parent, durable, sup, controls>>

\* create_app: Store._replay, then reclaim_attempts (again, to no effect, in
\* ExecutionSupervisor.__init__), then the supervisor loop of the lifespan.
Restart ==
    /\ ~up
    /\ up' = TRUE
    /\ att' = datt
    /\ ack' = dack
    /\ parent' = dparent
    /\ job' = [kind |-> "reclaim", next |-> 1]
    /\ sup' = "running"
    /\ UNCHANGED <<todo, refs, durable, runner, bounds>>

Reclaimed(r) ==
    [r EXCEPT !.status = IF SafeFile(RecoveryPoint(r)) THEN "queued" ELSE "blocked",
              !.claim = FALSE]

\* Whom reclaim_attempts reclaims.
StaleStarted(r) == r.status = "running"
Stale(r) == r.status \in {"claimed", "running"}

\* One round of the loop of reclaim_attempts.
ReclaimStep ==
    /\ InJob("reclaim")
    /\ IF job.next \in Attempt
       THEN LET a == job.next
                r == Reclaimed(att[a])
            IN  /\ job' = [job EXCEPT !.next = a + 1]
                /\ IF Stale(att[a])
                   THEN att' = [att EXCEPT ![a] = r] /\ todo' = <<WAtt(a, r)>>
                   ELSE UNCHANGED <<att, todo>>
       ELSE job' = IdleJob /\ UNCHANGED <<att, todo>>
    /\ UNCHANGED <<up, ack, parent, refs, durable, runner, sup, bounds>>

-----------------------------------------------------------------------------
(* The queue and the start of a run *)

\* LocalExecutionQueue.claim
Claimed(r) == [r EXCEPT !.status = "claimed", !.claim = TRUE, !.ver = @ + 1]

\* WorkerRunner._persist_provider_request: binds the request once.
Bound(r) == IF r.bound THEN r ELSE [r EXCEPT !.bound = TRUE, !.ver = @ + 1]

\* transition_worker_attempt
Moved(r, s) == [r EXCEPT !.status = s, !.ver = @ + 1]

\* WorkerRunner._checkpoint: the file is saved first, then the attempt that
\* refers to it is committed.
CpOf(a, r, safe) == [id |-> <<a, r.ver + 1>>, safe |-> safe]
CheckpointedUnversioned(a, r, safe) ==
    [r EXCEPT !.cp = <<a, r.ver + 1>>, !.cpSafe = safe]
Checkpointed(a, r, safe) ==
    [r EXCEPT !.cp = <<a, r.ver + 1>>, !.cpSafe = safe, !.ver = @ + 1]
CheckpointWritesSwapped(a, r, safe) ==
    <<WAtt(a, Checkpointed(a, r, safe)), WCp(CpOf(a, r, safe))>>
CheckpointWrites(a, r, safe) ==
    <<WCp(CpOf(a, r, safe)), WAtt(a, Checkpointed(a, r, safe))>>

\* Supervisor._request_for: the request bound to the attempt, or the one made
\* up from its child.  Store.children has no child under a client_ref.
HasRequest(r) == r.bound \/ ~r.byRef

\* run_once picks the first queued attempt, in creation order, for which there
\* is a request; the others are passed over.
FirstOfQueue(a) ==
    /\ att[a].status = "queued"
    /\ HasRequest(att[a])
    /\ \A b \in Attempt : b < a => att[b].status # "queued"
FirstQueued(a) ==
    /\ att[a].status = "queued"
    /\ HasRequest(att[a])
    /\ \A b \in Attempt : b < a => ~(att[b].status = "queued" /\ HasRequest(att[b]))

\* run_once up to the provider call: claim, bind the request, start,
\* checkpoint, and register a fresh handle.
RunOnce(a) ==
    LET c == Claimed(att[a])
        b == Bound(c)
        s == Moved(b, "running")
    IN
    /\ Idle
    /\ sup = "running"
    /\ Cardinality(InFlight) < Concurrency
    /\ FirstQueued(a)
    /\ att' = [att EXCEPT ![a] = Checkpointed(a, s, TRUE)]
    /\ todo' = <<WAtt(a, c), WAtt(a, b), WAtt(a, s)>> \o CheckpointWrites(a, s, TRUE)
    /\ job' = [kind |-> "call", next |-> a]
    /\ pauseReq' = pauseReq \ {a}
    /\ cancelReq' = cancelReq \ {a}
    /\ UNCHANGED <<up, ack, parent, refs, durable, phase, prov, sup, bounds>>

\* The provider task is created and the runner awaits it.  No request can
\* have been persisted since the claim: the loop was busy.
CallProvider ==
    /\ InJob("call")
    /\ phase' = [phase EXCEPT ![job.next] = "provider"]
    /\ prov' = [prov EXCEPT ![job.next] = "on"]
    /\ job' = IdleJob
    /\ UNCHANGED <<up, todo, memory, durable, pauseReq, cancelReq, sup, bounds>>

-----------------------------------------------------------------------------
(* The provider and the heartbeat *)

\* The provider task ends, with a result or an exception (external).
ProviderStops(a) == \E out \in {"ok", "error"} :
    /\ Idle
    /\ prov[a] = "on"
    /\ prov' = [prov EXCEPT ![a] = out]
    /\ UNCHANGED <<up, todo, job, memory, durable, phase, pauseReq, cancelReq, sup, bounds>>

\* asyncio.wait returns: a cancel request has precedence over a result.
Wake(a) ==
    /\ Idle
    /\ phase[a] = "provider"
    /\ \/ a \in cancelReq /\ phase' = [phase EXCEPT ![a] = "cancelling"]
       \/ a \notin cancelReq /\ prov[a] = "ok" /\ phase' = [phase EXCEPT ![a] = "returned"]
       \/ a \notin cancelReq /\ prov[a] = "error" /\ phase' = [phase EXCEPT ![a] = "raised"]
    /\ UNCHANGED <<up, todo, job, memory, durable, pauseReq, cancelReq, prov, sup, bounds>>

\* asyncio.wait times out: the local task is cancelled and awaited.
Timeout(a) ==
    /\ Idle
    /\ phase[a] = "provider"
    /\ a \notin cancelReq
    /\ prov[a] = "on"
    /\ prov' = [prov EXCEPT ![a] = "error"]
    /\ phase' = [phase EXCEPT ![a] = "raised"]
    /\ UNCHANGED <<up, todo, job, memory, durable, pauseReq, cancelReq, sup, bounds>>

\* _heartbeat_loop and ExecutionManager.heartbeat: only a claimed or running
\* attempt is renewed; the loop is cancelled before the runner finishes.
Heartbeat(a) ==
    LET r == [att[a] EXCEPT !.ver = @ + 1] IN
    /\ Idle
    /\ phase[a] \in {"provider", "cancelling", "returned", "raised"}
    /\ att[a].status = "running"
    /\ att[a].ver < MaxBeatVersion
    /\ att' = [att EXCEPT ![a] = r]
    /\ todo' = <<WAtt(a, r)>>
    /\ UNCHANGED <<up, job, ack, parent, refs, durable, runner, sup, bounds>>

-----------------------------------------------------------------------------
(* How a run ends: the attempt the handler leaves in memory (rec) and the    *)
(* writes it makes (ws).                                                     *)

\* _is_cancel_requested, _is_pause_requested
CancelWanted(a) == a \in cancelReq \/ att[a].status = "cancel_requested"
PauseWanted(a) == a \in pauseReq \/ att[a].status = "pause_requested"

\* request_control as _paused and _cancelled call it: only from running, to
\* make a request that reached only the handle durable.
Request(a, s) ==
    IF att[a].status = "running"
    THEN [rec |-> Moved(att[a], s), ws |-> <<WAtt(a, Moved(att[a], s))>>]
    ELSE [rec |-> att[a], ws |-> <<>>]

\* _paused.  worker.paused is not replayed: the attempt is journalled a second
\* time as worker.checkpointed.
EndPausedOnce(a) ==
    LET q == Request(a, "pause_requested")
        p == Moved(Checkpointed(a, q.rec, TRUE), "paused")
    IN IF q.rec.status # "pause_requested"
       THEN q
       ELSE [rec |-> p, ws |-> q.ws \o CheckpointWrites(a, q.rec, TRUE)]
EndPaused(a) ==
    LET q == Request(a, "pause_requested")
        p == Moved(Checkpointed(a, q.rec, TRUE), "paused")
    IN IF q.rec.status # "pause_requested"
       THEN q
       ELSE [rec |-> p, ws |-> q.ws \o CheckpointWrites(a, q.rec, TRUE) \o <<WAtt(a, p)>>]

\* _cancelled
EndCancelled(a) ==
    LET q == Request(a, "cancel_requested")
        c == Moved(q.rec, "cancelled")
    IN IF q.rec.status # "cancel_requested"
       THEN q
       ELSE [rec |-> c, ws |-> q.ws \o <<WAtt(a, c)>>]

\* _cancel_failed
EndCancelFailed(a) ==
    LET f == Moved(att[a], "failed") IN
    IF att[a].status # "cancel_requested"
    THEN [rec |-> att[a], ws |-> <<>>]
    ELSE [rec |-> f, ws |-> <<WAtt(a, f)>>]

\* _terminal: checkpoint, then the transition, which raises outside the
\* table, then ack_terminal.
TerminalAllowed(a, s) == Allowed(att[a].status, s)
EndTerminalUnsafe(a, s) ==
    LET k == Checkpointed(a, att[a], FALSE)
        t == Moved(k, s)
    IN [rec |-> t, ws |-> CheckpointWrites(a, att[a], FALSE) \o <<WAtt(a, t), WAck(a)>>]
EndTerminal(a, s) ==
    LET safe == (s = "succeeded")
        k == Checkpointed(a, att[a], safe)
        t == Moved(k, s)
    IN IF TerminalAllowed(a, s)
       THEN [rec |-> t, ws |-> CheckpointWrites(a, att[a], safe) \o <<WAtt(a, t), WAck(a)>>]
       ELSE [rec |-> k, ws |-> CheckpointWrites(a, att[a], safe)]

\* The attempt ends as e says, the handle is released and run() returns.
Return(a, e) ==
    /\ att' = [att EXCEPT ![a] = e.rec]
    /\ todo' = e.ws
    /\ phase' = [phase EXCEPT ![a] = "none"]

\* _cancel_provider confirms a cancellation only when the provider task is
\* done.
StoppedAnyway(a) == prov[a] \in {"on", "off", "ok", "error"}
Stopped(a) == prov[a] # "on"

CancelConfirmed(a) ==
    /\ Idle
    /\ phase[a] = "cancelling"
    /\ Stopped(a)
    /\ Return(a, EndCancelled(a))
    /\ UNCHANGED <<up, job, ack, parent, refs, durable, pauseReq, cancelReq, prov, sup, bounds>>

\* A refusal, or the end of the grace period: the provider may still run.
CancelRefused(a) ==
    /\ Idle
    /\ phase[a] = "cancelling"
    /\ Return(a, EndCancelFailed(a))
    /\ UNCHANGED <<up, job, ack, parent, refs, durable, pauseReq, cancelReq, prov, sup, bounds>>

\* An exception of the provider's cancel hook reaches the except clause of
\* run(), which finds the cancellation requested.
CancelRaises(a) ==
    /\ Idle
    /\ CancelMayRaise
    /\ phase[a] = "cancelling"
    /\ Return(a, EndCancelled(a))
    /\ UNCHANGED <<up, job, ack, parent, refs, durable, pauseReq, cancelReq, prov, sup, bounds>>

\* After the provider returned: cancel, else record the usage, then pause,
\* else go on to the outer finally, which awaits the heartbeat task.
AfterResult(a) ==
    /\ Idle
    /\ phase[a] = "returned"
    /\ \/ /\ CancelWanted(a)
          /\ Return(a, EndCancelled(a))
       \/ /\ ~CancelWanted(a)
          /\ PauseWanted(a)
          /\ Return(a, [EndPaused(a) EXCEPT !.ws = <<WUsage(a)>> \o @])
       \/ /\ ~CancelWanted(a)
          /\ ~PauseWanted(a)
          /\ todo' = <<WUsage(a)>>
          /\ phase' = [phase EXCEPT ![a] = "finishing"]
          /\ UNCHANGED att
    /\ UNCHANGED <<up, job, ack, parent, refs, durable, pauseReq, cancelReq, prov, sup, bounds>>

\* The except clause of run().
AfterError(a) ==
    /\ Idle
    /\ phase[a] = "raised"
    /\ \/ CancelWanted(a) /\ Return(a, EndCancelled(a)) /\ UNCHANGED ack
       \/ ~CancelWanted(a) /\ Return(a, EndTerminal(a, "failed")) /\ ack' = ack \cup {a}
    /\ UNCHANGED <<up, job, parent, refs, durable, pauseReq, cancelReq, prov, sup, bounds>>

\* After the outer finally: a request persisted during its await is not
\* looked at again.  When the transition raises, the exception leaves run()
\* and ends the supervisor's loop.
Finish(a) ==
    LET ok == TerminalAllowed(a, "succeeded") IN
    /\ Idle
    /\ phase[a] = "finishing"
    /\ Return(a, EndTerminal(a, "succeeded"))
    /\ ack' = IF ok THEN ack \cup {a} ELSE ack
    /\ sup' = IF ok THEN sup ELSE "dead"
    /\ UNCHANGED <<up, job, parent, refs, durable, pauseReq, cancelReq, prov, bounds>>

-----------------------------------------------------------------------------
(* The parent task's control requests (ControlService.transition).  A request *)
(* first loops over the attempts, then commits the parent.                    *)

Control(kind, st) ==
    /\ Idle
    /\ parent = st
    /\ controls < MaxControl
    /\ controls' = controls + 1
    /\ job' = [kind |-> kind, next |-> 1]
    /\ UNCHANGED <<up, todo, memory, durable, runner, sup, crashes>>

Pause == Control("pause", "running")
Resume == Control("resume", "paused")
Cancel == Control("cancel", "running")

\* The last commit of a request, task.updated.
CommitParent(st) ==
    /\ parent' = st
    /\ todo' = <<WParent(st)>>
    /\ UNCHANGED att

\* Cancelling a paused task asks nothing of its workers.
CancelPaused ==
    /\ Idle
    /\ parent = "paused"
    /\ controls < MaxControl
    /\ controls' = controls + 1
    /\ CommitParent("cancelled")
    /\ UNCHANGED <<up, job, ack, refs, durable, runner, sup, crashes>>

\* ExecutionManager.request_control: only a running attempt is asked, and
\* the handle of its runner is woken (coordination.py).
WantedAction(kind) == kind
Wanted(kind) == IF kind = "pause" THEN "pause_requested" ELSE "cancel_requested"

AskableCreated(r) == r.status # "absent"
Askable(r) == OfParent(r) /\ r.status = "running"

RequestStep(kind, st) ==
    /\ InJob(kind)
    /\ IF job.next \in Attempt
       THEN LET a == job.next
                r == Moved(att[a], Wanted(kind))
            IN  /\ job' = [job EXCEPT !.next = a + 1]
                /\ IF Askable(att[a])
                   THEN /\ att' = [att EXCEPT ![a] = r]
                        /\ todo' = <<WAtt(a, r)>>
                        /\ pauseReq' = IF kind = "pause" /\ phase[a] # "none" /\ a \notin cancelReq
                                       THEN pauseReq \cup {a} ELSE pauseReq
                        /\ cancelReq' = IF kind = "cancel" /\ phase[a] # "none"
                                        THEN cancelReq \cup {a} ELSE cancelReq
                   ELSE UNCHANGED <<att, todo, pauseReq, cancelReq>>
                /\ UNCHANGED parent
       ELSE /\ job' = IdleJob
            /\ CommitParent(st)
            /\ UNCHANGED <<pauseReq, cancelReq>>
    /\ UNCHANGED <<up, ack, refs, durable, phase, prov, sup, bounds>>

PauseStep == RequestStep("pause", "paused")
CancelStep == RequestStep("cancel", "cancelled")

\* Resume requeues the paused attempts (LocalExecutionQueue.requeue), then
\* the parent runs again.
Requeued(r) == [r EXCEPT !.status = "queued", !.claim = FALSE, !.ver = @ + 1]

ResumeStep ==
    /\ InJob("resume")
    /\ IF job.next \in Attempt
       THEN LET a == job.next
                r == Requeued(att[a])
            IN  IF ~(OfParent(att[a]) /\ att[a].status = "paused")
                THEN job' = [job EXCEPT !.next = a + 1] /\ UNCHANGED <<att, todo, parent>>
                ELSE IF SafeFile(RecoveryPoint(att[a]))
                THEN /\ job' = [job EXCEPT !.next = a + 1]
                     /\ att' = [att EXCEPT ![a] = r]
                     /\ todo' = <<WAtt(a, r)>>
                     /\ UNCHANGED parent
                ELSE job' = IdleJob /\ UNCHANGED <<att, todo, parent>>   \* not_resumable
       ELSE job' = IdleJob /\ CommitParent("running")
    /\ UNCHANGED <<up, ack, refs, durable, runner, sup, bounds>>

\* Execute: the parent runs, then enqueue_plan creates one attempt per child.
\* From paused it is accepted again.
Execute ==
    /\ Idle
    /\ \/ parent = "planned" /\ UNCHANGED controls
       \/ parent = "paused" /\ controls < MaxControl /\ controls' = controls + 1
    /\ Cardinality(ActiveAttempts) + NChild <= MaxActive
    /\ Cardinality(Born) + NChild <= NAttempt
    /\ CommitParent("running")
    /\ job' = [kind |-> "enqueue", next |-> 1]
    /\ UNCHANGED <<up, ack, refs, durable, runner, sup, crashes>>

EnqueueStep ==
    /\ InJob("enqueue")
    /\ IF job.next \in 1..NChild
       THEN \E a \in Attempt :
                /\ IsNext(a)
                /\ att' = [att EXCEPT ![a] = Fresh(job.next, ~refs)]
                /\ todo' = <<WAtt(a, Fresh(job.next, ~refs))>>
                /\ job' = [job EXCEPT !.next = @ + 1]
       ELSE job' = IdleJob /\ UNCHANGED <<att, todo>>
    /\ UNCHANGED <<up, ack, parent, refs, durable, runner, sup, bounds>>

-----------------------------------------------------------------------------
(* What a host may call beside the API *)

\* WorkerRunner.request_pause, request_cancel: only the handle is told.
HostPause(a) ==
    /\ Idle
    /\ DirectHandles
    /\ phase[a] # "none"
    /\ a \notin pauseReq \cup cancelReq
    /\ pauseReq' = pauseReq \cup {a}
    /\ UNCHANGED <<up, todo, job, memory, durable, phase, cancelReq, prov, sup, bounds>>

HostCancel(a) ==
    /\ Idle
    /\ DirectHandles
    /\ phase[a] # "none"
    /\ a \notin cancelReq
    /\ cancelReq' = cancelReq \cup {a}
    /\ UNCHANGED <<up, todo, job, memory, durable, phase, pauseReq, prov, sup, bounds>>

\* LocalExecutionQueue.recover: a new attempt from a safe checkpoint of a
\* previous one, whatever the previous one does now.
Recovery(p) ==
    LET c == RecoveryPoint(att[p]) IN
    [Fresh(att[p].child, att[p].byRef) EXCEPT !.cp = c, !.rcp = c, !.cpSafe = TRUE, !.resumed = p]

HostRecover(p, a) ==
    /\ Idle
    /\ HostRecovers
    /\ IsNext(a)
    /\ p \in Born
    /\ RecoveryPoint(att[p]) # NoCp
    /\ SafeFile(RecoveryPoint(att[p]))
    /\ att[p].cpSafe
    /\ att' = [att EXCEPT ![a] = Recovery(p)]
    /\ todo' = <<WAtt(a, Recovery(p))>>
    /\ UNCHANGED <<up, job, ack, parent, refs, durable, runner, sup, bounds>>

\* ExecutionSupervisor.register: a host binds a request of its own to an
\* attempt that has none, in whatever state it is (between two handlers such
\* an attempt is queued, or was blocked by a restart before its first run).
HostRegister(a) ==
    LET r == Bound(att[a]) IN
    /\ Idle
    /\ HostRegisters
    /\ att[a].status \in {"queued", "blocked"}
    /\ ~att[a].bound
    /\ att' = [att EXCEPT ![a] = r]
    /\ todo' = <<WAtt(a, r)>>
    /\ UNCHANGED <<up, job, ack, parent, refs, durable, runner, sup, bounds>>

-----------------------------------------------------------------------------

Init ==
    /\ up = TRUE
    /\ todo = <<>>
    /\ job = IdleJob
    /\ att = [a \in Attempt |-> Absent]
    /\ ack = {}
    /\ parent = "planned"
    /\ refs = TRUE
    /\ datt = att /\ dack = ack /\ dparent = parent
    /\ dusage = {}
    /\ cps = {}
    /\ phase = [a \in Attempt |-> "none"]
    /\ pauseReq = {}
    /\ cancelReq = {}
    /\ prov = [a \in Attempt |-> "off"]
    /\ sup = "running"
    /\ crashes = 0
    /\ controls = 0

RunnerStep(a) ==
    \/ Wake(a) \/ CancelConfirmed(a) \/ CancelRefused(a) \/ CancelRaises(a)
    \/ AfterResult(a) \/ AfterError(a) \/ Finish(a)

JobStep ==
    \/ CallProvider \/ ReclaimStep \/ PauseStep \/ CancelStep
    \/ ResumeStep \/ EnqueueStep

Next ==
    \/ Persist \/ JobStep \/ Crash \/ Restart
    \/ \E a \in Attempt :
          \/ RunOnce(a) \/ RunnerStep(a)
          \/ ProviderStops(a) \/ Timeout(a) \/ Heartbeat(a)
          \/ HostPause(a) \/ HostCancel(a) \/ HostRegister(a)
          \/ \E p \in Attempt : HostRecover(p, a)
    \/ Execute \/ Pause \/ Resume \/ Cancel \/ CancelPaused

Spec == Init /\ [][Next]_vars

-----------------------------------------------------------------------------
(* Fairness.  The event loop runs a ready handler, the host restarts a dead   *)
(* process, and a provider call ends, by its own or by provider_timeout.      *)
(* Nobody has to send a control request, and the process need not die.        *)

Fairness ==
    /\ WF_vars(Persist) /\ WF_vars(JobStep) /\ WF_vars(Restart)
    /\ \A a \in Attempt :
          /\ WF_vars(RunOnce(a))
          /\ WF_vars(RunnerStep(a))
          /\ WF_vars(ProviderStops(a) \/ Timeout(a))

FairSpec == Spec /\ Fairness

-----------------------------------------------------------------------------
(* Safety *)

TypeOK ==
    /\ up \in BOOLEAN
    /\ todo \in Seq(Write)
    /\ job \in [kind : JobKind, next : Nat]
    /\ att \in [Attempt -> AttemptRec]
    /\ ack \in SUBSET Attempt
    /\ parent \in ParentStatus
    /\ refs \in BOOLEAN
    /\ datt \in [Attempt -> AttemptRec]
    /\ dack \in SUBSET Attempt
    /\ dparent \in ParentStatus
    /\ dusage \in SUBSET Attempt
    /\ cps \in SUBSET CpFile
    /\ phase \in [Attempt -> Phase]
    /\ pauseReq \in SUBSET Attempt
    /\ cancelReq \in SUBSET Attempt
    /\ prov \in [Attempt -> {"off", "on", "ok", "error"}]
    /\ sup \in {"running", "dead"}
    /\ crashes \in Nat
    /\ controls \in Nat

\* Between handlers the in-memory projection is exactly what a restart would
\* replay: no handler of the queue, the runner or the control service changes
\* an attempt, an acknowledgement or the parent without journalling it as an
\* event the replay knows.
ProjectionIsReplay ==
    Idle => att = datt /\ ack = dack /\ parent = dparent

\* Two records say whether an attempt can be resumed: the flag in the attempt
\* and the flag in the checkpoint file it names.  At every instant, hence
\* after a crash between any two writes, the file exists and they agree.
\* The attempts created by recover, which copy both, are no exception.
CheckpointAgreement ==
    \A a \in Attempt : datt[a].cp # NoCp =>
        [id |-> datt[a].cp, safe |-> datt[a].cpSafe] \in cps

\* A checkpoint file is never overwritten: its name is built from the
\* attempt's version, and no sequence of crashes, reclaims (which do not
\* advance the version) and new runs brings a version back.
CheckpointNamesFresh ==
    \A i \in 1..Len(todo) :
        todo[i].kind = "cp" => ~\E f \in cps : f.id = todo[i].file.id

\* Without direct use of the handles, an attempt that is claimed or running
\* is in the hands of a live runner: no path of run() returns and leaves it
\* behind, and no restart does.
NoOrphanRun ==
    Idle => \A a \in Attempt :
        att[a].status \in {"claimed", "running"} => phase[a] # "none"

\* An attempt is only recorded as cancelled, paused or succeeded when its
\* provider task has ended (transition condition execution_stopped).
SettledMeansStopped ==
    up => \A a \in Attempt :
        att[a].status \in {"cancelled", "paused", "succeeded"} => prov[a] # "on"

\* A journalled success is backed: its usage was journalled before, and its
\* last checkpoint is safe.
SuccessIsBacked ==
    \A a \in Attempt : datt[a].status = "succeeded" =>
        a \in dusage /\ datt[a].cpSafe /\ SafeFile(datt[a].cp)

\* An acknowledged attempt is a closed record: nothing changes it again, in
\* particular no restart and no late control request.
AckedIsFrozen == [][\A a \in dack : a \in dack' /\ datt'[a] = datt[a]]_vars

\* The journalled status of every attempt follows the transition table, except
\* for what reclaim_attempts does at a restart.
LifecycleSpec == L!Spec

\* The session never has more than max_active_workers attempts that execute
\* created and that are not terminal, however pauses, repeated execute requests,
\* restarts and the attempts that a host adds by recover follow each other.
CapacityRespected ==
    Cardinality({a \in Attempt : att[a].status \in L!Live /\ att[a].resumed = 0}) <= MaxActive

\* "The recovery lineage is the authoritative resume point" (store.py): a
\* restart never blocks an attempt that recover created from a safe
\* checkpoint, whatever unsafe checkpoint of its own it has written since.
RecoveredNeverBlocked ==
    \A a \in Attempt : datt[a].resumed # 0 => datt[a].status # "blocked"

-----------------------------------------------------------------------------
(* Liveness *)

\* Claim-before-execution loses nothing: without control requests every
\* journalled attempt for which the supervisor finds a request reaches a
\* terminal state, wherever the process dies.  (Of the others see
\* QueuedIsConsumed in ExecutionClaims.)
QueuedEnds == \A a \in Attempt :
    (datt[a].status = "queued" /\ HasRequest(datt[a]))
        ~> (datt[a].status \in L!Terminal)
=============================================================================
