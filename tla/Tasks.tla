------------------------------- MODULE Tasks -------------------------------
(***************************************************************************)
(* A controller session, its epochs and one parent task, under the write    *)
(* requests of the API: application/service.py, application/control.py,     *)
(* routing/automatic.py, api/app.py, integration/parent_verification.py,    *)
(* evidence/gate.py.                                                        *)
(*                                                                         *)
(* The lives of the attempts are those of module Execution: here an attempt  *)
(* is queued and at some time ends.  The control requests to the attempts,   *)
(* the capacity and the validation of a plan's form are left out.            *)
(***************************************************************************)
EXTENDS TaskTable, Sequences, SequencesExt, FiniteSetsExt, Tables

CONSTANTS
    Request, Nobody, MaxCrash, MaxRefuse,   \* as in Frames
    NChild,     \* the children of a proposal are 1..NChild, in the integration order
    MaxChild,   \* bound on the children ever created: every refused plan leaves some
    Scenarios   \* what a behaviour's clients ask for, and where they begin

Operation == {"register", "ensure", "switch", "plan", "execute", "pause", "resume",
              "cancel", "verify", "evidence"}
SessionOperation == {"register", "ensure", "switch"}
Mode == {"worker_only", "automatic"}

\* ask is the operation of each request; the session has a controller from the
\* beginning if registered; attempts end and integrations happen if working;
\* appends may be refused if full.
Scenario == [ask : [Request -> Operation \cup {"none"}], mode : Mode,
             registered : BOOLEAN, working : BOOLEAN, full : BOOLEAN]

ASSUME TasksAssumption ==
    /\ NChild \in Nat \ {0}
    /\ MaxChild \in Nat
    /\ MaxCrash \in Nat
    /\ MaxRefuse \in Nat
    /\ Nobody \notin Request
    /\ Scenarios \subseteq Scenario

VARIABLES
    scenario,   \* the scenario of this behaviour
    sent,       \* what the client of each request has asked, or NotSent
    mem, dur, todo, current, reply, recorded, answered, up, crashes, refusals

vars == <<scenario, sent, mem, dur, todo, current, reply, recorded, answered, up, crashes, refusals>>

Ref == 1..NChild
Life == INSTANCE TaskLife WITH status <- dur.task.status
NotSent == [op |-> "none", version |-> 0, arg |-> "none"]

-----------------------------------------------------------------------------
(* The projection *)

AttemptStatus == {"queued", "succeeded", "partial", "blocked", "failed", "cancelled"}
IntegrationStatus == {"none", "queued", "integrated", "blocked"}
Evidence == {"missing", "pass", "fail", "unobserved"}

\* A parent task.  plan is 0 for none; cp is its latest checkpoint.
Task == [status : Statuses, version : Nat, plan : Nat, kids : SUBSET Nat,
         evidence : Evidence, cp : {"none", "safe", "unsafe"}]

\* What the operations of this module start from: create_session, create_task.
Created(mode) ==
    [session |-> [mode |-> mode, version |-> 1, active |-> 0],
     epochs |-> <<>>,       \* id -> [status, version]
     task |-> [status |-> "draft", version |-> 1, plan |-> 0, kids |-> {},
               evidence |-> "missing", cp |-> "none"],
     plans |-> {},          \* Store.plans
     children |-> {},       \* Store.children
     refs |-> [c \in Ref |-> 0],    \* Store.child_ref_ids, which is not journalled
     att |-> <<>>,          \* id -> [child, status]; child is 0 when named by client_ref
     integ |-> [c \in Ref |-> "none"]]      \* the latest integration attempt of a child

\* new_id
Fresh(ids) == IF ids = {} THEN 1 ELSE Max(ids) + 1

WithEpoch(p, e, n) ==
    [p EXCEPT !.epochs = Put(@, e, [status |-> "active", version |-> n]),
              !.session.active = e,
              !.session.version = @ + 1]
WithRelease(p, e) == [p EXCEPT !.epochs[e].status = "released"]
WithChild(p, c) == [p EXCEPT !.children = @ \cup {c}]
WithPlan(p, n) ==
    [p EXCEPT !.plans = @ \cup {n}, !.task.plan = n, !.task.status = "planned",
              !.task.version = @ + 1]
WithAttempt(p, i, a) == [p EXCEPT !.att = Put(@, i, a)]

EpochEvent(e, n) == [type |-> "session.epoch_registered", id |-> e, version |-> n]
TaskEvent(t) == [type |-> "task.updated", task |-> t]
ChildEvent(c) == [type |-> "child_task.created", id |-> c]
PlanEvent(n) == [type |-> "plan.committed", id |-> n]
AttemptEvent(i, a) == [type |-> "worker.queued", id |-> i, attempt |-> a]
IntegrationEvent(c, s) == [type |-> "integration.recorded", ref |-> c, status |-> s]
ReleaseEvent(e) == [type |-> "controller_epoch.released", id |-> e]
\* task.<status> and boundary_registered, which the Store does not replay
Unreplayed == [type |-> "unreplayed"]

\* Store._replay.  The release of an epoch is not among the events it knows.
ReplayRelease(p, e) ==
    CASE e.type = "session.epoch_registered" -> WithEpoch(p, e.id, e.version)
      [] e.type = "controller_epoch.released" -> WithRelease(p, e.id)
      [] e.type = "task.updated" -> [p EXCEPT !.task = e.task]
      [] e.type = "child_task.created" -> WithChild(p, e.id)
      [] e.type = "plan.committed" -> WithPlan(p, e.id)
      [] e.type = "worker.queued" -> WithAttempt(p, e.id, e.attempt)
      [] e.type = "integration.recorded" -> [p EXCEPT !.integ[e.ref] = e.status]
      [] OTHER -> p
ReplayEvent(p, e) ==
    CASE e.type = "session.epoch_registered" -> WithEpoch(p, e.id, e.version)
      [] e.type = "task.updated" -> [p EXCEPT !.task = e.task]
      [] e.type = "child_task.created" -> WithChild(p, e.id)
      [] e.type = "plan.committed" -> WithPlan(p, e.id)
      [] e.type = "worker.queued" -> WithAttempt(p, e.id, e.attempt)
      [] e.type = "integration.recorded" -> [p EXCEPT !.integ[e.ref] = e.status]
      [] OTHER -> p
AlwaysLoads(p) == TRUE

INSTANCE Frames WITH Replay <- ReplayEvent, Loads <- AlwaysLoads

-----------------------------------------------------------------------------
(* Epochs: register_epoch, ensure_controller, switch_controller.  A certified *)
(* candidate is assumed to exist.                                            *)

NewEpoch == Fresh(DOMAIN mem.epochs)

AddEpoch(r, n) ==
    Serve(r, WithEpoch(mem, NewEpoch, n),
          <<Write(EpochEvent(NewEpoch, n), TRUE, WithEpoch(mem, NewEpoch, n))>>, "done")

\* The first two do not look their idempotency key up.
Register(r, v) ==
    IF mem.session.version = v /\ mem.session.active = 0 THEN AddEpoch(r, 1) ELSE Refuse(r)

Ensure(r, v) ==
    IF mem.session.version = v /\ mem.session.mode = "automatic"
    THEN IF mem.session.active = 0
         THEN AddEpoch(r, 1)
         ELSE Serve(r, mem, <<>>, "done")
    ELSE Refuse(r)

\* _RUNNING_TASK_STATUSES
Busy == mem.task.status \in {"queued", "running", "pause_requested", "cancel_requested",
                             "waiting_approval"}

\* The active epoch is released and the new one registered.
ReplaceEpoch(r) ==
    LET old == mem.session.active
        n == mem.epochs[old].version + 1
        released == WithRelease(mem, old)
        switched == WithEpoch(released, NewEpoch, n)
    IN Serve(r, released,
             <<Write(ReleaseEvent(old), FALSE, switched),
               Write(EpochEvent(NewEpoch, n), TRUE, switched)>>, "done")

Switch(r, v) ==
    \/ Repeat(r)
    \/ r \notin recorded /\
       IF mem.session.version = v /\ mem.session.mode = "automatic" /\ ~Busy
       THEN IF mem.session.active = 0 THEN AddEpoch(r, 1) ELSE ReplaceEpoch(r)
       ELSE Refuse(r)

-----------------------------------------------------------------------------
(* Plans: Service.plan *)

ChildId(c) == Fresh(mem.children) + c - 1
PlanId == Fresh(mem.plans)

\* Memory when the first n children of the proposal are in the Store.
ChildrenUpTo(n) ==
    [mem EXCEPT !.children = @ \cup {ChildId(c) : c \in 1..n},
                !.refs = [c \in Ref |-> IF c <= n THEN ChildId(c) ELSE @[c]]]

Planned ==
    [WithPlan(ChildrenUpTo(NChild), PlanId) EXCEPT !.task.kids = {ChildId(c) : c \in Ref}]

\* The children are appended one by one, and before each its boundary.
ChildWrites(last) == [n \in 1..2 * NChild |->
    LET c == (n + 1) \div 2
    IN IF n = 2 * c - 1
       THEN Write(Unreplayed, FALSE, ChildrenUpTo(c))
       ELSE Write(ChildEvent(ChildId(c)), FALSE, IF c = NChild THEN last ELSE ChildrenUpTo(c))]

PlanWritesOnce == <<Write(PlanEvent(PlanId), TRUE, Planned)>>
PlanWrites ==
    <<Write(PlanEvent(PlanId), TRUE, Planned), Write(TaskEvent(Planned.task), FALSE, Planned)>>

\* The transition is tried when the children are appended.
Plan(r, v) ==
    \/ Repeat(r)
    \/ r \notin recorded /\
       IF mem.task.version = v
       THEN IF mem.task.status = "draft"
            THEN Serve(r, mem, ChildWrites(Planned) \o PlanWrites, "done")
            ELSE Serve(r, mem, ChildWrites(ChildrenUpTo(NChild)), "refused")
       ELSE Refuse(r)

-----------------------------------------------------------------------------
(* Control: ControlService.transition and control_task *)

\* transition_task, once for each status of the path.
FollowsAny(path) == path # <<>>
Follows(path) == \A i \in 1..Len(path) :
    path[i] \in Successors[IF i = 1 THEN mem.task.status ELSE path[i - 1]]
Moved(path, safe) ==
    [mem.task EXCEPT !.status = Last(path), !.version = @ + Len(path), !.cp = safe]

WithTask(t) == [mem EXCEPT !.task = t]

\* task.<status> is only a notice; the frame with the task holds the result.
ControlWritesKeyFirst(t, after) ==
    <<Write(Unreplayed, TRUE, WithTask(t)), Write(TaskEvent(t), FALSE, after)>>
ControlWrites(t, after) ==
    <<Write(Unreplayed, FALSE, WithTask(t)), Write(TaskEvent(t), TRUE, after)>>

Control(r, v, path, safe, allowed) ==
    \/ Repeat(r)
    \/ r \notin recorded /\
       IF mem.task.version = v /\ allowed /\ Follows(path)
       THEN LET t == Moved(path, safe)
            IN Serve(r, WithTask(t), ControlWrites(t, WithTask(t)), "done")
       ELSE Refuse(r)

Pause(r, v) == Control(r, v, <<"pause_requested", "paused">>, "safe", TRUE)

\* The latest checkpoint must be one that is safe to resume from.
Resume(r, v) == Control(r, v, <<"queued", "running">>, "unsafe", mem.task.cp = "safe")

Cancel(r, v) ==
    Control(r, v, IF mem.task.status = "running" THEN <<"cancel_requested", "cancelled">>
                                                 ELSE <<"cancelled">>, "unsafe", TRUE)

\* The statuses execute walks through.
ExecutePath ==
    CASE mem.task.status = "draft" -> <<"planned", "queued", "running">>
      [] mem.task.status = "planned" -> <<"queued", "running">>
      [] mem.task.status = "queued" -> <<"running">>
      [] mem.task.status = "paused" -> <<"queued", "running">>
      [] OTHER -> <<>>

\* enqueue_plan: the attempts of the plan's children, by child id or, when
\* child_ref_ids has been lost, by client_ref.
AttemptId(c) == Fresh(DOMAIN mem.att) + c - 1
AttemptOf(c) == [child |-> mem.refs[c], status |-> "queued"]
EnqueuedUpTo(t, n) ==
    [WithTask(t) EXCEPT !.att = Overlaid([i \in {AttemptId(c) : c \in 1..n} |->
                                            AttemptOf(i - AttemptId(1) + 1)], @)]

Enqueues == mem.session.mode = "worker_only" /\ mem.task.plan # 0

ExecuteWrites(t) ==
    IF Enqueues
    THEN ControlWrites(t, EnqueuedUpTo(t, 1))
            \o [c \in Ref |-> Write(AttemptEvent(AttemptId(c), AttemptOf(c)), FALSE,
                                    EnqueuedUpTo(t, IF c = NChild THEN c ELSE c + 1))]
    ELSE ControlWrites(t, WithTask(t))

\* Store.plans must hold the task's plan, if workers are to run it.
Execute(r, v) ==
    \/ Repeat(r)
    \/ r \notin recorded /\
       IF /\ mem.task.version = v
          /\ mem.session.active # 0
          /\ ExecutePath # <<>>
          /\ Enqueues => mem.task.plan \in mem.plans
       THEN LET t == Moved(ExecutePath, "unsafe")
            IN Serve(r, WithTask(t), ExecuteWrites(t), "done")
       ELSE Refuse(r)

-----------------------------------------------------------------------------
(* Verification and evidence *)

ChildResult(s) ==
    CASE s = "succeeded" -> "completed"
      [] s \in {"partial", "blocked", "failed", "cancelled"} -> s
      [] OTHER -> "partial"

OfTask(p) == {i \in DOMAIN p.att : p.att[i].child \in p.task.kids}
ChildResults(p) == {ChildResult(p.att[i].status) : i \in OfTask(p)}

\* task_integration_facts_for_verification: listed is whether the request
\* lists changesets.
FactsAnyPlan(p, listed) ==
    LET known == {c \in Ref : p.integ[c] # "none"}
    IN {p.integ[c] : c \in known}
IntegrationFacts(p, listed) ==
    LET known == {c \in Ref : p.integ[c] # "none"}
    IN IF p.task.plan \in p.plans /\ known = {} THEN {"blocked"}
       ELSE IF p.task.plan \in p.plans /\ listed /\ known # Ref
            THEN {p.integ[c] : c \in known} \cup {"blocked"}
            ELSE {p.integ[c] : c \in known}

\* EvidenceGate.evaluate, for an acceptance contract with one required item:
\* only the latest record of it counts.
Gate(p) ==
    CASE p.task.evidence = "pass" -> "passed"
      [] p.task.evidence = "fail" -> "failed"
      [] OTHER -> "missing"

\* ParentVerification.evaluate
Verdict(p, listed) ==
    IF "failed" \in ChildResults(p) THEN "failed"
    ELSE IF {"cancelled", "blocked"} \cap ChildResults(p) # {} THEN "blocked"
    ELSE IF IntegrationFacts(p, listed) \subseteq {"integrated"}
    THEN CASE Gate(p) = "failed" -> "failed"
           [] Gate(p) = "missing" -> "blocked"
           [] Gate(p) = "passed" ->
                 IF ChildResults(p) \subseteq {"completed"} THEN "completed" ELSE "partial"
    ELSE "blocked"

\* The frame with the verdict holds the result; the frame with the task, which
\* is the one that is replayed, follows.
Verify(r, v, arg) ==
    \/ Repeat(r)
    \/ r \notin recorded /\
       LET path == <<Verdict(mem, arg = "changesets")>>
           t == Moved(path, mem.task.cp)
       IN IF mem.task.version = v /\ Follows(path)
          THEN Serve(r, WithTask(t),
                     <<Write(Unreplayed, TRUE, WithTask(t)),
                       Write(TaskEvent(t), FALSE, WithTask(t))>>, "done")
          ELSE Refuse(r)

\* Evidence is recorded in any status.
Record(r, v, arg) ==
    \/ Repeat(r)
    \/ r \notin recorded /\
       LET t == [mem.task EXCEPT !.evidence = arg, !.version = @ + 1]
       IN IF mem.task.version = v
          THEN Serve(r, WithTask(t), <<Write(TaskEvent(t), TRUE, WithTask(t))>>, "done")
          ELSE Refuse(r)

-----------------------------------------------------------------------------
(* Requests *)

Arguments(op) ==
    CASE op = "none" -> {}
      [] op = "verify" -> {"changesets", "none"}
      [] op = "evidence" -> {"pass", "fail"}
      [] OTHER -> {"none"}
VersionFor(op) == IF op \in SessionOperation THEN mem.session.version ELSE mem.task.version

\* A client asks for the version it has just read; a client that got no answer
\* asks for the same again.
Asks(r) ==
    IF sent[r] # NotSent THEN {sent[r]}
    ELSE LET op == scenario.ask[r]
         IN {[op |-> op, version |-> VersionFor(op), arg |-> a] : a \in Arguments(op)}

Handle(r, q) ==
    /\ Idle
    /\ sent' = [sent EXCEPT ![r] = q]
    /\ \/ q.op = "register" /\ Register(r, q.version)
       \/ q.op = "ensure" /\ Ensure(r, q.version)
       \/ q.op = "switch" /\ Switch(r, q.version)
       \/ q.op = "plan" /\ ChildId(NChild) <= MaxChild /\ Plan(r, q.version)
       \/ q.op = "execute" /\ Execute(r, q.version)
       \/ q.op = "pause" /\ Pause(r, q.version)
       \/ q.op = "resume" /\ Resume(r, q.version)
       \/ q.op = "cancel" /\ Cancel(r, q.version)
       \/ q.op = "verify" /\ Verify(r, q.version, q.arg)
       \/ q.op = "evidence" /\ Record(r, q.version, q.arg)
    /\ UNCHANGED scenario

\* A runner records the end of its attempt.
AttemptEnds(i, s) ==
    /\ scenario.working
    /\ i \in DOMAIN mem.att /\ mem.att[i].status = "queued"
    /\ Append1(AttemptEvent(i, [mem.att[i] EXCEPT !.status = s]))
    /\ UNCHANGED <<scenario, sent>>

\* The integration service records an attempt for a planned child.
Integrates(c, s) ==
    /\ scenario.working
    /\ mem.task.plan # 0
    /\ mem.integ[c] \notin {s, "integrated"}
    /\ Append1(IntegrationEvent(c, s))
    /\ UNCHANGED <<scenario, sent>>

FrameStep ==
    /\ \/ Persist
       \/ scenario.full /\ RefusedByCapacity
       \/ Answer
       \/ Crash
    /\ UNCHANGED <<scenario, sent>>

Init ==
    /\ scenario \in Scenarios
    /\ sent = [r \in Request |-> NotSent]
    /\ LET created == Created(scenario.mode)
       IN Began(IF scenario.registered THEN WithEpoch(created, 1, 1) ELSE created)

Next ==
    \/ FrameStep
    \/ \E r \in Request : \E q \in Asks(r) : Handle(r, q)
    \/ \E i \in DOMAIN mem.att : \E s \in {"succeeded", "failed"} : AttemptEnds(i, s)
    \/ \E c \in Ref : \E s \in {"blocked", "integrated"} : Integrates(c, s)

Spec == Init /\ [][Next]_vars

-----------------------------------------------------------------------------
(* Properties *)

Projection(p) ==
    /\ p.session.mode \in Mode /\ p.session.version \in Nat /\ p.session.active \in Nat
    /\ \A e \in DOMAIN p.epochs : p.epochs[e] \in [status : {"active", "released"}, version : Nat]
    /\ p.task \in Task
    /\ p.plans \subseteq Nat /\ p.children \subseteq Nat
    /\ p.refs \in [Ref -> Nat]
    /\ \A i \in DOMAIN p.att : p.att[i] \in [child : Nat, status : AttemptStatus]
    /\ p.integ \in [Ref -> IntegrationStatus]

\* The projection in memory and the one a restart rebuilds are well formed, and
\* only a handler that is being served has appends left.
TypeOK ==
    /\ scenario \in Scenarios
    /\ \A r \in Request : sent[r].op \in Operation \cup {"none"}
    /\ Projection(mem) /\ Projection(dur)
    /\ current \in Request \cup {Nobody}
    /\ current = Nobody => todo = <<>>
    /\ reply \in {"done", "refused", "failed"}
    /\ recorded \subseteq Request /\ answered \subseteq Request

\* Between requests the projection in memory is the one a restart rebuilds, but
\* for what is known not to be replayed: child_ref_ids and the status of
\* released epochs.
Replayable(p) ==
    [p EXCEPT !.refs = {}, !.epochs = [e \in DOMAIN p.epochs |-> p.epochs[e].version]]
ProjectionIsReplay == Idle /\ refusals = 0 => Replayable(mem) = Replayable(dur)

\* routing/automatic.py, switch_controller: "a crash cannot leave the session
\* pointing at a stale epoch".  In memory and after a restart at any instant, the
\* session's active epoch exists and is active.
ActiveIn(p) == p.session.active # 0 =>
    /\ p.session.active \in DOMAIN p.epochs
    /\ p.epochs[p.session.active].status = "active"
ActiveEpochIsActive == ActiveIn(dur) /\ (Idle /\ refusals = 0 => ActiveIn(mem))

\* What a client was told of the task itself is in the journal after any crash, also
\* when the answer came to a retry, and for the control requests also when other
\* appends were refused: the task has moved past the version asked for, has a plan or
\* evidence if that was asked, and has been in the status the request leaves it in.
\* (For a session, that it has moved past the version.)  Nothing is said of what a
\* handler appends outside the frame with the task: the attempts of an execute, the
\* child ids of a plan and the verdict of a verify are claims of TasksClaims.  And the
\* frame of a plan advances the version that the journal has, which is an older one
\* when an append before it was refused.
Target == [plan |-> "planned", execute |-> "running", pause |-> "paused",
           resume |-> "running", cancel |-> "cancelled"]
AnsweredMoveIsJournalled == \A r \in answered :
    /\ sent[r].op \in DOMAIN Target => dur.task.status \in Reachable[Target[sent[r].op]]
    /\ sent[r].op \in {"execute", "pause", "resume", "cancel", "evidence"} =>
          dur.task.version > sent[r].version
    /\ sent[r].op = "evidence" => dur.task.evidence # "missing"
    /\ sent[r].op = "plan" => dur.task.plan # 0
    /\ sent[r].op = "plan" /\ refusals = 0 => dur.task.version > sent[r].version
    /\ sent[r].op \in {"register", "switch"} /\ refusals = 0 =>
          dur.session.version > sent[r].version

\* The journalled task becomes completed only when every attempt of its children
\* succeeded, no integration attempt of it is unfinished or failed, and its
\* required evidence passed, at that instant and in the journal.
FactsHold(p) ==
    /\ \A i \in OfTask(p) : p.att[i].status = "succeeded"
    /\ \A c \in Ref : p.integ[c] \in {"none", "integrated"}
    /\ p.task.plan \in p.plans => \E c \in Ref : p.integ[c] = "integrated"
    /\ p.task.evidence = "pass"
CompletesOnlyOnFacts ==
    [][(dur.task.status # "completed" /\ dur'.task.status = "completed" /\ refusals = 0)
          => FactsHold(dur)]_vars

\* The journalled status follows the transition table, and a terminal status
\* is final.
TaskLifeSpec == Life!Spec
=============================================================================
