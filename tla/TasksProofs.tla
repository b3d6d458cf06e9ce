----------------------------- MODULE TasksProofs -----------------------------
(***************************************************************************)
(* TypeOK, ProjectionIsReplay, ActiveEpochIsActive,                        *)
(* AnsweredMoveIsJournalled, CompletesOnlyOnFacts and TaskLifeSpec for     *)
(* every instance of Tasks.                                                *)
(*                                                                         *)
(* A death or a refused append may stop a handler after any of its appends.*)
(* So the invariant speaks of the projections a restart would rebuild after*)
(* each of them: they lead from the journal as it is to what the handler   *)
(* leaves, and at every one of them the promises hold.                     *)
(***************************************************************************)
EXTENDS Tasks, TableProofs

-----------------------------------------------------------------------------
(* Types *)

IsEpoch(x) == x \in [status : {"active", "released"}, version : Nat]
IsAttempt(x) == x \in [child : Nat, status : AttemptStatus]
IsSession(s) == s \in [mode : Mode, version : Nat, active : Nat]

IsProjection(p) ==
    /\ DOMAIN p = {"session", "epochs", "task", "plans", "children", "refs", "att", "integ"}
    /\ IsSession(p.session)
    /\ DOMAIN p.epochs \subseteq Nat /\ IsFiniteSet(DOMAIN p.epochs)
    /\ \A e \in DOMAIN p.epochs : IsEpoch(p.epochs[e])
    /\ p.session.active # 0 => p.session.active \in DOMAIN p.epochs
    /\ p.task \in Task
    /\ p.plans \subseteq Nat /\ IsFiniteSet(p.plans)
    /\ p.children \subseteq Nat /\ IsFiniteSet(p.children)
    /\ p.refs \in [Ref -> Nat]
    /\ DOMAIN p.att \subseteq Nat /\ IsFiniteSet(DOMAIN p.att)
    /\ \A i \in DOMAIN p.att : IsAttempt(p.att[i])
    /\ p.integ \in [Ref -> IntegrationStatus]

IsEvent(e) ==
    /\ e.type = "session.epoch_registered" => e.id \in Nat \ {0} /\ e.version \in Nat
    /\ e.type = "task.updated" => e.task \in Task
    /\ e.type = "child_task.created" => e.id \in Nat
    /\ e.type = "plan.committed" => e.id \in Nat \ {0}
    /\ e.type = "worker.queued" => e.id \in Nat /\ IsAttempt(e.attempt)
    /\ e.type = "integration.recorded" => e.ref \in Ref /\ e.status \in IntegrationStatus

IsWrite(w) == IsEvent(w.event) /\ IsProjection(w.mem)

\* A list of writes; what a client may have asked.
IsWork(ws) == IsSequence(ws) /\ \A n \in 1..Len(ws) : IsWrite(ws[n])
IsQuestion(q) ==
    /\ q.op \in Operation /\ q.version \in Nat
    /\ q.op = "evidence" => q.arg \in Evidence \ {"missing"}

TypeInv ==
    /\ scenario \in Scenarios
    /\ DOMAIN sent = Request
    /\ \A r \in Request : sent[r] = NotSent \/ IsQuestion(sent[r])
    /\ IsProjection(mem) /\ IsProjection(dur)
    /\ IsWork(todo)
    /\ current \in Request \cup {Nobody}
    /\ current = Nobody => todo = <<>>
    /\ current # Nobody => sent[current] # NotSent
    /\ reply \in {"done", "refused", "failed"}
    /\ recorded \subseteq Request /\ answered \subseteq Request
    /\ \A r \in recorded \cup answered : sent[r] # NotSent
    /\ refusals \in Nat

-----------------------------------------------------------------------------
(* The statuses of a task *)

LEMMA SuccessorsType ==
  ASSUME NEW s \in Statuses
  PROVE  Successors[s] \subseteq Statuses
  BY DEF Statuses, Live, Terminal, Successors

LEMMA ReachType ==
  ASSUME NEW s \in Statuses, NEW t
  PROVE  t \in Reachable[s] <=>
            t \in Statuses /\ \A C \in SUBSET Statuses : s \in C /\ Closed(C) => t \in C
  BY DEF Reachable

LEMMA ReachRefl ==
  ASSUME NEW s \in Statuses
  PROVE  s \in Reachable[s]
  BY ReachType

LEMMA ReachTrans ==
  ASSUME NEW s \in Statuses, NEW t \in Reachable[s], NEW u \in Reachable[t]
  PROVE  u \in Reachable[s]
  <1>1. t \in Statuses
    BY ReachType
  <1> QED
    BY <1>1, ReachType

LEMMA ReachStep ==
  ASSUME NEW s \in Statuses, NEW t \in Reachable[s], NEW u \in Successors[t]
  PROVE  u \in Reachable[s]
  <1>1. t \in Statuses
    BY ReachType
  <1>2. u \in Statuses
    BY <1>1, SuccessorsType
  <1>3. ASSUME NEW C \in SUBSET Statuses, s \in C, Closed(C)
        PROVE  u \in C
    <2>1. t \in C
      BY <1>3, ReachType
    <2> QED
      BY <2>1, <1>3 DEF Closed
  <1> QED
    BY <1>2, <1>3, ReachType

\* Nothing leads back to a draft, and nothing leads out of a terminal status.
LEMMA OnlyDraftReachesDraft ==
  ASSUME NEW s \in Statuses, "draft" \in Reachable[s]
  PROVE  s = "draft"
  <1> DEFINE C == Statuses \ {"draft"}
  <1>1. Closed(C)
    BY DEF Statuses, Live, Terminal, Successors, Closed
  <1>2. C \in SUBSET Statuses /\ "draft" \notin C
    OBVIOUS
  <1> HIDE DEF C
  <1>3. s \notin C
    BY <1>1, <1>2, ReachType
  <1> QED
    BY <1>3 DEF C

-----------------------------------------------------------------------------
(* The helpers of the projection.  What they put in a field has a name, for   *)
(* the provers to see it as one value.                                       *)

Advanced(s, e) == [mode |-> s.mode, version |-> s.version + 1, active |-> e]
ActiveEpoch(n) == [status |-> "active", version |-> n]
PlannedAs(t, n) == [status |-> "planned", version |-> t.version + 1, plan |-> n,
                    kids |-> t.kids, evidence |-> t.evidence, cp |-> t.cp]
Including(S, x) == S \cup {x}
Replaced(f, c, s) == [f EXCEPT ![c] = s]

LEMMA AdvancedType ==
  ASSUME NEW s, IsSession(s), NEW e \in Nat
  PROVE  IsSession(Advanced(s, e)) /\ Advanced(s, e).active = e
         /\ Advanced(s, e).version = s.version + 1
  BY DEF Advanced, IsSession

LEMMA ActiveEpochType ==
  ASSUME NEW n \in Nat
  PROVE  IsEpoch(ActiveEpoch(n)) /\ ActiveEpoch(n).status = "active" /\ ActiveEpoch(n).version = n
  BY DEF ActiveEpoch, IsEpoch

LEMMA PlannedAsType ==
  ASSUME NEW t \in Task, NEW n \in Nat
  PROVE  PlannedAs(t, n) \in Task /\ PlannedAs(t, n).status = "planned"
         /\ PlannedAs(t, n).version = t.version + 1 /\ PlannedAs(t, n).plan = n
         /\ PlannedAs(t, n).evidence = t.evidence
  BY DEF PlannedAs, Task, Statuses, Live

LEMMA IncludingType ==
  ASSUME NEW S, S \subseteq Nat, IsFiniteSet(S), NEW x \in Nat
  PROVE  Including(S, x) \subseteq Nat /\ IsFiniteSet(Including(S, x))
  BY FS_AddElement DEF Including

LEMMA WithEpochFacts ==
  ASSUME NEW p, IsProjection(p), NEW e, NEW n
  PROVE  /\ DOMAIN WithEpoch(p, e, n) = DOMAIN p
         /\ WithEpoch(p, e, n).session = Advanced(p.session, e)
         /\ WithEpoch(p, e, n).epochs = Put(p.epochs, e, ActiveEpoch(n))
         /\ WithEpoch(p, e, n).task = p.task
         /\ WithEpoch(p, e, n).plans = p.plans
         /\ WithEpoch(p, e, n).children = p.children
         /\ WithEpoch(p, e, n).refs = p.refs
         /\ WithEpoch(p, e, n).att = p.att
         /\ WithEpoch(p, e, n).integ = p.integ
  BY DEF IsProjection, IsSession, WithEpoch, Advanced, ActiveEpoch

LEMMA WithChildFacts ==
  ASSUME NEW p, IsProjection(p), NEW c
  PROVE  /\ DOMAIN WithChild(p, c) = DOMAIN p
         /\ WithChild(p, c).session = p.session
         /\ WithChild(p, c).epochs = p.epochs
         /\ WithChild(p, c).task = p.task
         /\ WithChild(p, c).plans = p.plans
         /\ WithChild(p, c).children = Including(p.children, c)
         /\ WithChild(p, c).refs = p.refs
         /\ WithChild(p, c).att = p.att
         /\ WithChild(p, c).integ = p.integ
  BY DEF IsProjection, WithChild, Including

LEMMA WithPlanFacts ==
  ASSUME NEW p, IsProjection(p), NEW n
  PROVE  /\ DOMAIN WithPlan(p, n) = DOMAIN p
         /\ WithPlan(p, n).session = p.session
         /\ WithPlan(p, n).epochs = p.epochs
         /\ WithPlan(p, n).task = PlannedAs(p.task, n)
         /\ WithPlan(p, n).plans = Including(p.plans, n)
         /\ WithPlan(p, n).children = p.children
         /\ WithPlan(p, n).refs = p.refs
         /\ WithPlan(p, n).att = p.att
         /\ WithPlan(p, n).integ = p.integ
  BY DEF IsProjection, Task, WithPlan, PlannedAs, Including

LEMMA WithAttemptFacts ==
  ASSUME NEW p, IsProjection(p), NEW i, NEW a
  PROVE  /\ DOMAIN WithAttempt(p, i, a) = DOMAIN p
         /\ WithAttempt(p, i, a).session = p.session
         /\ WithAttempt(p, i, a).epochs = p.epochs
         /\ WithAttempt(p, i, a).task = p.task
         /\ WithAttempt(p, i, a).plans = p.plans
         /\ WithAttempt(p, i, a).children = p.children
         /\ WithAttempt(p, i, a).refs = p.refs
         /\ WithAttempt(p, i, a).att = Put(p.att, i, a)
         /\ WithAttempt(p, i, a).integ = p.integ
  BY DEF IsProjection, WithAttempt

\* task.updated and integration.recorded have no helper of their own.
Updated(p, t) == [p EXCEPT !.task = t]
Integrated(p, c, s) == [p EXCEPT !.integ[c] = s]

LEMMA UpdatedFacts ==
  ASSUME NEW p, IsProjection(p), NEW t
  PROVE  /\ DOMAIN Updated(p, t) = DOMAIN p
         /\ Updated(p, t).session = p.session
         /\ Updated(p, t).epochs = p.epochs
         /\ Updated(p, t).task = t
         /\ Updated(p, t).plans = p.plans
         /\ Updated(p, t).children = p.children
         /\ Updated(p, t).refs = p.refs
         /\ Updated(p, t).att = p.att
         /\ Updated(p, t).integ = p.integ
  BY DEF IsProjection, Updated

LEMMA IntegratedFacts ==
  ASSUME NEW p, IsProjection(p), NEW c, NEW s
  PROVE  /\ DOMAIN Integrated(p, c, s) = DOMAIN p
         /\ Integrated(p, c, s).session = p.session
         /\ Integrated(p, c, s).epochs = p.epochs
         /\ Integrated(p, c, s).task = p.task
         /\ Integrated(p, c, s).plans = p.plans
         /\ Integrated(p, c, s).children = p.children
         /\ Integrated(p, c, s).refs = p.refs
         /\ Integrated(p, c, s).att = p.att
         /\ Integrated(p, c, s).integ = Replaced(p.integ, c, s)
  BY DEF IsProjection, Integrated, Replaced

\* What replaying an event does, by the type of the event.
LEMMA ReplayCases ==
  ASSUME NEW p, NEW e
  PROVE  /\ e.type = "session.epoch_registered" => ReplayEvent(p, e) = WithEpoch(p, e.id, e.version)
         /\ e.type = "task.updated" => ReplayEvent(p, e) = Updated(p, e.task)
         /\ e.type = "child_task.created" => ReplayEvent(p, e) = WithChild(p, e.id)
         /\ e.type = "plan.committed" => ReplayEvent(p, e) = WithPlan(p, e.id)
         /\ e.type = "worker.queued" => ReplayEvent(p, e) = WithAttempt(p, e.id, e.attempt)
         /\ e.type = "integration.recorded" => ReplayEvent(p, e) = Integrated(p, e.ref, e.status)
         /\ e.type \notin {"session.epoch_registered", "task.updated", "child_task.created",
                           "plan.committed", "worker.queued", "integration.recorded"} =>
               ReplayEvent(p, e) = p
  BY DEF ReplayEvent, Updated, Integrated
LEMMA PutType ==
  ASSUME NEW t, NEW S, DOMAIN t \subseteq Nat, IsFiniteSet(DOMAIN t), \A j \in DOMAIN t : t[j] \in S,
         NEW i \in Nat, NEW v \in S
  PROVE  /\ DOMAIN Put(t, i, v) \subseteq Nat /\ IsFiniteSet(DOMAIN Put(t, i, v))
         /\ i \in DOMAIN Put(t, i, v)
         /\ \A j \in DOMAIN Put(t, i, v) : Put(t, i, v)[j] \in S
  <1>1. DOMAIN Put(t, i, v) = DOMAIN t \cup {i}
    BY DEF Put
  <1>2. IsFiniteSet(DOMAIN t \cup {i})
    BY FS_AddElement
  <1>3. \A j \in DOMAIN t \cup {i} : Put(t, i, v)[j] \in S
    BY DEF Put
  <1> QED
    BY <1>1, <1>2, <1>3

LEMMA WithEpochType ==
  ASSUME NEW p, IsProjection(p), NEW e \in Nat \ {0}, NEW n \in Nat
  PROVE  IsProjection(WithEpoch(p, e, n))
  <1> DEFINE q == WithEpoch(p, e, n)
  <1> DEFINE S == [status : {"active", "released"}, version : Nat]
  <1>1. ActiveEpoch(n) \in S
    BY ActiveEpochType DEF IsEpoch
  <1>2. DOMAIN p.epochs \subseteq Nat /\ IsFiniteSet(DOMAIN p.epochs)
        /\ \A j \in DOMAIN p.epochs : p.epochs[j] \in S
    BY DEF IsProjection, IsEpoch
  <1>3. q.epochs = Put(p.epochs, e, ActiveEpoch(n))
    BY WithEpochFacts
  <1> HIDE DEF S
  <1>5. DOMAIN q.epochs \subseteq Nat /\ IsFiniteSet(DOMAIN q.epochs) /\ e \in DOMAIN q.epochs
        /\ \A j \in DOMAIN q.epochs : q.epochs[j] \in S
    BY <1>1, <1>2, <1>3, PutType
  <1>6. \A j \in DOMAIN q.epochs : IsEpoch(q.epochs[j])
    BY <1>5 DEF IsEpoch, S
  <1>7. IsSession(q.session) /\ q.session.active = e
    <2>1. IsSession(p.session) /\ q.session = Advanced(p.session, e)
      BY WithEpochFacts DEF IsProjection
    <2> QED
      BY <2>1, AdvancedType
  <1> QED
    BY <1>5, <1>6, <1>7, WithEpochFacts DEF IsProjection

LEMMA WithAttemptType ==
  ASSUME NEW p, IsProjection(p), NEW i \in Nat, NEW a, IsAttempt(a)
  PROVE  IsProjection(WithAttempt(p, i, a))
  <1> DEFINE q == WithAttempt(p, i, a)
  <1> DEFINE S == [child : Nat, status : AttemptStatus]
  <1>1. a \in S /\ DOMAIN p.att \subseteq Nat /\ IsFiniteSet(DOMAIN p.att)
        /\ \A j \in DOMAIN p.att : p.att[j] \in S
    BY DEF IsProjection, IsAttempt
  <1>2. q.att = Put(p.att, i, a)
    BY WithAttemptFacts
  <1> HIDE DEF S
  <1>3. DOMAIN q.att \subseteq Nat /\ IsFiniteSet(DOMAIN q.att)
        /\ \A j \in DOMAIN q.att : q.att[j] \in S
    BY <1>1, <1>2, PutType
  <1>4. \A j \in DOMAIN q.att : IsAttempt(q.att[j])
    BY <1>3 DEF IsAttempt, S
  <1> QED
    BY <1>3, <1>4, WithAttemptFacts DEF IsProjection

LEMMA WithChildType ==
  ASSUME NEW p, IsProjection(p), NEW c \in Nat
  PROVE  IsProjection(WithChild(p, c))
  <1> DEFINE q == WithChild(p, c)
  <1>1. q.children \subseteq Nat /\ IsFiniteSet(q.children)
    <2>1. p.children \subseteq Nat /\ IsFiniteSet(p.children)
      BY DEF IsProjection
    <2>2. q.children = Including(p.children, c)
      BY WithChildFacts
    <2> QED
      BY <2>1, <2>2, IncludingType
  <1> QED
    BY <1>1, WithChildFacts DEF IsProjection

LEMMA WithPlanType ==
  ASSUME NEW p, IsProjection(p), NEW n \in Nat
  PROVE  IsProjection(WithPlan(p, n))
  <1> DEFINE q == WithPlan(p, n)
  <1>1. q.plans \subseteq Nat /\ IsFiniteSet(q.plans)
    <2>1. p.plans \subseteq Nat /\ IsFiniteSet(p.plans)
      BY DEF IsProjection
    <2>2. q.plans = Including(p.plans, n)
      BY WithPlanFacts
    <2> QED
      BY <2>1, <2>2, IncludingType
  <1>2. q.task \in Task
    <2>1. p.task \in Task /\ q.task = PlannedAs(p.task, n)
      BY WithPlanFacts DEF IsProjection
    <2> QED
      BY <2>1, PlannedAsType
  <1> QED
    BY <1>1, <1>2, WithPlanFacts DEF IsProjection

LEMMA UpdatedType ==
  ASSUME NEW p, IsProjection(p), NEW t \in Task
  PROVE  IsProjection(Updated(p, t))
  BY UpdatedFacts DEF IsProjection

LEMMA IntegratedType ==
  ASSUME NEW p, IsProjection(p), NEW c \in Ref, NEW s \in IntegrationStatus
  PROVE  IsProjection(Integrated(p, c, s))
  <1>1. Replaced(p.integ, c, s) \in [Ref -> IntegrationStatus]
    BY DEF Replaced, IsProjection
  <1>2. Integrated(p, c, s).integ \in [Ref -> IntegrationStatus]
    BY <1>1, IntegratedFacts
  <1> QED
    BY <1>2, IntegratedFacts DEF IsProjection

LEMMA ReplayType ==
  ASSUME NEW p, IsProjection(p), NEW e, IsEvent(e)
  PROVE  IsProjection(ReplayEvent(p, e))
  <1>1. CASE e.type = "session.epoch_registered"
    BY <1>1, ReplayCases, WithEpochType DEF IsEvent
  <1>2. CASE e.type = "task.updated"
    BY <1>2, ReplayCases, UpdatedType DEF IsEvent
  <1>3. CASE e.type = "child_task.created"
    BY <1>3, ReplayCases, WithChildType DEF IsEvent
  <1>4. CASE e.type = "plan.committed"
    BY <1>4, ReplayCases, WithPlanType DEF IsEvent
  <1>5. CASE e.type = "worker.queued"
    BY <1>5, ReplayCases, WithAttemptType DEF IsEvent
  <1>6. CASE e.type = "integration.recorded"
    BY <1>6, ReplayCases, IntegratedType DEF IsEvent
  <1>7. CASE e.type \notin {"session.epoch_registered", "task.updated", "child_task.created",
                            "plan.committed", "worker.queued", "integration.recorded"}
    BY <1>7, ReplayCases
  <1> QED
    BY <1>1, <1>2, <1>3, <1>4, <1>5, <1>6, <1>7

LEMMA EventTypes ==
  /\ \A e, n : /\ EpochEvent(e, n).type = "session.epoch_registered"
               /\ EpochEvent(e, n).id = e /\ EpochEvent(e, n).version = n
  /\ \A t : TaskEvent(t).type = "task.updated" /\ TaskEvent(t).task = t
  /\ \A c : ChildEvent(c).type = "child_task.created" /\ ChildEvent(c).id = c
  /\ \A n : PlanEvent(n).type = "plan.committed" /\ PlanEvent(n).id = n
  /\ \A i, a : /\ AttemptEvent(i, a).type = "worker.queued"
               /\ AttemptEvent(i, a).id = i /\ AttemptEvent(i, a).attempt = a
  /\ \A c, s : /\ IntegrationEvent(c, s).type = "integration.recorded"
               /\ IntegrationEvent(c, s).ref = c /\ IntegrationEvent(c, s).status = s
  /\ \A e : ReleaseEvent(e).type = "controller_epoch.released"
  /\ Unreplayed.type = "unreplayed"
  BY DEF EpochEvent, TaskEvent, ChildEvent, PlanEvent, AttemptEvent, IntegrationEvent,
         ReleaseEvent, Unreplayed

\* The event of each kind, replayed.
LEMMA ReplayOf ==
  ASSUME NEW p
  PROVE  /\ \A e, n : ReplayEvent(p, EpochEvent(e, n)) = WithEpoch(p, e, n)
         /\ \A t : ReplayEvent(p, TaskEvent(t)) = Updated(p, t)
         /\ \A c : ReplayEvent(p, ChildEvent(c)) = WithChild(p, c)
         /\ \A n : ReplayEvent(p, PlanEvent(n)) = WithPlan(p, n)
         /\ \A i, a : ReplayEvent(p, AttemptEvent(i, a)) = WithAttempt(p, i, a)
         /\ \A c, s : ReplayEvent(p, IntegrationEvent(c, s)) = Integrated(p, c, s)
         /\ \A e : ReplayEvent(p, ReleaseEvent(e)) = p
         /\ ReplayEvent(p, Unreplayed) = p
  BY EventTypes, ReplayCases

LEMMA EventsTyped ==
  /\ \A e \in Nat \ {0}, n \in Nat : IsEvent(EpochEvent(e, n))
  /\ \A t \in Task : IsEvent(TaskEvent(t))
  /\ \A c \in Nat : IsEvent(ChildEvent(c))
  /\ \A n \in Nat \ {0} : IsEvent(PlanEvent(n))
  /\ \A i \in Nat : \A a : IsAttempt(a) => IsEvent(AttemptEvent(i, a))
  /\ \A c \in Ref, s \in IntegrationStatus : IsEvent(IntegrationEvent(c, s))
  /\ \A e : IsEvent(ReleaseEvent(e))
  /\ IsEvent(Unreplayed)
  BY EventTypes DEF IsEvent

\* A new id is larger than every one there is.
LEMMA FreshFacts ==
  ASSUME NEW S \in SUBSET Nat, IsFiniteSet(S)
  PROVE  Fresh(S) \in Nat \ {0} /\ \A i \in S : i < Fresh(S)
  <1>1. CASE S = {}
    BY <1>1 DEF Fresh
  <1>2. CASE S # {}
    <2> DEFINE m == CHOOSE x \in S : \A y \in S : x >= y
    <2>1. \E x \in S : \A y \in S : x >= y
      BY <1>2, LargestExists
    <2>2. m \in S /\ \A y \in S : m >= y
      BY <2>1
    <2>3. Fresh(S) = m + 1
      BY <1>2 DEF Fresh, Max
    <2> HIDE DEF m
    <2> QED
      BY <2>2, <2>3
  <1> QED
    BY <1>1, <1>2
-----------------------------------------------------------------------------
(* What the invariant says of projections.  k is the number of refused       *)
(* appends: some promises are only made while there is none.                 *)

\* As far as the journal tells them apart, two projections are the same.
Same(p, q) ==
    /\ p.session = q.session
    /\ DOMAIN p.epochs = DOMAIN q.epochs
    /\ \A e \in DOMAIN p.epochs : p.epochs[e].version = q.epochs[e].version
    /\ p.task = q.task /\ p.plans = q.plans /\ p.children = q.children
    /\ p.att = q.att /\ p.integ = q.integ

\* The task of m is the task of d or a later one.
Ahead(d, m) ==
    /\ m.task.status \in Reachable[d.task.status]
    /\ m.task.version >= d.task.version
    /\ d.task.plan # 0 => m.task.plan # 0
    /\ d.task.evidence # "missing" => m.task.evidence # "missing"

\* What an append may do to the journal's projection p.
Completes(p, q) == p.task.status # "completed" /\ q.task.status = "completed"
Moves(p, q, k) ==
    /\ Ahead(p, q)
    /\ q.session.version >= p.session.version
    /\ k = 0 /\ Completes(p, q) => FactsHold(p)

\* The question q is answered in p, as AnsweredMoveIsJournalled has it.
Done(q, p, k) ==
    /\ q.op \in DOMAIN Target => p.task.status \in Reachable[Target[q.op]]
    /\ q.op \in {"execute", "pause", "resume", "cancel", "evidence"} => p.task.version > q.version
    /\ q.op = "evidence" => p.task.evidence # "missing"
    /\ q.op = "plan" => p.task.plan # 0
    /\ q.op = "plan" /\ k = 0 => p.task.version > q.version
    /\ q.op \in {"register", "switch"} /\ k = 0 => p.session.version > q.version

\* One append takes the journal from p to q, in a handler that serves asked.
Appends(p, w, q, asked, k) ==
    /\ q = ReplayEvent(p, w.event)
    /\ Moves(p, q, k)
    /\ Ahead(q, w.mem)
    /\ w.keyed => Done(asked, q, k)

\* The appends ws take it from d to e.
Run(c, d, ws, e, asked, k) ==
    /\ c[0] = d /\ c[Len(ws)] = e
    /\ \A n \in 1..Len(ws) : Appends(c[n - 1], ws[n], c[n], asked, k)
Path(d, ws, e, asked, k) == \E c : Run(c, d, ws, e, asked, k)

\* The memory a handler with the appends ws leaves.
Final(m, ws) == IF ws = <<>> THEN m ELSE ws[Len(ws)].mem

\* A handler that will say told may serve asked with memory m and the appends ws.
Leaves(m, ws, e, k) == k = 0 => Same(e, Final(m, ws)) /\ ActiveIn(Final(m, ws))
Serves(d, m, ws, asked, told, k) ==
    \E e : /\ Path(d, ws, e, asked, k)
           /\ told = "done" => Done(asked, e, k)
           /\ Leaves(m, ws, e, k)

AllActive(p) == \A e \in DOMAIN p.epochs : p.epochs[e].status = "active"

Asked == IF current = Nobody THEN NotSent ELSE sent[current]

PathInv ==
    /\ Ahead(dur, mem)
    /\ AllActive(dur)
    /\ \A r \in recorded \cup answered : Done(sent[r], dur, refusals)
    /\ Serves(dur, mem, todo, Asked, reply, refusals)

-----------------------------------------------------------------------------
(* Paths *)

LEMMA NoAppends ==
  ASSUME NEW d, NEW asked, NEW k
  PROVE  Path(d, <<>>, d, asked, k)
  <1> DEFINE c == [n \in {0} |-> d]
  <1>1. c[0] = d
    OBVIOUS
  <1> HIDE DEF c
  <1>2. Len(<<>>) = 0 /\ 1..0 = {}
    OBVIOUS
  <1>3. Run(c, d, <<>>, d, asked, k)
    BY <1>1, <1>2 DEF Run
  <1> QED
    BY <1>3 DEF Path

LEMMA OneAppend ==
  ASSUME NEW d, NEW w, NEW e, NEW asked, NEW k, Appends(d, w, e, asked, k)
  PROVE  Path(d, <<w>>, e, asked, k)
  <1> DEFINE c == [n \in 0..1 |-> IF n = 0 THEN d ELSE e]
  <1> DEFINE ws == <<w>>
  <1>1. c[0] = d /\ c[1] = e
    OBVIOUS
  <1>2. Len(ws) = 1 /\ ws[1] = w
    OBVIOUS
  <1> HIDE DEF c, ws
  <1>3. Run(c, d, ws, e, asked, k)
    BY <1>1, <1>2 DEF Run
  <1> QED
    BY <1>3 DEF Path, ws

LEMMA ConcatFacts ==
  ASSUME NEW s, IsSequence(s), NEW t, IsSequence(t)
  PROVE  /\ IsSequence(s \o t)
         /\ Len(s \o t) = Len(s) + Len(t)
         /\ Len(s) \in Nat /\ Len(t) \in Nat
         /\ \A n \in 1..Len(s) : (s \o t)[n] = s[n]
         /\ \A n \in 1..Len(t) : (s \o t)[Len(s) + n] = t[n]
  <1> DEFINE S == Elements(s) \cup Elements(t)
  <1>1. s \in [1..Len(s) -> Elements(s)] /\ Len(s) \in Nat
    BY LenProperties DEF IsSequence
  <1>2. t \in [1..Len(t) -> Elements(t)] /\ Len(t) \in Nat
    BY LenProperties DEF IsSequence
  <1>3. s \in Seq(S) /\ t \in Seq(S)
    <2>1. \A i \in 1..Len(s) : s[i] \in S
      BY <1>1
    <2>2. \A i \in 1..Len(t) : t[i] \in S
      BY <1>2
    <2> HIDE DEF S
    <2>3. s \in [1..Len(s) -> S] /\ t \in [1..Len(t) -> S]
      BY <1>1, <1>2, <2>1, <2>2
    <2> QED
      BY <2>3, <1>1, <1>2
  <1> HIDE DEF S
  <1>4. s \o t \in Seq(S) /\ Len(s \o t) = Len(s) + Len(t)
        /\ \A i \in 1..Len(s) + Len(t) :
              (s \o t)[i] = IF i <= Len(s) THEN s[i] ELSE t[i - Len(s)]
    BY <1>3, ConcatProperties
  <1>5. IsSequence(s \o t)
    BY <1>4, SequenceOver
  <1>6. ASSUME NEW n \in 1..Len(s)
        PROVE  (s \o t)[n] = s[n]
    BY <1>1, <1>2, <1>4
  <1>7. ASSUME NEW n \in 1..Len(t)
        PROVE  (s \o t)[Len(s) + n] = t[n]
    <2>1. Len(s) + n \in 1..Len(s) + Len(t) /\ ~(Len(s) + n <= Len(s))
          /\ (Len(s) + n) - Len(s) = n
      BY <1>1, <1>2
    <2> QED
      BY <2>1, <1>4
  <1> QED
    BY <1>1, <1>2, <1>4, <1>5, <1>6, <1>7

LEMMA MoreAppends ==
  ASSUME NEW d, NEW vs, IsSequence(vs), NEW f, NEW ws, IsSequence(ws), NEW e, NEW asked, NEW k,
         Path(d, vs, f, asked, k), Path(f, ws, e, asked, k)
  PROVE  Path(d, vs \o ws, e, asked, k)
  <1>1. PICK a : Run(a, d, vs, f, asked, k)
    BY DEF Path
  <1>2. PICK b : Run(b, f, ws, e, asked, k)
    BY DEF Path
  <1> DEFINE l == Len(vs)
  <1> DEFINE c == [n \in 0..l + Len(ws) |-> IF n <= l THEN a[n] ELSE b[n - l]]
  <1> DEFINE us == vs \o ws
  <1>3. /\ IsSequence(us) /\ Len(us) = l + Len(ws) /\ l \in Nat /\ Len(ws) \in Nat
        /\ \A n \in 1..l : us[n] = vs[n]
        /\ \A n \in 1..Len(ws) : us[l + n] = ws[n]
    BY ConcatFacts
  <1>4. \A n \in 0..l : c[n] = a[n]
    BY <1>3
  <1>5. a[l] = f /\ b[0] = f /\ a[0] = d /\ b[Len(ws)] = e
    BY <1>1, <1>2 DEF Run
  <1>6. \A n \in 0..Len(ws) : c[l + n] = b[n]
    <2>1. ASSUME NEW n \in 0..Len(ws)
          PROVE  c[l + n] = b[n]
      <3>1. CASE n = 0
        BY <3>1, <1>3, <1>5
      <3>2. CASE n # 0
        <4>1. l + n \in 0..l + Len(ws) /\ ~(l + n <= l) /\ (l + n) - l = n
          BY <3>2, <1>3
        <4> QED
          BY <4>1
      <3> QED
        BY <3>1, <3>2
    <2> QED
      BY <2>1
  <1> HIDE DEF c, us, l
  <1>7. ASSUME NEW n \in 1..Len(us)
        PROVE  Appends(c[n - 1], us[n], c[n], asked, k)
    <2>1. CASE n <= l
      <3>1. n \in 1..l /\ n \in 0..l /\ n - 1 \in 0..l
        BY <2>1, <1>3
      <3>2. c[n - 1] = a[n - 1] /\ c[n] = a[n] /\ us[n] = vs[n]
        BY <3>1, <1>3, <1>4
      <3>3. Appends(a[n - 1], vs[n], a[n], asked, k)
        BY <3>1, <1>1 DEF Run, l
      <3> QED
        BY <3>2, <3>3
    <2>2. CASE ~(n <= l)
      <3> DEFINE m == n - l
      <3>1. m \in 1..Len(ws) /\ m \in 0..Len(ws) /\ m - 1 \in 0..Len(ws)
            /\ n = l + m /\ n - 1 = l + (m - 1)
        BY <2>2, <1>3
      <3> HIDE DEF m
      <3>2. c[n - 1] = b[m - 1] /\ c[n] = b[m] /\ us[n] = ws[m]
        BY <3>1, <1>3, <1>6
      <3>3. Appends(b[m - 1], ws[m], b[m], asked, k)
        BY <3>1, <1>2 DEF Run
      <3> QED
        BY <3>2, <3>3
    <2> QED
      BY <2>1, <2>2
  <1>8. c[0] = d /\ c[Len(us)] = e
    BY <1>3, <1>4, <1>5, <1>6
  <1>9. Run(c, d, us, e, asked, k)
    BY <1>7, <1>8 DEF Run
  <1> QED
    BY <1>9 DEF Path, us

LEMMA FirstAppend ==
  ASSUME NEW d, NEW ws, IsSequence(ws), ws # <<>>, NEW e, NEW asked, NEW k,
         Path(d, ws, e, asked, k)
  PROVE  LET f == ReplayEvent(d, Head(ws).event)
         IN Appends(d, Head(ws), f, asked, k) /\ Path(f, Tail(ws), e, asked, k)
  <1>1. PICK a : Run(a, d, ws, e, asked, k)
    BY DEF Path
  <1> DEFINE l == Len(ws)
  <1> DEFINE us == Tail(ws)
  <1> DEFINE c == [n \in 0..l - 1 |-> a[n + 1]]
  <1>2. /\ l \in Nat \ {0} /\ Head(ws) = ws[1] /\ Len(us) = l - 1
        /\ \A i \in 1..l - 1 : us[i] = ws[i + 1]
    BY TailFacts
  <1>3. \A n \in 0..l - 1 : c[n] = a[n + 1]
    OBVIOUS
  <1>4. a[0] = d /\ a[l] = e /\ \A n \in 1..l : Appends(a[n - 1], ws[n], a[n], asked, k)
    BY <1>1 DEF Run
  <1> HIDE DEF c, us, l
  <1>5. Appends(d, ws[1], a[1], asked, k)
    <2>1. 1 \in 1..l /\ 1 - 1 = 0
      BY <1>2
    <2> QED
      BY <2>1, <1>4
  <1>6. a[1] = ReplayEvent(d, ws[1].event)
    BY <1>5 DEF Appends
  <1>7. ASSUME NEW n \in 1..Len(us)
        PROVE  Appends(c[n - 1], us[n], c[n], asked, k)
    <2>1. n \in 1..l - 1 /\ n + 1 \in 1..l /\ n \in 0..l - 1 /\ n - 1 \in 0..l - 1
          /\ (n + 1) - 1 = n /\ (n - 1) + 1 = n
      BY <1>2
    <2>2. c[n - 1] = a[n] /\ c[n] = a[n + 1] /\ us[n] = ws[n + 1]
      BY <2>1, <1>2, <1>3
    <2>3. Appends(a[n], ws[n + 1], a[n + 1], asked, k)
      BY <2>1, <1>4
    <2> QED
      BY <2>2, <2>3
  <1>8. c[0] = a[1] /\ c[Len(us)] = e
    BY <1>2, <1>3, <1>4
  <1>9. Run(c, a[1], us, e, asked, k)
    BY <1>7, <1>8 DEF Run
  <1>10. Path(a[1], us, e, asked, k)
    BY <1>9 DEF Path
  <1> QED
    BY <1>2, <1>5, <1>6, <1>10 DEF us
-----------------------------------------------------------------------------
(* What two projections keep in common *)

LEMMA SameRefl ==
  ASSUME NEW p
  PROVE  Same(p, p)
  BY DEF Same

LEMMA SameUpdated ==
  ASSUME NEW p, IsProjection(p), NEW q, IsProjection(q), Same(p, q), NEW t
  PROVE  Same(Updated(p, t), Updated(q, t))
  BY UpdatedFacts DEF Same

LEMMA SameWithEpoch ==
  ASSUME NEW p, IsProjection(p), NEW q, IsProjection(q), Same(p, q), NEW e, NEW n
  PROVE  Same(WithEpoch(p, e, n), WithEpoch(q, e, n))
  <1> DEFINE f == WithEpoch(p, e, n)
  <1> DEFINE g == WithEpoch(q, e, n)
  <1>1. f.epochs = Put(p.epochs, e, ActiveEpoch(n)) /\ g.epochs = Put(q.epochs, e, ActiveEpoch(n))
    BY WithEpochFacts
  <1>2. DOMAIN p.epochs = DOMAIN q.epochs
        /\ \A j \in DOMAIN p.epochs : p.epochs[j].version = q.epochs[j].version
    BY DEF Same
  <1>3. DOMAIN f.epochs = DOMAIN g.epochs
        /\ \A j \in DOMAIN f.epochs : f.epochs[j].version = g.epochs[j].version
    BY <1>1, <1>2 DEF Put
  <1>4. f.session = g.session
    BY WithEpochFacts DEF Same
  <1>5. /\ f.task = g.task /\ f.plans = g.plans /\ f.children = g.children
        /\ f.att = g.att /\ f.integ = g.integ
    BY WithEpochFacts DEF Same
  <1> HIDE DEF f, g
  <1>6. Same(f, g)
    BY <1>3, <1>4, <1>5 DEF Same
  <1> QED
    BY <1>6 DEF f, g

LEMMA SameWithAttempt ==
  ASSUME NEW p, IsProjection(p), NEW q, IsProjection(q), Same(p, q), NEW i, NEW a
  PROVE  Same(WithAttempt(p, i, a), WithAttempt(q, i, a))
  BY WithAttemptFacts DEF Same

LEMMA SameIntegrated ==
  ASSUME NEW p, IsProjection(p), NEW q, IsProjection(q), Same(p, q), NEW c, NEW s
  PROVE  Same(Integrated(p, c, s), Integrated(q, c, s))
  BY IntegratedFacts DEF Same

LEMMA SameFacts ==
  ASSUME NEW p, NEW q, Same(p, q), FactsHold(q)
  PROVE  FactsHold(p)
  BY DEF Same, FactsHold, OfTask

LEMMA AheadRefl ==
  ASSUME NEW p, IsProjection(p), NEW q, IsProjection(q), p.task = q.task
  PROVE  Ahead(p, q)
  <1>1. p.task.status \in Statuses /\ p.task.version \in Nat
    BY DEF IsProjection, Task
  <1> QED
    BY <1>1, ReachRefl DEF Ahead

LEMMA AheadSame ==
  ASSUME NEW d, NEW m, Ahead(d, m), NEW e, NEW n, e.task = d.task, n.task = m.task
  PROVE  Ahead(e, n)
  BY DEF Ahead

\* Only these requests move the task, each to a status of its own.
LEMMA TargetFacts ==
  /\ DOMAIN Target = {"plan", "execute", "pause", "resume", "cancel"}
  /\ Target["plan"] = "planned" /\ Target["execute"] = "running"
  /\ Target["pause"] = "paused" /\ Target["resume"] = "running"
  /\ Target["cancel"] = "cancelled"
  /\ \A o \in DOMAIN Target : Target[o] \in Statuses
  BY DEF Target, Statuses, Live, Terminal

\* What is answered stays so.
LEMMA DoneStays ==
  ASSUME NEW p, IsProjection(p), NEW q, IsProjection(q), NEW k, Moves(p, q, k),
         NEW asked, IsQuestion(asked), Done(asked, p, k)
  PROVE  Done(asked, q, k)
  <1>1. /\ p.task.version \in Nat /\ q.task.version \in Nat
        /\ p.session.version \in Nat /\ q.session.version \in Nat /\ asked.version \in Nat
    BY DEF IsProjection, Task, IsSession, IsQuestion
  <1>2. /\ q.task.version >= p.task.version /\ q.session.version >= p.session.version
        /\ p.task.plan # 0 => q.task.plan # 0
        /\ p.task.evidence # "missing" => q.task.evidence # "missing"
        /\ q.task.status \in Reachable[p.task.status]
    BY DEF Moves, Ahead
  <1>3. ASSUME asked.op \in DOMAIN Target
        PROVE  q.task.status \in Reachable[Target[asked.op]]
    <2>1. Target[asked.op] \in Statuses /\ p.task.status \in Reachable[Target[asked.op]]
      BY <1>3, TargetFacts DEF Done
    <2> QED
      BY <2>1, <1>2, ReachTrans
  <1> QED
    BY <1>1, <1>2, <1>3 DEF Done

\* An append that leaves the task and the session as they are.
LEMMA MovesNothing ==
  ASSUME NEW p, IsProjection(p), NEW q, IsProjection(q), q.task = p.task, q.session = p.session,
         NEW k
  PROVE  Moves(p, q, k)
  <1>1. p.session.version \in Nat
    BY DEF IsProjection, IsSession
  <1> QED
    BY <1>1, AheadRefl DEF Moves, Completes

LEMMA NotAsked ==
  ASSUME NEW p, NEW k
  PROVE  Done(NotSent, p, k)
  BY TargetFacts DEF Done, NotSent

-----------------------------------------------------------------------------
(* Lists of writes *)

LEMMA WorkNone ==
  IsWork(<<>>)
  BY ShortSequences DEF IsWork

LEMMA WorkOne ==
  ASSUME NEW w, IsWrite(w)
  PROVE  IsWork(<<w>>) /\ <<w>> # <<>>
  <1> DEFINE ws == <<w>>
  <1>1. IsSequence(ws) /\ Len(ws) = 1 /\ ws[1] = w
    BY ShortSequences
  <1>2. ws # <<>>
    OBVIOUS
  <1> HIDE DEF ws
  <1>3. IsWork(ws)
    BY <1>1 DEF IsWork
  <1> QED
    BY <1>2, <1>3 DEF ws

LEMMA WorkMore ==
  ASSUME NEW vs, IsWork(vs), NEW ws, IsWork(ws)
  PROVE  IsWork(vs \o ws)
  <1> DEFINE us == vs \o ws
  <1>1. /\ IsSequence(us) /\ Len(us) = Len(vs) + Len(ws) /\ Len(vs) \in Nat /\ Len(ws) \in Nat
        /\ \A n \in 1..Len(vs) : us[n] = vs[n]
        /\ \A n \in 1..Len(ws) : us[Len(vs) + n] = ws[n]
    BY ConcatFacts DEF IsWork
  <1> HIDE DEF us
  <1>2. ASSUME NEW n \in 1..Len(us)
        PROVE  IsWrite(us[n])
    <2>1. CASE n <= Len(vs)
      BY <2>1, <1>1 DEF IsWork
    <2>2. CASE ~(n <= Len(vs))
      <3>1. n - Len(vs) \in 1..Len(ws) /\ Len(vs) + (n - Len(vs)) = n
        BY <2>2, <1>1
      <3>2. us[n] = ws[n - Len(vs)]
        BY <3>1, <1>1
      <3> QED
        BY <3>1, <3>2 DEF IsWork
    <2> QED
      BY <2>1, <2>2
  <1> QED
    BY <1>1, <1>2 DEF IsWork, us

LEMMA WorkTail ==
  ASSUME NEW ws, IsWork(ws), ws # <<>>
  PROVE  IsWork(Tail(ws)) /\ IsWrite(Head(ws))
  <1> DEFINE us == Tail(ws)
  <1>1. /\ Len(ws) \in Nat \ {0} /\ Head(ws) = ws[1] /\ IsSequence(us) /\ Len(us) = Len(ws) - 1
        /\ \A i \in 1..Len(ws) - 1 : us[i] = ws[i + 1]
    BY TailFacts DEF IsWork
  <1>2. \A n \in 1..Len(ws) : IsWrite(ws[n])
    BY DEF IsWork
  <1> HIDE DEF us
  <1>3. ASSUME NEW n \in 1..Len(us)
        PROVE  IsWrite(us[n])
    <2>1. us[n] = ws[n + 1] /\ n + 1 \in 1..Len(ws)
      BY <1>1
    <2> QED
      BY <2>1, <1>2
  <1> QED
    BY <1>1, <1>2, <1>3 DEF IsWork, us

LEMMA TwoAsOne ==
  ASSUME NEW v, NEW w
  PROVE  <<v, w>> = <<v>> \o <<w>>
  <1> DEFINE s == <<v>>
             t == <<w>>
             u == <<v, w>>
             S == {v, w}
  <1>1. /\ s \in Seq(S) /\ Len(s) = 1 /\ s[1] = v
        /\ t \in Seq(S) /\ Len(t) = 1 /\ t[1] = w
    OBVIOUS
  <1>2. u \in Seq(S) /\ Len(u) = 2 /\ u[1] = v /\ u[2] = w
    OBVIOUS
  <1> HIDE DEF s, t, u, S
  <1>3. /\ s \o t \in Seq(S) /\ Len(s \o t) = 2
        /\ (s \o t)[1] = v /\ (s \o t)[2] = w
    BY <1>1, ConcatProperties
  <1>4. \A i \in 1..2 : i = 1 \/ i = 2
    OBVIOUS
  <1>5. \A i \in 1..Len(u) : (s \o t)[i] = u[i]
    BY <1>2, <1>3, <1>4
  <1>6. s \o t = u
    BY <1>2, <1>3, <1>5, SeqEqual
  <1> QED
    BY <1>6 DEF s, t, u

LEMMA FinalFacts ==
  /\ \A m : Final(m, <<>>) = m
  /\ \A m, w : Final(m, <<w>>) = w.mem
  /\ \A m, v, w : Final(m, <<v, w>>) = w.mem
  BY DEF Final

LEMMA FinalTail ==
  ASSUME NEW m, NEW ws, IsSequence(ws), ws # <<>>
  PROVE  Final(m, ws) = Final(Head(ws).mem, Tail(ws))
  <1> DEFINE us == Tail(ws)
  <1>1. /\ Len(ws) \in Nat \ {0} /\ Head(ws) = ws[1] /\ IsSequence(us) /\ Len(us) = Len(ws) - 1
        /\ \A i \in 1..Len(ws) - 1 : us[i] = ws[i + 1]
    BY TailFacts
  <1>2. us = <<>> <=> Len(us) = 0
    BY <1>1, EmptySeq DEF IsSequence
  <1> HIDE DEF us
  <1>3. CASE Len(ws) = 1
    <2>1. us = <<>>
      BY <1>1, <1>2, <1>3
    <2> QED
      BY <2>1, <1>1, <1>3 DEF Final, us
  <1>4. CASE Len(ws) # 1
    <2>1. us # <<>> /\ us[Len(us)] = ws[Len(ws)]
      BY <1>1, <1>2, <1>4
    <2> QED
      BY <2>1, <1>1 DEF Final, us
  <1> QED
    BY <1>3, <1>4

LEMMA FinalMore ==
  ASSUME NEW m, NEW vs, IsSequence(vs), NEW ws, IsSequence(ws), ws # <<>>
  PROVE  Final(m, vs \o ws) = ws[Len(ws)].mem
  <1> DEFINE us == vs \o ws
  <1>1. /\ IsSequence(us) /\ Len(us) = Len(vs) + Len(ws) /\ Len(vs) \in Nat /\ Len(ws) \in Nat
        /\ \A n \in 1..Len(ws) : us[Len(vs) + n] = ws[n]
    BY ConcatFacts
  <1>2. Len(ws) # 0
    BY EmptySeq DEF IsSequence
  <1>3. us # <<>>
    <2>1. Len(<<>>) = 0
      OBVIOUS
    <2> QED
      BY <2>1, <1>1, <1>2
  <1>4. us[Len(us)] = ws[Len(ws)]
    BY <1>1, <1>2
  <1> HIDE DEF us
  <1> QED
    BY <1>3, <1>4 DEF Final, us
-----------------------------------------------------------------------------
(* Serving a request *)

\* Between two requests.
AtRest ==
    /\ IsProjection(mem) /\ IsProjection(dur)
    /\ Ahead(dur, mem) /\ AllActive(dur)
    /\ refusals = 0 => Same(dur, mem) /\ ActiveIn(mem)

\* To serve the question q with memory m and the appends ws is sound.
Sound(q, m, ws, told) ==
    /\ IsProjection(m) /\ IsWork(ws) /\ told \in {"done", "refused", "failed"}
    /\ Ahead(dur, m)
    /\ Serves(dur, m, ws, q, told, refusals)
Handled(r, q) == \E m, ws, told : Serve(r, m, ws, told) /\ Sound(q, m, ws, told)

LEMMA NoWork ==
  ASSUME NEW d, NEW e, NEW asked, NEW k, Path(d, <<>>, e, asked, k)
  PROVE  e = d
  <1>1. Len(<<>>) = 0
    OBVIOUS
  <1> QED
    BY <1>1 DEF Path, Run

LEMMA RestFacts ==
  ASSUME TypeInv, PathInv, Idle
  PROVE  AtRest
  <1>1. todo = <<>>
    BY DEF TypeInv, Idle
  <1>2. PICK e : Path(dur, todo, e, Asked, refusals) /\ Leaves(mem, todo, e, refusals)
    BY DEF PathInv, Serves
  <1>3. e = dur /\ Final(mem, todo) = mem
    BY <1>1, <1>2, NoWork, FinalFacts
  <1> QED
    BY <1>2, <1>3 DEF AtRest, TypeInv, PathInv, Leaves

\* An answer without appends.
LEMMA ServesNothing ==
  ASSUME AtRest, NEW r, NEW q, NEW told \in {"done", "refused", "failed"},
         told = "done" => Done(q, dur, refusals), Serve(r, mem, <<>>, told)
  PROVE  Handled(r, q)
  <1>1. Path(dur, <<>>, dur, q, refusals)
    BY NoAppends
  <1>2. Leaves(mem, <<>>, dur, refusals)
    BY FinalFacts DEF Leaves, AtRest
  <1>3. Serves(dur, mem, <<>>, q, told, refusals)
    BY <1>1, <1>2 DEF Serves
  <1>4. Sound(q, mem, <<>>, told)
    BY <1>3, WorkNone DEF Sound, AtRest
  <1> QED
    BY <1>4 DEF Handled

LEMMA Refuses ==
  ASSUME AtRest, NEW r, NEW q, Refuse(r)
  PROVE  Handled(r, q)
  BY ServesNothing DEF Refuse

LEMMA Repeats ==
  ASSUME TypeInv, PathInv, AtRest, NEW r, NEW q, q \in Asks(r), Repeat(r)
  PROVE  Handled(r, q)
  <1>1. r \in recorded /\ sent[r] # NotSent /\ Done(sent[r], dur, refusals)
    BY DEF Repeat, TypeInv, PathInv
  <1>2. q = sent[r]
    BY <1>1 DEF Asks
  <1> QED
    BY <1>1, <1>2, ServesNothing DEF Repeat

\* One append, and two.
LEMMA ServesOne ==
  ASSUME NEW d, NEW m, NEW w, NEW e, NEW asked, NEW k, NEW told,
         Appends(d, w, e, asked, k), told = "done" => Done(asked, e, k),
         k = 0 => Same(e, w.mem) /\ ActiveIn(w.mem)
  PROVE  Serves(d, m, <<w>>, asked, told, k)
  <1> DEFINE ws == <<w>>
  <1>1. Path(d, ws, e, asked, k)
    BY OneAppend
  <1>2. Final(m, ws) = w.mem
    BY FinalFacts
  <1> HIDE DEF ws
  <1>3. Serves(d, m, ws, asked, told, k)
    BY <1>1, <1>2 DEF Serves, Leaves
  <1> QED
    BY <1>3 DEF ws

LEMMA ServesTwo ==
  ASSUME NEW d, NEW m, NEW v, NEW f, NEW w, NEW e, NEW asked, NEW k, NEW told,
         Appends(d, v, f, asked, k), Appends(f, w, e, asked, k),
         told = "done" => Done(asked, e, k),
         k = 0 => Same(e, w.mem) /\ ActiveIn(w.mem)
  PROVE  Serves(d, m, <<v, w>>, asked, told, k)
  <1> DEFINE ws == <<v, w>>
  <1>1. Path(d, <<v>>, f, asked, k) /\ Path(f, <<w>>, e, asked, k)
    BY OneAppend
  <1>2. Path(d, <<v>> \o <<w>>, e, asked, k)
    BY <1>1, MoreAppends, ShortSequences
  <1>3. Path(d, ws, e, asked, k)
    BY <1>2, TwoAsOne
  <1>4. Final(m, ws) = w.mem
    BY FinalFacts
  <1> HIDE DEF ws
  <1>5. Serves(d, m, ws, asked, told, k)
    BY <1>3, <1>4 DEF Serves, Leaves
  <1> QED
    BY <1>5 DEF ws

LEMMA WorkTwo ==
  ASSUME NEW v, IsWrite(v), NEW w, IsWrite(w)
  PROVE  IsWork(<<v, w>>)
  BY WorkOne, WorkMore, TwoAsOne

-----------------------------------------------------------------------------
(* Epochs *)

LEMMA RegisterFacts ==
  ASSUME NEW p, IsProjection(p), AllActive(p), NEW e \in Nat \ {0}, NEW n \in Nat
  PROVE  /\ AllActive(WithEpoch(p, e, n))
         /\ ActiveIn(WithEpoch(p, e, n))
         /\ WithEpoch(p, e, n).task = p.task
         /\ WithEpoch(p, e, n).session.version = p.session.version + 1
  <1> DEFINE q == WithEpoch(p, e, n)
  <1>1. q.epochs = Put(p.epochs, e, ActiveEpoch(n)) /\ q.session = Advanced(p.session, e)
        /\ q.task = p.task
    BY WithEpochFacts
  <1>2. IsSession(p.session)
    BY DEF IsProjection
  <1>3. q.session.active = e /\ q.session.version = p.session.version + 1
    BY <1>1, <1>2, AdvancedType
  <1>4. ActiveEpoch(n).status = "active"
    BY ActiveEpochType
  <1>5. e \in DOMAIN q.epochs /\ q.epochs[e].status = "active"
    BY <1>1, <1>4 DEF Put
  <1>6. \A j \in DOMAIN q.epochs : q.epochs[j].status = "active"
    BY <1>1, <1>4 DEF Put, AllActive
  <1> QED
    BY <1>1, <1>3, <1>5, <1>6 DEF AllActive, ActiveIn

\* The same, in memory: epochs that were released may be there.
LEMMA RegisteredIsActive ==
  ASSUME NEW p, IsProjection(p), NEW e \in Nat \ {0}, NEW n \in Nat
  PROVE  ActiveIn(WithEpoch(p, e, n))
  <1> DEFINE q == WithEpoch(p, e, n)
  <1>1. q.epochs = Put(p.epochs, e, ActiveEpoch(n)) /\ q.session = Advanced(p.session, e)
    BY WithEpochFacts
  <1>2. IsSession(p.session)
    BY DEF IsProjection
  <1>3. q.session.active = e
    BY <1>1, <1>2, AdvancedType
  <1>4. ActiveEpoch(n).status = "active"
    BY ActiveEpochType
  <1>5. e \in DOMAIN q.epochs /\ q.epochs[e].status = "active"
    BY <1>1, <1>4 DEF Put
  <1> QED
    BY <1>3, <1>5 DEF ActiveIn

LEMMA WithReleaseFacts ==
  ASSUME NEW p, IsProjection(p), NEW o \in DOMAIN p.epochs
  PROVE  IsProjection(WithRelease(p, o)) /\ Same(p, WithRelease(p, o))
         /\ WithRelease(p, o).task = p.task
  <1> DEFINE q == WithRelease(p, o)
  <1> DEFINE x == [p.epochs EXCEPT ![o].status = "released"]
  <1>1. /\ DOMAIN q = DOMAIN p /\ q.session = p.session /\ q.epochs = x /\ q.task = p.task
        /\ q.plans = p.plans /\ q.children = p.children /\ q.refs = p.refs
        /\ q.att = p.att /\ q.integ = p.integ
    BY DEF IsProjection, WithRelease
  <1>2. DOMAIN x = DOMAIN p.epochs
        /\ \A j \in DOMAIN x : IsEpoch(x[j]) /\ x[j].version = p.epochs[j].version
    BY DEF IsProjection, IsEpoch
  <1> HIDE DEF q, x
  <1>3. IsProjection(q)
    BY <1>1, <1>2 DEF IsProjection
  <1>4. Same(p, q)
    BY <1>1, <1>2 DEF Same
  <1> QED
    BY <1>1, <1>3, <1>4 DEF q

\* The append that registers an epoch.
LEMMA EpochAppend ==
  ASSUME AtRest, NEW q, q.op \in SessionOperation, q.version = mem.session.version,
         NEW p, IsProjection(p), p.task = mem.task, refusals = 0 => Same(dur, p),
         NEW e \in Nat \ {0}, NEW n \in Nat
  PROVE  LET m == WithEpoch(p, e, n)
             w == Write(EpochEvent(e, n), TRUE, m)
             f == WithEpoch(dur, e, n)
         IN /\ IsWrite(w) /\ w.mem = m /\ IsProjection(m) /\ Ahead(dur, m)
            /\ Appends(dur, w, f, q, refusals)
            /\ Done(q, f, refusals)
            /\ refusals = 0 => Same(f, m) /\ ActiveIn(m)
  <1> DEFINE m == WithEpoch(p, e, n)
             w == Write(EpochEvent(e, n), TRUE, m)
             f == WithEpoch(dur, e, n)
  <1>1. w.event = EpochEvent(e, n) /\ w.mem = m
    BY DEF Write
  <1> HIDE DEF w
  <1>2. IsProjection(m) /\ IsProjection(f) /\ IsProjection(dur) /\ IsEvent(EpochEvent(e, n))
    BY WithEpochType, EventsTyped DEF AtRest
  <1>3. ActiveIn(m) /\ m.task = mem.task /\ f.task = dur.task
        /\ f.session.version = dur.session.version + 1
    <2>1. ActiveIn(m)
      BY RegisteredIsActive
    <2>2. m.task = p.task
      BY WithEpochFacts
    <2>3. IsProjection(dur) /\ AllActive(dur)
      BY DEF AtRest
    <2>4. f.task = dur.task /\ f.session.version = dur.session.version + 1
      BY <2>3, RegisterFacts
    <2> QED
      BY <2>1, <2>2, <2>4
  <1>4. Ahead(dur, m) /\ Ahead(f, m)
    BY <1>3, AheadSame DEF AtRest
  <1>5. f = ReplayEvent(dur, w.event)
    <2>1. ReplayEvent(dur, EpochEvent(e, n)) = WithEpoch(dur, e, n)
      BY ReplayOf
    <2> QED
      BY <1>1, <2>1
  <1>6. dur.session.version \in Nat
    BY <1>2 DEF IsProjection, IsSession
  <1>7. Moves(dur, f, refusals)
    <2>1. Ahead(dur, f)
      BY <1>2, <1>3, AheadRefl
    <2>2. f.session.version >= dur.session.version /\ ~Completes(dur, f)
      BY <1>3, <1>6 DEF Completes
    <2> QED
      BY <2>1, <2>2 DEF Moves
  <1>8. Done(q, f, refusals)
    <2>1. refusals = 0 => dur.session.version = mem.session.version
      BY DEF AtRest, Same
    <2> QED
      BY <2>1, <1>3, <1>6, TargetFacts DEF Done, SessionOperation
  <1>9. refusals = 0 => Same(f, m)
    BY SameWithEpoch DEF AtRest
  <1> HIDE DEF m, w, f
  <1>10. Appends(dur, w, f, q, refusals)
    BY <1>1, <1>4, <1>5, <1>7, <1>8 DEF Appends
  <1>11. IsWrite(w)
    BY <1>1, <1>2 DEF IsWrite
  <1>12. /\ IsWrite(w) /\ w.mem = m /\ IsProjection(m) /\ Ahead(dur, m)
         /\ Appends(dur, w, f, q, refusals)
         /\ Done(q, f, refusals)
         /\ refusals = 0 => Same(f, m) /\ ActiveIn(m)
    BY <1>1, <1>2, <1>3, <1>4, <1>8, <1>9, <1>10, <1>11
  <1> QED
    BY <1>12 DEF m, w, f
LEMMA NewEpochFacts ==
  ASSUME AtRest
  PROVE  NewEpoch \in Nat \ {0}
  <1>1. DOMAIN mem.epochs \in SUBSET Nat /\ IsFiniteSet(DOMAIN mem.epochs)
    BY DEF AtRest, IsProjection
  <1> QED
    BY <1>1, FreshFacts DEF NewEpoch

LEMMA AddsEpoch ==
  ASSUME AtRest, NEW r, NEW q, q.op \in SessionOperation, q.version = mem.session.version,
         NEW n \in Nat, AddEpoch(r, n)
  PROVE  Handled(r, q)
  <1> DEFINE e == NewEpoch
             m == WithEpoch(mem, e, n)
             w == Write(EpochEvent(e, n), TRUE, m)
             f == WithEpoch(dur, e, n)
             ws == <<w>>
  <1>1. Serve(r, m, ws, "done")
    BY DEF AddEpoch
  <1>2. e \in Nat \ {0}
    BY NewEpochFacts
  <1>3. IsProjection(mem) /\ (refusals = 0 => Same(dur, mem))
    BY DEF AtRest
  <1>4. /\ IsWrite(w) /\ w.mem = m /\ IsProjection(m) /\ Ahead(dur, m)
        /\ Appends(dur, w, f, q, refusals)
        /\ Done(q, f, refusals)
        /\ refusals = 0 => Same(f, m) /\ ActiveIn(m)
    <2> HIDE DEF e
    <2> QED
      BY <1>2, <1>3, EpochAppend
  <1> HIDE DEF w, m, f
  <1>5. Serves(dur, m, ws, q, "done", refusals)
    BY <1>4, ServesOne
  <1>6. IsWork(ws)
    BY <1>4, WorkOne
  <1> HIDE DEF ws
  <1>7. Sound(q, m, ws, "done")
    BY <1>4, <1>5, <1>6 DEF Sound
  <1> QED
    BY <1>1, <1>7 DEF Handled

LEMMA ReplacesEpoch ==
  ASSUME AtRest, NEW r, NEW q, q.op \in SessionOperation, q.version = mem.session.version,
         mem.session.active # 0, ReplaceEpoch(r)
  PROVE  Handled(r, q)
  <1> DEFINE old == mem.session.active
             n == mem.epochs[old].version + 1
             p == WithRelease(mem, old)
             e == NewEpoch
             m == WithEpoch(p, e, n)
             v == Write(ReleaseEvent(old), FALSE, m)
             w == Write(EpochEvent(e, n), TRUE, m)
             f == WithEpoch(dur, e, n)
             ws == <<v, w>>
  <1>1. Serve(r, p, ws, "done")
    BY DEF ReplaceEpoch
  <1>2. e \in Nat \ {0}
    BY NewEpochFacts
  <1>3. old \in DOMAIN mem.epochs /\ IsProjection(mem) /\ IsProjection(dur)
        /\ (refusals = 0 => Same(dur, mem))
    BY DEF AtRest, IsProjection
  <1>4. n \in Nat
    BY <1>3 DEF IsProjection, IsEpoch
  <1>5. IsProjection(p) /\ Same(mem, p) /\ p.task = mem.task
    BY <1>3, WithReleaseFacts
  <1>6. refusals = 0 => Same(dur, p)
    <2> HIDE DEF p
    <2> QED
      BY <1>3, <1>5 DEF Same
  <1>7. v.event = ReleaseEvent(old) /\ v.mem = m /\ v.keyed = FALSE
    BY DEF Write
  <1> HIDE DEF v
  <1>8. /\ IsWrite(w) /\ w.mem = m /\ IsProjection(m) /\ Ahead(dur, m)
        /\ Appends(dur, w, f, q, refusals)
        /\ Done(q, f, refusals)
        /\ refusals = 0 => Same(f, m) /\ ActiveIn(m)
    <2> HIDE DEF e, n, p
    <2> QED
      BY <1>2, <1>4, <1>5, <1>6, EpochAppend
  <1>9. IsWrite(v)
    <2>1. IsEvent(ReleaseEvent(old))
      BY EventsTyped
    <2> HIDE DEF m, old
    <2> QED
      BY <2>1, <1>7, <1>8 DEF IsWrite
  <1>10. Appends(dur, v, dur, q, refusals)
    <2>1. ReplayEvent(dur, ReleaseEvent(old)) = dur
      BY ReplayOf
    <2>2. Moves(dur, dur, refusals)
      BY <1>3, MovesNothing
    <2> HIDE DEF m, old
    <2> QED
      BY <2>1, <2>2, <1>7, <1>8 DEF Appends
  <1>11. Ahead(dur, p)
    BY <1>5, AheadSame DEF AtRest
  <1> HIDE DEF w, m, f, p
  <1>12. Serves(dur, p, ws, q, "done", refusals)
    BY <1>8, <1>10, ServesTwo
  <1>13. IsWork(ws)
    BY <1>8, <1>9, WorkTwo
  <1> HIDE DEF ws
  <1>14. Sound(q, p, ws, "done")
    BY <1>5, <1>11, <1>12, <1>13 DEF Sound
  <1> QED
    BY <1>1, <1>14 DEF Handled

LEMMA Registers ==
  ASSUME AtRest, NEW r, NEW q, q.op = "register", Register(r, q.version)
  PROVE  Handled(r, q)
  BY AddsEpoch, Refuses DEF Register, SessionOperation

LEMMA Ensures ==
  ASSUME AtRest, NEW r, NEW q, q.op = "ensure", Ensure(r, q.version)
  PROVE  Handled(r, q)
  <1>1. Done(q, dur, refusals)
    BY TargetFacts DEF Done
  <1>2. CASE Refuse(r)
    BY <1>2, Refuses
  <1>3. CASE q.version = mem.session.version /\ AddEpoch(r, 1)
    BY <1>3, AddsEpoch DEF SessionOperation
  <1>4. CASE Serve(r, mem, <<>>, "done")
    BY <1>1, <1>4, ServesNothing
  <1> QED
    BY <1>2, <1>3, <1>4 DEF Ensure

LEMMA Switches ==
  ASSUME TypeInv, PathInv, AtRest, NEW r, NEW q, q \in Asks(r), q.op = "switch",
         Switch(r, q.version)
  PROVE  Handled(r, q)
  <1>1. CASE Repeat(r)
    BY <1>1, Repeats
  <1>2. CASE Refuse(r)
    BY <1>2, Refuses
  <1>3. CASE q.version = mem.session.version /\ AddEpoch(r, 1)
    BY <1>3, AddsEpoch DEF SessionOperation
  <1>4. CASE q.version = mem.session.version /\ mem.session.active # 0 /\ ReplaceEpoch(r)
    BY <1>4, ReplacesEpoch DEF SessionOperation
  <1> QED
    BY <1>1, <1>2, <1>3, <1>4 DEF Switch

-----------------------------------------------------------------------------
(* Appends of the task *)

\* t may follow the task in memory; it completes only on the facts.
Later(t) ==
    /\ t \in Task
    /\ t.status \in Reachable[mem.task.status]
    /\ t.version > mem.task.version
    /\ t.plan = mem.task.plan
    /\ mem.task.evidence # "missing" => t.evidence # "missing"
    /\ mem.task.status # "completed" /\ t.status = "completed" => FactsHold(mem)

LEMMA WithTaskFacts ==
  ASSUME NEW t
  PROVE  WithTask(t) = Updated(mem, t)
  BY DEF WithTask, Updated

LEMMA TaskMoves ==
  ASSUME AtRest, NEW t, Later(t)
  PROVE  /\ IsProjection(Updated(dur, t)) /\ IsProjection(Updated(mem, t))
         /\ Moves(dur, Updated(dur, t), refusals)
         /\ Ahead(dur, Updated(mem, t))
         /\ Updated(dur, t).task = t /\ Updated(mem, t).task = t
         /\ refusals = 0 => Same(Updated(dur, t), Updated(mem, t)) /\ ActiveIn(Updated(mem, t))
  <1> DEFINE m == Updated(mem, t)
             f == Updated(dur, t)
  <1>1. IsProjection(mem) /\ IsProjection(dur) /\ t \in Task
    BY DEF AtRest, Later
  <1>2. /\ IsProjection(m) /\ IsProjection(f) /\ m.task = t /\ f.task = t
        /\ f.session = dur.session /\ m.session = mem.session /\ m.epochs = mem.epochs
    BY <1>1, UpdatedType, UpdatedFacts
  <1>3. /\ dur.task.status \in Statuses /\ dur.session.version \in Nat
        /\ dur.task.version \in Nat /\ mem.task.version \in Nat /\ t.version \in Nat
    BY <1>1 DEF IsProjection, IsSession, Task
  <1>4. t.status \in Reachable[dur.task.status]
    BY <1>3, ReachTrans DEF AtRest, Ahead, Later
  <1> HIDE DEF m, f
  <1>5. Ahead(dur, f) /\ Ahead(dur, m)
    BY <1>2, <1>3, <1>4 DEF AtRest, Ahead, Later
  <1>6. refusals = 0 /\ Completes(dur, f) => FactsHold(dur)
    <2> SUFFICES ASSUME refusals = 0, dur.task.status # "completed", t.status = "completed"
                 PROVE  FactsHold(dur)
      BY <1>2 DEF Completes
    <2>1. Same(dur, mem)
      BY DEF AtRest
    <2>2. FactsHold(mem)
      BY <2>1 DEF Same, Later
    <2> QED
      BY <2>1, <2>2, SameFacts
  <1>7. Moves(dur, f, refusals)
    BY <1>2, <1>3, <1>5, <1>6 DEF Moves
  <1>8. refusals = 0 => Same(f, m) /\ ActiveIn(m)
    <2>1. refusals = 0 => Same(f, m)
      BY <1>1, SameUpdated DEF AtRest, f, m
    <2>2. refusals = 0 => ActiveIn(m)
      BY <1>2 DEF AtRest, ActiveIn
    <2> QED
      BY <2>1, <2>2
  <1> QED
    BY <1>2, <1>5, <1>7, <1>8 DEF m, f

LEMMA TaskAppend ==
  ASSUME AtRest, NEW t, Later(t), NEW w, w.event = TaskEvent(t), IsProjection(w.mem), w.mem.task = t,
         NEW q, Done(q, Updated(dur, t), refusals)
  PROVE  IsWrite(w) /\ Appends(dur, w, Updated(dur, t), q, refusals)
  <1> DEFINE f == Updated(dur, t)
  <1>1. f = ReplayEvent(dur, w.event)
    BY ReplayOf
  <1>2. IsProjection(f) /\ Moves(dur, f, refusals) /\ f.task = t
    BY TaskMoves
  <1> HIDE DEF f
  <1>3. Ahead(f, w.mem)
    BY <1>2, AheadRefl
  <1>4. IsEvent(TaskEvent(t))
    BY EventsTyped DEF Later
  <1>5. Appends(dur, w, f, q, refusals)
    BY <1>1, <1>2, <1>3 DEF Appends, f
  <1> QED
    BY <1>4, <1>5 DEF IsWrite, f

\* task.<status>, before it.
LEMMA NoticeAppend ==
  ASSUME AtRest, NEW w, w.event = Unreplayed, IsProjection(w.mem), Ahead(dur, w.mem),
         NEW q, w.keyed => Done(q, dur, refusals)
  PROVE  IsWrite(w) /\ Appends(dur, w, dur, q, refusals)
  <1>1. ReplayEvent(dur, Unreplayed) = dur /\ IsEvent(Unreplayed)
    BY ReplayOf, EventsTyped
  <1>2. Moves(dur, dur, refusals)
    BY MovesNothing DEF AtRest
  <1> QED
    BY <1>1, <1>2 DEF Appends, IsWrite

\* The task t is what q asks for.
Fulfils(t, q) ==
    /\ q.op \in DOMAIN Target => t.status = Target[q.op]
    /\ q.op = "evidence" => t.evidence # "missing"

\* What the operations on the task ask for.
LEMMA LaterIsDone ==
  ASSUME AtRest, NEW t, Later(t), NEW q, q.version = mem.task.version, Fulfils(t, q),
         q.op \in {"execute", "pause", "resume", "cancel", "evidence", "verify"},
         NEW p, p.task = t
  PROVE  Done(q, p, refusals)
  <1>1. q.op \in DOMAIN Target => p.task.status \in Reachable[Target[q.op]]
    BY TargetFacts, ReachRefl DEF Fulfils
  <1> QED
    BY <1>1 DEF Done, Later, Fulfils

\* The two appends of a transition.
LEMMA TransitionServed ==
  ASSUME AtRest, NEW t, Later(t), NEW q, q.version = mem.task.version, Fulfils(t, q),
         q.op \in {"execute", "pause", "resume", "cancel", "verify"},
         NEW v, v.event = Unreplayed, v.mem = WithTask(t), v.keyed => q.op = "verify",
         NEW w, w.event = TaskEvent(t), w.mem = WithTask(t)
  PROVE  Sound(q, WithTask(t), <<v, w>>, "done")
  <1> DEFINE m == Updated(mem, t)
             f == Updated(dur, t)
             ws == <<v, w>>
  <1>1. /\ IsProjection(m) /\ Ahead(dur, m) /\ m.task = t /\ f.task = t
        /\ refusals = 0 => Same(f, m) /\ ActiveIn(m)
    BY TaskMoves
  <1>2. v.mem = m /\ w.mem = m
    BY WithTaskFacts
  <1>3. Done(q, f, refusals)
    BY <1>1, LaterIsDone
  <1>4. q.op = "verify" => Done(q, dur, refusals)
    BY TargetFacts DEF Done
  <1> HIDE DEF m
  <1>5. IsWrite(w) /\ Appends(dur, w, f, q, refusals)
    BY <1>1, <1>2, <1>3, TaskAppend
  <1>6. IsWrite(v) /\ Appends(dur, v, dur, q, refusals)
    BY <1>1, <1>2, <1>4, NoticeAppend
  <1> HIDE DEF f
  <1>7. Serves(dur, m, ws, q, "done", refusals)
    BY <1>1, <1>2, <1>3, <1>5, <1>6, ServesTwo
  <1>8. IsWork(ws)
    BY <1>5, <1>6, WorkTwo
  <1> HIDE DEF ws
  <1>9. Sound(q, m, ws, "done")
    BY <1>1, <1>7, <1>8 DEF Sound
  <1> QED
    BY <1>9, WithTaskFacts DEF ws, m
-----------------------------------------------------------------------------
(* The transitions *)

LEMMA MovedIsLater ==
  ASSUME AtRest, NEW path, IsSequence(path), Len(path) \in 1..3, Follows(path),
         NEW safe \in {"none", "safe", "unsafe"},
         path[Len(path)] = "completed" => FactsHold(mem)
  PROVE  Later(Moved(path, safe)) /\ Moved(path, safe).status = path[Len(path)]
  <1> DEFINE t == Moved(path, safe)
             l == Len(path)
             s == mem.task.status
  <1>1. mem.task \in Task
    BY DEF AtRest, IsProjection
  <1>2. s \in Statuses /\ mem.task.version \in Nat
    BY <1>1 DEF Task
  <1>3. path[1] \in Successors[s] /\ (l >= 2 => path[2] \in Successors[path[1]])
        /\ (l >= 3 => path[3] \in Successors[path[2]])
    <2>1. \A i \in 1..l : path[i] \in Successors[IF i = 1 THEN s ELSE path[i - 1]]
      BY DEF Follows
    <2> HIDE DEF l, s
    <2>2. l \in 1..3
      BY DEF l
    <2>3. path[1] \in Successors[s]
      BY <2>1, <2>2
    <2>4. ASSUME l >= 2 PROVE path[2] \in Successors[path[1]]
      <3>1. 2 \in 1..l /\ 2 - 1 = 1 /\ 2 # 1
        BY <2>2, <2>4
      <3> QED
        BY <3>1, <2>1
    <2>5. ASSUME l >= 3 PROVE path[3] \in Successors[path[2]]
      <3>1. 3 \in 1..l /\ 3 - 1 = 2 /\ 3 # 1
        BY <2>2, <2>5
      <3> QED
        BY <3>1, <2>1
    <2> QED
      BY <2>3, <2>4, <2>5
  <1> HIDE DEF s
  <1>4. path[1] \in Reachable[s]
    BY <1>2, <1>3, ReachRefl, ReachStep
  <1>5. l >= 2 => path[2] \in Reachable[s]
    BY <1>2, <1>3, <1>4, ReachStep
  <1>6. l >= 3 => path[3] \in Reachable[s]
    <2>1. l >= 3 => l >= 2
      OBVIOUS
    <2> QED
      BY <2>1, <1>2, <1>3, <1>5, ReachStep
  <1>7. path[l] \in Reachable[s]
    BY <1>4, <1>5, <1>6
  <1>8. path[l] \in Statuses
    BY <1>2, <1>7, ReachType
  <1>9. t = [mem.task EXCEPT !.status = path[l], !.version = @ + l, !.cp = safe]
    BY DEF Moved, Last
  <1>10. l \in Nat /\ l > 0
    OBVIOUS
  <1> DEFINE u == mem.task
             x == path[l]
             n == u.version + l
  <1>11. n \in Nat /\ n > u.version
    BY <1>2, <1>10
  <1>12. t = [u EXCEPT !.status = x, !.version = n, !.cp = safe] /\ u \in Task /\ x \in Statuses
    BY <1>1, <1>8, <1>9
  <1> HIDE DEF t, u, x, n
  <1>13. t = [status |-> x, version |-> n, plan |-> u.plan, kids |-> u.kids,
              evidence |-> u.evidence, cp |-> safe]
    BY <1>12 DEF Task
  <1>14. t \in Task /\ t.status = x /\ t.version = n /\ t.plan = u.plan /\ t.evidence = u.evidence
    BY <1>11, <1>12, <1>13 DEF Task
  <1>15. /\ t.status = path[l] /\ t.version > mem.task.version /\ t.plan = mem.task.plan
         /\ t.evidence = mem.task.evidence
    BY <1>11, <1>14 DEF u, x
  <1> QED
    BY <1>7, <1>14, <1>15 DEF Later, s, t, l

IsPath(path) == IsSequence(path) /\ Len(path) \in 1..3 /\ path[Len(path)] # "completed"

LEMMA Controls ==
  ASSUME TypeInv, PathInv, AtRest, NEW r, NEW q, q \in Asks(r),
         q.op \in {"pause", "resume", "cancel"},
         NEW path, IsPath(path), path[Len(path)] = Target[q.op],
         NEW safe \in {"none", "safe", "unsafe"}, NEW allowed,
         Control(r, q.version, path, safe, allowed)
  PROVE  Handled(r, q)
  <1>1. CASE Repeat(r)
    BY <1>1, Repeats
  <1>2. CASE Refuse(r)
    BY <1>2, Refuses
  <1>3. CASE /\ mem.task.version = q.version /\ Follows(path)
             /\ LET t == Moved(path, safe)
                IN Serve(r, WithTask(t), ControlWrites(t, WithTask(t)), "done")
    <2> DEFINE t == Moved(path, safe)
               v == Write(Unreplayed, FALSE, WithTask(t))
               w == Write(TaskEvent(t), TRUE, WithTask(t))
    <2>1. Serve(r, WithTask(t), <<v, w>>, "done")
      BY <1>3 DEF ControlWrites
    <2>2. Later(t) /\ t.status = path[Len(path)]
      BY <1>3, MovedIsLater DEF IsPath
    <2>6. Fulfils(t, q)
      BY <2>2 DEF Fulfils
    <2>3. v.event = Unreplayed /\ v.mem = WithTask(t) /\ v.keyed = FALSE
      BY DEF Write
    <2>4. w.event = TaskEvent(t) /\ w.mem = WithTask(t)
      BY DEF Write
    <2> HIDE DEF t, v, w
    <2>5. Sound(q, WithTask(t), <<v, w>>, "done")
      BY <1>3, <2>2, <2>3, <2>4, <2>6, TransitionServed
    <2> QED
      BY <2>1, <2>5 DEF Handled
  <1> QED
    BY <1>1, <1>2, <1>3 DEF Control

LEMMA Pauses ==
  ASSUME TypeInv, PathInv, AtRest, NEW r, NEW q, q \in Asks(r), q.op = "pause",
         Pause(r, q.version)
  PROVE  Handled(r, q)
  <1> DEFINE path == <<"pause_requested", "paused">>
             allowed == TRUE
  <1>1. IsSequence(path) /\ Len(path) = 2 /\ path[2] = "paused"
    BY ShortSequences
  <1>2. Control(r, q.version, path, "safe", allowed)
    BY DEF Pause
  <1> HIDE DEF path, allowed
  <1>3. IsPath(path)
    BY <1>1 DEF IsPath
  <1> QED
    BY <1>1, <1>2, <1>3, TargetFacts, Controls

LEMMA Resumes ==
  ASSUME TypeInv, PathInv, AtRest, NEW r, NEW q, q \in Asks(r), q.op = "resume",
         Resume(r, q.version)
  PROVE  Handled(r, q)
  <1> DEFINE path == <<"queued", "running">>
             allowed == mem.task.cp = "safe"
  <1>1. IsSequence(path) /\ Len(path) = 2 /\ path[2] = "running"
    BY ShortSequences
  <1>2. Control(r, q.version, path, "unsafe", allowed)
    BY DEF Resume
  <1> HIDE DEF path, allowed
  <1>3. IsPath(path)
    BY <1>1 DEF IsPath
  <1> QED
    BY <1>1, <1>2, <1>3, TargetFacts, Controls

LEMMA Cancels ==
  ASSUME TypeInv, PathInv, AtRest, NEW r, NEW q, q \in Asks(r), q.op = "cancel",
         Cancel(r, q.version)
  PROVE  Handled(r, q)
  <1> DEFINE path == IF mem.task.status = "running" THEN <<"cancel_requested", "cancelled">>
                                                    ELSE <<"cancelled">>
             allowed == TRUE
  <1>1. IsSequence(path) /\ Len(path) \in {1, 2} /\ path[Len(path)] = "cancelled"
    <2>1. CASE mem.task.status = "running"
      BY <2>1, ShortSequences
    <2>2. CASE mem.task.status # "running"
      BY <2>2, ShortSequences
    <2> QED
      BY <2>1, <2>2
  <1>2. Control(r, q.version, path, "unsafe", allowed)
    BY DEF Cancel
  <1> HIDE DEF path, allowed
  <1>3. IsPath(path)
    BY <1>1 DEF IsPath
  <1> QED
    BY <1>1, <1>2, <1>3, TargetFacts, Controls

-----------------------------------------------------------------------------
(* Verdicts and evidence *)

LEMMA VerdictOnFacts ==
  ASSUME NEW p, IsProjection(p), NEW listed, Verdict(p, listed) = "completed"
  PROVE  FactsHold(p)
  <1>1. /\ IntegrationFacts(p, listed) \subseteq {"integrated"}
        /\ Gate(p) = "passed"
        /\ ChildResults(p) \subseteq {"completed"}
    <2>1. Gate(p) \in {"passed", "failed", "missing"}
      BY DEF Gate
    <2> QED
      BY <2>1 DEF Verdict
  <1>2. p.task.evidence = "pass"
    BY <1>1 DEF Gate
  <1>3. ASSUME NEW i \in OfTask(p)
        PROVE  p.att[i].status = "succeeded"
    <2>1. ChildResult(p.att[i].status) = "completed"
      BY <1>1 DEF ChildResults
    <2> QED
      BY <2>1 DEF ChildResult
  <1> DEFINE known == {c \in Ref : p.integ[c] # "none"}
  <1>4. {p.integ[c] : c \in known} \subseteq {"integrated"}
        /\ (p.task.plan \in p.plans => known # {})
    BY <1>1 DEF IntegrationFacts
  <1>5. \A c \in Ref : p.integ[c] \in {"none", "integrated"}
    BY <1>4
  <1>6. p.task.plan \in p.plans => \E c \in Ref : p.integ[c] = "integrated"
    BY <1>4, <1>5
  <1> QED
    BY <1>2, <1>3, <1>5, <1>6 DEF FactsHold

LEMMA Verifies ==
  ASSUME TypeInv, PathInv, AtRest, NEW r, NEW q, q \in Asks(r), q.op = "verify",
         Verify(r, q.version, q.arg)
  PROVE  Handled(r, q)
  <1> DEFINE x == Verdict(mem, q.arg = "changesets")
             path == <<x>>
             t == Moved(path, mem.task.cp)
             v == Write(Unreplayed, TRUE, WithTask(t))
             w == Write(TaskEvent(t), FALSE, WithTask(t))
  <1>1. CASE Repeat(r)
    BY <1>1, Repeats
  <1>2. CASE Refuse(r)
    BY <1>2, Refuses
  <1>3. CASE /\ mem.task.version = q.version /\ Follows(path)
             /\ Serve(r, WithTask(t), <<v, w>>, "done")
    <2>1. IsSequence(path) /\ Len(path) = 1 /\ path[1] = x
      BY ShortSequences
    <2>2. x = "completed" => FactsHold(mem)
      BY VerdictOnFacts DEF AtRest
    <2>3. mem.task.cp \in {"none", "safe", "unsafe"}
      BY DEF AtRest, IsProjection, Task
    <2>4. v.event = Unreplayed /\ v.mem = WithTask(t)
      BY DEF Write
    <2>5. w.event = TaskEvent(t) /\ w.mem = WithTask(t)
      BY DEF Write
    <2> HIDE DEF x, path, v, w
    <2>6. Later(t)
      <3>1. Len(path) \in 1..3 /\ (path[Len(path)] = "completed" => FactsHold(mem))
        BY <2>1, <2>2
      <3> QED
        BY <1>3, <2>1, <2>3, <3>1, MovedIsLater
    <2> HIDE DEF t
    <2>7. Sound(q, WithTask(t), <<v, w>>, "done")
      <3>1. Fulfils(t, q)
        BY TargetFacts DEF Fulfils
      <3> QED
        BY <1>3, <2>4, <2>5, <2>6, <3>1, TransitionServed
    <2> QED
      BY <1>3, <2>7 DEF Handled
  <1> QED
    BY <1>1, <1>2, <1>3 DEF Verify

LEMMA Records ==
  ASSUME TypeInv, PathInv, AtRest, NEW r, NEW q, q \in Asks(r), IsQuestion(q),
         q.op = "evidence", Record(r, q.version, q.arg)
  PROVE  Handled(r, q)
  <1> DEFINE t == [mem.task EXCEPT !.evidence = q.arg, !.version = @ + 1]
             m == WithTask(t)
             w == Write(TaskEvent(t), TRUE, m)
             f == Updated(dur, t)
             ws == <<w>>
  <1>1. CASE Repeat(r)
    BY <1>1, Repeats
  <1>2. CASE Refuse(r)
    BY <1>2, Refuses
  <1>3. CASE mem.task.version = q.version /\ Serve(r, m, ws, "done")
    <2>1. mem.task \in Task /\ q.arg \in Evidence \ {"missing"}
      BY DEF AtRest, IsProjection, IsQuestion
    <2>2. mem.task.status \in Statuses /\ mem.task.version \in Nat
      BY <2>1 DEF Task
    <2>3. /\ t \in Task /\ t.status = mem.task.status /\ t.version = mem.task.version + 1
          /\ t.plan = mem.task.plan /\ t.evidence = q.arg
      <3> DEFINE u == mem.task
                 x == q.arg
      <3>1. t = [u EXCEPT !.evidence = x, !.version = @ + 1] /\ u \in Task /\ x \in Evidence
        BY <2>1
      <3> HIDE DEF t, u, x
      <3>2. t = [status |-> u.status, version |-> u.version + 1, plan |-> u.plan, kids |-> u.kids,
                 evidence |-> x, cp |-> u.cp]
        BY <3>1 DEF Task
      <3>3. t \in Task /\ t.status = u.status /\ t.version = u.version + 1 /\ t.plan = u.plan
            /\ t.evidence = x
        BY <3>1, <3>2 DEF Task
      <3> QED
        BY <3>3 DEF u, x
    <2> HIDE DEF t
    <2>4. Later(t) /\ Fulfils(t, q)
      BY <2>1, <2>2, <2>3, ReachRefl, TargetFacts DEF Later, Fulfils
    <2>5. w.event = TaskEvent(t) /\ w.mem = m
      BY DEF Write
    <2>6. m = Updated(mem, t)
      BY WithTaskFacts
    <2> HIDE DEF w, m, f
    <2>7. /\ IsProjection(m) /\ Ahead(dur, m) /\ m.task = t /\ f.task = t
          /\ refusals = 0 => Same(f, m) /\ ActiveIn(m)
      BY <2>4, <2>6, TaskMoves DEF f
    <2>8. Done(q, f, refusals)
      BY <1>3, <2>4, <2>7, LaterIsDone
    <2>9. IsWrite(w) /\ Appends(dur, w, f, q, refusals)
      BY <2>4, <2>5, <2>7, <2>8, TaskAppend DEF f
    <2>10. Serves(dur, m, ws, q, "done", refusals)
      BY <2>5, <2>7, <2>8, <2>9, ServesOne
    <2>11. IsWork(ws)
      BY <2>9, WorkOne
    <2> HIDE DEF ws
    <2>12. Sound(q, m, ws, "done")
      BY <2>7, <2>10, <2>11 DEF Sound
    <2> QED
      BY <1>3, <2>12 DEF Handled
  <1> QED
    BY <1>1, <1>2, <1>3 DEF Record
-----------------------------------------------------------------------------
(* Execution: the attempts one by one *)

LEMMA ListFacts ==
  ASSUME NEW N \in Nat, NEW s, DOMAIN s = 1..N, s = [n \in 1..N |-> s[n]]
  PROVE  IsSequence(s) /\ Len(s) = N
  <1>1. s \in [1..N -> Elements(s)]
    BY DEF Elements
  <1>2. s \in Seq(Elements(s))
    BY <1>1, IsASeq
  <1>3. Len(s) \in Nat /\ DOMAIN s = 1..Len(s)
    BY <1>2, LenProperties
  <1>4. Len(s) = N
    BY <1>3
  <1> QED
    BY <1>2, <1>4 DEF IsSequence

Attempts(n) == [i \in {AttemptId(c) : c \in 1..n} |-> AttemptOf(i - AttemptId(1) + 1)]
Enqueued(p, n) == [p EXCEPT !.att = Overlaid(Attempts(n), @)]

LEMMA EnqueuedIs ==
  ASSUME NEW t, NEW n
  PROVE  EnqueuedUpTo(t, n) = Enqueued(WithTask(t), n)
  BY DEF EnqueuedUpTo, Enqueued, Attempts

LEMMA EnqueuedFacts ==
  ASSUME NEW p, IsProjection(p), NEW n
  PROVE  /\ DOMAIN Enqueued(p, n) = DOMAIN p
         /\ Enqueued(p, n).session = p.session
         /\ Enqueued(p, n).epochs = p.epochs
         /\ Enqueued(p, n).task = p.task
         /\ Enqueued(p, n).plans = p.plans
         /\ Enqueued(p, n).children = p.children
         /\ Enqueued(p, n).refs = p.refs
         /\ Enqueued(p, n).att = Overlaid(Attempts(n), p.att)
         /\ Enqueued(p, n).integ = p.integ
  BY DEF IsProjection, Enqueued

LEMMA IdFacts ==
  ASSUME AtRest
  PROVE  /\ \A c \in Nat : AttemptId(c) = AttemptId(1) + c - 1
         /\ AttemptId(1) \in Nat \ {0}
         /\ \A c \in Ref : IsAttempt(AttemptOf(c))
  <1> DEFINE f == Fresh(DOMAIN mem.att)
  <1>1. f \in Nat \ {0}
    <2>1. DOMAIN mem.att \in SUBSET Nat /\ IsFiniteSet(DOMAIN mem.att)
      BY DEF AtRest, IsProjection
    <2> QED
      BY <2>1, FreshFacts
  <1>2. \A c : AttemptId(c) = f + c - 1
    BY DEF AttemptId
  <1>3. \A c \in Ref : IsAttempt(AttemptOf(c))
    BY DEF AttemptOf, IsAttempt, AttemptStatus, AtRest, IsProjection
  <1> HIDE DEF f
  <1> QED
    BY <1>1, <1>2, <1>3

LEMMA AttemptsFacts ==
  ASSUME AtRest, NEW n \in Ref
  PROVE  /\ DOMAIN Attempts(n) = {AttemptId(c) : c \in 1..n}
         /\ DOMAIN Attempts(n) \subseteq Nat /\ IsFiniteSet(DOMAIN Attempts(n))
         /\ \A c \in 1..n : Attempts(n)[AttemptId(c)] = AttemptOf(c)
         /\ \A i \in DOMAIN Attempts(n) : IsAttempt(Attempts(n)[i])
  <1> DEFINE a == AttemptId(1)
             D == {AttemptId(c) : c \in 1..n}
             b == a + n - 1
  <1>1. a \in Nat \ {0} /\ n \in Nat /\ \A c \in 1..n : AttemptId(c) = a + c - 1 /\ c \in Ref
    BY IdFacts, TasksAssumption DEF Ref
  <1>2. D \subseteq a..b /\ a \in Int /\ b \in Int
    BY <1>1
  <1>3. D \subseteq Nat
    BY <1>1
  <1>4. IsFiniteSet(D)
    <2> HIDE DEF a, b, D
    <2>1. IsFiniteSet(a..b)
      BY <1>2, FS_Interval
    <2> QED
      BY <2>1, <1>2, FS_Subset, Zenon
  <1>5. DOMAIN Attempts(n) = D
    BY DEF Attempts
  <1>6. ASSUME NEW c \in 1..n
        PROVE  Attempts(n)[AttemptId(c)] = AttemptOf(c)
    <2>1. AttemptId(c) \in D /\ AttemptId(c) - AttemptId(1) + 1 = c
      BY <1>1
    <2> QED
      BY <2>1 DEF Attempts
  <1>7. ASSUME NEW i \in D
        PROVE  IsAttempt(Attempts(n)[i])
    <2>1. PICK c \in 1..n : i = AttemptId(c)
      OBVIOUS
    <2> QED
      BY <2>1, <1>1, <1>6, IdFacts
  <1> HIDE DEF a, b, D
  <1>8. \A i \in DOMAIN Attempts(n) : IsAttempt(Attempts(n)[i])
    BY <1>5, <1>7
  <1>9. \A c \in 1..n : Attempts(n)[AttemptId(c)] = AttemptOf(c)
    BY <1>6
  <1> QED
    BY <1>3, <1>4, <1>5, <1>8, <1>9 DEF D

LEMMA EnqueuedType ==
  ASSUME AtRest, NEW p, IsProjection(p), NEW n \in Ref
  PROVE  IsProjection(Enqueued(p, n))
  <1> DEFINE q == Enqueued(p, n)
             x == Attempts(n)
  <1>1. q.att = Overlaid(x, p.att)
    BY EnqueuedFacts
  <1>2. DOMAIN x \subseteq Nat /\ IsFiniteSet(DOMAIN x) /\ \A i \in DOMAIN x : IsAttempt(x[i])
    BY AttemptsFacts
  <1>3. DOMAIN p.att \subseteq Nat /\ IsFiniteSet(DOMAIN p.att)
        /\ \A i \in DOMAIN p.att : IsAttempt(p.att[i])
    BY DEF IsProjection
  <1> HIDE DEF x
  <1>4. DOMAIN q.att = DOMAIN p.att \cup DOMAIN x
        /\ \A i \in DOMAIN q.att : q.att[i] = IF i \in DOMAIN x THEN x[i] ELSE p.att[i]
    BY <1>1 DEF Overlaid
  <1>5. IsFiniteSet(DOMAIN p.att \cup DOMAIN x)
    BY <1>2, <1>3, FS_Union
  <1> HIDE DEF q
  <1>6. DOMAIN q.att \subseteq Nat /\ IsFiniteSet(DOMAIN q.att)
        /\ \A i \in DOMAIN q.att : IsAttempt(q.att[i])
    BY <1>2, <1>3, <1>4, <1>5
  <1> QED
    BY <1>6, EnqueuedFacts DEF IsProjection, q

LEMMA AttTwice ==
  ASSUME NEW p, NEW x, NEW y
  PROVE  [[p EXCEPT !.att = x] EXCEPT !.att = y] = [p EXCEPT !.att = y]
  OBVIOUS

LEMMA FirstEnqueued ==
  ASSUME AtRest, NEW p, IsProjection(p)
  PROVE  WithAttempt(p, AttemptId(1), AttemptOf(1)) = Enqueued(p, 1)
  <1> DEFINE i == AttemptId(1)
             a == AttemptOf(1)
             x == Attempts(1)
             T == p.att
  <1>1. 1 \in Ref /\ 1..1 = {1}
    BY TasksAssumption DEF Ref
  <1>2. DOMAIN x = {i} /\ x[i] = a
    BY <1>1, AttemptsFacts
  <1> HIDE DEF i, a, x, T
  <1>3. Put(T, i, a) = Overlaid(x, T)
    BY <1>2 DEF Put, Overlaid
  <1> QED
    BY <1>3 DEF WithAttempt, Enqueued, i, a, x, T

LEMMA NextEnqueued ==
  ASSUME AtRest, NEW p, IsProjection(p), NEW n \in Ref, n # 1
  PROVE  WithAttempt(Enqueued(p, n - 1), AttemptId(n), AttemptOf(n)) = Enqueued(p, n)
  <1> DEFINE i == AttemptId(n)
             a == AttemptOf(n)
             x == Attempts(n)
             y == Attempts(n - 1)
             T == p.att
  <1>1. n \in Nat /\ n - 1 \in Ref /\ n \in 1..n /\ 1..n = (1..n - 1) \cup {n}
    BY TasksAssumption DEF Ref
  <1>2. DOMAIN x = {AttemptId(c) : c \in 1..n} /\ \A c \in 1..n : x[AttemptId(c)] = AttemptOf(c)
    BY AttemptsFacts
  <1>3. DOMAIN y = {AttemptId(c) : c \in 1..n - 1}
        /\ \A c \in 1..n - 1 : y[AttemptId(c)] = AttemptOf(c)
    BY <1>1, AttemptsFacts
  <1>4. DOMAIN x = DOMAIN y \cup {i} /\ x[i] = a
    BY <1>1, <1>2, <1>3
  <1>5. \A j \in DOMAIN y : y[j] = x[j]
    BY <1>1, <1>2, <1>3
  <1>6. i \notin DOMAIN y
    BY <1>1, <1>3, IdFacts
  <1>7. Enqueued(p, n - 1).att = Overlaid(y, T)
    BY EnqueuedFacts
  <1> HIDE DEF i, a, x, y, T
  <1>8. Put(Overlaid(y, T), i, a) = Overlaid(x, T)
    BY <1>4, <1>5, <1>6 DEF Put, Overlaid
  <1>9. WithAttempt(Enqueued(p, n - 1), i, a)
           = [Enqueued(p, n - 1) EXCEPT !.att = Put(Overlaid(y, T), i, a)]
    BY <1>7 DEF WithAttempt
  <1>10. Enqueued(p, n - 1) = [p EXCEPT !.att = Overlaid(y, T)]
         /\ Enqueued(p, n) = [p EXCEPT !.att = Overlaid(x, T)]
    BY DEF Enqueued, x, y, T
  <1>11. WithAttempt(Enqueued(p, n - 1), i, a) = Enqueued(p, n)
    BY <1>8, <1>9, <1>10, AttTwice
  <1> QED
    BY <1>11 DEF i, a
\* The appends of the attempts, and where they lead from p.
AttemptWrites(t) == [c \in Ref |->
    Write(AttemptEvent(AttemptId(c), AttemptOf(c)), FALSE,
          EnqueuedUpTo(t, IF c = NChild THEN c ELSE c + 1))]

LEMMA EnqueuedSame ==
  ASSUME NEW p, IsProjection(p), NEW q, IsProjection(q), Same(p, q), NEW n
  PROVE  Same(Enqueued(p, n), Enqueued(q, n))
  BY EnqueuedFacts DEF Same

LEMMA EnqueuedActive ==
  ASSUME NEW p, IsProjection(p), ActiveIn(p), NEW n
  PROVE  ActiveIn(Enqueued(p, n))
  BY EnqueuedFacts DEF ActiveIn

LEMMA EnqueuePath ==
  ASSUME AtRest, NEW t, IsProjection(WithTask(t)), WithTask(t).task = t,
         NEW p, IsProjection(p), p.task = t, NEW q
  PROVE  /\ IsWork(AttemptWrites(t)) /\ Len(AttemptWrites(t)) = NChild
         /\ AttemptWrites(t)[NChild].mem = Enqueued(WithTask(t), NChild)
         /\ Path(p, AttemptWrites(t), Enqueued(p, NChild), q, refusals)
  <1> DEFINE ws == AttemptWrites(t)
             next(n) == IF n = NChild THEN n ELSE n + 1
             m(n) == Enqueued(WithTask(t), next(n))
             c == [n \in 0..NChild |-> IF n = 0 THEN p ELSE Enqueued(p, n)]
  <1>1. NChild \in Nat \ {0} /\ Ref = 1..NChild
    BY TasksAssumption DEF Ref
  <1>2. \A n \in Ref : /\ ws[n].event = AttemptEvent(AttemptId(n), AttemptOf(n))
                       /\ ws[n].keyed = FALSE /\ ws[n].mem = m(n)
    BY EnqueuedIs DEF AttemptWrites, Write
  <1>3. IsSequence(ws) /\ Len(ws) = NChild
    <2>1. DOMAIN ws = 1..NChild /\ ws = [n \in 1..NChild |-> ws[n]]
      BY <1>1 DEF AttemptWrites
    <2> HIDE DEF ws
    <2> QED
      BY <2>1, <1>1, ListFacts
  <1>4. \A n \in Ref : next(n) \in Ref
    BY <1>1
  <1> HIDE DEF next
  <1>5. \A n \in Ref : IsProjection(m(n)) /\ m(n).task = t
    BY <1>4, EnqueuedType, EnqueuedFacts
  <1>6. c[0] = p /\ \A n \in Ref : c[n] = Enqueued(p, n)
    BY <1>1
  <1> HIDE DEF c, ws, m
  <1>7. \A n \in 0..NChild : IsProjection(c[n]) /\ c[n].task = t /\ c[n].session = p.session
    <2>1. \A n \in Ref : IsProjection(c[n]) /\ c[n].task = t /\ c[n].session = p.session
      BY <1>6, EnqueuedType, EnqueuedFacts
    <2>2. \A n \in 0..NChild : n = 0 \/ n \in Ref
      BY <1>1
    <2> QED
      BY <2>1, <2>2, <1>6
  <1>8. ASSUME NEW n \in Ref
        PROVE  c[n] = WithAttempt(c[n - 1], AttemptId(n), AttemptOf(n))
    <2>1. CASE n = 1
      BY <2>1, <1>6, FirstEnqueued
    <2>2. CASE n # 1
      <3>1. n - 1 \in Ref
        BY <2>2, <1>1
      <3> QED
        BY <2>2, <3>1, <1>6, NextEnqueued
    <2> QED
      BY <2>1, <2>2
  <1>9. ASSUME NEW n \in Ref
        PROVE  IsWrite(ws[n]) /\ Appends(c[n - 1], ws[n], c[n], q, refusals)
    <2> DEFINE e == AttemptEvent(AttemptId(n), AttemptOf(n))
    <2>1. n \in 0..NChild /\ n - 1 \in 0..NChild /\ n \in Nat
      BY <1>1
    <2>2. IsEvent(e)
      <3>1. AttemptId(n) \in Nat /\ IsAttempt(AttemptOf(n))
        BY <2>1, <1>1, IdFacts
      <3> QED
        BY <3>1, EventsTyped
    <2>3. ReplayEvent(c[n - 1], e) = c[n]
      <3>1. ReplayEvent(c[n - 1], e) = WithAttempt(c[n - 1], AttemptId(n), AttemptOf(n))
        BY ReplayOf
      <3> QED
        BY <3>1, <1>8
    <2>4. ws[n].event = e /\ ws[n].keyed = FALSE /\ ws[n].mem = m(n)
      BY <1>2
    <2> HIDE DEF e
    <2>5. Moves(c[n - 1], c[n], refusals)
      BY <2>1, <1>7, MovesNothing
    <2>6. Ahead(c[n], m(n))
      BY <2>1, <1>5, <1>7, AheadRefl
    <2>7. IsWrite(ws[n])
      BY <2>2, <2>4, <1>5 DEF IsWrite
    <2> QED
      BY <2>3, <2>4, <2>5, <2>6, <2>7 DEF Appends
  <1>10. IsWork(ws)
    BY <1>1, <1>3, <1>9 DEF IsWork
  <1>11. NChild \in Ref
    BY <1>1
  <1>12. ws[NChild].mem = Enqueued(WithTask(t), NChild)
    <2>1. next(NChild) = NChild
      BY DEF next
    <2>2. ws[NChild].mem = m(NChild)
      BY <1>2, <1>11
    <2> QED
      BY <2>1, <2>2 DEF m
  <1>13. Run(c, p, ws, Enqueued(p, NChild), q, refusals)
    BY <1>1, <1>3, <1>6, <1>9, <1>11 DEF Run
  <1>14. Path(p, ws, Enqueued(p, NChild), q, refusals)
    BY <1>13 DEF Path
  <1> QED
    BY <1>3, <1>10, <1>12, <1>14 DEF ws

LEMMA ExecuteSound ==
  ASSUME AtRest, NEW t, Later(t), NEW q, q.version = mem.task.version, q.op = "execute",
         Fulfils(t, q)
  PROVE  Sound(q, WithTask(t), ExecuteWrites(t), "done")
  <1>1. CASE ~Enqueues
    <2> DEFINE v == Write(Unreplayed, FALSE, WithTask(t))
               w == Write(TaskEvent(t), TRUE, WithTask(t))
    <2>1. ExecuteWrites(t) = <<v, w>>
      BY <1>1 DEF ExecuteWrites, ControlWrites
    <2>2. v.event = Unreplayed /\ v.mem = WithTask(t) /\ v.keyed = FALSE
      BY DEF Write
    <2>3. w.event = TaskEvent(t) /\ w.mem = WithTask(t)
      BY DEF Write
    <2> HIDE DEF v, w
    <2>4. Sound(q, WithTask(t), <<v, w>>, "done")
      BY <2>2, <2>3, TransitionServed
    <2> QED
      BY <2>1, <2>4
  <1>2. CASE Enqueues
    <2> DEFINE m == WithTask(t)
               m1 == Enqueued(m, 1)
               f == Updated(dur, t)
               e == Enqueued(f, NChild)
               v == Write(Unreplayed, FALSE, m)
               w == Write(TaskEvent(t), TRUE, m1)
               vs == <<v, w>>
               as == AttemptWrites(t)
               ws == vs \o as
    <2>1. ExecuteWrites(t) = ws
      BY <1>2, EnqueuedIs DEF ExecuteWrites, ControlWrites, AttemptWrites
    <2>2. v.event = Unreplayed /\ v.mem = m /\ v.keyed = FALSE
      BY DEF Write
    <2>3. w.event = TaskEvent(t) /\ w.mem = m1
      BY DEF Write
    <2> HIDE DEF v, w
    <2>4. m = Updated(mem, t)
      BY WithTaskFacts
    <2> HIDE DEF m
    <2>5. /\ IsProjection(m) /\ IsProjection(f) /\ Ahead(dur, m) /\ m.task = t /\ f.task = t
          /\ refusals = 0 => Same(f, m) /\ ActiveIn(m)
      BY <2>4, TaskMoves
    <2> HIDE DEF f
    <2>6. IsProjection(m1) /\ m1.task = t
      <3>1. 1 \in Ref
        BY TasksAssumption DEF Ref
      <3> QED
        BY <3>1, <2>5, EnqueuedType, EnqueuedFacts
    <2> HIDE DEF m1
    <2>7. Done(q, f, refusals) /\ Done(q, e, refusals)
      <3>1. e.task = t
        BY <2>5, EnqueuedFacts
      <3> HIDE DEF e
      <3> QED
        BY <3>1, <2>5, LaterIsDone
    <2>8. IsWrite(w) /\ Appends(dur, w, f, q, refusals)
      BY <2>3, <2>6, <2>7, TaskAppend DEF f
    <2>9. IsWrite(v) /\ Appends(dur, v, dur, q, refusals)
      BY <2>2, <2>5, NoticeAppend
    <2>10. IsWork(vs) /\ IsSequence(vs)
      BY <2>8, <2>9, WorkTwo DEF IsWork
    <2>11. Path(dur, vs, f, q, refusals)
      <3>1. Path(dur, <<v>>, dur, q, refusals) /\ Path(dur, <<w>>, f, q, refusals)
        BY <2>8, <2>9, OneAppend
      <3>2. Path(dur, <<v>> \o <<w>>, f, q, refusals)
        BY <3>1, MoreAppends, ShortSequences
      <3> QED
        BY <3>2, TwoAsOne
    <2>12. /\ IsWork(as) /\ IsSequence(as) /\ Len(as) = NChild
           /\ as[NChild].mem = Enqueued(m, NChild)
           /\ Path(f, as, e, q, refusals)
      BY <2>5, EnqueuePath DEF IsWork, m
    <2>13. as # <<>>
      <3>1. Len(<<>>) = 0
        OBVIOUS
      <3> QED
        BY <3>1, <2>12, TasksAssumption
    <2> HIDE DEF as, vs, e
    <2>14. Path(dur, ws, e, q, refusals)
      BY <2>10, <2>11, <2>12, MoreAppends
    <2>15. Final(m, ws) = Enqueued(m, NChild)
      BY <2>10, <2>12, <2>13, FinalMore
    <2>16. IsWork(ws)
      BY <2>10, <2>12, WorkMore
    <2>17. refusals = 0 => Same(e, Enqueued(m, NChild)) /\ ActiveIn(Enqueued(m, NChild))
      BY <2>5, EnqueuedSame, EnqueuedActive DEF e
    <2> HIDE DEF ws
    <2>18. Serves(dur, m, ws, q, "done", refusals)
      BY <2>7, <2>14, <2>15, <2>17 DEF Serves, Leaves
    <2>19. Sound(q, m, ws, "done")
      BY <2>5, <2>16, <2>18 DEF Sound
    <2> QED
      BY <2>1, <2>19 DEF m
  <1> QED
    BY <1>1, <1>2

LEMMA ExecutePathFacts ==
  ASSUME ExecutePath # <<>>
  PROVE  IsPath(ExecutePath) /\ Follows(ExecutePath) /\ ExecutePath[Len(ExecutePath)] = "running"
  <1> DEFINE a == <<"planned", "queued", "running">>
             b == <<"queued", "running">>
             c == <<"running">>
  <1>1. /\ "planned" \in Successors["draft"]
        /\ "queued" \in Successors["planned"] /\ "queued" \in Successors["paused"]
        /\ "running" \in Successors["queued"]
    BY DEF Successors, Statuses, Live, Terminal
  <1>2. /\ IsSequence(a) /\ Len(a) = 3 /\ a[1] = "planned" /\ a[2] = "queued" /\ a[3] = "running"
        /\ IsSequence(b) /\ Len(b) = 2 /\ b[1] = "queued" /\ b[2] = "running"
        /\ IsSequence(c) /\ Len(c) = 1 /\ c[1] = "running"
    BY ShortSequences
  <1>3. /\ IsPath(a) /\ IsPath(b) /\ IsPath(c)
        /\ a[Len(a)] = "running" /\ b[Len(b)] = "running" /\ c[Len(c)] = "running"
    <2> HIDE DEF a, b, c
    <2> QED
      BY <1>2 DEF IsPath
  <1>4. CASE mem.task.status = "draft"
    <2>1. ExecutePath = a
      BY <1>4 DEF ExecutePath
    <2> HIDE DEF a
    <2>2. \A i \in 1..3 : i = 1 \/ (i = 2 /\ i - 1 = 1) \/ (i = 3 /\ i - 1 = 2)
      OBVIOUS
    <2>3. Follows(a)
      BY <1>4, <1>1, <1>2, <2>2 DEF Follows
    <2> QED
      BY <2>1, <2>3, <1>3
  <1>5. CASE mem.task.status \in {"planned", "paused"}
    <2>1. ExecutePath = b
      BY <1>5 DEF ExecutePath
    <2> HIDE DEF b
    <2>2. \A i \in 1..2 : i = 1 \/ (i = 2 /\ i - 1 = 1)
      OBVIOUS
    <2>3. Follows(b)
      BY <1>5, <1>1, <1>2, <2>2 DEF Follows
    <2> QED
      BY <2>1, <2>3, <1>3
  <1>6. CASE mem.task.status = "queued"
    <2>1. ExecutePath = c
      BY <1>6 DEF ExecutePath
    <2> HIDE DEF c
    <2>3. Follows(c)
      BY <1>6, <1>1, <1>2 DEF Follows
    <2> QED
      BY <2>1, <2>3, <1>3
  <1> QED
    BY <1>4, <1>5, <1>6 DEF ExecutePath

LEMMA Executes ==
  ASSUME TypeInv, PathInv, AtRest, NEW r, NEW q, q \in Asks(r), q.op = "execute",
         Execute(r, q.version)
  PROVE  Handled(r, q)
  <1> DEFINE t == Moved(ExecutePath, "unsafe")
  <1>1. CASE Repeat(r)
    BY <1>1, Repeats
  <1>2. CASE Refuse(r)
    BY <1>2, Refuses
  <1>3. CASE /\ mem.task.version = q.version /\ ExecutePath # <<>>
             /\ Serve(r, WithTask(t), ExecuteWrites(t), "done")
    <2>1. IsPath(ExecutePath) /\ Follows(ExecutePath) /\ ExecutePath[Len(ExecutePath)] = "running"
      BY <1>3, ExecutePathFacts
    <2>2. Later(t) /\ t.status = "running"
      BY <2>1, MovedIsLater DEF IsPath
    <2>4. Fulfils(t, q)
      BY <2>2, TargetFacts DEF Fulfils
    <2> HIDE DEF t
    <2>3. Sound(q, WithTask(t), ExecuteWrites(t), "done")
      BY <1>3, <2>2, <2>4, ExecuteSound
    <2> QED
      BY <1>3, <2>3 DEF Handled
  <1> QED
    BY <1>1, <1>2, <1>3 DEF Execute
-----------------------------------------------------------------------------
(* Plans: the children one by one, then the plan *)

Ids(n) == {ChildId(c) : c \in 1..n}
WithKids(p, n) == [p EXCEPT !.children = @ \cup Ids(n)]
\* No child yet, or the first n.
KidsIn(p, n) == IF n = 0 THEN p ELSE WithKids(p, n)

LEMMA ChildIdFacts ==
  ASSUME AtRest
  PROVE  /\ \A c \in Nat \ {0} : ChildId(c) \in Nat
         /\ PlanId \in Nat \ {0}
         /\ \A n \in Ref : Ids(n) \subseteq Nat /\ IsFiniteSet(Ids(n))
  <1> DEFINE f == Fresh(mem.children)
  <1>1. f \in Nat \ {0}
    BY FreshFacts DEF AtRest, IsProjection
  <1>2. PlanId \in Nat \ {0}
    BY FreshFacts DEF AtRest, IsProjection, PlanId
  <1>3. \A c : ChildId(c) = f + c - 1
    BY DEF ChildId
  <1> HIDE DEF f
  <1>4. \A c \in Nat \ {0} : ChildId(c) \in Nat
    BY <1>1, <1>3
  <1>5. ASSUME NEW n \in Ref
        PROVE  Ids(n) \subseteq Nat /\ IsFiniteSet(Ids(n))
    <2> DEFINE D == Ids(n)
               b == f + n - 1
    <2>1. n \in Nat /\ D \subseteq f..b /\ D \subseteq Nat /\ b \in Int /\ f \in Int
      BY <1>1, <1>3, TasksAssumption DEF Ref, Ids
    <2> HIDE DEF D, b
    <2>2. IsFiniteSet(f..b)
      BY <2>1, FS_Interval
    <2>3. IsFiniteSet(D)
      BY <2>1, <2>2, FS_Subset, Zenon
    <2> QED
      BY <2>1, <2>3 DEF D
  <1> QED
    BY <1>2, <1>4, <1>5

LEMMA WithKidsFacts ==
  ASSUME NEW p, IsProjection(p), NEW n
  PROVE  /\ DOMAIN WithKids(p, n) = DOMAIN p
         /\ WithKids(p, n).session = p.session
         /\ WithKids(p, n).epochs = p.epochs
         /\ WithKids(p, n).task = p.task
         /\ WithKids(p, n).plans = p.plans
         /\ WithKids(p, n).children = p.children \cup Ids(n)
         /\ WithKids(p, n).refs = p.refs
         /\ WithKids(p, n).att = p.att
         /\ WithKids(p, n).integ = p.integ
  BY DEF IsProjection, WithKids

LEMMA ChildrenUpToFacts ==
  ASSUME AtRest, NEW n
  PROVE  /\ DOMAIN ChildrenUpTo(n) = DOMAIN mem
         /\ ChildrenUpTo(n).session = mem.session
         /\ ChildrenUpTo(n).epochs = mem.epochs
         /\ ChildrenUpTo(n).task = mem.task
         /\ ChildrenUpTo(n).plans = mem.plans
         /\ ChildrenUpTo(n).children = mem.children \cup Ids(n)
         /\ ChildrenUpTo(n).refs = [c \in Ref |-> IF c <= n THEN ChildId(c) ELSE mem.refs[c]]
         /\ ChildrenUpTo(n).att = mem.att
         /\ ChildrenUpTo(n).integ = mem.integ
  BY DEF AtRest, IsProjection, ChildrenUpTo, Ids

LEMMA KidsType ==
  ASSUME AtRest, NEW p, IsProjection(p), NEW n \in Ref
  PROVE  p.children \cup Ids(n) \subseteq Nat /\ IsFiniteSet(p.children \cup Ids(n))
  <1>1. Ids(n) \subseteq Nat /\ IsFiniteSet(Ids(n))
        /\ p.children \subseteq Nat /\ IsFiniteSet(p.children)
    BY ChildIdFacts DEF IsProjection
  <1>2. IsFiniteSet(p.children \cup Ids(n))
    BY <1>1, FS_Union
  <1> QED
    BY <1>1, <1>2

LEMMA WithKidsType ==
  ASSUME AtRest, NEW p, IsProjection(p), NEW n \in Ref
  PROVE  IsProjection(WithKids(p, n))
  <1> DEFINE k == p.children \cup Ids(n)
             q == WithKids(p, n)
  <1>1. k \subseteq Nat /\ IsFiniteSet(k)
    BY KidsType
  <1>2. q.children = k
    BY WithKidsFacts
  <1> HIDE DEF k
  <1>3. q.children \subseteq Nat /\ IsFiniteSet(q.children)
    BY <1>1, <1>2
  <1> QED
    BY <1>3, WithKidsFacts DEF IsProjection

LEMMA ChildrenUpToType ==
  ASSUME AtRest, NEW n \in Ref
  PROVE  IsProjection(ChildrenUpTo(n)) /\ Ahead(dur, ChildrenUpTo(n))
  <1> DEFINE k == mem.children \cup Ids(n)
             f == [c \in Ref |-> IF c <= n THEN ChildId(c) ELSE mem.refs[c]]
             q == ChildrenUpTo(n)
  <1>1. k \subseteq Nat /\ IsFiniteSet(k)
    BY KidsType DEF AtRest
  <1>2. f \in [Ref -> Nat]
    <2>1. \A c \in Ref : c \in Nat \ {0}
      BY TasksAssumption DEF Ref
    <2>2. \A c \in Ref : ChildId(c) \in Nat
      BY <2>1, ChildIdFacts
    <2>3. \A c \in Ref : mem.refs[c] \in Nat
      BY DEF AtRest, IsProjection
    <2> QED
      BY <2>2, <2>3
  <1>3. q.children = k /\ q.refs = f
    BY ChildrenUpToFacts
  <1> HIDE DEF k, f
  <1>4. q.children \subseteq Nat /\ IsFiniteSet(q.children) /\ q.refs \in [Ref -> Nat]
    BY <1>1, <1>2, <1>3
  <1>5. IsProjection(mem)
    BY DEF AtRest
  <1>6. IsProjection(q)
    BY <1>4, <1>5, ChildrenUpToFacts DEF IsProjection
  <1>7. Ahead(dur, q)
    <2>1. q.task = mem.task
      BY ChildrenUpToFacts
    <2>2. Ahead(dur, mem)
      BY DEF AtRest
    <2> HIDE DEF q
    <2> QED
      BY <2>1, <2>2, AheadSame
  <1> QED
    BY <1>6, <1>7

LEMMA ChildrenTwice ==
  ASSUME NEW p, NEW x, NEW y
  PROVE  [[p EXCEPT !.children = x] EXCEPT !.children = y] = [p EXCEPT !.children = y]
  OBVIOUS

LEMMA NextKid ==
  ASSUME AtRest, NEW p, IsProjection(p), NEW n \in Ref
  PROVE  WithChild(KidsIn(p, n - 1), ChildId(n)) = KidsIn(p, n)
  <1> DEFINE i == ChildId(n)
  <1>1. n \in Nat \ {0} /\ 1..n = (1..n - 1) \cup {n}
    BY TasksAssumption DEF Ref
  <1>2. Ids(n) = Ids(n - 1) \cup {i}
    BY <1>1 DEF Ids
  <1> HIDE DEF i
  <1>3. CASE n = 1
    <2>1. Ids(1) = {i}
      <3>1. 1..0 = {} /\ 1 - 1 = 0
        OBVIOUS
      <3>2. Ids(0) = {}
        BY <3>1 DEF Ids
      <3> QED
        BY <3>1, <3>2, <1>2, <1>3
    <2>2. KidsIn(p, n - 1) = p /\ KidsIn(p, n) = WithKids(p, 1)
      BY <1>3 DEF KidsIn
    <2>3. WithChild(p, i) = WithKids(p, 1)
      BY <2>1 DEF WithChild, WithKids
    <2> QED
      BY <2>2, <2>3 DEF i
  <1>4. CASE n # 1
    <2> DEFINE x == p.children \cup Ids(n - 1)
               y == p.children \cup Ids(n)
    <2>1. KidsIn(p, n - 1) = WithKids(p, n - 1) /\ KidsIn(p, n) = WithKids(p, n)
      BY <1>1, <1>4 DEF KidsIn
    <2>2. WithKids(p, n - 1).children = x
      BY WithKidsFacts
    <2>3. x \cup {i} = y
      BY <1>2
    <2>4. WithKids(p, n - 1) = [p EXCEPT !.children = x] /\ WithKids(p, n) = [p EXCEPT !.children = y]
      BY DEF WithKids
    <2> HIDE DEF x, y
    <2>5. WithChild(WithKids(p, n - 1), i) = [WithKids(p, n - 1) EXCEPT !.children = y]
      BY <2>2, <2>3 DEF WithChild
    <2>6. WithChild(WithKids(p, n - 1), i) = WithKids(p, n)
      BY <2>4, <2>5, ChildrenTwice
    <2> QED
      BY <2>1, <2>6 DEF i
  <1> QED
    BY <1>3, <1>4
LEMMA HalfFacts ==
  ASSUME NEW n \in Nat \ {0}
  PROVE  /\ (n + 1) \div 2 \in Nat \ {0} /\ n \div 2 \in Nat /\ (n - 1) \div 2 \in Nat
         /\ (n - 1) \div 2 = (n + 1) \div 2 - 1
         /\ \/ n = 2 * ((n + 1) \div 2) - 1 /\ n \div 2 = (n + 1) \div 2 - 1
            \/ n = 2 * ((n + 1) \div 2) /\ n \div 2 = (n + 1) \div 2
  OBVIOUS

LEMMA HalfEnds ==
  ASSUME NEW n \in Nat
  PROVE  (2 * n) \div 2 = n /\ 0 \div 2 = 0 /\ (2 * n + 1) \div 2 = n
  OBVIOUS
LEMMA KidsInFacts ==
  ASSUME AtRest, NEW p, IsProjection(p), NEW n \in 0..NChild
  PROVE  IsProjection(KidsIn(p, n)) /\ KidsIn(p, n).task = p.task /\ KidsIn(p, n).session = p.session
  <1>1. n = 0 \/ n \in Ref
    BY TasksAssumption DEF Ref
  <1> QED
    BY <1>1, WithKidsType, WithKidsFacts DEF KidsIn

LEMMA KidsPath ==
  ASSUME AtRest, NEW last, IsProjection(last), Ahead(dur, last), NEW q
  PROVE  /\ IsWork(ChildWrites(last)) /\ Len(ChildWrites(last)) = 2 * NChild
         /\ ChildWrites(last)[2 * NChild].mem = last
         /\ Path(dur, ChildWrites(last), WithKids(dur, NChild), q, refusals)
  <1> DEFINE N == 2 * NChild
             ws == ChildWrites(last)
             kid(n) == (n + 1) \div 2
             m(n) == IF n = 2 * kid(n) - 1 THEN ChildrenUpTo(kid(n))
                     ELSE IF kid(n) = NChild THEN last ELSE ChildrenUpTo(kid(n))
             c == [n \in 0..N |-> KidsIn(dur, n \div 2)]
  <1>1. NChild \in Nat \ {0} /\ Ref = 1..NChild /\ N \in Nat \ {0}
    BY TasksAssumption DEF Ref
  <1>2. ASSUME NEW n \in 1..N
        PROVE  /\ ws[n].event = IF n = 2 * kid(n) - 1 THEN Unreplayed ELSE ChildEvent(ChildId(kid(n)))
               /\ ws[n].keyed = FALSE /\ ws[n].mem = m(n)
    BY DEF ChildWrites, Write
  <1>3. IsSequence(ws) /\ Len(ws) = N
    <2>1. DOMAIN ws = 1..N /\ ws = [n \in 1..N |-> ws[n]]
      BY DEF ChildWrites
    <2> HIDE DEF ws, N
    <2> QED
      BY <2>1, <1>1, ListFacts
  <1>4. ASSUME NEW n \in 1..N
        PROVE  /\ n \in Nat /\ kid(n) \in Ref /\ n \div 2 \in 0..NChild /\ (n - 1) \div 2 \in 0..NChild
               /\ (n - 1) \div 2 = kid(n) - 1
               /\ \/ n = 2 * kid(n) - 1 /\ n \div 2 = kid(n) - 1
                  \/ n = 2 * kid(n) /\ n \div 2 = kid(n)
    <2>1. n \in Nat \ {0} /\ n <= 2 * NChild
      BY <1>1
    <2>2. /\ kid(n) \in Nat \ {0} /\ n \div 2 \in Nat /\ (n - 1) \div 2 \in Nat
          /\ (n - 1) \div 2 = kid(n) - 1
          /\ \/ n = 2 * kid(n) - 1 /\ n \div 2 = kid(n) - 1
             \/ n = 2 * kid(n) /\ n \div 2 = kid(n)
      BY <2>1, HalfFacts
    <2> HIDE DEF kid
    <2>3. kid(n) <= NChild
      BY <2>1, <2>2, <1>1
    <2> QED
      BY <2>1, <2>2, <2>3, <1>1
  <1>5. \A n \in 0..N : c[n] = KidsIn(dur, n \div 2)
    OBVIOUS
  <1> HIDE DEF kid, c, ws
  <1>6. ASSUME NEW n \in 1..N
        PROVE  IsProjection(m(n)) /\ Ahead(dur, m(n))
    <2>1. IsProjection(ChildrenUpTo(kid(n))) /\ Ahead(dur, ChildrenUpTo(kid(n)))
      BY <1>4, ChildrenUpToType
    <2> QED
      BY <2>1
  <1> HIDE DEF m
  <1>7. IsProjection(dur)
    BY DEF AtRest
  <1>8. ASSUME NEW n \in 1..N
        PROVE  IsWrite(ws[n]) /\ Appends(c[n - 1], ws[n], c[n], q, refusals)
    <2> DEFINE k == kid(n)
               e == ws[n].event
               p == KidsIn(dur, (n - 1) \div 2)
               s == KidsIn(dur, n \div 2)
    <2>1. k \in Ref /\ k \in Nat \ {0} /\ n - 1 \in 0..N /\ n \in 0..N
      BY <1>1, <1>4
    <2>2. c[n - 1] = p /\ c[n] = s
      BY <2>1, <1>5
    <2>3. /\ IsProjection(p) /\ IsProjection(s) /\ p.task = dur.task /\ s.task = dur.task
          /\ p.session = s.session
      BY <1>4, <1>7, KidsInFacts
    <2>4. IsEvent(e) /\ s = ReplayEvent(p, e)
      <3>1. CASE n = 2 * k - 1 /\ n \div 2 = k - 1
        <4>1. e = Unreplayed /\ s = p
          BY <3>1, <1>2, <1>4
        <4> HIDE DEF e, s, p
        <4>2. ReplayEvent(p, Unreplayed) = p
          BY ReplayOf
        <4> QED
          BY <4>1, <4>2, EventsTyped
      <3>2. CASE n = 2 * k /\ n \div 2 = k
        <4>1. e = ChildEvent(ChildId(k)) /\ s = KidsIn(dur, k) /\ p = KidsIn(dur, k - 1)
          <5>1. n # 2 * k - 1
            BY <3>2, <2>1
          <5> QED
            BY <5>1, <3>2, <1>2, <1>4
        <4>2. ReplayEvent(p, ChildEvent(ChildId(k))) = WithChild(p, ChildId(k))
          BY ReplayOf
        <4>3. WithChild(KidsIn(dur, k - 1), ChildId(k)) = KidsIn(dur, k)
          BY <2>1, <1>7, NextKid
        <4>4. ChildId(k) \in Nat
          BY <2>1, ChildIdFacts
        <4> HIDE DEF e, s, p, k
        <4>5. IsEvent(ChildEvent(ChildId(k)))
          BY <4>4, EventsTyped
        <4> QED
          BY <4>1, <4>2, <4>3, <4>5
      <3> QED
        BY <3>1, <3>2, <1>4
    <2>5. ws[n].keyed = FALSE /\ ws[n].mem = m(n) /\ IsProjection(m(n)) /\ Ahead(dur, m(n))
      BY <1>2, <1>6
    <2> HIDE DEF p, s
    <2>6. Moves(p, s, refusals)
      BY <2>3, MovesNothing
    <2>7. Ahead(s, m(n))
      BY <2>3, <2>5, AheadSame
    <2>8. Appends(p, ws[n], s, q, refusals)
      BY <2>4, <2>5, <2>6, <2>7 DEF Appends
    <2> QED
      BY <2>2, <2>4, <2>5, <2>8 DEF IsWrite
  <1>9. IsWork(ws)
    BY <1>3, <1>8 DEF IsWork
  <1>10. c[0] = dur /\ c[N] = WithKids(dur, NChild)
    <2>1. N \div 2 = NChild /\ 0 \div 2 = 0
      BY <1>1, HalfEnds
    <2>2. 0 \in 0..N /\ N \in 0..N
      BY <1>1
    <2> HIDE DEF N
    <2>3. c[0] = KidsIn(dur, 0) /\ c[N] = KidsIn(dur, NChild)
      BY <2>1, <2>2, <1>5
    <2> QED
      BY <2>3, <1>1 DEF KidsIn
  <1>11. ws[N].mem = last
    <2>1. kid(N) = NChild
      BY <1>1, HalfEnds DEF kid
    <2>2. N \in 1..N /\ N # 2 * NChild - 1
      BY <1>1
    <2>3. m(N) = last
      BY <2>1, <2>2 DEF m
    <2> QED
      BY <2>2, <2>3, <1>2
  <1> HIDE DEF N
  <1>12. Run(c, dur, ws, WithKids(dur, NChild), q, refusals)
    BY <1>3, <1>8, <1>10 DEF Run
  <1>13. Path(dur, ws, WithKids(dur, NChild), q, refusals)
    BY <1>12 DEF Path
  <1> QED
    BY <1>3, <1>9, <1>11, <1>13 DEF ws, N
LEMMA SameKids ==
  ASSUME AtRest, Same(dur, mem)
  PROVE  Same(WithKids(dur, NChild), ChildrenUpTo(NChild))
  <1> DEFINE k == dur.children \cup Ids(NChild)
             p == WithKids(dur, NChild)
             q == ChildrenUpTo(NChild)
  <1>1. /\ p.session = dur.session /\ p.epochs = dur.epochs /\ p.task = dur.task
        /\ p.plans = dur.plans /\ p.children = k /\ p.att = dur.att /\ p.integ = dur.integ
    BY WithKidsFacts DEF AtRest
  <1>2. /\ q.session = mem.session /\ q.epochs = mem.epochs /\ q.task = mem.task
        /\ q.plans = mem.plans /\ q.att = mem.att /\ q.integ = mem.integ
    BY ChildrenUpToFacts
  <1>3. q.children = k
    BY ChildrenUpToFacts DEF Same
  <1> HIDE DEF k, p, q
  <1>4. Same(p, q)
    BY <1>1, <1>2, <1>3 DEF Same
  <1> QED
    BY <1>4 DEF p, q

LEMMA SameWithPlan ==
  ASSUME NEW p, IsProjection(p), NEW q, IsProjection(q), Same(p, q), NEW n
  PROVE  Same(WithPlan(p, n), WithPlan(q, n))
  BY WithPlanFacts DEF Same

PlannedTask == Planned.task

LEMMA PlannedFacts ==
  ASSUME AtRest
  PROVE  LET k == WithPlan(ChildrenUpTo(NChild), PlanId)
         IN /\ IsProjection(k) /\ IsProjection(Planned)
            /\ Planned = Updated(k, PlannedTask)
            /\ Planned.session = mem.session /\ Planned.epochs = mem.epochs
            /\ PlannedTask \in Task /\ PlannedTask.status = "planned"
            /\ PlannedTask.version = mem.task.version + 1 /\ PlannedTask.plan = PlanId
            /\ PlannedTask.evidence = mem.task.evidence
  <1> DEFINE u == ChildrenUpTo(NChild)
             k == WithPlan(u, PlanId)
             t == k.task
             ids == Ids(NChild)
  <1>1. NChild \in Ref /\ Ref = 1..NChild
    BY TasksAssumption DEF Ref
  <1>2. IsProjection(u) /\ u.task = mem.task /\ u.session = mem.session /\ u.epochs = mem.epochs
    BY <1>1, ChildrenUpToType, ChildrenUpToFacts
  <1>3. PlanId \in Nat \ {0} /\ ids \subseteq Nat
    BY <1>1, ChildIdFacts
  <1>4. Planned = [k EXCEPT !.task.kids = ids]
    BY <1>1 DEF Planned, Ids
  <1> HIDE DEF u, ids
  <1>5. IsProjection(k) /\ k.session = u.session /\ k.epochs = u.epochs
        /\ t = PlannedAs(mem.task, PlanId)
    BY <1>2, <1>3, WithPlanType, WithPlanFacts
  <1>6. mem.task \in Task
    BY DEF AtRest, IsProjection
  <1>7. /\ t \in Task /\ t.status = "planned" /\ t.version = mem.task.version + 1
        /\ t.plan = PlanId /\ t.evidence = mem.task.evidence
    BY <1>3, <1>5, <1>6, PlannedAsType
  <1> HIDE DEF k
  <1> DEFINE s == [t EXCEPT !.kids = ids]
  <1>8. Planned = [k EXCEPT !.task = s]
    BY <1>4
  <1> HIDE DEF t
  <1>9. s \in Task /\ s.status = t.status /\ s.version = t.version /\ s.plan = t.plan
        /\ s.evidence = t.evidence
    BY <1>3, <1>7 DEF Task
  <1> HIDE DEF s
  <1>10. Planned = Updated(k, s)
    BY <1>8 DEF Updated
  <1>11. PlannedTask = s /\ Planned.session = k.session /\ Planned.epochs = k.epochs
    BY <1>5, <1>10, UpdatedFacts DEF PlannedTask
  <1>12. IsProjection(Planned)
    BY <1>5, <1>9, <1>10, UpdatedType
  <1>13. /\ IsProjection(k) /\ IsProjection(Planned)
         /\ Planned = Updated(k, PlannedTask)
         /\ Planned.session = mem.session /\ Planned.epochs = mem.epochs
         /\ PlannedTask \in Task /\ PlannedTask.status = "planned"
         /\ PlannedTask.version = mem.task.version + 1 /\ PlannedTask.plan = PlanId
         /\ PlannedTask.evidence = mem.task.evidence
    BY <1>2, <1>5, <1>7, <1>9, <1>10, <1>11, <1>12
  <1> QED
    BY <1>13 DEF k, u

\* The appends of the plan itself, after those of the children.
LEMMA PlanSound ==
  ASSUME AtRest, mem.task.status = "draft", NEW q, q.version = mem.task.version, q.op = "plan"
  PROVE  Sound(q, mem, ChildWrites(Planned) \o PlanWrites, "done")
  <1> DEFINE n == PlanId
             t == PlannedTask
             k == WithPlan(ChildrenUpTo(NChild), n)
             e1 == WithKids(dur, NChild)
             e2 == WithPlan(e1, n)
             e3 == Updated(e2, t)
             v == Write(PlanEvent(n), TRUE, Planned)
             w == Write(TaskEvent(t), FALSE, Planned)
             cs == ChildWrites(Planned)
             vs == <<v, w>>
             ws == cs \o vs
  <1>1. PlanWrites = vs
    BY DEF PlanWrites, PlannedTask
  <1>2. /\ IsProjection(k) /\ IsProjection(Planned) /\ Planned = Updated(k, t)
        /\ Planned.session = mem.session /\ Planned.epochs = mem.epochs /\ Planned.task = t
        /\ t \in Task /\ t.status = "planned" /\ t.version = mem.task.version + 1 /\ t.plan = n
        /\ t.evidence = mem.task.evidence
    BY PlannedFacts DEF PlannedTask
  <1>3. n \in Nat \ {0} /\ NChild \in Ref
    BY ChildIdFacts, TasksAssumption DEF Ref
  <1>4. v.event = PlanEvent(n) /\ v.mem = Planned
    BY DEF Write
  <1>5. w.event = TaskEvent(t) /\ w.mem = Planned /\ w.keyed = FALSE
    BY DEF Write
  <1> HIDE DEF v, w
  <1>6. IsProjection(mem) /\ IsProjection(dur) /\ Ahead(dur, mem)
    BY DEF AtRest
  <1>7. /\ mem.task.version \in Nat /\ dur.task.version \in Nat /\ dur.session.version \in Nat
        /\ dur.task.status \in Statuses /\ dur.task.version <= mem.task.version
        /\ dur.task.evidence # "missing" => mem.task.evidence # "missing"
    BY <1>6 DEF IsProjection, IsSession, Task, Ahead
  <1>8. dur.task.status = "draft"
    BY <1>6, <1>7, OnlyDraftReachesDraft DEF Ahead
  <1>9. IsProjection(e1) /\ e1.task = dur.task /\ e1.session = dur.session
    BY <1>3, <1>6, WithKidsType, WithKidsFacts
  <1>10. /\ IsProjection(e2) /\ e2.session = e1.session
         /\ e2.task = PlannedAs(dur.task, n)
    BY <1>3, <1>9, WithPlanType, WithPlanFacts
  <1> HIDE DEF e1
  <1>11. /\ e2.task.status = "planned" /\ e2.task.version = dur.task.version + 1
         /\ e2.task.plan = n /\ e2.task.evidence = dur.task.evidence
    <2>1. dur.task \in Task
      BY <1>6 DEF IsProjection
    <2> HIDE DEF e2, n
    <2> QED
      BY <2>1, <1>3, <1>10, PlannedAsType
  <1> HIDE DEF e2
  <1>12. IsProjection(e3) /\ e3.task = t /\ e3.session = e2.session
    BY <1>2, <1>10, UpdatedType, UpdatedFacts
  <1> HIDE DEF e3
  <1>13. "planned" \in Reachable["draft"] /\ "planned" \in Reachable["planned"]
    <2>1. "draft" \in Statuses /\ "planned" \in Statuses
      BY DEF Statuses, Live
    <2>2. "planned" \in Successors["draft"]
      BY DEF Successors, Statuses, Live, Terminal
    <2> QED
      BY <2>1, <2>2, ReachRefl, ReachStep
  <1>14. Ahead(dur, Planned) /\ Ahead(e1, e2) /\ Ahead(e2, Planned) /\ Ahead(e2, e3) /\ Ahead(e3, Planned)
    BY <1>2, <1>3, <1>7, <1>8, <1>9, <1>11, <1>12, <1>13 DEF Ahead
  <1>15. Moves(e1, e2, refusals) /\ Moves(e2, e3, refusals)
    BY <1>2, <1>7, <1>9, <1>10, <1>11, <1>12, <1>14 DEF Moves, Completes
  <1>16. Done(q, e2, refusals)
    <2>1. refusals = 0 => dur.task.version = mem.task.version
      BY DEF AtRest, Same
    <2> QED
      BY <2>1, <1>3, <1>7, <1>11, <1>13, TargetFacts DEF Done
  <1>17. Done(q, e3, refusals)
    BY <1>2, <1>3, <1>7, <1>12, <1>13, TargetFacts DEF Done
  <1>18. Appends(e1, v, e2, q, refusals)
    <2>1. ReplayEvent(e1, PlanEvent(n)) = e2
      BY ReplayOf DEF e2
    <2> QED
      BY <2>1, <1>4, <1>14, <1>15, <1>16 DEF Appends
  <1>19. Appends(e2, w, e3, q, refusals)
    <2>1. ReplayEvent(e2, TaskEvent(t)) = e3
      BY ReplayOf DEF e3
    <2> QED
      BY <2>1, <1>5, <1>14, <1>15, <1>17 DEF Appends
  <1>20. IsWork(vs) /\ IsSequence(vs) /\ vs # <<>> /\ Len(vs) = 2 /\ vs[2] = w
    <2>1. IsEvent(PlanEvent(n)) /\ IsEvent(TaskEvent(t))
      BY <1>2, <1>3, EventsTyped
    <2>2. IsWrite(v) /\ IsWrite(w)
      BY <2>1, <1>2, <1>4, <1>5 DEF IsWrite
    <2>3. IsWork(vs)
      BY <2>2, WorkTwo
    <2> QED
      BY <2>3, ShortSequences DEF IsWork
  <1>21. Path(e1, vs, e3, q, refusals)
    <2>1. Path(e1, <<v>>, e2, q, refusals) /\ Path(e2, <<w>>, e3, q, refusals)
      BY <1>18, <1>19, OneAppend
    <2>2. Path(e1, <<v>> \o <<w>>, e3, q, refusals)
      BY <2>1, MoreAppends, ShortSequences
    <2> QED
      BY <2>2, TwoAsOne
  <1>22. IsWork(cs) /\ IsSequence(cs) /\ Path(dur, cs, e1, q, refusals)
    BY <1>2, <1>14, KidsPath DEF IsWork, e1
  <1> HIDE DEF cs, vs
  <1>23. Path(dur, ws, e3, q, refusals)
    BY <1>20, <1>21, <1>22, MoreAppends
  <1>24. Final(mem, ws) = Planned
    BY <1>5, <1>20, <1>22, FinalMore
  <1>25. IsWork(ws)
    BY <1>20, <1>22, WorkMore
  <1>26. refusals = 0 => Same(e3, Planned) /\ ActiveIn(Planned)
    <2> SUFFICES ASSUME refusals = 0 PROVE Same(e3, Planned) /\ ActiveIn(Planned)
      OBVIOUS
    <2>1. Same(dur, mem) /\ ActiveIn(mem)
      BY DEF AtRest
    <2>2. Same(e1, ChildrenUpTo(NChild))
      BY <2>1, SameKids DEF e1
    <2>3. IsProjection(ChildrenUpTo(NChild))
      BY <1>3, ChildrenUpToType
    <2>4. Same(e2, k)
      BY <2>2, <2>3, <1>9, SameWithPlan DEF e2
    <2>5. Same(e3, Planned)
      <3> HIDE DEF k
      <3> QED
        BY <2>4, <1>2, <1>10, SameUpdated DEF e3
    <2>6. ActiveIn(Planned)
      BY <2>1, <1>2 DEF ActiveIn
    <2> QED
      BY <2>5, <2>6
  <1> HIDE DEF ws
  <1>27. Serves(dur, mem, ws, q, "done", refusals)
    BY <1>17, <1>23, <1>24, <1>26 DEF Serves, Leaves
  <1>28. Sound(q, mem, ws, "done")
    BY <1>6, <1>25, <1>27 DEF Sound
  <1> QED
    BY <1>1, <1>28 DEF ws, cs

\* A plan that is refused has left its children.
LEMMA KidsSound ==
  ASSUME AtRest, NEW q
  PROVE  Sound(q, mem, ChildWrites(ChildrenUpTo(NChild)), "refused")
  <1> DEFINE l == ChildrenUpTo(NChild)
             e == WithKids(dur, NChild)
             ws == ChildWrites(l)
             N == 2 * NChild
  <1>1. NChild \in Nat \ {0} /\ NChild \in Ref
    BY TasksAssumption DEF Ref
  <1>2. IsProjection(l) /\ Ahead(dur, l)
    BY <1>1, ChildrenUpToType
  <1>3. l.session = mem.session /\ l.epochs = mem.epochs
    BY ChildrenUpToFacts
  <1>4. refusals = 0 => Same(e, l) /\ ActiveIn(l)
    <2>1. refusals = 0 => Same(e, l)
      BY SameKids DEF AtRest
    <2> HIDE DEF l
    <2>2. refusals = 0 => ActiveIn(l)
      BY <1>3 DEF AtRest, ActiveIn
    <2> QED
      BY <2>1, <2>2
  <1> HIDE DEF l, e
  <1>5. IsWork(ws) /\ Len(ws) = N /\ ws[N].mem = l /\ Path(dur, ws, e, q, refusals)
    BY <1>2, KidsPath DEF e
  <1> HIDE DEF ws
  <1>6. Final(mem, ws) = l
    <2>1. N # 0 /\ Len(<<>>) = 0
      BY <1>1
    <2>2. ws # <<>>
      BY <2>1, <1>5
    <2> QED
      BY <2>2, <1>5 DEF Final
  <1>7. Serves(dur, mem, ws, q, "refused", refusals)
    BY <1>4, <1>5, <1>6 DEF Serves, Leaves
  <1>8. Sound(q, mem, ws, "refused")
    BY <1>5, <1>7 DEF Sound, AtRest
  <1> QED
    BY <1>8 DEF ws, l

LEMMA Plans ==
  ASSUME TypeInv, PathInv, AtRest, NEW r, NEW q, q \in Asks(r), q.op = "plan",
         Plan(r, q.version)
  PROVE  Handled(r, q)
  <1>1. CASE Repeat(r)
    BY <1>1, Repeats
  <1>2. CASE Refuse(r)
    BY <1>2, Refuses
  <1>3. CASE /\ mem.task.version = q.version /\ mem.task.status = "draft"
             /\ Serve(r, mem, ChildWrites(Planned) \o PlanWrites, "done")
    <2>1. Sound(q, mem, ChildWrites(Planned) \o PlanWrites, "done")
      BY <1>3, PlanSound
    <2> QED
      BY <1>3, <2>1 DEF Handled
  <1>4. CASE Serve(r, mem, ChildWrites(ChildrenUpTo(NChild)), "refused")
    <2>1. Sound(q, mem, ChildWrites(ChildrenUpTo(NChild)), "refused")
      BY KidsSound
    <2> QED
      BY <1>4, <2>1 DEF Handled
  <1> QED
    BY <1>1, <1>2, <1>3, <1>4 DEF Plan
-----------------------------------------------------------------------------
(* The steps *)

Inv == TypeInv /\ PathInv

\* Where every behaviour begins.
LEMMA CreatedFacts ==
  ASSUME NEW mode \in Mode
  PROVE  IsProjection(Created(mode)) /\ AllActive(Created(mode)) /\ ActiveIn(Created(mode))
         /\ Created(mode).task.status = "draft"
  <1> DEFINE p == Created(mode)
  <1>1. /\ DOMAIN p = {"session", "epochs", "task", "plans", "children", "refs", "att", "integ"}
        /\ p.session = [mode |-> mode, version |-> 1, active |-> 0]
        /\ p.epochs = <<>> /\ p.att = <<>> /\ p.plans = {} /\ p.children = {}
        /\ p.task = [status |-> "draft", version |-> 1, plan |-> 0, kids |-> {},
                     evidence |-> "missing", cp |-> "none"]
        /\ p.refs = [c \in Ref |-> 0] /\ p.integ = [c \in Ref |-> "none"]
    BY DEF Created
  <1>2. DOMAIN <<>> = {}
    OBVIOUS
  <1>3. IsFiniteSet({})
    BY FS_EmptySet
  <1>4. p.task \in Task /\ p.task.status = "draft"
    BY <1>1 DEF Task, Statuses, Live, Evidence
  <1>5. IsSession(p.session) /\ p.session.active = 0
    BY <1>1 DEF IsSession
  <1>6. p.refs \in [Ref -> Nat] /\ p.integ \in [Ref -> IntegrationStatus]
    BY <1>1 DEF IntegrationStatus
  <1>7. DOMAIN p.epochs = {} /\ DOMAIN p.att = {}
    BY <1>1, <1>2
  <1>8. IsProjection(p)
    BY <1>1, <1>3, <1>4, <1>5, <1>6, <1>7 DEF IsProjection
  <1>9. AllActive(p) /\ ActiveIn(p)
    BY <1>5, <1>7 DEF AllActive, ActiveIn
  <1> QED
    BY <1>4, <1>8, <1>9

LEMMA InitInv ==
  ASSUME Init
  PROVE  Inv /\ dur.task.status = "draft"
  <1> DEFINE created == Created(scenario.mode)
             p == IF scenario.registered THEN WithEpoch(created, 1, 1) ELSE created
  <1>1. scenario \in Scenario /\ scenario \in Scenarios
    BY TasksAssumption DEF Init
  <1>2. scenario.mode \in Mode
    BY <1>1 DEF Scenario
  <1>3. Began(p)
    BY DEF Init
  <1>4. IsProjection(created) /\ AllActive(created) /\ ActiveIn(created)
        /\ created.task.status = "draft"
    BY <1>2, CreatedFacts
  <1> HIDE DEF created
  <1>5. IsProjection(p) /\ AllActive(p) /\ ActiveIn(p) /\ p.task.status = "draft"
    <2>1. CASE scenario.registered
      <3>1. p = WithEpoch(created, 1, 1)
        BY <2>1
      <3> HIDE DEF p
      <3> QED
        BY <3>1, <1>4, WithEpochType, RegisterFacts
    <2>2. CASE ~scenario.registered
      BY <2>2, <1>4
    <2> QED
      BY <2>1, <2>2
  <1> HIDE DEF p
  <1>6. /\ mem = p /\ dur = p /\ todo = <<>> /\ current = Nobody /\ reply = "done"
        /\ recorded = {} /\ answered = {} /\ refusals = 0
    BY <1>3 DEF Began
  <1>7. TypeInv
    BY <1>1, <1>5, <1>6, WorkNone DEF Init, TypeInv
  <1>8. Ahead(dur, mem)
    BY <1>5, <1>6, AheadRefl
  <1>9. Asked = NotSent
    BY <1>6 DEF Asked
  <1>10. Serves(dur, mem, todo, Asked, reply, refusals)
    <2>1. Path(dur, <<>>, dur, Asked, refusals)
      BY NoAppends
    <2>2. Leaves(mem, <<>>, dur, refusals)
      BY <1>5, <1>6, FinalFacts, SameRefl DEF Leaves
    <2>3. Done(Asked, dur, refusals)
      BY <1>9, NotAsked
    <2> QED
      BY <1>6, <2>1, <2>2, <2>3 DEF Serves
  <1>11. PathInv
    BY <1>5, <1>6, <1>8, <1>10 DEF PathInv
  <1> QED
    BY <1>5, <1>6, <1>7, <1>11 DEF Inv

\* What a client asks.
LEMMA AskedIsQuestion ==
  ASSUME TypeInv, NEW r \in Request, NEW q \in Asks(r)
  PROVE  IsQuestion(q) /\ q # NotSent /\ (sent[r] # NotSent => q = sent[r])
  <1>1. CASE sent[r] # NotSent
    BY <1>1 DEF Asks, TypeInv
  <1>2. CASE sent[r] = NotSent
    <2> DEFINE op == scenario.ask[r]
    <2>1. PICK a \in Arguments(op) : q = [op |-> op, version |-> VersionFor(op), arg |-> a]
      BY <1>2 DEF Asks
    <2>2. scenario \in Scenario
      BY TasksAssumption DEF TypeInv
    <2>3. op \in Operation \cup {"none"}
      BY <2>2 DEF Scenario
    <2>4. VersionFor(op) \in Nat
      BY DEF VersionFor, TypeInv, IsProjection, IsSession, Task
    <2> HIDE DEF op
    <2>5. op # "none" /\ (op = "evidence" => a \in Evidence \ {"missing"})
      BY <2>1 DEF Arguments, Evidence
    <2>6. op \in Operation
      BY <2>3, <2>5
    <2>7. q.op = op /\ q.version = VersionFor(op) /\ q.arg = a
      BY <2>1
    <2>8. IsQuestion(q)
      BY <2>4, <2>5, <2>6, <2>7 DEF IsQuestion
    <2>9. q # NotSent
      BY <2>5, <2>7 DEF NotSent
    <2> QED
      BY <1>2, <2>8, <2>9
  <1> QED
    BY <1>1, <1>2

LEMMA HandleServed ==
  ASSUME TypeInv, PathInv, NEW r \in Request, NEW q \in Asks(r), Handle(r, q)
  PROVE  Handled(r, q)
  <1>1. AtRest
    BY RestFacts DEF Handle
  <1>2. IsQuestion(q)
    BY AskedIsQuestion
  <1>3. CASE q.op = "register" /\ Register(r, q.version)
    BY <1>1, <1>3, Registers
  <1>4. CASE q.op = "ensure" /\ Ensure(r, q.version)
    BY <1>1, <1>4, Ensures
  <1>5. CASE q.op = "switch" /\ Switch(r, q.version)
    BY <1>1, <1>5, Switches
  <1>6. CASE q.op = "plan" /\ Plan(r, q.version)
    BY <1>1, <1>6, Plans
  <1>7. CASE q.op = "execute" /\ Execute(r, q.version)
    BY <1>1, <1>7, Executes
  <1>8. CASE q.op = "pause" /\ Pause(r, q.version)
    BY <1>1, <1>8, Pauses
  <1>9. CASE q.op = "resume" /\ Resume(r, q.version)
    BY <1>1, <1>9, Resumes
  <1>10. CASE q.op = "cancel" /\ Cancel(r, q.version)
    BY <1>1, <1>10, Cancels
  <1>11. CASE q.op = "verify" /\ Verify(r, q.version, q.arg)
    BY <1>1, <1>11, Verifies
  <1>12. CASE q.op = "evidence" /\ Record(r, q.version, q.arg)
    BY <1>1, <1>2, <1>12, Records
  <1> QED
    BY <1>3, <1>4, <1>5, <1>6, <1>7, <1>8, <1>9, <1>10, <1>11, <1>12 DEF Handle

LEMMA HandleStep ==
  ASSUME TypeInv, PathInv, NEW r \in Request, NEW q \in Asks(r), Handle(r, q)
  PROVE  TypeInv' /\ PathInv' /\ dur' = dur
  <1>1. PICK m, ws, told : Serve(r, m, ws, told) /\ Sound(q, m, ws, told)
    BY HandleServed DEF Handled
  <1>2. /\ current' = r /\ reply' = told /\ mem' = m /\ todo' = ws /\ dur' = dur
        /\ recorded' = recorded /\ answered' = answered /\ refusals' = refusals
    BY <1>1 DEF Serve
  <1>3. sent' = [sent EXCEPT ![r] = q] /\ scenario' = scenario
    BY DEF Handle
  <1>4. IsQuestion(q) /\ q # NotSent /\ (sent[r] # NotSent => q = sent[r])
    BY AskedIsQuestion
  <1>5. DOMAIN sent = Request /\ DOMAIN sent' = Request /\ sent'[r] = q
        /\ \A s \in Request : s # r => sent'[s] = sent[s]
    BY <1>3 DEF TypeInv
  <1>6. recorded \subseteq Request /\ answered \subseteq Request
        /\ \A s \in recorded \cup answered : sent[s] # NotSent /\ sent'[s] = sent[s]
    BY <1>4, <1>5 DEF TypeInv
  <1>7. r # Nobody
    BY TasksAssumption
  <1>8. TypeInv'
    <2>1. \A s \in Request : sent'[s] = NotSent \/ IsQuestion(sent'[s])
      BY <1>4, <1>5 DEF TypeInv
    <2>2. \A s \in recorded' \cup answered' : sent'[s] # NotSent
      BY <1>2, <1>6
    <2>3. /\ IsProjection(mem') /\ IsWork(todo') /\ reply' \in {"done", "refused", "failed"}
      BY <1>1, <1>2 DEF Sound
    <2>4. IsProjection(dur') /\ refusals' \in Nat /\ scenario' \in Scenarios
      BY <1>2, <1>3 DEF TypeInv
    <2>5. current' \in Request \cup {Nobody} /\ current' # Nobody /\ sent'[current'] # NotSent
      BY <1>2, <1>4, <1>5, <1>7
    <2>6. recorded' \subseteq Request /\ answered' \subseteq Request
      BY <1>2, <1>6
    <2> QED
      BY <1>5, <2>1, <2>2, <2>3, <2>4, <2>5, <2>6 DEF TypeInv
  <1>9. PathInv'
    <2>1. Ahead(dur', mem') /\ AllActive(dur')
      BY <1>1, <1>2 DEF Sound, PathInv
    <2>2. \A s \in recorded' \cup answered' : Done(sent'[s], dur', refusals')
      BY <1>2, <1>6 DEF PathInv
    <2>3. Asked' = q
      BY <1>2, <1>5, <1>7 DEF Asked
    <2>4. Serves(dur', mem', todo', Asked', reply', refusals')
      BY <1>1, <1>2, <2>3 DEF Sound
    <2> QED
      BY <2>1, <2>2, <2>4 DEF PathInv
  <1> QED
    BY <1>2, <1>8, <1>9
\* The epochs that a restart rebuilds are active: their release is not replayed.
LEMMA ReplayActive ==
  ASSUME NEW p, IsProjection(p), AllActive(p), NEW e, IsEvent(e)
  PROVE  AllActive(ReplayEvent(p, e))
  <1>1. CASE e.type = "session.epoch_registered"
    <2>1. e.id \in Nat \ {0} /\ e.version \in Nat
      BY <1>1 DEF IsEvent
    <2>2. AllActive(WithEpoch(p, e.id, e.version))
      BY <2>1, RegisterFacts
    <2> QED
      BY <1>1, <2>2, ReplayCases
  <1>2. CASE e.type # "session.epoch_registered"
    <2>1. ReplayEvent(p, e).epochs = p.epochs
      <3>1. CASE e.type = "task.updated"
        BY <3>1, ReplayCases, UpdatedFacts
      <3>2. CASE e.type = "child_task.created"
        BY <3>2, ReplayCases, WithChildFacts
      <3>3. CASE e.type = "plan.committed"
        BY <3>3, ReplayCases, WithPlanFacts
      <3>4. CASE e.type = "worker.queued"
        BY <3>4, ReplayCases, WithAttemptFacts
      <3>5. CASE e.type = "integration.recorded"
        BY <3>5, ReplayCases, IntegratedFacts
      <3>6. CASE e.type \notin {"session.epoch_registered", "task.updated", "child_task.created",
                                "plan.committed", "worker.queued", "integration.recorded"}
        BY <3>6, ReplayCases
      <3> QED
        BY <1>2, <3>1, <3>2, <3>3, <3>4, <3>5, <3>6
    <2> QED
      BY <2>1 DEF AllActive
  <1> QED
    BY <1>1, <1>2

LEMMA PersistStep ==
  ASSUME TypeInv, PathInv, Persist, UNCHANGED <<scenario, sent>>
  PROVE  TypeInv' /\ PathInv' /\ Moves(dur, dur', refusals)
  <1> DEFINE h == Head(todo)
  <1>1. PICK e : /\ Path(dur, todo, e, Asked, refusals)
                 /\ reply = "done" => Done(Asked, e, refusals)
                 /\ Leaves(mem, todo, e, refusals)
    BY DEF PathInv, Serves
  <1>2. /\ todo # <<>> /\ mem' = h.mem /\ dur' = ReplayEvent(dur, h.event) /\ todo' = Tail(todo)
        /\ recorded' = (IF h.keyed THEN recorded \cup {current} ELSE recorded)
        /\ current' = current /\ reply' = reply /\ answered' = answered /\ refusals' = refusals
        /\ scenario' = scenario /\ sent' = sent
    BY DEF Persist
  <1>3. current \in Request /\ sent[current] # NotSent /\ Asked = sent[current] /\ Asked' = Asked
    BY <1>2 DEF TypeInv, Asked
  <1>4. IsWork(todo) /\ IsSequence(todo)
    BY DEF TypeInv, IsWork
  <1>5. Appends(dur, h, dur', Asked, refusals) /\ Path(dur', Tail(todo), e, Asked, refusals)
    BY <1>1, <1>2, <1>4, FirstAppend
  <1>6. IsWork(Tail(todo)) /\ IsWrite(h)
    BY <1>2, <1>4, WorkTail
  <1>7. Final(mem, todo) = Final(h.mem, Tail(todo))
    BY <1>2, <1>4, FinalTail
  <1> HIDE DEF h
  <1>8. IsProjection(dur) /\ IsProjection(dur') /\ AllActive(dur')
    BY <1>2, <1>6, ReplayType, ReplayActive DEF TypeInv, PathInv, IsWrite
  <1>9. Moves(dur, dur', refusals) /\ Ahead(dur', h.mem) /\ (h.keyed => Done(Asked, dur', refusals))
    BY <1>5 DEF Appends
  <1>10. TypeInv'
    BY <1>2, <1>3, <1>6, <1>8 DEF TypeInv, IsWrite
  <1>11. \A r \in recorded' \cup answered' : Done(sent'[r], dur', refusals')
    <2>1. ASSUME NEW r \in recorded \cup answered
          PROVE  Done(sent[r], dur', refusals)
      <3>1. IsQuestion(sent[r]) /\ Done(sent[r], dur, refusals)
        BY DEF TypeInv, PathInv
      <3> QED
        BY <3>1, <1>8, <1>9, DoneStays
    <2>2. h.keyed => Done(sent[current], dur', refusals)
      BY <1>3, <1>9
    <2> QED
      BY <2>1, <2>2, <1>2
  <1>12. Serves(dur', mem', todo', Asked', reply', refusals')
    BY <1>1, <1>2, <1>3, <1>5, <1>7 DEF Serves, Leaves
  <1>13. PathInv'
    BY <1>2, <1>8, <1>9, <1>11, <1>12 DEF PathInv
  <1> QED
    BY <1>9, <1>10, <1>13

\* Nothing is left to append, and memory is the journal's or a later one.
LEMMA RestServes ==
  ASSUME NEW d, NEW m, NEW asked, NEW told, NEW k,
         told = "done" => Done(asked, d, k), k = 0 => Same(d, m) /\ ActiveIn(m)
  PROVE  Serves(d, m, <<>>, asked, told, k)
  <1>1. Path(d, <<>>, d, asked, k)
    BY NoAppends
  <1>2. Leaves(m, <<>>, d, k)
    BY FinalFacts DEF Leaves
  <1> QED
    BY <1>1, <1>2 DEF Serves

LEMMA RefuseStep ==
  ASSUME TypeInv, PathInv, RefusedByCapacity, UNCHANGED <<scenario, sent>>
  PROVE  TypeInv' /\ PathInv' /\ dur' = dur
  <1>1. /\ todo # <<>> /\ refusals' = refusals + 1 /\ todo' = <<>> /\ reply' = "failed"
        /\ mem' = mem /\ dur' = dur /\ current' = current /\ recorded' = recorded
        /\ answered' = answered /\ scenario' = scenario /\ sent' = sent
    BY DEF RefusedByCapacity
  <1>2. refusals' \in Nat /\ refusals' # 0
    BY <1>1 DEF TypeInv
  <1>3. TypeInv'
    BY <1>1, <1>2, WorkNone DEF TypeInv
  <1>4. \A r \in recorded' \cup answered' : Done(sent'[r], dur', refusals')
    BY <1>1, <1>2 DEF PathInv, Done
  <1>5. Serves(dur', mem', todo', Asked', reply', refusals')
    BY <1>1, <1>2, RestServes
  <1> QED
    BY <1>1, <1>3, <1>4, <1>5 DEF PathInv

LEMMA AnswerStep ==
  ASSUME TypeInv, PathInv, Answer, UNCHANGED <<scenario, sent>>
  PROVE  TypeInv' /\ PathInv' /\ dur' = dur
  <1>1. /\ current # Nobody /\ todo = <<>> /\ current' = Nobody /\ reply' = "done"
        /\ answered' = (IF reply = "done" THEN answered \cup {current} ELSE answered)
        /\ mem' = mem /\ dur' = dur /\ todo' = todo /\ recorded' = recorded
        /\ refusals' = refusals /\ scenario' = scenario /\ sent' = sent
    BY DEF Answer
  <1>2. PICK e : /\ Path(dur, todo, e, Asked, refusals)
                 /\ reply = "done" => Done(Asked, e, refusals)
                 /\ Leaves(mem, todo, e, refusals)
    BY DEF PathInv, Serves
  <1>3. e = dur /\ Final(mem, todo) = mem
    BY <1>1, <1>2, NoWork, FinalFacts
  <1>4. Asked = sent[current] /\ Asked' = NotSent
    BY <1>1 DEF Asked
  <1>5. TypeInv'
    BY <1>1 DEF TypeInv
  <1>6. \A r \in recorded' \cup answered' : Done(sent'[r], dur', refusals')
    BY <1>1, <1>2, <1>3, <1>4 DEF PathInv
  <1>7. Serves(dur', mem', todo', Asked', reply', refusals')
    <2>1. Done(Asked', dur', refusals')
      BY <1>4, NotAsked
    <2>2. refusals' = 0 => Same(dur', mem') /\ ActiveIn(mem')
      BY <1>1, <1>2, <1>3 DEF Leaves
    <2>3. todo' = <<>>
      BY <1>1
    <2> QED
      BY <2>1, <2>2, <2>3, RestServes
  <1> QED
    BY <1>1, <1>5, <1>6, <1>7 DEF PathInv

LEMMA CrashStep ==
  ASSUME TypeInv, PathInv, Crash, UNCHANGED <<scenario, sent>>
  PROVE  TypeInv' /\ PathInv' /\ dur' = dur
  <1>1. /\ mem' = dur /\ todo' = <<>> /\ current' = Nobody /\ reply' = "done" /\ dur' = dur
        /\ recorded' = recorded /\ answered' = answered /\ refusals' = refusals
        /\ scenario' = scenario /\ sent' = sent
    BY DEF Crash
  <1>2. TypeInv'
    BY <1>1, WorkNone DEF TypeInv
  <1>3. IsProjection(dur) /\ AllActive(dur)
    BY DEF TypeInv, PathInv
  <1>4. Ahead(dur, dur) /\ Same(dur, dur) /\ ActiveIn(dur)
    BY <1>3, AheadRefl, SameRefl DEF ActiveIn, AllActive, IsProjection
  <1>5. \A r \in recorded' \cup answered' : Done(sent'[r], dur', refusals')
    BY <1>1 DEF PathInv
  <1>6. Serves(dur', mem', todo', Asked', reply', refusals')
    <2>1. Asked' = NotSent
      BY <1>1 DEF Asked
    <2>2. Done(Asked', dur', refusals')
      BY <2>1, NotAsked
    <2> QED
      BY <1>1, <1>4, <2>2, RestServes
  <1> QED
    BY <1>1, <1>2, <1>3, <1>4, <1>5, <1>6 DEF PathInv

\* An event that says nothing of the task and the session.
LEMMA AppendStep ==
  ASSUME TypeInv, PathInv, NEW e, Append1(e), UNCHANGED <<scenario, sent>>, IsEvent(e),
         e.type \in {"worker.queued", "integration.recorded"}
  PROVE  TypeInv' /\ PathInv' /\ Moves(dur, dur', refusals)
  <1>1. /\ Idle /\ mem' = ReplayEvent(mem, e) /\ dur' = ReplayEvent(dur, e)
        /\ todo' = todo /\ current' = current /\ reply' = reply /\ recorded' = recorded
        /\ answered' = answered /\ refusals' = refusals /\ scenario' = scenario /\ sent' = sent
    BY DEF Append1
  <1>2. todo = <<>> /\ current = Nobody
    BY <1>1 DEF Idle, TypeInv
  <1>3. /\ IsProjection(mem) /\ IsProjection(dur) /\ Ahead(dur, mem) /\ AllActive(dur)
        /\ refusals = 0 => Same(dur, mem) /\ ActiveIn(mem)
    BY <1>1, RestFacts DEF AtRest
  <1>4. IsProjection(mem') /\ IsProjection(dur') /\ AllActive(dur')
    BY <1>1, <1>3, ReplayType, ReplayActive
  <1>5. /\ mem'.task = mem.task /\ mem'.session = mem.session /\ mem'.epochs = mem.epochs
        /\ dur'.task = dur.task /\ dur'.session = dur.session
        /\ Same(dur, mem) => Same(dur', mem')
    <2>1. CASE e.type = "worker.queued"
      <3>1. mem' = WithAttempt(mem, e.id, e.attempt) /\ dur' = WithAttempt(dur, e.id, e.attempt)
        BY <2>1, <1>1, ReplayCases
      <3> QED
        BY <3>1, <1>3, WithAttemptFacts, SameWithAttempt
    <2>2. CASE e.type = "integration.recorded"
      <3>1. mem' = Integrated(mem, e.ref, e.status) /\ dur' = Integrated(dur, e.ref, e.status)
        BY <2>2, <1>1, ReplayCases
      <3> QED
        BY <3>1, <1>3, IntegratedFacts, SameIntegrated
    <2> QED
      BY <2>1, <2>2
  <1>6. Moves(dur, dur', refusals)
    BY <1>3, <1>4, <1>5, MovesNothing
  <1>7. Ahead(dur', mem')
    BY <1>3, <1>5, AheadSame
  <1>8. TypeInv'
    BY <1>1, <1>4 DEF TypeInv
  <1>9. \A r \in recorded' \cup answered' : Done(sent'[r], dur', refusals')
    <2>1. ASSUME NEW r \in recorded \cup answered
          PROVE  Done(sent[r], dur', refusals)
      <3>1. IsQuestion(sent[r]) /\ Done(sent[r], dur, refusals)
        BY DEF TypeInv, PathInv
      <3> QED
        BY <3>1, <1>3, <1>4, <1>6, DoneStays
    <2> QED
      BY <2>1, <1>1
  <1>10. Serves(dur', mem', todo', Asked', reply', refusals')
    <2>1. Asked' = NotSent
      BY <1>1, <1>2 DEF Asked
    <2>2. Done(Asked', dur', refusals')
      BY <2>1, NotAsked
    <2>3. refusals' = 0 => Same(dur', mem') /\ ActiveIn(mem')
      BY <1>1, <1>3, <1>5 DEF ActiveIn
    <2>4. todo' = <<>>
      BY <1>1, <1>2
    <2> QED
      BY <2>2, <2>3, <2>4, RestServes
  <1> QED
    BY <1>4, <1>6, <1>7, <1>8, <1>9, <1>10 DEF PathInv

LEMMA AttemptEndsStep ==
  ASSUME TypeInv, PathInv, NEW i \in DOMAIN mem.att, NEW s \in {"succeeded", "failed"},
         AttemptEnds(i, s)
  PROVE  TypeInv' /\ PathInv' /\ Moves(dur, dur', refusals)
  <1> DEFINE a == [mem.att[i] EXCEPT !.status = s]
             e == AttemptEvent(i, a)
  <1>1. Append1(e) /\ UNCHANGED <<scenario, sent>>
    BY DEF AttemptEnds
  <1>2. i \in Nat /\ IsAttempt(mem.att[i])
    BY DEF TypeInv, IsProjection
  <1>3. IsAttempt(a)
    BY <1>2 DEF IsAttempt, AttemptStatus
  <1> HIDE DEF a
  <1>4. IsEvent(e) /\ e.type = "worker.queued"
    BY <1>2, <1>3, EventsTyped, EventTypes
  <1> HIDE DEF e
  <1> QED
    BY <1>1, <1>4, AppendStep

LEMMA IntegratesStep ==
  ASSUME TypeInv, PathInv, NEW c \in Ref, NEW s \in {"blocked", "integrated"}, Integrates(c, s)
  PROVE  TypeInv' /\ PathInv' /\ Moves(dur, dur', refusals)
  <1> DEFINE e == IntegrationEvent(c, s)
  <1>1. Append1(e) /\ UNCHANGED <<scenario, sent>>
    BY DEF Integrates
  <1>2. s \in IntegrationStatus
    BY DEF IntegrationStatus
  <1>3. IsEvent(e) /\ e.type = "integration.recorded"
    BY <1>2, EventsTyped, EventTypes
  <1> HIDE DEF e
  <1> QED
    BY <1>1, <1>3, AppendStep

LEMMA NextStep ==
  ASSUME Inv, [Next]_vars
  PROVE  Inv' /\ (dur' = dur \/ Moves(dur, dur', refusals))
  <1>1. TypeInv /\ PathInv
    BY DEF Inv
  <1>2. CASE FrameStep
    <2>1. UNCHANGED <<scenario, sent>>
      BY <1>2 DEF FrameStep
    <2>2. CASE Persist
      BY <1>1, <2>1, <2>2, PersistStep DEF Inv
    <2>3. CASE RefusedByCapacity
      BY <1>1, <2>1, <2>3, RefuseStep DEF Inv
    <2>4. CASE Answer
      BY <1>1, <2>1, <2>4, AnswerStep DEF Inv
    <2>5. CASE Crash
      BY <1>1, <2>1, <2>5, CrashStep DEF Inv
    <2> QED
      BY <1>2, <2>2, <2>3, <2>4, <2>5 DEF FrameStep
  <1>3. ASSUME NEW r \in Request, NEW q \in Asks(r), Handle(r, q)
        PROVE  Inv' /\ dur' = dur
    BY <1>1, <1>3, HandleStep DEF Inv
  <1>4. ASSUME NEW i \in DOMAIN mem.att, NEW s \in {"succeeded", "failed"}, AttemptEnds(i, s)
        PROVE  Inv' /\ Moves(dur, dur', refusals)
    BY <1>1, <1>4, AttemptEndsStep DEF Inv
  <1>5. ASSUME NEW c \in Ref, NEW s \in {"blocked", "integrated"}, Integrates(c, s)
        PROVE  Inv' /\ Moves(dur, dur', refusals)
    BY <1>1, <1>5, IntegratesStep DEF Inv
  <1>6. CASE UNCHANGED vars
    <2>1. /\ scenario' = scenario /\ sent' = sent /\ mem' = mem /\ dur' = dur /\ todo' = todo
          /\ current' = current /\ reply' = reply /\ recorded' = recorded /\ answered' = answered
          /\ refusals' = refusals
      BY <1>6 DEF vars
    <2>2. Asked' = Asked
      BY <2>1 DEF Asked
    <2> QED
      BY <1>1, <2>1, <2>2 DEF Inv, TypeInv, PathInv
  <1> QED
    BY <1>2, <1>3, <1>4, <1>5, <1>6 DEF Next

-----------------------------------------------------------------------------
(* The theorems *)

\* In every reachable state every frame still to be appended leads the journal
\* along the transition table, from facts to verdicts and from the request to
\* what its client will be told.
LEMMA Invariance ==
  Spec => []Inv
  <1>1. Init => Inv
    BY InitInv
  <1>2. Inv /\ [Next]_vars => Inv'
    BY NextStep
  <1> QED
    BY <1>1, <1>2, PTL DEF Spec

\* The projections are well formed, and only a handler that is being served has
\* appends left (Service, ControlService, Store.commit_frame).
THEOREM TypeCorrect == Spec => []TypeOK
  <1>1. Inv => TypeOK
    <2> SUFFICES ASSUME Inv PROVE TypeOK
      OBVIOUS
    <2>1. TypeInv
      BY DEF Inv
    <2>2. \A r \in Request : sent[r].op \in Operation \cup {"none"}
      BY <2>1 DEF TypeInv, IsQuestion, NotSent
    <2>3. ASSUME NEW p, IsProjection(p)
          PROVE  Projection(p)
      BY <2>3 DEF IsProjection, IsSession, IsEpoch, IsAttempt, Projection
    <2> QED
      BY <2>1, <2>2, <2>3 DEF TypeInv, TypeOK
  <1> QED
    BY <1>1, Invariance, PTL

\* A projection with two of its fields replaced, as a function.
LEMMA TwoReplaced ==
  ASSUME NEW p, NEW n, NEW x,
         DOMAIN p = {"session", "epochs", "task", "plans", "children", "refs", "att", "integ"}
  PROVE  [p EXCEPT !.refs = n, !.epochs = x]
           = [k \in DOMAIN p |-> IF k = "epochs" THEN x ELSE IF k = "refs" THEN n ELSE p[k]]
  <1> DEFINE q == [p EXCEPT !.refs = n]
  <1>1. q = [k \in DOMAIN p |-> IF k = "refs" THEN n ELSE p[k]]
    OBVIOUS
  <1>2. [p EXCEPT !.refs = n, !.epochs = x] = [q EXCEPT !.epochs = x]
    OBVIOUS
  <1> HIDE DEF q
  <1>3. [q EXCEPT !.epochs = x] = [k \in DOMAIN q |-> IF k = "epochs" THEN x ELSE q[k]]
    OBVIOUS
  <1>4. [k \in DOMAIN q |-> IF k = "epochs" THEN x ELSE q[k]]
          = [k \in DOMAIN p |-> IF k = "epochs" THEN x ELSE IF k = "refs" THEN n ELSE p[k]]
    BY <1>1
  <1> QED
    BY <1>2, <1>3, <1>4

\* Between requests, while no append was refused, a restart rebuilds the
\* projection that memory has (Store._replay against the handlers).
THEOREM ReplayAgrees == Spec => []ProjectionIsReplay
  <1>1. Inv => ProjectionIsReplay
    <2> SUFFICES ASSUME Inv, Idle, refusals = 0
                 PROVE  Replayable(mem) = Replayable(dur)
      BY DEF ProjectionIsReplay
    <2>1. AtRest
      BY RestFacts DEF Inv
    <2>2. /\ IsProjection(mem) /\ IsProjection(dur)
          /\ mem.session = dur.session /\ mem.task = dur.task /\ mem.plans = dur.plans
          /\ mem.children = dur.children /\ mem.att = dur.att /\ mem.integ = dur.integ
          /\ DOMAIN mem.epochs = DOMAIN dur.epochs
          /\ \A e \in DOMAIN dur.epochs : mem.epochs[e].version = dur.epochs[e].version
      BY <2>1 DEF AtRest, Same
    <2> DEFINE v(p) == [e \in DOMAIN p.epochs |-> p.epochs[e].version]
               none == {}
               g(p) == [k \in DOMAIN p |->
                          IF k = "epochs" THEN v(p) ELSE IF k = "refs" THEN none ELSE p[k]]
    <2>3. v(mem) = v(dur)
      BY <2>2
    <2>4. ASSUME NEW p, IsProjection(p)
          PROVE  Replayable(p) = g(p)
      <3> DEFINE x == v(p)
      <3>1. Replayable(p) = [p EXCEPT !.refs = none, !.epochs = x]
        BY DEF Replayable
      <3>2. DOMAIN p = {"session", "epochs", "task", "plans", "children", "refs", "att", "integ"}
        BY <2>4 DEF IsProjection
      <3> HIDE DEF x, none
      <3> QED
        BY <3>1, <3>2, TwoReplaced DEF x
    <2>5. g(mem) = g(dur)
      <3>1. DOMAIN mem = {"session", "epochs", "task", "plans", "children", "refs", "att", "integ"}
        BY <2>2 DEF IsProjection
      <3>2. DOMAIN mem = DOMAIN dur
        BY <2>2 DEF IsProjection
      <3> HIDE DEF v, none
      <3> QED
        BY <2>2, <2>3, <3>1, <3>2
    <2> HIDE DEF g
    <2> QED
      BY <2>2, <2>4, <2>5
  <1> QED
    BY <1>1, Invariance, PTL

\* routing/automatic.py, switch_controller: neither memory nor what a restart
\* rebuilds points at an epoch that is not active.
THEOREM NoStaleEpoch == Spec => []ActiveEpochIsActive
  <1>1. Inv => ActiveEpochIsActive
    <2> SUFFICES ASSUME Inv PROVE ActiveEpochIsActive
      OBVIOUS
    <2>1. ActiveIn(dur)
      BY DEF Inv, TypeInv, PathInv, IsProjection, AllActive, ActiveIn
    <2>2. Idle /\ refusals = 0 => ActiveIn(mem)
      BY RestFacts DEF Inv, AtRest
    <2> QED
      BY <2>1, <2>2 DEF ActiveEpochIsActive
  <1> QED
    BY <1>1, Invariance, PTL

\* A client that was told that its task was planned, executed, paused, resumed or
\* cancelled, or that its evidence was recorded, finds after any death a task that has
\* been in that status, or has evidence, and is past the version asked for
\* (Store.commit_frame and check_idempotency, under the handlers of api/app.py).  It
\* says nothing of what the handler appends in other frames than the task's: the
\* attempts of an execute, the child ids of a plan, the verdict of a verify.
THEOREM AnsweredMovesHold == Spec => []AnsweredMoveIsJournalled
  <1>1. Inv => AnsweredMoveIsJournalled
    BY DEF Inv, PathInv, Done, AnsweredMoveIsJournalled
  <1> QED
    BY <1>1, Invariance, PTL

\* The journalled task becomes completed only on the facts
\* (ParentVerification.evaluate, verify_task).
THEOREM CompletedOnFacts == Spec => CompletesOnlyOnFacts
  <1> DEFINE A == (dur.task.status # "completed" /\ dur'.task.status = "completed" /\ refusals = 0)
                      => FactsHold(dur)
  <1>1. Inv /\ [Next]_vars => [A]_vars
    <2> SUFFICES ASSUME Inv, [Next]_vars PROVE A
      OBVIOUS
    <2>1. dur' = dur \/ Moves(dur, dur', refusals)
      BY NextStep
    <2> QED
      BY <2>1 DEF Moves, Completes
  <1> QED
    BY <1>1, Invariance, PTL DEF Spec, CompletesOnlyOnFacts

\* The journalled status moves along the transition table, whatever the
\* handlers, their deaths and their retries do (domain/state_machine.py).
THEOREM TaskLifeRefined == Spec => TaskLifeSpec
  <1>1. Life!Reachable = Reachable
    BY DEF Life!Reachable, Reachable, Life!Closed, Closed, Life!Successors, Successors,
           Life!Statuses, Statuses, Life!Live, Live, Life!Terminal, Terminal
  <1>2. Init => Life!Init
    BY InitInv DEF Life!Init
  <1>3. Inv /\ [Next]_vars => [Life!Next]_(dur.task.status)
    <2> SUFFICES ASSUME Inv, [Next]_vars, dur.task.status' # dur.task.status
                 PROVE  Life!Next
      OBVIOUS
    <2>1. Moves(dur, dur', refusals)
      BY NextStep
    <2>2. dur'.task.status \in Reachable[dur.task.status]
      BY <2>1 DEF Moves, Ahead
    <2> QED
      BY <2>2, <1>1 DEF Life!Next
  <1> QED
    BY <1>2, <1>3, Invariance, PTL DEF Spec, TaskLifeSpec, Life!Spec
=============================================================================
