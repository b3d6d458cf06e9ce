----------------------------- MODULE AuditProofs -----------------------------
(***************************************************************************)
(* EgressIsAudited, DecisionIsFinal, AnsweredIsDurable, TypeOK and the       *)
(* safety of the event stream for every instance of Audit.                  *)
(*                                                                         *)
(* A Persist step makes durable what its write says, and says nothing of     *)
(* the other writes of the handler.  So each invariant speaks of todo, the   *)
(* appends still to be made: what each of them may count on is in the         *)
(* journal, or appended before it.                                          *)
(***************************************************************************)
EXTENDS Audit, TableProofs

-----------------------------------------------------------------------------
(* Types *)

IsAttempt(a) == DOMAIN a = {"status", "provider", "version"} /\ a.provider \in Provider \cup {Home}
IsEgress(e) == e.target \in Provider /\ Allows(e.class, e.fields)
IsShadow(s) ==
    DOMAIN s = {"id", "by", "status"} /\ s.id \in Nat /\ s.status \in {"recorded", "compared"}

IsProjection(p) ==
    /\ DOMAIN p = {"approvals", "egress", "att", "shadows"}
    /\ \A a \in DOMAIN p.approvals : p.approvals[a] \in Approval
    /\ \A e \in p.egress : IsEgress(e)
    /\ DOMAIN p.att # {} => 1 \in DOMAIN p.att
    /\ \A i \in DOMAIN p.att : IsAttempt(p.att[i])
    /\ IsFiniteSet(p.shadows) /\ \A s \in p.shadows : IsShadow(s)

IsEvent(e) ==
    /\ e.type = "approval" => e.approval \in Approval
    /\ e.type = "egress.recorded" => IsEgress(e.egress)
    /\ e.type = "worker" => IsAttempt(e.attempt)
    /\ e.type \in {"routing.shadow_recorded", "routing.shadow_compared"} => IsShadow(e.shadow)

\* What a client may have asked, when the journal has these approvals.
IsQuestion(q, approvals) ==
    /\ q = NotSent \/ q.op \in Operation
    /\ q.op = "ask" => q.allowed \in (SUBSET Decision) \ {{}}
    /\ q.op \in Decision => q.approval \in DOMAIN approvals
    /\ q.op = "handoff" => q.target \in Provider

\* Memory and journal have the same approvals, and a write that decides one is
\* alone; approvals are those of the journal.
IsWrite(w, approvals) ==
    /\ IsProjection(w.mem) /\ IsEvent(w.event)
    /\ w.mem.approvals = IF w.event.type = "approval"
                         THEN Put(approvals, w.event.id, w.event.approval) ELSE approvals

TypeInv ==
    /\ current = Nobody => todo = <<>>
    /\ IsProjection(mem) /\ IsProjection(dur) /\ mem.approvals = dur.approvals
    /\ IsSequence(todo)
    /\ \A n \in 1..Len(todo) : IsWrite(todo[n], dur.approvals)
    /\ \A n \in 1..Len(todo) : todo[n].event.type = "approval" => Len(todo) = 1
    /\ DOMAIN sent = Request
    /\ \A r \in Request : IsQuestion(sent[r], dur.approvals)

-----------------------------------------------------------------------------
(* The helpers of the projection *)

LEMMA WithApprovalFacts ==
  ASSUME NEW p, IsProjection(p), NEW id, NEW a
  PROVE  /\ DOMAIN WithApproval(p, id, a) = DOMAIN p
         /\ WithApproval(p, id, a).approvals = Put(p.approvals, id, a)
         /\ WithApproval(p, id, a).egress = p.egress
         /\ WithApproval(p, id, a).att = p.att
         /\ WithApproval(p, id, a).shadows = p.shadows
  BY DEF IsProjection, WithApproval

LEMMA WithEgressFacts ==
  ASSUME NEW p, IsProjection(p), NEW e
  PROVE  /\ DOMAIN WithEgress(p, e) = DOMAIN p
         /\ WithEgress(p, e).approvals = p.approvals
         /\ WithEgress(p, e).egress = p.egress \cup {e}
         /\ WithEgress(p, e).att = p.att
         /\ WithEgress(p, e).shadows = p.shadows
  BY DEF IsProjection, WithEgress

LEMMA WithShadowFacts ==
  ASSUME NEW p, IsProjection(p), NEW s
  PROVE  /\ DOMAIN WithShadow(p, s) = DOMAIN p
         /\ WithShadow(p, s).approvals = p.approvals
         /\ WithShadow(p, s).egress = p.egress
         /\ WithShadow(p, s).att = p.att
         /\ WithShadow(p, s).shadows = {t \in p.shadows : t.id # s.id} \cup {s}
  BY DEF IsProjection, WithShadow

LEMMA WithAttemptFacts ==
  ASSUME NEW p, IsProjection(p), NEW i, NEW a
  PROVE  /\ DOMAIN WithAttempt(p, i, a) = DOMAIN p
         /\ WithAttempt(p, i, a).approvals = p.approvals
         /\ WithAttempt(p, i, a).egress = p.egress
         /\ WithAttempt(p, i, a).shadows = p.shadows
         /\ DOMAIN WithAttempt(p, i, a).att = DOMAIN p.att
         /\ \A j \in DOMAIN p.att : WithAttempt(p, i, a).att[j] = IF j = i THEN a ELSE p.att[j]
  BY DEF IsProjection, WithAttempt

LEMMA WithApprovalType ==
  ASSUME NEW p, IsProjection(p), NEW id, NEW a \in Approval
  PROVE  IsProjection(WithApproval(p, id, a))
  <1> DEFINE t == Put(p.approvals, id, a)
  <1>1. /\ DOMAIN t = DOMAIN p.approvals \cup {id} /\ t[id] = a
        /\ \A j \in DOMAIN p.approvals : j # id => t[j] = p.approvals[j]
    BY DEF Put
  <1> HIDE DEF t
  <1>2. \A i \in DOMAIN t : t[i] \in Approval
    BY <1>1 DEF IsProjection
  <1>3. WithApproval(p, id, a).approvals = t
    BY WithApprovalFacts DEF t
  <1> QED
    BY <1>2, <1>3, WithApprovalFacts DEF IsProjection

LEMMA WithEgressType ==
  ASSUME NEW p, IsProjection(p), NEW e, IsEgress(e)
  PROVE  IsProjection(WithEgress(p, e))
  BY WithEgressFacts DEF IsProjection

LEMMA WithAttemptType ==
  ASSUME NEW p, IsProjection(p), NEW i, NEW a, IsAttempt(a)
  PROVE  IsProjection(WithAttempt(p, i, a))
  BY WithAttemptFacts DEF IsProjection

LEMMA WithShadowType ==
  ASSUME NEW p, IsProjection(p), NEW s, IsShadow(s)
  PROVE  IsProjection(WithShadow(p, s))
  <1> DEFINE others == {t \in p.shadows : t.id # s.id}
  <1>1. IsFiniteSet(others)
    <2>1. others \in SUBSET p.shadows /\ IsFiniteSet(p.shadows)
      BY DEF IsProjection
    <2> HIDE DEF others
    <2> QED
      BY <2>1, FS_Subset
  <1>2. IsFiniteSet(others \cup {s})
    BY <1>1, FS_AddElement
  <1>3. \A t \in others \cup {s} : IsShadow(t)
    BY DEF IsProjection
  <1>4. WithShadow(p, s).shadows = others \cup {s}
    BY WithShadowFacts
  <1> HIDE DEF others
  <1> QED
    BY <1>2, <1>3, <1>4, WithShadowFacts DEF IsProjection

\* What replaying an event does, by the type of the event.
LEMMA ReplayCases ==
  ASSUME NEW p, NEW e
  PROVE  /\ e.type = "approval" => ReplayEvent(p, e) = WithApproval(p, e.id, e.approval)
         /\ e.type = "egress.recorded" => ReplayEvent(p, e) = WithEgress(p, e.egress)
         /\ e.type = "worker" => ReplayEvent(p, e) = WithAttempt(p, e.id, e.attempt)
         /\ e.type = "routing.shadow_recorded" => ReplayEvent(p, e) = WithShadow(p, e.shadow)
         /\ e.type = "routing.shadow_compared" =>
               ReplayEvent(p, e) = IF HasShadow(p, e.shadow) THEN WithShadow(p, e.shadow) ELSE p
         /\ e.type \notin {"approval", "egress.recorded", "worker", "routing.shadow_recorded",
                           "routing.shadow_compared"} => ReplayEvent(p, e) = p
  BY DEF ReplayEvent

LEMMA ReplayType ==
  ASSUME NEW p, IsProjection(p), NEW e, IsEvent(e)
  PROVE  /\ IsProjection(ReplayEvent(p, e))
         /\ ReplayEvent(p, e).approvals =
               IF e.type = "approval" THEN Put(p.approvals, e.id, e.approval) ELSE p.approvals
  <1>1. CASE e.type = "approval"
    <2>1. ReplayEvent(p, e) = WithApproval(p, e.id, e.approval) /\ e.approval \in Approval
      BY <1>1, ReplayCases DEF IsEvent
    <2> QED
      BY <1>1, <2>1, WithApprovalType, WithApprovalFacts
  <1>2. CASE e.type = "egress.recorded"
    <2>1. ReplayEvent(p, e) = WithEgress(p, e.egress) /\ IsEgress(e.egress)
      BY <1>2, ReplayCases DEF IsEvent
    <2> QED
      BY <1>2, <2>1, WithEgressType, WithEgressFacts
  <1>3. CASE e.type = "worker"
    <2>1. ReplayEvent(p, e) = WithAttempt(p, e.id, e.attempt) /\ IsAttempt(e.attempt)
      BY <1>3, ReplayCases DEF IsEvent
    <2> QED
      BY <1>3, <2>1, WithAttemptType, WithAttemptFacts
  <1>4. CASE e.type \in {"routing.shadow_recorded", "routing.shadow_compared"}
    <2>1. /\ ReplayEvent(p, e) = p \/ ReplayEvent(p, e) = WithShadow(p, e.shadow)
          /\ IsShadow(e.shadow)
      BY <1>4, ReplayCases DEF IsEvent
    <2>2. /\ IsProjection(WithShadow(p, e.shadow))
          /\ WithShadow(p, e.shadow).approvals = p.approvals
      BY <2>1, WithShadowType, WithShadowFacts
    <2> QED
      BY <1>4, <2>1, <2>2
  <1>5. CASE e.type \notin {"approval", "egress.recorded", "worker", "routing.shadow_recorded",
                            "routing.shadow_compared"}
    BY <1>5, ReplayCases
  <1> QED
    BY <1>1, <1>2, <1>3, <1>4, <1>5

LEMMA EventTypes ==
  /\ \A id, a : /\ ApprovalEvent(id, a).type = "approval" /\ ApprovalEvent(id, a).id = id
                /\ ApprovalEvent(id, a).approval = a
  /\ \A e : EgressEvent(e).type = "egress.recorded" /\ EgressEvent(e).egress = e
  /\ \A i, a : /\ AttemptEvent(i, a).type = "worker" /\ AttemptEvent(i, a).id = i
               /\ AttemptEvent(i, a).attempt = a
  /\ ResultEvent.type = "egress.handoff_result"
  /\ \A s : ShadowEvent(s).type = "routing.shadow_recorded" /\ ShadowEvent(s).shadow = s
  /\ \A s : ComparedEvent(s).type = "routing.shadow_compared" /\ ComparedEvent(s).shadow = s
  BY DEF ApprovalEvent, EgressEvent, AttemptEvent, ResultEvent, ShadowEvent, ComparedEvent

LEMMA NewIdType ==
  ASSUME NEW rs, IsFiniteSet(rs), \A x \in rs : x.id \in Nat
  PROVE  NewId(rs) \in Nat /\ \A x \in rs : x.id < NewId(rs)
  <1> DEFINE ids == {x.id : x \in rs}
  <1>1. CASE rs = {}
    BY <1>1 DEF NewId
  <1>2. CASE rs # {}
    <2> DEFINE f == [x \in rs |-> x.id]
    <2>1. f \in Surjection(rs, ids)
      BY DEF Surjection
    <2>2. IsFiniteSet(ids) /\ ids \in SUBSET Nat /\ ids # {}
      BY <1>2, <2>1, FS_Surjection
    <2> HIDE DEF ids
    <2>3. \E m \in ids : \A k \in ids : k <= m
      BY <2>2, LargestExists
    <2>4. \E m \in ids : \A k \in ids : m >= k
      BY <2>2, <2>3
    <2> DEFINE largest == Max(ids)
    <2>5. largest \in ids /\ \A k \in ids : largest >= k
      BY <2>4 DEF Max
    <2>6. NewId(rs) = largest + 1
      BY <1>2 DEF NewId, ids
    <2> HIDE DEF largest
    <2>7. ASSUME NEW x \in rs PROVE x.id < NewId(rs)
      <3>1. x.id \in ids
        BY DEF ids
      <3> QED
        BY <2>2, <2>5, <2>6, <3>1
    <2>8. NewId(rs) \in Nat
      BY <2>2, <2>5, <2>6
    <2> QED
      BY <2>7, <2>8
  <1> QED
    BY <1>1, <1>2

-----------------------------------------------------------------------------
(* The steps *)

\* What the invariants below tell apart: the steps of a handler, and the others.
LEMMA StepCases ==
  ASSUME [Next]_vars
  PROVE  \/ Persist /\ UNCHANGED <<sent, late>>
         \/ RefusedByCapacity /\ UNCHANGED <<sent, late>>
         \/ Answer /\ UNCHANGED <<sent, late>>
         \/ Crash /\ UNCHANGED <<sent, late>>
         \/ \E r \in Request : \E q \in Asks(r) : Handle(r, q)
         \/ \E i \in DOMAIN mem.att : AttemptMoves(i)
         \/ UNCHANGED <<served, sent>> /\ (Idle \/ UNCHANGED late)
  <1>1. CASE Appended
    BY <1>1 DEF Appended, Others
  <1>2. CASE NotAppended
    BY <1>2 DEF NotAppended, Others
  <1>3. CASE Answered
    BY <1>3 DEF Answered, Others
  <1>4. CASE Restart
    BY <1>4 DEF Restart
  <1>5. CASE DeadlinePasses
    BY <1>5 DEF DeadlinePasses
  <1>6. CASE Connect \/ Send \/ Poll \/ Ends \/ Cut
    BY <1>6 DEF Connect, Send, Poll, Ends, Cut, Streaming
  <1>7. CASE UNCHANGED vars
    BY <1>7 DEF vars
  <1> QED
    BY <1>1, <1>2, <1>3, <1>4, <1>5, <1>6, <1>7 DEF Next

\* What is asked: something new, or once more what was asked.
LEMMA AsksFacts ==
  ASSUME TypeInv, NEW r \in Request, NEW q \in Asks(r)
  PROVE  /\ q.op \in Operation /\ IsQuestion(q, dur.approvals)
         /\ sent[r] = NotSent \/ q = sent[r]
         /\ q.op = "compare" => q.shadow \in mem.shadows
  <1>1. CASE sent[r] = NotSent
    <2> DEFINE op == scenario.ask[r]
    <2> HIDE DEF op
    <2>1. q \in Questions(op)
      BY <1>1 DEF Asks, op
    <2>2. mem.approvals = dur.approvals
      BY DEF TypeInv
    <2>3. CASE op = "ask"
      BY <1>1, <2>1, <2>3 DEF Questions, IsQuestion, Decision, Operation
    <2>4. CASE op \in Decision
      BY <1>1, <2>1, <2>2, <2>4 DEF Questions, IsQuestion, Decision, Operation
    <2>5. CASE op = "handoff"
      BY <1>1, <2>1, <2>5 DEF Questions, IsQuestion, Decision, Operation
    <2>6. CASE op = "shadow"
      BY <1>1, <2>1, <2>6 DEF Questions, IsQuestion, Decision, Operation
    <2>7. CASE op = "compare"
      BY <1>1, <2>1, <2>7 DEF Questions, IsQuestion, Decision, Operation
    <2>8. op \in {"ask", "handoff", "shadow", "compare"} \cup Decision
      BY <2>1 DEF Questions, Decision
    <2> QED
      BY <1>1, <2>3, <2>4, <2>5, <2>6, <2>7, <2>8
  <1>2. CASE sent[r] # NotSent
    <2>1. q = sent[r] /\ q.op # "compare"
      BY <1>2 DEF Asks
    <2>2. IsQuestion(q, dur.approvals)
      BY <2>1 DEF TypeInv
    <2> QED
      BY <1>2, <2>1, <2>2 DEF IsQuestion
  <1> QED
    BY <1>1, <1>2

\* The ways to serve a request.
Asked(r, q, a) ==
    /\ q.op = "ask"
    /\ a = [status |-> "pending", version |-> 1, allowed |-> q.allowed]
    /\ Serve(r, mem, <<Write(ApprovalEvent(NewApproval, a), TRUE,
                            WithApproval(mem, NewApproval, a))>>, "done")
DecidedOn(r, q, a) ==
    /\ q.op \in Decision
    /\ Decidable(mem.approvals[q.approval], q.op)
    /\ a = Decided(mem.approvals[q.approval], q.op)
    /\ Serve(r, mem, <<Write(ApprovalEvent(q.approval, a), TRUE,
                            WithApproval(mem, q.approval, a))>>, "done")
HandedOver(r, q) ==
    /\ q.op = "handoff"
    /\ DOMAIN mem.att # {} /\ Allows(q.class, q.fields)
    /\ Serve(r, Disclosed(r, q), HandoffWrites(r, q), "done")
Shadowed(r, q, s) ==
    /\ q.op = "shadow"
    /\ s = [id |-> NewId(mem.shadows), by |-> r, status |-> "recorded"]
    /\ ChangeShadow(r, s, ShadowEvent(s), TRUE)
Compared(r, q, s) ==
    /\ q.op = "compare"
    /\ s = [q.shadow EXCEPT !.status = "compared"]
    /\ ChangeShadow(r, s, ComparedEvent(s), FALSE)

LEMMA HandleCases ==
  ASSUME NEW r, NEW q, Handle(r, q)
  PROVE  \/ Repeat(r) \/ Refuse(r)
         \/ \E a : Asked(r, q, a)
         \/ \E a : DecidedOn(r, q, a)
         \/ HandedOver(r, q)
         \/ \E s : Shadowed(r, q, s)
         \/ \E s : Compared(r, q, s)
  <1>1. CASE q.op = "ask" /\ AskApproval(r, q)
    BY <1>1 DEF AskApproval, Asked
  <1>2. CASE q.op \in Decision /\ Decide(r, q)
    BY <1>2 DEF Decide, DecidedOn
  <1>3. CASE q.op = "handoff" /\ Handoff(r, q)
    BY <1>3 DEF Handoff, HandedOver
  <1>4. CASE q.op = "shadow" /\ Shadow(r)
    BY <1>4 DEF Shadow, Shadowed
  <1>5. CASE q.op = "compare" /\ Compare(r, q)
    BY <1>5 DEF Compare, Compared
  <1> QED
    BY <1>1, <1>2, <1>3, <1>4, <1>5 DEF Handle

-----------------------------------------------------------------------------
(* TypeInv is inductive *)

LEMMA TypeInit == Init => TypeInv
  <1> SUFFICES ASSUME Init PROVE TypeInv
    OBVIOUS
  <1>1. mem = Empty(scenario.att) /\ dur = mem /\ todo = <<>>
    BY DEF Init, Began
  <1>2. scenario.att \in Seq({"queued", "running", "succeeded"})
    BY AuditAssumption DEF Init, Scenario
  <1>3. DOMAIN scenario.att # {} => 1 \in DOMAIN scenario.att
    BY <1>2, LenProperties
  <1>4. /\ DOMAIN mem = {"approvals", "egress", "att", "shadows"}
        /\ DOMAIN mem.approvals = {} /\ mem.egress = {} /\ mem.shadows = {}
        /\ DOMAIN mem.att = DOMAIN scenario.att
        /\ \A i \in DOMAIN mem.att : IsAttempt(mem.att[i])
    BY <1>1 DEF Empty, IsAttempt
  <1>5. IsProjection(mem)
    BY <1>3, <1>4, FS_EmptySet DEF IsProjection
  <1>6. IsSequence(todo) /\ Len(todo) = 0
    BY <1>1, ShortSequences
  <1>7. DOMAIN sent = Request /\ \A r \in Request : IsQuestion(sent[r], dur.approvals)
    BY DEF Init, IsQuestion, NotSent, Decision
  <1> QED
    BY <1>1, <1>5, <1>6, <1>7 DEF TypeInv

\* What the first append of a handler leaves.
LEMMA PersistFacts ==
  ASSUME TypeInv, Persist
  PROVE  /\ Len(todo) \in Nat \ {0} /\ todo' = Tail(todo)
         /\ IsSequence(todo') /\ Len(todo') = Len(todo) - 1
         /\ \A n \in 1..Len(todo') : n + 1 \in 1..Len(todo) /\ todo'[n] = todo[n + 1]
         /\ IsWrite(todo[1], dur.approvals)
         /\ mem' = todo[1].mem /\ dur' = ReplayEvent(dur, todo[1].event)
         /\ recorded' = IF todo[1].keyed THEN recorded \cup {current} ELSE recorded
         /\ UNCHANGED <<current, reply, answered>>
         /\ IsProjection(dur')
         /\ dur'.approvals = IF todo[1].event.type = "approval"
                             THEN Put(dur.approvals, todo[1].event.id, todo[1].event.approval)
                             ELSE dur.approvals
         /\ todo[1].event.type = "approval" => Len(todo') = 0
  <1>1. IsSequence(todo) /\ todo # <<>> /\ IsProjection(dur)
    BY DEF TypeInv, Persist
  <1>2. /\ Len(todo) \in Nat \ {0} /\ Head(todo) = todo[1] /\ IsSequence(Tail(todo))
        /\ Len(Tail(todo)) = Len(todo) - 1
        /\ \A i \in 1..Len(todo) - 1 : Tail(todo)[i] = todo[i + 1]
    BY <1>1, TailFacts
  <1>3. IsWrite(todo[1], dur.approvals) /\ (todo[1].event.type = "approval" => Len(todo) = 1)
    BY <1>2 DEF TypeInv
  <1>4. dur' = ReplayEvent(dur, todo[1].event) /\ IsEvent(todo[1].event)
    BY <1>2, <1>3 DEF Persist, IsWrite
  <1>5. /\ IsProjection(dur')
        /\ dur'.approvals = IF todo[1].event.type = "approval"
                            THEN Put(dur.approvals, todo[1].event.id, todo[1].event.approval)
                            ELSE dur.approvals
    BY <1>1, <1>4, ReplayType, Zenon
  <1> QED
    BY <1>2, <1>3, <1>4, <1>5 DEF Persist

LEMMA PersistType ==
  ASSUME TypeInv, Persist, UNCHANGED sent
  PROVE  TypeInv'
  <1> USE PersistFacts
  <1>1. IsProjection(mem') /\ mem'.approvals = dur'.approvals
    BY DEF IsWrite
  <1>2. ASSUME NEW n \in 1..Len(todo')
        PROVE  /\ IsWrite(todo'[n], dur'.approvals)
               /\ todo'[n].event.type # "approval"
    <2>1. n + 1 \in 1..Len(todo) /\ todo'[n] = todo[n + 1] /\ Len(todo) # 1
      OBVIOUS
    <2>2. IsWrite(todo[n + 1], dur.approvals) /\ todo[n + 1].event.type # "approval"
      BY <2>1 DEF TypeInv
    <2>3. dur'.approvals = dur.approvals
      BY <2>1
    <2> QED
      BY <2>1, <2>2, <2>3
  <1>3. \A r \in Request : IsQuestion(sent'[r], dur'.approvals)
    <2>1. DOMAIN dur.approvals \subseteq DOMAIN dur'.approvals
      BY DEF Put
    <2> QED
      BY <2>1 DEF TypeInv, IsQuestion
  <1>4. current' = Nobody => todo' = <<>>
    <2>1. current # Nobody
      BY DEF TypeInv, Persist
    <2> QED
      BY <2>1
  <1> QED
    BY <1>1, <1>2, <1>3, <1>4 DEF TypeInv

\* The handler is over.
LEMMA EndsType ==
  ASSUME TypeInv, todo' = <<>>, mem' = mem \/ mem' = dur, UNCHANGED <<dur, sent>>
  PROVE  TypeInv'
  <1>1. IsSequence(todo') /\ Len(todo') = 0
    BY ShortSequences
  <1> QED
    BY <1>1 DEF TypeInv

\* A handler begins: it has the appends ws to make.
LEMMA ServeType ==
  ASSUME TypeInv, NEW r \in Request, NEW q \in Asks(r), sent' = [sent EXCEPT ![r] = q],
         NEW m, NEW ws, NEW told, Serve(r, m, ws, told),
         IsProjection(m), m.approvals = mem.approvals, IsSequence(ws),
         \A n \in 1..Len(ws) : IsWrite(ws[n], dur.approvals),
         \A n \in 1..Len(ws) : ws[n].event.type = "approval" => Len(ws) = 1
  PROVE  TypeInv'
  <1>1. /\ mem' = m /\ todo' = ws /\ dur' = dur /\ current' # Nobody
    BY AuditAssumption DEF Serve
  <1>2. \A s \in Request : IsQuestion(sent'[s], dur.approvals)
    BY AsksFacts DEF TypeInv
  <1> QED
    BY <1>1, <1>2 DEF TypeInv

LEMMA ServeOneType ==
  ASSUME TypeInv, NEW r \in Request, NEW q \in Asks(r), sent' = [sent EXCEPT ![r] = q],
         NEW m, NEW w, NEW told, Serve(r, m, <<w>>, told),
         IsProjection(m), m.approvals = mem.approvals, IsWrite(w, dur.approvals)
  PROVE  TypeInv'
  <1> DEFINE ws == <<w>>
  <1>1. IsSequence(ws) /\ Len(ws) = 1 /\ ws[1] = w
    BY ShortSequences
  <1> HIDE DEF ws
  <1>2. \A n \in 1..Len(ws) : IsWrite(ws[n], dur.approvals)
    BY <1>1
  <1>3. Serve(r, m, ws, told)
    BY DEF ws
  <1> QED
    BY <1>1, <1>2, <1>3, ServeType

-----------------------------------------------------------------------------
(* What each handler is going to append *)

LEMMA ApprovalFacts ==
  ASSUME TypeInv, NEW id, NEW a \in Approval, NEW w,
         w.event = ApprovalEvent(id, a), w.mem = WithApproval(mem, id, a)
  PROVE  /\ w.event.type = "approval" /\ w.event.id = id /\ w.event.approval = a
         /\ w.mem.egress = mem.egress /\ w.mem.att = mem.att /\ w.mem.shadows = mem.shadows
         /\ IsWrite(w, dur.approvals)
  <1>2. w.event.type = "approval" /\ w.event.id = id /\ w.event.approval = a
    BY EventTypes
  <1>3. IsProjection(mem) /\ mem.approvals = dur.approvals
    BY DEF TypeInv
  <1>4. IsProjection(w.mem)
    BY <1>3, WithApprovalType
  <1>5. IsEvent(w.event)
    BY <1>2 DEF IsEvent
  <1>6. /\ w.mem.approvals = Put(dur.approvals, id, a)
        /\ w.mem.egress = mem.egress /\ w.mem.att = mem.att /\ w.mem.shadows = mem.shadows
    BY <1>3, WithApprovalFacts
  <1> QED
    BY <1>2, <1>4, <1>5, <1>6 DEF IsWrite

LEMMA AskedFacts ==
  ASSUME TypeInv, NEW r, NEW q, IsQuestion(q, dur.approvals), NEW a, Asked(r, q, a)
  PROVE  a \in Approval
  BY DEF Asked, Approval, IsQuestion

LEMMA DecidedFacts ==
  ASSUME TypeInv, NEW r, NEW q, IsQuestion(q, dur.approvals), NEW a, DecidedOn(r, q, a)
  PROVE  /\ a \in Approval /\ a.status = Status(q.op)
         /\ q.approval \in DOMAIN dur.approvals
         /\ \/ a = dur.approvals[q.approval]
            \/ /\ dur.approvals[q.approval].status = "pending" /\ ~late
               /\ q.op \in dur.approvals[q.approval].allowed
  <1> DEFINE old == dur.approvals[q.approval]
  <1>1. q.op \in Decision /\ q.approval \in DOMAIN dur.approvals /\ mem.approvals = dur.approvals
    BY DEF DecidedOn, IsQuestion, TypeInv
  <1>2. old \in Approval
    BY <1>1 DEF TypeInv, IsProjection
  <1>3. Decidable(old, q.op) /\ a = Decided(old, q.op)
    BY <1>1 DEF DecidedOn
  <1> HIDE DEF old
  <1>4. CASE old.status = "pending"
    <2>1. a = [old EXCEPT !.status = Status(q.op), !.version = @ + 1]
      BY <1>3, <1>4 DEF Decided
    <2>2. Status(q.op) \in {"approved", "rejected"}
      BY DEF Status
    <2>5. a = [status |-> Status(q.op), version |-> old.version + 1, allowed |-> old.allowed]
      BY <1>2, <2>1 DEF Approval
    <2>6. old.version + 1 \in Nat \ {0} /\ old.allowed \in (SUBSET Decision) \ {{}}
      BY <1>2 DEF Approval
    <2>3. a \in Approval /\ a.status = Status(q.op)
      BY <2>2, <2>5, <2>6 DEF Approval
    <2>4. ~late /\ q.op \in old.allowed
      BY <1>3, <1>4 DEF Decidable, Expired
    <2> QED
      BY <1>1, <1>4, <2>3, <2>4 DEF old
  <1>5. CASE old.status # "pending"
    <2>1. a = old /\ a.status = Status(q.op)
      BY <1>3, <1>5 DEF Decidable, Decided
    <2> QED
      BY <1>1, <1>2, <2>1 DEF old
  <1> QED
    BY <1>4, <1>5

LEMMA ShadowFacts ==
  ASSUME TypeInv, NEW s, IsShadow(s), NEW e, e \in {ShadowEvent(s), ComparedEvent(s)},
         NEW w, w.event = e, w.mem = WithShadow(mem, s)
  PROVE  /\ e.shadow = s
         /\ e.type \in {"routing.shadow_recorded", "routing.shadow_compared"}
         /\ w.mem.approvals = mem.approvals /\ w.mem.egress = mem.egress
         /\ w.mem.att = mem.att
         /\ w.mem.shadows = {t \in mem.shadows : t.id # s.id} \cup {s}
         /\ IsWrite(w, dur.approvals)
  <1>2. e.shadow = s /\ e.type \in {"routing.shadow_recorded", "routing.shadow_compared"}
    BY EventTypes
  <1>3. IsProjection(mem) /\ mem.approvals = dur.approvals
    BY DEF TypeInv
  <1>4. IsProjection(w.mem)
    BY <1>3, WithShadowType
  <1>5. IsEvent(w.event)
    BY <1>2 DEF IsEvent
  <1>6. /\ w.mem.approvals = mem.approvals /\ w.mem.egress = mem.egress
        /\ w.mem.att = mem.att
        /\ w.mem.shadows = {t \in mem.shadows : t.id # s.id} \cup {s}
    BY <1>3, WithShadowFacts
  <1> QED
    BY <1>2, <1>3, <1>4, <1>5, <1>6 DEF IsWrite

\* What s is, for each of the two.
LEMMA ShadowedFacts ==
  ASSUME TypeInv, NEW r, NEW q, NEW s, Shadowed(r, q, s)
  PROVE  IsShadow(s) /\ s.by = r /\ \A t \in mem.shadows : t.id # s.id
  <1>1. IsFiniteSet(mem.shadows) /\ \A t \in mem.shadows : t.id \in Nat
    BY DEF TypeInv, IsProjection, IsShadow
  <1> DEFINE id == NewId(mem.shadows)
  <1>2. id \in Nat /\ \A t \in mem.shadows : t.id < id
    BY <1>1, NewIdType
  <1> HIDE DEF id
  <1>3. s = [id |-> id, by |-> r, status |-> "recorded"]
    BY DEF Shadowed, id
  <1> QED
    BY <1>1, <1>2, <1>3 DEF IsShadow

LEMMA ComparedFacts ==
  ASSUME TypeInv, NEW r, NEW q, q.shadow \in mem.shadows, NEW s, Compared(r, q, s)
  PROVE  IsShadow(s) /\ s.id = q.shadow.id /\ s.by = q.shadow.by
  <1>1. IsShadow(q.shadow)
    BY DEF TypeInv, IsProjection
  <1> QED
    BY <1>1 DEF Compared, IsShadow

\* A handoff of request r, asked as q: e is its record, a the attempt that it
\* gives away, m and n the memory before and after that, ws its appends.
HandoffShape(r, q, e, a, m, n, ws) ==
    /\ IsAttempt(a) /\ a.provider = q.target
    /\ IsEgress(e) /\ e.by = r /\ e.attempt = 1 /\ e.target = q.target
    /\ IsProjection(m) /\ m.approvals = mem.approvals
    /\ m.egress = mem.egress \cup {e} /\ m.att = mem.att /\ m.shadows = mem.shadows
    /\ IsProjection(n) /\ n = WithAttempt(m, 1, a)
    /\ n.approvals = mem.approvals /\ n.shadows = mem.shadows
    /\ IsSequence(ws) /\ Len(ws) = 3
    /\ ws[1].event = EgressEvent(e) /\ ws[1].mem = n
    /\ ws[2].event = AttemptEvent(1, a) /\ ws[2].mem = n
    /\ ws[3].event = ResultEvent /\ ws[3].mem = n
    /\ \A k \in 1..3 : IsWrite(ws[k], dur.approvals) /\ ws[k].event.type # "approval"

LEMMA HandoffFacts ==
  ASSUME TypeInv, NEW r, NEW q, IsQuestion(q, dur.approvals), HandedOver(r, q)
  PROVE  \E e, a, m, n, ws : HandoffShape(r, q, e, a, m, n, ws) /\ Serve(r, m, ws, "done")
  <1> DEFINE e == EgressOf(r, q)
             a == HandedOff(q)
             m == Disclosed(r, q)
             n == Repointed(r, q)
             ws == HandoffWrites(r, q)
  <1>0. q.target \in Provider
    BY DEF HandedOver, IsQuestion
  <1>1. IsProjection(mem) /\ mem.approvals = dur.approvals
    BY DEF TypeInv
  <1>2. 1 \in DOMAIN mem.att /\ IsAttempt(mem.att[1])
    BY <1>1 DEF IsProjection, HandedOver
  <1>3. IsAttempt(a) /\ a.provider = q.target
    BY <1>0, <1>2 DEF HandedOff, IsAttempt
  <1>4. IsEgress(e) /\ e.by = r /\ e.attempt = 1 /\ e.target = q.target
    BY <1>0 DEF EgressOf, IsEgress, HandedOver
  <1>5. m = WithEgress(mem, e) /\ n = WithAttempt(m, 1, a)
    BY DEF Disclosed, Repointed
  <1>12. Serve(r, m, ws, "done")
    BY DEF HandedOver
  <1>13. ws = <<Write(EgressEvent(e), FALSE, n), Write(AttemptEvent(1, a), FALSE, n),
               Write(ResultEvent, TRUE, n)>>
    BY DEF HandoffWrites
  <1> HIDE DEF e, a, m, n, ws
  <1>6. /\ IsProjection(m) /\ m.approvals = mem.approvals
        /\ m.egress = mem.egress \cup {e} /\ m.att = mem.att /\ m.shadows = mem.shadows
    BY <1>1, <1>4, <1>5, WithEgressType, WithEgressFacts
  <1>7. IsProjection(n) /\ n.approvals = mem.approvals /\ n.shadows = mem.shadows
    BY <1>3, <1>5, <1>6, WithAttemptType, WithAttemptFacts
  <1>9. /\ IsSequence(ws) /\ Len(ws) = 3
        /\ ws[1].event = EgressEvent(e) /\ ws[1].mem = n
        /\ ws[2].event = AttemptEvent(1, a) /\ ws[2].mem = n
        /\ ws[3].event = ResultEvent /\ ws[3].mem = n
    BY <1>13, ShortSequences DEF Write
  <1>10. /\ IsEvent(EgressEvent(e)) /\ EgressEvent(e).type # "approval"
         /\ IsEvent(AttemptEvent(1, a)) /\ AttemptEvent(1, a).type # "approval"
         /\ IsEvent(ResultEvent) /\ ResultEvent.type # "approval"
    BY <1>3, <1>4, EventTypes DEF IsEvent
  <1>11. \A k \in 1..3 : IsWrite(ws[k], dur.approvals) /\ ws[k].event.type # "approval"
    <2>1. ASSUME NEW w, w.mem = n, IsEvent(w.event), w.event.type # "approval"
          PROVE  IsWrite(w, dur.approvals)
      BY <1>1, <1>7, <2>1 DEF IsWrite
    <2>2. \A k \in 1..3 : k = 1 \/ k = 2 \/ k = 3
      OBVIOUS
    <2> QED
      BY <1>9, <1>10, <2>1, <2>2
  <1> QED
    BY <1>3, <1>4, <1>5, <1>6, <1>7, <1>9, <1>11, <1>12 DEF HandoffShape

LEMMA HandleType ==
  ASSUME TypeInv, NEW r \in Request, NEW q \in Asks(r), Handle(r, q)
  PROVE  TypeInv'
  <1>1. sent' = [sent EXCEPT ![r] = q] /\ UNCHANGED late
    BY DEF Handle, Others
  <1>2. IsQuestion(q, dur.approvals) /\ (q.op = "compare" => q.shadow \in mem.shadows)
    BY AsksFacts
  <1>3. CASE Repeat(r) \/ Refuse(r)
    <2> DEFINE ws == <<>>
    <2>1. PICK told : Serve(r, mem, ws, told)
      BY <1>3 DEF Repeat, Refuse
    <2>2. IsSequence(ws) /\ Len(ws) = 0 /\ IsProjection(mem)
      BY ShortSequences DEF TypeInv
    <2> HIDE DEF ws
    <2>3. 1..Len(ws) = {}
      BY <2>2
    <2> QED
      BY <1>1, <2>1, <2>2, <2>3, ServeType
  <1>4. ASSUME NEW a, NEW id, a \in Approval,
               Serve(r, mem, <<Write(ApprovalEvent(id, a), TRUE, WithApproval(mem, id, a))>>, "done")
        PROVE  TypeInv'
    <2> DEFINE w == Write(ApprovalEvent(id, a), TRUE, WithApproval(mem, id, a))
    <2>0. w.event = ApprovalEvent(id, a) /\ w.mem = WithApproval(mem, id, a)
      BY DEF Write
    <2>1. IsWrite(w, dur.approvals)
      <3> HIDE DEF w
      <3> QED
        BY <1>4, <2>0, ApprovalFacts
    <2>2. Serve(r, mem, <<w>>, "done")
      BY <1>4
    <2>3. IsProjection(mem)
      BY DEF TypeInv
    <2> HIDE DEF w
    <2> QED
      BY <1>1, <2>1, <2>2, <2>3, ServeOneType
  <1>5. ASSUME NEW s, IsShadow(s), NEW e, e \in {ShadowEvent(s), ComparedEvent(s)},
               NEW keyed, ChangeShadow(r, s, e, keyed)
        PROVE  TypeInv'
    <2> DEFINE w == Write(e, keyed, WithShadow(mem, s))
               m == WithShadow(mem, s)
    <2>0. w.event = e /\ w.mem = WithShadow(mem, s)
      BY DEF Write
    <2>1. IsWrite(w, dur.approvals) /\ IsProjection(mem)
      <3> HIDE DEF w
      <3> QED
        BY <1>5, <2>0, ShadowFacts DEF TypeInv
    <2>2. IsProjection(m) /\ m.approvals = mem.approvals
      BY <1>5, <2>1, WithShadowType, WithShadowFacts
    <2>3. Serve(r, m, <<w>>, "done")
      BY <1>5 DEF ChangeShadow
    <2> HIDE DEF w, m
    <2> QED
      BY <1>1, <2>1, <2>2, <2>3, ServeOneType
  <1>6. CASE HandedOver(r, q)
    <2>1. PICK e, a, m, n, ws : HandoffShape(r, q, e, a, m, n, ws) /\ Serve(r, m, ws, "done")
      BY <1>2, <1>6, HandoffFacts
    <2> QED
      BY <1>1, <2>1, ServeType DEF HandoffShape
  <1>7. CASE \E a : Asked(r, q, a)
    BY <1>2, <1>4, <1>7, AskedFacts DEF Asked
  <1>8. CASE \E a : DecidedOn(r, q, a)
    BY <1>2, <1>4, <1>8, DecidedFacts DEF DecidedOn
  <1>9. CASE \E s : Shadowed(r, q, s)
    BY <1>5, <1>9, ShadowedFacts DEF Shadowed
  <1>10. CASE \E s : Compared(r, q, s)
    BY <1>2, <1>5, <1>10, ComparedFacts DEF Compared
  <1> QED
    BY <1>3, <1>6, <1>7, <1>8, <1>9, <1>10, HandleCases

\* A runner's change keeps the provider.
LEMMA MovesFacts ==
  ASSUME TypeInv, NEW i \in DOMAIN mem.att, AttemptMoves(i)
  PROVE  /\ todo' = <<>> /\ UNCHANGED <<sent, current, reply, recorded, answered>>
         /\ \E a : /\ IsAttempt(a) /\ a.provider = mem.att[i].provider
                  /\ mem' = WithAttempt(mem, i, a) /\ dur' = WithAttempt(dur, i, a)
  <1> DEFINE a == [mem.att[i] EXCEPT !.status = After(@), !.version = @ + 1]
  <1>1. /\ mem' = ReplayEvent(mem, AttemptEvent(i, a)) /\ dur' = ReplayEvent(dur, AttemptEvent(i, a))
        /\ todo' = todo /\ current = Nobody
        /\ UNCHANGED <<sent, current, reply, recorded, answered>>
    BY DEF AttemptMoves, Append1, Idle
  <1>2. IsAttempt(a) /\ a.provider = mem.att[i].provider
    BY DEF TypeInv, IsProjection, IsAttempt
  <1> HIDE DEF a
  <1>3. mem' = WithAttempt(mem, i, a) /\ dur' = WithAttempt(dur, i, a)
    BY <1>1, EventTypes, ReplayCases
  <1> QED
    BY <1>1, <1>2, <1>3 DEF TypeInv

LEMMA TypeStep == TypeInv /\ [Next]_vars => TypeInv'
  <1> SUFFICES ASSUME TypeInv, [Next]_vars PROVE TypeInv'
    OBVIOUS
  <1>1. CASE Persist /\ UNCHANGED sent
    BY <1>1, PersistType
  <1>2. CASE (RefusedByCapacity \/ Crash) /\ UNCHANGED sent
    BY <1>2, EndsType DEF RefusedByCapacity, Crash
  <1>3. CASE Answer /\ UNCHANGED sent
    BY <1>3, EndsType DEF Answer
  <1>4. CASE \E r \in Request : \E q \in Asks(r) : Handle(r, q)
    BY <1>4, HandleType
  <1>5. ASSUME NEW i \in DOMAIN mem.att, AttemptMoves(i) PROVE TypeInv'
    <2>1. PICK a : /\ IsAttempt(a)
                   /\ mem' = WithAttempt(mem, i, a) /\ dur' = WithAttempt(dur, i, a)
      BY <1>5, MovesFacts
    <2>2. todo' = <<>> /\ UNCHANGED sent
      BY <1>5, MovesFacts
    <2>3. IsProjection(mem) /\ IsProjection(dur) /\ mem.approvals = dur.approvals
      BY DEF TypeInv
    <2>4. /\ IsProjection(mem') /\ IsProjection(dur')
          /\ mem'.approvals = mem.approvals /\ dur'.approvals = dur.approvals
      BY <2>1, <2>3, WithAttemptType, WithAttemptFacts
    <2>5. IsSequence(todo') /\ Len(todo') = 0
      BY <2>2, ShortSequences
    <2> QED
      BY <2>2, <2>3, <2>4, <2>5 DEF TypeInv
  <1>6. CASE UNCHANGED <<served, sent>>
    BY <1>6 DEF served, TypeInv
  <1> QED
    BY <1>1, <1>2, <1>3, <1>4, <1>5, <1>6, StepCases

THEOREM TypeCorrect == Spec => []TypeInv
  BY TypeInit, TypeStep, PTL DEF Spec

-----------------------------------------------------------------------------
(* EgressIsAudited.  An append that gives an attempt away comes after the      *)
(* append of the record, so a write may count on the records before it.        *)

\* Attempt a, under id i, is at home or has its record among E.
Audited(E, i, a) == a.provider # Home => \E e \in E : e.attempt = i /\ e.target = a.provider
AllAudited(E, p) == \A i \in DOMAIN p.att : Audited(E, i, p.att[i])

\* The egress records that the first n of the writes ws append.
RecordOf(w) == IF w.event.type = "egress.recorded" THEN {w.event.egress} ELSE {}
Records(ws, n) == UNION {RecordOf(ws[m]) : m \in 1..n}

\* Once the egress records E are in the journal, w keeps memory and journal audited.
Keeps(E, w) ==
    /\ AllAudited(E, w.mem)
    /\ w.event.type = "worker" => Audited(E, w.event.id, w.event.attempt)

EgressInv ==
    /\ AllAudited(dur.egress, mem) /\ AllAudited(dur.egress, dur)
    /\ \A n \in 1..Len(todo) : Keeps(dur.egress \cup Records(todo, n), todo[n])

LEMMA AllAuditedMonotone ==
  ASSUME NEW E, NEW F, E \subseteq F, NEW p, AllAudited(E, p)
  PROVE  AllAudited(F, p)
  BY DEF AllAudited, Audited

LEMMA WithAttemptAudited ==
  ASSUME NEW p, IsProjection(p), NEW i, NEW a, NEW E, AllAudited(E, p), Audited(E, i, a)
  PROVE  AllAudited(E, WithAttempt(p, i, a))
  BY WithAttemptFacts DEF AllAudited

LEMMA EgressInit == Init => EgressInv
  <1> SUFFICES ASSUME Init PROVE EgressInv
    OBVIOUS
  <1>1. mem = Empty(scenario.att) /\ dur = mem /\ todo = <<>>
    BY DEF Init, Began
  <1>2. \A i \in DOMAIN mem.att : mem.att[i].provider = Home
    BY <1>1 DEF Empty
  <1>3. Len(todo) = 0
    BY <1>1, ShortSequences
  <1> QED
    BY <1>1, <1>2, <1>3 DEF EgressInv, AllAudited, Audited

LEMMA PersistEgress ==
  ASSUME TypeInv, EgressInv, Persist
  PROVE  EgressInv'
  <1> DEFINE w == todo[1]
             e == w.event
             E == dur.egress \cup RecordOf(w)
  <1>1. /\ Len(todo) \in Nat \ {0} /\ Len(todo') = Len(todo) - 1
        /\ \A n \in 1..Len(todo') : n + 1 \in 1..Len(todo) /\ todo'[n] = todo[n + 1]
        /\ mem' = w.mem /\ dur' = ReplayEvent(dur, e)
    BY PersistFacts
  <1>2. Records(todo, 1) = RecordOf(w)
    BY DEF Records
  <1>3. Keeps(E, w)
    <2>0. 1 \in 1..Len(todo)
      BY <1>1
    <2>1. Keeps(dur.egress \cup Records(todo, 1), todo[1])
      BY <2>0 DEF EgressInv
    <2> QED
      BY <1>2, <2>1
  <1>4. AllAudited(E, mem') /\ (e.type = "worker" => Audited(E, e.id, e.attempt))
    BY <1>1, <1>3 DEF Keeps
  <1>5. IsProjection(dur) /\ AllAudited(dur.egress, dur)
    BY DEF TypeInv, EgressInv
  <1>6. RecordOf(w) = IF e.type = "egress.recorded" THEN {e.egress} ELSE {}
    BY DEF RecordOf
  <1>7. dur'.egress = E /\ AllAudited(E, dur')
    <2> HIDE DEF w, e
    <2>1. CASE e.type = "approval"
      <3>1. dur' = WithApproval(dur, e.id, e.approval)
        BY <1>1, <2>1, ReplayCases
      <3>2. dur'.egress = dur.egress /\ dur'.att = dur.att
        BY <1>5, <3>1, WithApprovalFacts
      <3> QED
        BY <1>5, <1>6, <2>1, <3>2 DEF AllAudited
    <2>2. CASE e.type = "egress.recorded"
      <3>1. dur' = WithEgress(dur, e.egress)
        BY <1>1, <2>2, ReplayCases
      <3>2. dur'.egress = dur.egress \cup {e.egress} /\ dur'.att = dur.att
        BY <1>5, <3>1, WithEgressFacts
      <3> QED
        BY <1>5, <1>6, <2>2, <3>2 DEF AllAudited, Audited
    <2>3. CASE e.type = "worker"
      <3>1. dur' = WithAttempt(dur, e.id, e.attempt)
        BY <1>1, <2>3, ReplayCases
      <3>2. E = dur.egress
        BY <1>6, <2>3
      <3>3. AllAudited(E, dur) /\ Audited(E, e.id, e.attempt)
        BY <1>4, <1>5, <2>3, <3>2
      <3> HIDE DEF E
      <3> QED
        BY <1>5, <3>1, <3>2, <3>3, WithAttemptFacts, WithAttemptAudited
    <2>4. CASE e.type \notin {"approval", "egress.recorded", "worker"}
      <3>1. dur' = dur \/ dur' = WithShadow(dur, e.shadow)
        BY <1>1, <2>4, ReplayCases
      <3>2. dur'.egress = dur.egress /\ dur'.att = dur.att
        BY <1>5, <3>1, WithShadowFacts
      <3> QED
        BY <1>5, <1>6, <2>4, <3>2 DEF AllAudited
    <2> QED
      BY <2>1, <2>2, <2>3, <2>4
  <1>8. ASSUME NEW n \in 1..Len(todo')
        PROVE  Keeps(dur'.egress \cup Records(todo', n), todo'[n])
    <2>1. n + 1 \in 1..Len(todo) /\ n \in Nat
      BY <1>1
    <2>2. Keeps(dur.egress \cup Records(todo, n + 1), todo[n + 1])
      BY <2>1 DEF EgressInv
    <2>3. Records(todo, n + 1) = RecordOf(w) \cup Records(todo', n)
      <3>1. \A m \in 1..n : todo'[m] = todo[m + 1] /\ m + 1 \in 1..n + 1
        BY <1>1, <2>1
      <3>2. \A m \in 1..n + 1 : m = 1 \/ (m - 1 \in 1..n /\ todo'[m - 1] = todo[m])
        BY <1>1, <2>1
      <3> QED
        BY <3>1, <3>2 DEF Records
    <2>4. dur'.egress \cup Records(todo', n) = dur.egress \cup Records(todo, n + 1)
      BY <1>7, <2>3
    <2> QED
      BY <1>1, <2>2, <2>4
  <1> QED
    BY <1>4, <1>7, <1>8 DEF EgressInv

LEMMA EndsEgress ==
  ASSUME EgressInv, todo' = <<>>, mem' = mem \/ mem' = dur, dur' = dur
  PROVE  EgressInv'
  <1>1. Len(todo') = 0
    BY ShortSequences
  <1> QED
    BY <1>1 DEF EgressInv

LEMMA ServeEgress ==
  ASSUME EgressInv, NEW r, NEW m, NEW w, NEW told, Serve(r, m, <<w>>, told),
         m.att = mem.att, w.mem.att = mem.att, w.event.type # "worker"
  PROVE  EgressInv'
  <1>1. mem' = m /\ todo' = <<w>> /\ dur' = dur
    BY DEF Serve
  <1>2. Len(todo') = 1 /\ todo'[1] = w
    BY <1>1, ShortSequences
  <1>3. AllAudited(dur.egress, mem') /\ AllAudited(dur.egress, w.mem)
    BY <1>1 DEF EgressInv, AllAudited
  <1>4. Keeps(dur.egress \cup Records(todo', 1), w)
    BY <1>3, AllAuditedMonotone DEF Keeps
  <1>5. \A n \in 1..Len(todo') : n = 1
    BY <1>2
  <1>6. AllAudited(dur.egress, dur)
    BY DEF EgressInv
  <1> QED
    BY <1>1, <1>2, <1>3, <1>4, <1>5, <1>6 DEF EgressInv

\* The record of a handoff is the first of its writes.
LEMMA HandoffEgress ==
  ASSUME EgressInv, IsProjection(mem), NEW r, NEW q, NEW e, NEW a, NEW m, NEW n, NEW ws,
         HandoffShape(r, q, e, a, m, n, ws), Serve(r, m, ws, "done")
  PROVE  EgressInv'
  <1>1. Audited({e}, 1, a)
    BY DEF HandoffShape, Audited
  <1>2. AllAudited(dur.egress, m)
    BY DEF EgressInv, AllAudited, HandoffShape
  <1>3. AllAudited(dur.egress \cup {e}, n)
    <2>1. AllAudited(dur.egress \cup {e}, m) /\ Audited(dur.egress \cup {e}, 1, a)
      BY <1>1, <1>2, AllAuditedMonotone DEF Audited
    <2> QED
      BY <2>1, WithAttemptAudited DEF HandoffShape
  <1>4. RecordOf(ws[1]) = {e}
    BY EventTypes DEF RecordOf, HandoffShape
  <1>5. \A k \in 1..3 : {e} \subseteq Records(ws, k)
    BY <1>4 DEF Records
  <1>6. ASSUME NEW k \in 1..3 PROVE Keeps(dur.egress \cup Records(ws, k), ws[k])
    <2> DEFINE F == dur.egress \cup Records(ws, k)
    <2>1. dur.egress \cup {e} \subseteq F
      BY <1>5
    <2>2. AllAudited(F, n) /\ Audited(F, 1, a)
      BY <1>1, <1>3, <2>1, AllAuditedMonotone DEF Audited
    <2>3. k = 1 \/ k = 2 \/ k = 3
      OBVIOUS
    <2>4. ws[k].mem = n
      BY <2>3 DEF HandoffShape
    <2>5. ws[k].event.type = "worker" => ws[k].event.id = 1 /\ ws[k].event.attempt = a
      BY <2>3, EventTypes DEF HandoffShape
    <2> HIDE DEF F
    <2>6. Keeps(F, ws[k])
      BY <2>2, <2>4, <2>5 DEF Keeps
    <2> QED
      BY <2>6 DEF F
  <1>7. mem' = m /\ todo' = ws /\ dur' = dur /\ Len(ws) = 3
    BY DEF Serve, HandoffShape
  <1>8. AllAudited(dur.egress, dur)
    BY DEF EgressInv
  <1> QED
    BY <1>2, <1>6, <1>7, <1>8 DEF EgressInv

LEMMA HandleEgress ==
  ASSUME TypeInv, EgressInv, NEW r \in Request, NEW q \in Asks(r), Handle(r, q)
  PROVE  EgressInv'
  <1>1. IsQuestion(q, dur.approvals) /\ (q.op = "compare" => q.shadow \in mem.shadows)
    BY AsksFacts
  <1>2. IsProjection(mem)
    BY DEF TypeInv
  <1>3. CASE Repeat(r) \/ Refuse(r)
    BY <1>3, EndsEgress DEF Repeat, Refuse, Serve
  <1>4. ASSUME NEW a, NEW id, a \in Approval,
               Serve(r, mem, <<Write(ApprovalEvent(id, a), TRUE, WithApproval(mem, id, a))>>, "done")
        PROVE  EgressInv'
    <2> DEFINE w == Write(ApprovalEvent(id, a), TRUE, WithApproval(mem, id, a))
    <2>1. w.event = ApprovalEvent(id, a) /\ w.mem = WithApproval(mem, id, a)
      BY DEF Write
    <2>2. Serve(r, mem, <<w>>, "done")
      BY <1>4
    <2> HIDE DEF w
    <2>3. w.mem.att = mem.att /\ w.event.type # "worker"
      BY <1>4, <2>1, ApprovalFacts
    <2> QED
      BY <2>2, <2>3, ServeEgress
  <1>5. ASSUME NEW s, IsShadow(s), NEW e, e \in {ShadowEvent(s), ComparedEvent(s)},
               NEW keyed, ChangeShadow(r, s, e, keyed)
        PROVE  EgressInv'
    <2> DEFINE w == Write(e, keyed, WithShadow(mem, s))
    <2>1. w.event = e /\ w.mem = WithShadow(mem, s)
      BY DEF Write
    <2>2. Serve(r, w.mem, <<w>>, "done")
      BY <1>5, <2>1 DEF ChangeShadow
    <2> HIDE DEF w
    <2>3. w.mem.att = mem.att /\ w.event.type # "worker"
      BY <1>5, <2>1, ShadowFacts
    <2> QED
      BY <2>2, <2>3, ServeEgress
  <1>6. CASE HandedOver(r, q)
    BY <1>1, <1>2, <1>6, HandoffFacts, HandoffEgress
  <1>7. CASE \E a : Asked(r, q, a)
    BY <1>1, <1>4, <1>7, AskedFacts DEF Asked
  <1>8. CASE \E a : DecidedOn(r, q, a)
    BY <1>1, <1>4, <1>8, DecidedFacts DEF DecidedOn
  <1>9. CASE \E s : Shadowed(r, q, s)
    BY <1>5, <1>9, ShadowedFacts DEF Shadowed
  <1>10. CASE \E s : Compared(r, q, s)
    BY <1>1, <1>5, <1>10, ComparedFacts DEF Compared
  <1> QED
    BY <1>3, <1>6, <1>7, <1>8, <1>9, <1>10, HandleCases

LEMMA EgressStep == TypeInv /\ EgressInv /\ [Next]_vars => EgressInv'
  <1> SUFFICES ASSUME TypeInv, EgressInv, [Next]_vars PROVE EgressInv'
    OBVIOUS
  <1>1. CASE Persist
    BY <1>1, PersistEgress
  <1>2. CASE RefusedByCapacity \/ Crash
    BY <1>2, EndsEgress DEF RefusedByCapacity, Crash
  <1>3. CASE Answer
    BY <1>3, EndsEgress DEF Answer
  <1>4. CASE \E r \in Request : \E q \in Asks(r) : Handle(r, q)
    BY <1>4, HandleEgress
  <1>5. ASSUME NEW i \in DOMAIN mem.att, AttemptMoves(i) PROVE EgressInv'
    <2>1. PICK a : /\ IsAttempt(a) /\ a.provider = mem.att[i].provider
                   /\ mem' = WithAttempt(mem, i, a) /\ dur' = WithAttempt(dur, i, a)
      BY <1>5, MovesFacts
    <2>2. todo' = <<>>
      BY <1>5, MovesFacts
    <2>3. IsProjection(mem) /\ IsProjection(dur)
      BY DEF TypeInv
    <2>4. /\ AllAudited(dur.egress, mem) /\ AllAudited(dur.egress, dur)
          /\ Audited(dur.egress, i, a)
      BY <2>1 DEF EgressInv, AllAudited, Audited
    <2>5. /\ AllAudited(dur.egress, mem') /\ AllAudited(dur.egress, dur')
          /\ dur'.egress = dur.egress
      BY <2>1, <2>3, <2>4, WithAttemptAudited, WithAttemptFacts
    <2>6. Len(todo') = 0
      BY <2>2, ShortSequences
    <2> QED
      BY <2>5, <2>6 DEF EgressInv
  <1>6. CASE UNCHANGED served
    BY <1>6 DEF served, EgressInv
  <1> QED
    BY <1>1, <1>2, <1>3, <1>4, <1>5, <1>6, StepCases

\* An attempt that is with another provider has the egress record of that handoff
\* in the journal, whenever the process dies (egress/handoff.py).
THEOREM EgressAlwaysAudited == Spec => []EgressIsAudited
  <1>1. EgressInv => EgressIsAudited
    BY DEF EgressInv, EgressIsAudited, AllAudited, Audited
  <1> QED
    BY TypeInit, TypeStep, EgressInit, EgressStep, <1>1, PTL DEF Spec

-----------------------------------------------------------------------------
(* DecisionIsFinal.  The handler reads the approval, and the deadline, before   *)
(* the append; what it read still holds when the append is made.               *)

Ids(S) == \E k \in Nat : S = 1..k

\* What the append of a decision may change.
MayDecide(e) ==
    /\ Ids(DOMAIN dur.approvals \cup {e.id})
    /\ e.id \in DOMAIN dur.approvals =>
          \/ e.approval = dur.approvals[e.id]
          \/ /\ dur.approvals[e.id].status = "pending" /\ ~late
             /\ \E d \in dur.approvals[e.id].allowed : e.approval.status = Status(d)

DecisionInv ==
    /\ Ids(DOMAIN dur.approvals)
    /\ \A n \in 1..Len(todo) : todo[n].event.type = "approval" => MayDecide(todo[n].event)

LEMMA EndsDecision ==
  ASSUME DecisionInv, todo' = <<>>, dur'.approvals = dur.approvals
  PROVE  DecisionInv'
  <1>1. Len(todo') = 0
    BY ShortSequences
  <1> QED
    BY <1>1 DEF DecisionInv

LEMMA PersistDecision ==
  ASSUME TypeInv, DecisionInv, Persist, UNCHANGED late
  PROVE  DecisionInv'
  <1> DEFINE e == todo[1].event
  <1>1. CASE e.type = "approval"
    <2>1. dur'.approvals = Put(dur.approvals, e.id, e.approval) /\ Len(todo') = 0
      BY <1>1, PersistFacts
    <2>2. MayDecide(e)
      BY <1>1, PersistFacts DEF DecisionInv
    <2>3. Ids(DOMAIN dur'.approvals)
      <3>1. DOMAIN dur'.approvals = DOMAIN dur.approvals \cup {e.id}
        BY <2>1 DEF Put
      <3> QED
        BY <2>2, <3>1 DEF MayDecide
    <2> QED
      BY <2>1, <2>3 DEF DecisionInv
  <1>2. CASE e.type # "approval"
    <2>1. dur'.approvals = dur.approvals
      BY <1>2, PersistFacts
    <2>2. \A n \in 1..Len(todo') : n + 1 \in 1..Len(todo) /\ todo'[n] = todo[n + 1]
      BY PersistFacts
    <2> QED
      BY <2>1, <2>2 DEF DecisionInv, MayDecide
  <1> QED
    BY <1>1, <1>2

LEMMA ServeDecision ==
  ASSUME DecisionInv, UNCHANGED late, NEW r, NEW m, NEW w, NEW told, Serve(r, m, <<w>>, told),
         w.event.type = "approval" => MayDecide(w.event)
  PROVE  DecisionInv'
  <1>1. todo' = <<w>> /\ dur' = dur
    BY DEF Serve
  <1>2. Len(todo') = 1 /\ todo'[1] = w
    BY <1>1, ShortSequences
  <1>3. \A n \in 1..Len(todo') : n = 1
    BY <1>2
  <1> QED
    BY <1>1, <1>2, <1>3 DEF DecisionInv, MayDecide

LEMMA NextApproval ==
  ASSUME NEW S, Ids(S)
  PROVE  Cardinality(S) + 1 \notin S /\ Ids(S \cup {Cardinality(S) + 1})
  <1>1. PICK k \in Nat : S = 1..k
    BY DEF Ids
  <1>2. Cardinality(S) = k
    BY <1>1, FS_Interval
  <1>3. k + 1 \notin 1..k /\ (1..k) \cup {k + 1} = 1..(k + 1)
    OBVIOUS
  <1> QED
    BY <1>1, <1>2, <1>3 DEF Ids

LEMMA HandleDecision ==
  ASSUME TypeInv, DecisionInv, NEW r \in Request, NEW q \in Asks(r), Handle(r, q)
  PROVE  DecisionInv'
  <1>1. /\ IsQuestion(q, dur.approvals) /\ (q.op = "compare" => q.shadow \in mem.shadows)
        /\ UNCHANGED late /\ mem.approvals = dur.approvals
    BY AsksFacts DEF Handle, Others, TypeInv
  <1>2. CASE Repeat(r) \/ Refuse(r)
    BY <1>2, EndsDecision DEF Repeat, Refuse, Serve
  <1>3. ASSUME NEW a, NEW id, MayDecide(ApprovalEvent(id, a)),
               Serve(r, mem, <<Write(ApprovalEvent(id, a), TRUE, WithApproval(mem, id, a))>>, "done")
        PROVE  DecisionInv'
    <2> DEFINE w == Write(ApprovalEvent(id, a), TRUE, WithApproval(mem, id, a))
    <2>1. w.event = ApprovalEvent(id, a)
      BY DEF Write
    <2>2. Serve(r, mem, <<w>>, "done")
      BY <1>3
    <2> HIDE DEF w
    <2> QED
      BY <1>1, <1>3, <2>1, <2>2, ServeDecision
  <1>4. ASSUME NEW s, NEW e, e \in {ShadowEvent(s), ComparedEvent(s)},
               NEW keyed, ChangeShadow(r, s, e, keyed)
        PROVE  DecisionInv'
    <2> DEFINE w == Write(e, keyed, WithShadow(mem, s))
    <2>1. w.event = e /\ e.type # "approval"
      BY <1>4, EventTypes DEF Write
    <2>2. Serve(r, WithShadow(mem, s), <<w>>, "done")
      BY <1>4 DEF ChangeShadow
    <2> HIDE DEF w
    <2> QED
      BY <1>1, <2>1, <2>2, ServeDecision
  <1>5. CASE HandedOver(r, q)
    <2>1. PICK e, a, m, n, ws : HandoffShape(r, q, e, a, m, n, ws) /\ Serve(r, m, ws, "done")
      BY <1>1, <1>5, HandoffFacts
    <2> QED
      BY <2>1 DEF HandoffShape, Serve, DecisionInv
  <1>6. ASSUME NEW a, Asked(r, q, a) PROVE DecisionInv'
    <2> DEFINE e == ApprovalEvent(NewApproval, a)
    <2>1. NewApproval \notin DOMAIN dur.approvals /\ Ids(DOMAIN dur.approvals \cup {NewApproval})
      BY <1>1, NextApproval DEF DecisionInv, NewApproval
    <2>2. e.id = NewApproval
      BY EventTypes
    <2> HIDE DEF e
    <2>3. MayDecide(e)
      BY <2>1, <2>2 DEF MayDecide
    <2> QED
      BY <1>3, <1>6, <2>3 DEF Asked, e
  <1>7. ASSUME NEW a, DecidedOn(r, q, a) PROVE DecisionInv'
    <2> DEFINE e == ApprovalEvent(q.approval, a)
    <2>1. e.id = q.approval /\ e.approval = a
      BY EventTypes
    <2> HIDE DEF e
    <2>2. DOMAIN dur.approvals \cup {q.approval} = DOMAIN dur.approvals
      BY <1>1, <1>7, DecidedFacts
    <2>3. Ids(DOMAIN dur.approvals \cup {e.id})
      BY <2>1, <2>2 DEF DecisionInv
    <2>4. MayDecide(e)
      BY <1>1, <1>7, <2>1, <2>3, DecidedFacts DEF MayDecide
    <2> QED
      BY <1>3, <1>7, <2>4 DEF DecidedOn, e
  <1>8. CASE (\E s : Shadowed(r, q, s)) \/ (\E s : Compared(r, q, s))
    BY <1>4, <1>8 DEF Shadowed, Compared
  <1> QED
    BY <1>2, <1>5, <1>6, <1>7, <1>8, HandleCases

LEMMA DecisionInit == Init => DecisionInv
  <1> SUFFICES ASSUME Init PROVE DecisionInv
    OBVIOUS
  <1>1. DOMAIN dur.approvals = {} /\ todo = <<>>
    BY DEF Init, Began, Empty
  <1>2. Len(todo) = 0 /\ 1..0 = {}
    BY <1>1, ShortSequences
  <1> QED
    BY <1>1, <1>2 DEF DecisionInv, Ids

LEMMA DecisionStep == TypeInv /\ DecisionInv /\ [Next]_vars => DecisionInv'
  <1> SUFFICES ASSUME TypeInv, DecisionInv, [Next]_vars PROVE DecisionInv'
    OBVIOUS
  <1>1. CASE Persist /\ UNCHANGED late
    BY <1>1, PersistDecision
  <1>2. CASE RefusedByCapacity \/ Crash
    BY <1>2, EndsDecision DEF RefusedByCapacity, Crash
  <1>3. CASE Answer
    BY <1>3, EndsDecision DEF Answer
  <1>4. CASE \E r \in Request : \E q \in Asks(r) : Handle(r, q)
    BY <1>4, HandleDecision
  <1>5. ASSUME NEW i \in DOMAIN mem.att, AttemptMoves(i) PROVE DecisionInv'
    <2>1. PICK a : dur' = WithAttempt(dur, i, a)
      BY <1>5, MovesFacts
    <2>2. dur'.approvals = dur.approvals /\ todo' = <<>>
      BY <1>5, <2>1, MovesFacts, WithAttemptFacts DEF TypeInv
    <2> QED
      BY <2>2, EndsDecision
  <1>6. CASE UNCHANGED served /\ Idle
    BY <1>6, EndsDecision DEF served, Idle, TypeInv
  <1>7. CASE UNCHANGED served /\ UNCHANGED late
    BY <1>7 DEF served, DecisionInv, MayDecide
  <1> QED
    BY <1>1, <1>2, <1>3, <1>4, <1>5, <1>6, <1>7, StepCases

\* Only the append of a decision changes an approval in the journal.
LEMMA ApprovalsStep ==
  ASSUME TypeInv, [Next]_vars
  PROVE  \/ dur'.approvals = dur.approvals
         \/ Persist /\ todo[1].event.type = "approval"
  <1>1. CASE Persist
    BY <1>1, PersistFacts
  <1>2. CASE RefusedByCapacity \/ Crash \/ Answer \/ UNCHANGED served
    BY <1>2 DEF RefusedByCapacity, Crash, Answer, served
  <1>3. ASSUME NEW r, NEW q, Handle(r, q) PROVE dur' = dur
    <2>1. \E m, ws, told : Serve(r, m, ws, told)
      BY <1>3, HandleCases
         DEF Repeat, Refuse, Asked, DecidedOn, HandedOver, Shadowed, Compared, ChangeShadow
    <2> QED
      BY <2>1 DEF Serve
  <1>4. ASSUME NEW i \in DOMAIN mem.att, AttemptMoves(i) PROVE dur'.approvals = dur.approvals
    <2>1. PICK a : dur' = WithAttempt(dur, i, a)
      BY <1>4, MovesFacts
    <2> QED
      BY <2>1, WithAttemptFacts DEF TypeInv
  <1> QED
    BY <1>1, <1>2, <1>3, <1>4, StepCases

Finality == \A a \in DOMAIN dur.approvals :
    dur'.approvals[a] # dur.approvals[a] =>
        /\ dur.approvals[a].status = "pending"
        /\ ~late
        /\ \E d \in dur.approvals[a].allowed : dur'.approvals[a].status = Status(d)

LEMMA PersistFinality ==
  ASSUME TypeInv, DecisionInv, Persist
  PROVE  Finality
  <1> DEFINE e == todo[1].event
  <1>1. CASE e.type = "approval"
    <2>1. dur'.approvals = Put(dur.approvals, e.id, e.approval) /\ MayDecide(e)
      BY <1>1, PersistFacts DEF DecisionInv
    <2> HIDE DEF e
    <2>2. \A a \in DOMAIN dur.approvals :
             dur'.approvals[a] = IF a = e.id THEN e.approval ELSE dur.approvals[a]
      BY <2>1 DEF Put
    <2> QED
      BY <2>1, <2>2 DEF Finality, MayDecide
  <1>2. CASE e.type # "approval"
    BY <1>2, PersistFacts DEF Finality
  <1> QED
    BY <1>1, <1>2

LEMMA FinalityStep == TypeInv /\ DecisionInv /\ [Next]_vars => Finality
  BY PersistFinality, ApprovalsStep DEF Finality

\* A decided approval keeps its decision, and it was decided before its deadline and
\* as offered, over retries, new keys, refused appends and restarts
\* (approvals/service.py).
THEOREM DecisionFinal == Spec => DecisionIsFinal
  <1>1. TypeInv /\ DecisionInv /\ [Next]_vars => [Finality]_vars
    BY FinalityStep
  <1>2. Spec => [][Finality]_vars
    BY TypeInit, TypeStep, DecisionInit, DecisionStep, <1>1, PTL DEF Spec
  <1> QED
    BY <1>2 DEF DecisionIsFinal, Finality

-----------------------------------------------------------------------------
(* AnsweredIsDurable.  A shadow record is replaced by id, so first: a record   *)
(* of the journal is one of memory's, but for its status.                      *)

ShadowInv ==
    /\ \A t \in dur.shadows : \E u \in mem.shadows : u.id = t.id /\ u.by = t.by
    /\ \A t, u \in mem.shadows : t.id = u.id => t.by = u.by
    /\ \A n \in 1..Len(todo) :
          /\ todo[n].mem.shadows = mem.shadows
          /\ todo[n].event.type \in {"routing.shadow_recorded", "routing.shadow_compared"} =>
                todo[n].event.shadow \in mem.shadows

\* What a write does to the records of the journal.
LEMMA PersistShadows ==
  ASSUME TypeInv, ShadowInv, Persist
  PROVE  /\ mem'.shadows = mem.shadows
         /\ \/ dur'.shadows = dur.shadows /\ todo[1].event.type # "routing.shadow_recorded"
            \/ /\ todo[1].event.shadow \in mem.shadows
               /\ dur'.shadows = {t \in dur.shadows : t.id # todo[1].event.shadow.id}
                                    \cup {todo[1].event.shadow}
  <1> DEFINE e == todo[1].event
  <1>1. /\ mem' = todo[1].mem /\ dur' = ReplayEvent(dur, e) /\ IsProjection(dur)
        /\ 1 \in 1..Len(todo)
    BY PersistFacts DEF TypeInv
  <1>2. /\ todo[1].mem.shadows = mem.shadows
        /\ e.type \in {"routing.shadow_recorded", "routing.shadow_compared"} =>
              e.shadow \in mem.shadows
    BY <1>1 DEF ShadowInv
  <1> HIDE DEF e
  <1>3. CASE e.type = "approval"
    <2>1. dur' = WithApproval(dur, e.id, e.approval)
      BY <1>1, <1>3, ReplayCases
    <2> QED
      BY <1>1, <1>2, <1>3, <2>1, WithApprovalFacts DEF e
  <1>4. CASE e.type = "egress.recorded"
    <2>1. dur' = WithEgress(dur, e.egress)
      BY <1>1, <1>4, ReplayCases
    <2> QED
      BY <1>1, <1>2, <1>4, <2>1, WithEgressFacts DEF e
  <1>5. CASE e.type = "worker"
    <2>1. dur' = WithAttempt(dur, e.id, e.attempt)
      BY <1>1, <1>5, ReplayCases
    <2> QED
      BY <1>1, <1>2, <1>5, <2>1, WithAttemptFacts DEF e
  <1>6. CASE e.type \in {"routing.shadow_recorded", "routing.shadow_compared"}
    <2>1. \/ dur' = WithShadow(dur, e.shadow)
          \/ dur' = dur /\ e.type = "routing.shadow_compared"
      BY <1>1, <1>6, ReplayCases
    <2>2. WithShadow(dur, e.shadow).shadows = {t \in dur.shadows : t.id # e.shadow.id} \cup {e.shadow}
      BY <1>1, WithShadowFacts
    <2> QED
      BY <1>1, <1>2, <1>6, <2>1, <2>2 DEF e
  <1>7. CASE e.type \notin {"approval", "egress.recorded", "worker", "routing.shadow_recorded",
                            "routing.shadow_compared"}
    <2>1. dur' = dur
      BY <1>1, <1>7, ReplayCases
    <2> QED
      BY <1>1, <1>2, <1>7, <2>1 DEF e
  <1> QED
    BY <1>3, <1>4, <1>5, <1>6, <1>7

LEMMA EndsShadow ==
  ASSUME ShadowInv, todo' = <<>>, UNCHANGED dur.shadows,
         mem'.shadows = mem.shadows \/ mem'.shadows = dur.shadows
  PROVE  ShadowInv'
  <1>1. Len(todo') = 0
    BY ShortSequences
  <1> QED
    BY <1>1 DEF ShadowInv

LEMMA ServeShadow ==
  ASSUME ShadowInv, NEW r, NEW m, NEW ws, NEW told, Serve(r, m, ws, told),
         m.shadows = mem.shadows,
         \A n \in 1..Len(ws) :
            /\ ws[n].mem.shadows = mem.shadows
            /\ ws[n].event.type \notin {"routing.shadow_recorded", "routing.shadow_compared"}
  PROVE  ShadowInv'
  BY DEF ShadowInv, Serve

LEMMA ChangeShadowStep ==
  ASSUME TypeInv, ShadowInv, NEW s, IsShadow(s), \A t \in mem.shadows : t.id = s.id => t.by = s.by,
         NEW r, NEW e, e \in {ShadowEvent(s), ComparedEvent(s)},
         NEW keyed, ChangeShadow(r, s, e, keyed)
  PROVE  ShadowInv'
  <1> DEFINE w == Write(e, keyed, WithShadow(mem, s))
  <1>1. w.event = e /\ w.mem = WithShadow(mem, s)
    BY DEF Write
  <1>2. mem' = w.mem /\ todo' = <<w>> /\ dur' = dur
    BY <1>1 DEF ChangeShadow, Serve
  <1> HIDE DEF w
  <1>3. /\ w.mem.shadows = {t \in mem.shadows : t.id # s.id} \cup {s}
        /\ e.shadow = s
    BY <1>1, ShadowFacts
  <1>4. Len(todo') = 1 /\ todo'[1] = w
    BY <1>2, ShortSequences
  <1>5. \A t \in dur.shadows : \E u \in w.mem.shadows : u.id = t.id /\ u.by = t.by
    BY <1>3 DEF ShadowInv
  <1>6. \A t, u \in w.mem.shadows : t.id = u.id => t.by = u.by
    BY <1>3 DEF ShadowInv
  <1>7. \A n \in 1..Len(todo') : todo'[n] = w
    BY <1>4
  <1>8. e.shadow \in w.mem.shadows
    BY <1>3
  <1> QED
    BY <1>1, <1>2, <1>5, <1>6, <1>7, <1>8 DEF ShadowInv

LEMMA HandleShadow ==
  ASSUME TypeInv, ShadowInv, NEW r \in Request, NEW q \in Asks(r), Handle(r, q)
  PROVE  ShadowInv'
  <1>1. IsQuestion(q, dur.approvals) /\ (q.op = "compare" => q.shadow \in mem.shadows)
    BY AsksFacts
  <1>2. CASE Repeat(r) \/ Refuse(r)
    BY <1>2, EndsShadow DEF Repeat, Refuse, Serve
  <1>3. ASSUME NEW a, NEW id, a \in Approval,
               Serve(r, mem, <<Write(ApprovalEvent(id, a), TRUE, WithApproval(mem, id, a))>>, "done")
        PROVE  ShadowInv'
    <2> DEFINE w == Write(ApprovalEvent(id, a), TRUE, WithApproval(mem, id, a))
               ws == <<w>>
    <2>1. w.event = ApprovalEvent(id, a) /\ w.mem = WithApproval(mem, id, a)
      BY DEF Write
    <2>2. Serve(r, mem, ws, "done")
      BY <1>3
    <2> HIDE DEF w
    <2>3. w.mem.shadows = mem.shadows /\ w.event.type = "approval"
      BY <1>3, <2>1, ApprovalFacts
    <2>4. Len(ws) = 1 /\ ws[1] = w
      BY ShortSequences
    <2> HIDE DEF ws
    <2>5. \A n \in 1..Len(ws) : ws[n] = w
      BY <2>4
    <2> QED
      BY <2>2, <2>3, <2>5, ServeShadow
  <1>4. CASE HandedOver(r, q)
    <2>1. PICK e, a, m, n, ws : HandoffShape(r, q, e, a, m, n, ws) /\ Serve(r, m, ws, "done")
      BY <1>1, <1>4, HandoffFacts
    <2>2. \A k \in 1..Len(ws) : k = 1 \/ k = 2 \/ k = 3
      BY <2>1 DEF HandoffShape
    <2>3. ASSUME NEW k \in 1..Len(ws)
          PROVE  /\ ws[k].mem.shadows = mem.shadows
                 /\ ws[k].event.type \notin {"routing.shadow_recorded", "routing.shadow_compared"}
      BY <2>1, <2>2, EventTypes DEF HandoffShape
    <2>4. m.shadows = mem.shadows
      BY <2>1 DEF HandoffShape
    <2> QED
      BY <2>1, <2>3, <2>4, ServeShadow
  <1>5. CASE \E a : Asked(r, q, a)
    BY <1>1, <1>3, <1>5, AskedFacts DEF Asked
  <1>6. CASE \E a : DecidedOn(r, q, a)
    BY <1>1, <1>3, <1>6, DecidedFacts DEF DecidedOn
  <1>7. ASSUME NEW s, Shadowed(r, q, s) PROVE ShadowInv'
    <2>1. IsShadow(s) /\ \A t \in mem.shadows : t.id # s.id
      BY <1>7, ShadowedFacts
    <2>2. PICK keyed : ChangeShadow(r, s, ShadowEvent(s), keyed)
      BY <1>7 DEF Shadowed
    <2> QED
      BY <2>1, <2>2, ChangeShadowStep
  <1>8. ASSUME NEW s, Compared(r, q, s) PROVE ShadowInv'
    <2>1. q.shadow \in mem.shadows
      BY <1>1, <1>8 DEF Compared
    <2>2. IsShadow(s) /\ s.id = q.shadow.id /\ s.by = q.shadow.by
      BY <1>8, <2>1, ComparedFacts
    <2>3. \A t \in mem.shadows : t.id = s.id => t.by = s.by
      BY <2>1, <2>2 DEF ShadowInv
    <2> QED
      BY <1>8, <2>2, <2>3, ChangeShadowStep DEF Compared
  <1> QED
    BY <1>2, <1>4, <1>5, <1>6, <1>7, <1>8, HandleCases

LEMMA ShadowInit == Init => ShadowInv
  <1> SUFFICES ASSUME Init PROVE ShadowInv
    OBVIOUS
  <1>1. dur.shadows = {} /\ mem.shadows = {} /\ todo = <<>>
    BY DEF Init, Began, Empty
  <1>2. Len(todo) = 0
    BY <1>1, ShortSequences
  <1> QED
    BY <1>1, <1>2 DEF ShadowInv

LEMMA ShadowStep == TypeInv /\ ShadowInv /\ [Next]_vars => ShadowInv'
  <1> SUFFICES ASSUME TypeInv, ShadowInv, [Next]_vars PROVE ShadowInv'
    OBVIOUS
  <1>1. CASE Persist
    <2>1. /\ mem'.shadows = mem.shadows
          /\ \A t \in dur'.shadows : t \in dur.shadows \/ t \in mem.shadows
      BY <1>1, PersistShadows
    <2>2. \A n \in 1..Len(todo') : n + 1 \in 1..Len(todo) /\ todo'[n] = todo[n + 1]
      BY <1>1, PersistFacts
    <2> QED
      BY <2>1, <2>2 DEF ShadowInv
  <1>2. CASE RefusedByCapacity \/ Crash
    BY <1>2, EndsShadow DEF RefusedByCapacity, Crash
  <1>3. CASE Answer
    BY <1>3, EndsShadow DEF Answer
  <1>4. CASE \E r \in Request : \E q \in Asks(r) : Handle(r, q)
    BY <1>4, HandleShadow
  <1>5. ASSUME NEW i \in DOMAIN mem.att, AttemptMoves(i) PROVE ShadowInv'
    <2>1. PICK a : mem' = WithAttempt(mem, i, a) /\ dur' = WithAttempt(dur, i, a)
      BY <1>5, MovesFacts
    <2>2. IsProjection(mem) /\ IsProjection(dur)
      BY DEF TypeInv
    <2>3. mem'.shadows = mem.shadows /\ dur'.shadows = dur.shadows /\ todo' = <<>>
      BY <1>5, <2>1, <2>2, MovesFacts, WithAttemptFacts
    <2> QED
      BY <2>3, EndsShadow
  <1>6. CASE UNCHANGED served
    BY <1>6 DEF served, ShadowInv
  <1> QED
    BY <1>1, <1>2, <1>3, <1>4, <1>5, <1>6, StepCases

\* What request r asked for, as q, is in the projection p; the append of w brings
\* it there.
Done(p, r, q) ==
    /\ q.op \in Decision => p.approvals[q.approval].status = Status(q.op)
    /\ q.op = "handoff" => \E e \in p.egress : e.by = r /\ e.target = q.target
    /\ q.op = "shadow" => \E s \in p.shadows : s.by = r
Completes(w, r, q) ==
    /\ q.op \in Decision =>
          /\ w.event.type = "approval" /\ w.event.id = q.approval
          /\ w.event.approval.status = Status(q.op)
    /\ q.op = "handoff" =>
          /\ w.event.type = "egress.recorded"
          /\ w.event.egress.by = r /\ w.event.egress.target = q.target
    /\ q.op = "shadow" =>
          w.event.type = "routing.shadow_recorded" /\ w.event.shadow.by = r

\* One of the first n of the writes ws does it, if it is not done in p.
DoneBy(p, ws, n, r, q) == Done(p, r, q) \/ \E m \in 1..n : Completes(ws[m], r, q)

\* A result that is in the journal, or told, stands for what is done; the handler
\* answers "done" after its last append, and appends the result at the earliest
\* with the event that does it.
AnswersInv ==
    /\ \A r \in answered \cup recorded :
          r \in Request /\ sent[r] # NotSent /\ Done(dur, r, sent[r])
    /\ current # Nobody =>
          /\ current \in Request /\ sent[current] # NotSent
          /\ reply = "done" => DoneBy(dur, todo, Len(todo), current, sent[current])
          /\ \A n \in 1..Len(todo) :
                todo[n].keyed => DoneBy(dur, todo, n, current, sent[current])

LEMMA PersistRecords ==
  ASSUME TypeInv, Persist
  PROVE  /\ dur.egress \subseteq dur'.egress
         /\ todo[1].event.type = "egress.recorded" => todo[1].event.egress \in dur'.egress
  <1> DEFINE e == todo[1].event
  <1>1. dur' = ReplayEvent(dur, e) /\ IsProjection(dur)
    BY PersistFacts DEF TypeInv
  <1> HIDE DEF e
  <1>2. CASE e.type = "approval"
    <2>1. dur' = WithApproval(dur, e.id, e.approval)
      BY <1>1, <1>2, ReplayCases
    <2> QED
      BY <1>1, <1>2, <2>1, WithApprovalFacts DEF e
  <1>3. CASE e.type = "egress.recorded"
    <2>1. dur' = WithEgress(dur, e.egress)
      BY <1>1, <1>3, ReplayCases
    <2>2. dur'.egress = dur.egress \cup {e.egress}
      BY <1>1, <2>1, WithEgressFacts
    <2> QED
      BY <2>2 DEF e
  <1>4. CASE e.type = "worker"
    <2>1. dur' = WithAttempt(dur, e.id, e.attempt)
      BY <1>1, <1>4, ReplayCases
    <2> QED
      BY <1>1, <1>4, <2>1, WithAttemptFacts DEF e
  <1>5. CASE e.type \notin {"approval", "egress.recorded", "worker"}
    <2>1. dur' = dur \/ dur' = WithShadow(dur, e.shadow)
      BY <1>1, <1>5, ReplayCases
    <2> QED
      BY <1>1, <1>5, <2>1, WithShadowFacts DEF e
  <1> QED
    BY <1>2, <1>3, <1>4, <1>5

\* What the journal has is not undone.
LEMMA DoneStays ==
  ASSUME TypeInv, DecisionInv, ShadowInv, Persist, NEW r, NEW q,
         IsQuestion(q, dur.approvals), Done(dur, r, q)
  PROVE  Done(dur', r, q)
  <1>1. ASSUME q.op \in Decision
        PROVE  dur'.approvals[q.approval].status = Status(q.op)
    <2> DEFINE a == q.approval
    <2>1. a \in DOMAIN dur.approvals /\ dur.approvals[a].status = Status(q.op)
      BY <1>1 DEF IsQuestion, Done
    <2>2. dur.approvals[a].status # "pending"
      BY <2>1 DEF Status
    <2>3. Finality
      BY PersistFinality
    <2> QED
      BY <2>1, <2>2, <2>3 DEF Finality
  <1>2. dur.egress \subseteq dur'.egress
    BY PersistRecords
  <1>3. ASSUME NEW s \in dur.shadows PROVE \E t \in dur'.shadows : t.by = s.by
    BY PersistShadows DEF ShadowInv
  <1> QED
    BY <1>1, <1>2, <1>3 DEF Done

LEMMA CompletesFacts ==
  ASSUME TypeInv, ShadowInv, Persist, NEW r, NEW q, Completes(todo[1], r, q)
  PROVE  Done(dur', r, q)
  <1>1. ASSUME q.op \in Decision
        PROVE  dur'.approvals[q.approval].status = Status(q.op)
    <2>1. dur'.approvals = Put(dur.approvals, todo[1].event.id, todo[1].event.approval)
      BY <1>1, PersistFacts DEF Completes
    <2>2. dur'.approvals[q.approval] = todo[1].event.approval
      BY <1>1, <2>1 DEF Completes, Put
    <2> QED
      BY <1>1, <2>2 DEF Completes
  <1>2. ASSUME q.op = "handoff"
        PROVE  \E e \in dur'.egress : e.by = r /\ e.target = q.target
    BY <1>2, PersistRecords DEF Completes
  <1>3. ASSUME q.op = "shadow"
        PROVE  \E s \in dur'.shadows : s.by = r
    BY <1>3, PersistShadows DEF Completes
  <1> QED
    BY <1>1, <1>2, <1>3 DEF Done

LEMMA PersistAnswers ==
  ASSUME TypeInv, DecisionInv, ShadowInv, AnswersInv, Persist, UNCHANGED sent
  PROVE  AnswersInv'
  <1> DEFINE q == sent[current]
  <1>1. /\ current # Nobody /\ UNCHANGED <<current, reply, answered>>
        /\ Len(todo) \in Nat \ {0} /\ Len(todo') = Len(todo) - 1
        /\ \A n \in 1..Len(todo') : n + 1 \in 1..Len(todo) /\ todo'[n] = todo[n + 1]
    BY PersistFacts DEF TypeInv, Persist
  <1>2. current \in Request /\ q # NotSent
    BY <1>1 DEF AnswersInv
  <1>3. ASSUME NEW r \in Request, Done(dur, r, sent[r]) PROVE Done(dur', r, sent[r])
    BY <1>3, DoneStays DEF TypeInv
  <1>4. Done(dur, current, q) \/ Completes(todo[1], current, q) => Done(dur', current, q)
    BY <1>2, <1>3, CompletesFacts
  <1>5. ASSUME NEW n \in 0..Len(todo'), DoneBy(dur, todo, n + 1, current, q)
        PROVE  DoneBy(dur', todo', n, current', q)
    <2> HIDE DEF q
    <2>1. CASE Done(dur, current, q)
      BY <1>1, <1>4, <2>1 DEF DoneBy, q
    <2>2. ASSUME NEW m \in 1..n + 1, Completes(todo[m], current, q)
          PROVE  DoneBy(dur', todo', n, current', q)
      <3>1. CASE m = 1
        BY <1>1, <1>4, <2>2, <3>1 DEF DoneBy, q
      <3>2. CASE m # 1
        <4>1. m - 1 \in 1..n /\ m - 1 \in 1..Len(todo') /\ todo'[m - 1] = todo[m]
          BY <1>1, <3>2
        <4> QED
          BY <1>1, <2>2, <4>1 DEF DoneBy, q
      <3> QED
        BY <3>1, <3>2
    <2> QED
      BY <1>5, <2>1, <2>2 DEF DoneBy
  <1>6. \A r \in answered' \cup recorded' :
           r \in Request /\ sent'[r] # NotSent /\ Done(dur', r, sent'[r])
    <2>1. todo[1].keyed => Done(dur', current, q)
      <3>1. todo[1].keyed => DoneBy(dur, todo, 1, current, q)
        BY <1>1 DEF AnswersInv
      <3>2. \A m \in 1..1 : m = 1
        OBVIOUS
      <3> QED
        BY <1>4, <3>1, <3>2 DEF DoneBy
    <2>2. recorded' = IF todo[1].keyed THEN recorded \cup {current} ELSE recorded
      BY PersistFacts
    <2> QED
      BY <1>1, <1>2, <1>3, <2>1, <2>2 DEF AnswersInv
  <1>7. reply' = "done" => DoneBy(dur', todo', Len(todo'), current', q)
    <2>1. reply = "done" => DoneBy(dur, todo, Len(todo') + 1, current, q)
      BY <1>1 DEF AnswersInv
    <2>2. Len(todo') \in 0..Len(todo')
      BY <1>1
    <2> QED
      BY <1>1, <1>5, <2>1, <2>2
  <1>8. ASSUME NEW n \in 1..Len(todo'), todo'[n].keyed
        PROVE  DoneBy(dur', todo', n, current', q)
    <2>1. DoneBy(dur, todo, n + 1, current, q)
      BY <1>1, <1>8 DEF AnswersInv
    <2> QED
      BY <1>1, <1>5, <2>1
  <1> QED
    BY <1>1, <1>2, <1>6, <1>7, <1>8 DEF AnswersInv

\* The handler is over, or nothing of this changes.
LEMMA EndsAnswers ==
  ASSUME TypeInv, AnswersInv, UNCHANGED <<sent, recorded>>, answered' = answered,
         dur' = dur \/ \E i, a : dur' = WithAttempt(dur, i, a),
         current' = Nobody \/ (current' = current /\ todo' = <<>> /\ reply' # "done")
  PROVE  AnswersInv'
  <1>1. /\ dur'.approvals = dur.approvals /\ dur'.egress = dur.egress
        /\ dur'.shadows = dur.shadows
    BY WithAttemptFacts DEF TypeInv
  <1>2. todo' = <<>> => Len(todo') = 0
    BY ShortSequences
  <1>3. \A r \in answered \cup recorded : Done(dur', r, sent[r])
    BY <1>1 DEF AnswersInv, Done
  <1> QED
    BY <1>2, <1>3 DEF AnswersInv

LEMMA ServeAnswers ==
  ASSUME TypeInv, AnswersInv, NEW r \in Request, NEW q \in Asks(r), sent' = [sent EXCEPT ![r] = q],
         NEW m, NEW ws, NEW told, Serve(r, m, ws, told),
         told = "done" => DoneBy(dur, ws, Len(ws), r, q),
         \A n \in 1..Len(ws) : ws[n].keyed => DoneBy(dur, ws, n, r, q)
  PROVE  AnswersInv'
  <1>1. UNCHANGED <<dur, recorded, answered>> /\ current' = r /\ reply' = told /\ todo' = ws
    BY DEF Serve
  <1>2. q.op \in Operation /\ (sent[r] = NotSent \/ q = sent[r]) /\ DOMAIN sent = Request
    BY AsksFacts DEF TypeInv
  <1>3. q # NotSent
    BY <1>2 DEF NotSent, Operation
  <1>4. \A s \in answered \cup recorded : sent'[s] = sent[s]
    BY <1>2 DEF AnswersInv
  <1>5. \A s \in answered' \cup recorded' :
           s \in Request /\ sent'[s] # NotSent /\ Done(dur', s, sent'[s])
    BY <1>1, <1>4 DEF AnswersInv
  <1>6. sent'[current'] = q
    BY <1>1, <1>2
  <1>7. \A n : DoneBy(dur, ws, n, r, q) => DoneBy(dur', todo', n, current', sent'[current'])
    BY <1>1, <1>6 DEF DoneBy
  <1> QED
    BY <1>1, <1>3, <1>5, <1>6, <1>7 DEF AnswersInv

LEMMA ServeOneAnswers ==
  ASSUME TypeInv, AnswersInv, NEW r \in Request, NEW q \in Asks(r), sent' = [sent EXCEPT ![r] = q],
         NEW m, NEW w, NEW told, Serve(r, m, <<w>>, told),
         Done(dur, r, q) \/ Completes(w, r, q)
  PROVE  AnswersInv'
  <1> DEFINE ws == <<w>>
  <1>1. Len(ws) = 1 /\ ws[1] = w /\ Serve(r, m, ws, told)
    BY ShortSequences
  <1> HIDE DEF ws
  <1>2. \A n \in 1..Len(ws) : n = 1
    BY <1>1
  <1>3. DoneBy(dur, ws, 1, r, q)
    BY <1>1 DEF DoneBy
  <1> QED
    BY <1>1, <1>2, <1>3, ServeAnswers

LEMMA HandleAnswers ==
  ASSUME TypeInv, AnswersInv, NEW r \in Request, NEW q \in Asks(r), Handle(r, q)
  PROVE  AnswersInv'
  <1>1. /\ IsQuestion(q, dur.approvals) /\ sent' = [sent EXCEPT ![r] = q]
        /\ sent[r] = NotSent \/ q = sent[r]
    BY AsksFacts DEF Handle
  <1>2. CASE Repeat(r) \/ Refuse(r)
    <2> DEFINE ws == <<>>
    <2>1. PICK told : Serve(r, mem, ws, told) /\ (told = "done" => r \in recorded)
      BY <1>2 DEF Repeat, Refuse
    <2>2. Len(ws) = 0
      BY ShortSequences
    <2> HIDE DEF ws
    <2>3. told = "done" => Done(dur, r, q)
      BY <1>1, <2>1 DEF AnswersInv
    <2>4. 1..Len(ws) = {}
      BY <2>2
    <2> QED
      BY <1>1, <2>1, <2>3, <2>4, ServeAnswers DEF DoneBy
  <1>3. CASE HandedOver(r, q)
    <2>1. PICK e, a, m, n, ws : HandoffShape(r, q, e, a, m, n, ws) /\ Serve(r, m, ws, "done")
      BY <1>1, <1>3, HandoffFacts
    <2>2. Completes(ws[1], r, q)
      BY <1>3, <2>1, EventTypes DEF HandoffShape, HandedOver, Completes, Decision
    <2>3. Len(ws) = 3
      BY <2>1 DEF HandoffShape
    <2>4. \A k \in 1..Len(ws) : DoneBy(dur, ws, k, r, q)
      BY <2>2, <2>3 DEF DoneBy
    <2>5. DoneBy(dur, ws, Len(ws), r, q)
      BY <2>3, <2>4
    <2> QED
      BY <1>1, <2>1, <2>4, <2>5, ServeAnswers
  <1>4. ASSUME NEW a, Asked(r, q, a) PROVE AnswersInv'
    <2>1. Done(dur, r, q)
      BY <1>4 DEF Asked, Done, Decision
    <2>2. PICK w : Serve(r, mem, <<w>>, "done")
      BY <1>4 DEF Asked
    <2> QED
      BY <1>1, <2>1, <2>2, ServeOneAnswers
  <1>5. ASSUME NEW a, DecidedOn(r, q, a) PROVE AnswersInv'
    <2> DEFINE w == Write(ApprovalEvent(q.approval, a), TRUE, WithApproval(mem, q.approval, a))
    <2>1. w.event = ApprovalEvent(q.approval, a) /\ Serve(r, mem, <<w>>, "done")
      BY <1>5 DEF DecidedOn, Write
    <2> HIDE DEF w
    <2>2. w.event.type = "approval" /\ w.event.id = q.approval /\ w.event.approval = a
      BY <2>1, EventTypes
    <2>3. q.op \in Decision /\ a.status = Status(q.op)
      BY <1>1, <1>5, DecidedFacts DEF DecidedOn
    <2>4. Completes(w, r, q)
      BY <2>2, <2>3 DEF Completes, Decision
    <2> QED
      BY <1>1, <2>1, <2>4, ServeOneAnswers
  <1>6. ASSUME NEW s, Shadowed(r, q, s) PROVE AnswersInv'
    <2> DEFINE w == Write(ShadowEvent(s), TRUE, WithShadow(mem, s))
               m == WithShadow(mem, s)
    <2>1. w.event = ShadowEvent(s) /\ Serve(r, m, <<w>>, "done")
      BY <1>6 DEF Shadowed, ChangeShadow, Write
    <2> HIDE DEF w, m
    <2>2. w.event.type = "routing.shadow_recorded" /\ w.event.shadow = s
      BY <2>1, EventTypes
    <2>3. q.op = "shadow" /\ s.by = r
      BY <1>6, ShadowedFacts DEF Shadowed
    <2>4. Completes(w, r, q)
      BY <2>2, <2>3 DEF Completes, Decision
    <2> QED
      BY <1>1, <2>1, <2>4, ServeOneAnswers
  <1>7. ASSUME NEW s, Compared(r, q, s) PROVE AnswersInv'
    <2>1. Done(dur, r, q)
      BY <1>7 DEF Compared, Done, Decision
    <2>2. \E m, w : Serve(r, m, <<w>>, "done")
      BY <1>7 DEF Compared, ChangeShadow
    <2> QED
      BY <1>1, <2>1, <2>2, ServeOneAnswers
  <1> QED
    BY <1>2, <1>3, <1>4, <1>5, <1>6, <1>7, HandleCases

LEMMA AnswersInit == Init => AnswersInv
  BY DEF Init, Began, AnswersInv

LEMMA AnswersStep ==
  TypeInv /\ DecisionInv /\ ShadowInv /\ AnswersInv /\ [Next]_vars => AnswersInv'
  <1> SUFFICES ASSUME TypeInv, DecisionInv, ShadowInv, AnswersInv, [Next]_vars PROVE AnswersInv'
    OBVIOUS
  <1>1. CASE Persist /\ UNCHANGED sent
    BY <1>1, PersistAnswers
  <1>2. CASE RefusedByCapacity /\ UNCHANGED sent
    BY <1>2, EndsAnswers DEF RefusedByCapacity
  <1>3. CASE Crash /\ UNCHANGED sent
    BY <1>3, EndsAnswers DEF Crash
  <1>4. CASE Answer /\ UNCHANGED sent
    <2>1. Len(todo) = 0
      BY <1>4, ShortSequences DEF Answer
    <2>2. \A n \in 1..Len(todo) : FALSE
      BY <2>1
    <2>3. reply = "done" => Done(dur, current, sent[current])
      BY <1>4, <2>1, <2>2 DEF AnswersInv, DoneBy, Answer
    <2> QED
      BY <1>4, <2>3 DEF Answer, AnswersInv
  <1>5. CASE \E r \in Request : \E q \in Asks(r) : Handle(r, q)
    BY <1>5, HandleAnswers
  <1>6. ASSUME NEW i \in DOMAIN mem.att, AttemptMoves(i) PROVE AnswersInv'
    <2>1. \E a : dur' = WithAttempt(dur, i, a)
      BY <1>6, MovesFacts
    <2>2. current' = Nobody /\ UNCHANGED <<sent, recorded, answered>>
      BY <1>6, MovesFacts DEF AttemptMoves, Append1, Idle
    <2> QED
      BY <2>1, <2>2, EndsAnswers
  <1>7. CASE UNCHANGED <<served, sent>>
    BY <1>7 DEF served, AnswersInv
  <1> QED
    BY <1>1, <1>2, <1>3, <1>4, <1>5, <1>6, <1>7, StepCases

\* A client that was told "done" finds its decision, the egress record of its handoff or
\* its shadow record after any crash (api/app.py, storage/store.py).
THEOREM AnsweredDurable == Spec => []AnsweredIsDurable
  <1>1. AnswersInv => AnsweredIsDurable
    BY DEF AnswersInv, AnsweredIsDurable, Done
  <1> QED
    BY TypeInit, TypeStep, DecisionInit, DecisionStep, ShadowInit, ShadowStep,
       AnswersInit, AnswersStep, <1>1, PTL DEF Spec

-----------------------------------------------------------------------------
(* TypeOK, which also says that the numbers of the journal grow               *)

Record == [seq : Nat, notice : BOOLEAN]
LogInv ==
    /\ scenario \in Scenarios /\ late \in BOOLEAN
    /\ sequence \in Nat /\ log \in Seq(Record)
    /\ \A i \in 1..Len(log) : log[i].seq \in 1..sequence
    /\ \A i, j \in 1..Len(log) : i < j => log[i].seq < log[j].seq
    /\ DOMAIN stream = {"open", "page", "cursor"} /\ (stream.page # <<>> => stream.open)

LEMMA LogInit == Init => LogInv
  <1> SUFFICES ASSUME Init PROVE LogInv
    OBVIOUS
  <1>1. log \in Seq(Record) /\ Len(log) = 0
    BY DEF Init
  <1>2. DOMAIN stream = {"open", "page", "cursor"} /\ stream.page = <<>>
    BY DEF Init, Closed
  <1>3. scenario \in Scenarios /\ late \in BOOLEAN /\ sequence \in Nat
    BY DEF Init
  <1>4. 1..Len(log) = {}
    BY <1>1
  <1> QED
    BY <1>1, <1>2, <1>3, <1>4 DEF LogInv

LEMMA LogAppended ==
  ASSUME LogInv, NEW notice \in BOOLEAN, sequence' = sequence + 1,
         log' = Append(log, [seq |-> sequence + 1, notice |-> notice]),
         UNCHANGED <<scenario, late, stream>>
  PROVE  LogInv'
  <1> DEFINE record == [seq |-> sequence + 1, notice |-> notice]
  <1>1. record \in Record /\ record.seq = sequence + 1
    BY DEF LogInv, Record
  <1> HIDE DEF record
  <1>2. /\ log' \in Seq(Record) /\ Len(log') = Len(log) + 1 /\ log'[Len(log) + 1] = record
        /\ \A i \in 1..Len(log) : log'[i] = log[i]
    BY <1>1 DEF LogInv, record
  <1>3. Len(log) \in Nat
    BY DEF LogInv
  <1>4. ASSUME NEW i \in 1..Len(log') PROVE log'[i].seq \in 1..sequence'
    <2>1. CASE i = Len(log) + 1
      BY <1>1, <1>2, <2>1 DEF LogInv
    <2>2. CASE i \in 1..Len(log)
      BY <1>2, <2>2 DEF LogInv
    <2> QED
      BY <1>2, <1>3, <2>1, <2>2
  <1>5. ASSUME NEW i \in 1..Len(log'), NEW j \in 1..Len(log'), i < j
        PROVE  log'[i].seq < log'[j].seq
    <2>1. i \in 1..Len(log) /\ log'[i] = log[i] /\ log[i].seq \in 1..sequence
      BY <1>2, <1>3, <1>5 DEF LogInv
    <2>2. CASE j = Len(log) + 1
      BY <1>1, <1>2, <2>1, <2>2 DEF LogInv
    <2>3. CASE j \in 1..Len(log)
      BY <1>2, <1>5, <2>1, <2>3 DEF LogInv
    <2> QED
      BY <1>2, <1>3, <2>2, <2>3
  <1> QED
    BY <1>2, <1>4, <1>5 DEF LogInv

LEMMA NoticeType == \A e : IsNotice(e) \in BOOLEAN
  BY DEF IsNotice

LEMMA LogStep == TypeInv /\ LogInv /\ [Next]_vars => LogInv'
  <1> SUFFICES ASSUME TypeInv, LogInv, [Next]_vars PROVE LogInv'
    OBVIOUS
  <1>1. CASE Appended
    BY <1>1, NoticeType, LogAppended DEF Appended, Others
  <1>2. CASE NotAppended
    BY <1>2 DEF NotAppended, Others, LogInv
  <1>3. CASE Answered
    BY <1>3 DEF Answered, Others, LogInv
  <1>4. CASE Restart
    <2>1. sequence' = LastSequence /\ UNCHANGED <<scenario, late, log>> /\ stream' = Closed
      BY <1>4 DEF Restart
    <2>2. CASE Len(log) = 0
      BY <2>1, <2>2 DEF LogInv, LastSequence, Closed
    <2>3. CASE Len(log) # 0
      <3>1. Len(log) \in 1..Len(log)
        BY <2>3 DEF LogInv
      <3>4. sequence' = log[Len(log)].seq
        BY <2>1, <2>3 DEF LastSequence, Last, LogInv
      <3>5. log[Len(log)].seq \in Nat
        BY <3>1 DEF LogInv
      <3>6. ASSUME NEW i \in 1..Len(log) PROVE log[i].seq \in 1..log[Len(log)].seq
        <4>1. i = Len(log) \/ (i < Len(log) /\ log[i].seq < log[Len(log)].seq)
          BY <3>1 DEF LogInv
        <4>2. log[i].seq \in 1..sequence /\ sequence \in Nat
          BY DEF LogInv
        <4> QED
          BY <3>5, <4>1, <4>2
      <3> QED
        BY <2>1, <3>4, <3>5, <3>6 DEF LogInv, Closed
    <2> QED
      BY <2>2, <2>3
  <1>5. CASE DeadlinePasses
    BY <1>5 DEF DeadlinePasses, LogInv
  <1>6. CASE Connect \/ Send \/ Poll \/ Ends \/ Cut
    <2>1. UNCHANGED <<scenario, late, sequence, log>>
      BY <1>6 DEF Connect, Send, Poll, Ends, Cut, Streaming
    <2>2. /\ DOMAIN stream' = {"open", "page", "cursor"}
          /\ stream'.page # <<>> => stream'.open
      <3>1. CASE Connect
        BY <3>1 DEF Connect
      <3>2. CASE Send
        BY <3>2 DEF Send, LogInv
      <3>3. CASE Poll
        BY <3>3 DEF Poll, LogInv
      <3>4. CASE Ends \/ Cut
        BY <3>4 DEF Ends, Cut, Closed
      <3> QED
        BY <1>6, <3>1, <3>2, <3>3, <3>4
    <2> QED
      BY <2>1, <2>2 DEF LogInv
  <1>7. CASE UNCHANGED vars
    BY <1>7 DEF vars, LogInv
  <1>8. ASSUME NEW r \in Request, NEW q \in Asks(r), Handle(r, q) PROVE LogInv'
    BY <1>8 DEF Handle, Others, LogInv
  <1>9. ASSUME NEW i \in DOMAIN mem.att, AttemptMoves(i) PROVE LogInv'
    BY <1>9, NoticeType, LogAppended DEF AttemptMoves, Others
  <1> QED
    BY <1>1, <1>2, <1>3, <1>4, <1>5, <1>6, <1>7, <1>8, <1>9 DEF Next

\* Records stay well formed and within the policy, and the journal's numbers grow,
\* over refused appends and restarts (egress/models.py, storage/journal.py).
THEOREM TypeAlwaysOK == Spec => []TypeOK
  <1>1. ASSUME TypeInv, LogInv PROVE TypeOK
    <2>1. ASSUME NEW p, IsProjection(p)
          PROVE  /\ \A a \in DOMAIN p.approvals : p.approvals[a] \in Approval
                 /\ \A e \in p.egress : e.target \in Provider /\ Allows(e.class, e.fields)
                 /\ \A i \in DOMAIN p.att : p.att[i].provider \in Provider \cup {Home}
                 /\ \A s \in p.shadows : s.status \in {"recorded", "compared"}
      BY <2>1 DEF IsProjection, IsEgress, IsAttempt, IsShadow
    <2>2. IsProjection(mem) /\ IsProjection(dur) /\ (current = Nobody => todo = <<>>)
      BY <1>1 DEF TypeInv
    <2>3. DOMAIN log = 1..Len(log) /\ Len(log) \in Nat
      BY <1>1 DEF LogInv
    <2>4. ASSUME NEW i \in DOMAIN log
          PROVE  log[i].seq > (IF i = 1 THEN 0 ELSE log[i - 1].seq)
      <3>1. log[i].seq \in 1..sequence /\ i \in 1..Len(log)
        BY <1>1, <2>3 DEF LogInv
      <3>2. CASE i # 1
        <4>1. i - 1 \in 1..Len(log) /\ i - 1 < i
          BY <2>3, <3>2
        <4>2. log[i - 1].seq < log[i].seq /\ log[i - 1].seq \in 1..sequence /\ sequence \in Nat
          BY <1>1, <3>1, <4>1 DEF LogInv
        <4> QED
          BY <3>1, <3>2, <4>2
      <3> QED
        BY <1>1, <3>1, <3>2 DEF LogInv
    <2>5. log # <<>> => sequence >= Last(log).seq
      <3>1. log # <<>> => Len(log) \in 1..Len(log)
        BY <1>1, <2>3 DEF LogInv
      <3> QED
        BY <1>1, <3>1 DEF LogInv, Last
    <2> QED
      BY <1>1, <2>1, <2>2, <2>4, <2>5 DEF TypeOK, LogInv
  <1> QED
    BY TypeInit, TypeStep, LogInit, LogStep, <1>1, PTL DEF Spec

-----------------------------------------------------------------------------
(* The event stream.  The notices after n are known by their numbers alone:   *)
(* they ascend, and there is one sequence of given numbers that ascends.     *)

Ascends(s) == s \in Seq(Nat) /\ \A i, j \in 1..Len(s) : i < j => s[i] < s[j]
Lists(s, numbers) == Ascends(s) /\ \A v : v \in numbers <=> \E i \in 1..Len(s) : s[i] = v

LEMMA SharedPrefix ==
  ASSUME NEW numbers, NEW s, Lists(s, numbers), NEW t, Lists(t, numbers)
  PROVE  Len(s) <= Len(t) /\ \A i \in 1..Len(s) : s[i] = t[i]
  <1> DEFINE S == {n \in Nat : n <= Len(s) => n <= Len(t) /\ \A i \in 1..n : s[i] = t[i]}
  <1>1. /\ s \in Seq(Nat) /\ Len(s) \in Nat /\ t \in Seq(Nat) /\ Len(t) \in Nat
        /\ \A i \in 1..Len(s) : s[i] \in Nat
        /\ \A i \in 1..Len(t) : t[i] \in Nat
    BY DEF Lists, Ascends
  <1>2. 0 \in S
    BY <1>1
  <1>3. ASSUME NEW n \in Nat, n \in S PROVE n + 1 \in S
    <2> SUFFICES ASSUME n + 1 <= Len(s) PROVE n + 1 <= Len(t) /\ \A i \in 1..n + 1 : s[i] = t[i]
      OBVIOUS
    <2>1. n <= Len(t) /\ (\A i \in 1..n : s[i] = t[i]) /\ n + 1 \in 1..Len(s)
      BY <1>1, <1>3
    <2>2. PICK j \in 1..Len(t) : t[j] = s[n + 1]
      BY <2>1 DEF Lists
    <2>3. ~(j \in 1..n)
      <3> SUFFICES ASSUME j \in 1..n PROVE FALSE
        OBVIOUS
      <3>1. j \in 1..Len(s) /\ s[j] = s[n + 1] /\ j < n + 1
        BY <1>1, <2>1, <2>2
      <3> QED
        BY <1>1, <2>1, <3>1 DEF Lists, Ascends
    <2>4. n + 1 <= j /\ n + 1 \in 1..Len(t)
      BY <1>1, <2>2, <2>3
    <2>5. PICK k \in 1..Len(s) : s[k] = t[n + 1]
      BY <2>4 DEF Lists
    <2>6. ~(k \in 1..n)
      <3> SUFFICES ASSUME k \in 1..n PROVE FALSE
        OBVIOUS
      <3>1. k \in 1..Len(t) /\ t[k] = t[n + 1] /\ k < n + 1
        BY <1>1, <2>1, <2>5
      <3> QED
        BY <1>1, <2>4, <3>1 DEF Lists, Ascends
    <2>7. n + 1 <= k
      BY <1>1, <2>5, <2>6
    <2>8. s[n + 1] <= t[n + 1]
      <3>1. n + 1 = k \/ s[n + 1] < s[k]
        BY <1>1, <2>1, <2>5, <2>7 DEF Lists, Ascends
      <3> QED
        BY <1>1, <2>1, <2>5, <3>1
    <2>9. t[n + 1] <= s[n + 1]
      <3>1. n + 1 = j \/ t[n + 1] < t[j]
        BY <1>1, <2>2, <2>4 DEF Lists, Ascends
      <3> QED
        BY <1>1, <2>2, <2>4, <3>1
    <2>10. s[n + 1] = t[n + 1]
      BY <1>1, <2>1, <2>4, <2>8, <2>9
    <2> QED
      BY <1>1, <2>1, <2>4, <2>10
  <1>4. Len(s) \in S
    <2> HIDE DEF S
    <2> QED
      BY <1>1, <1>2, <1>3, SetInduction
  <1> QED
    BY <1>1, <1>4

LEMMA OneList ==
  ASSUME NEW numbers, NEW s, Lists(s, numbers), NEW t, Lists(t, numbers)
  PROVE  s = t
  <1>1. Len(s) <= Len(t) /\ Len(t) <= Len(s) /\ \A i \in 1..Len(s) : s[i] = t[i]
    BY SharedPrefix
  <1>2. s \in Seq(Nat) /\ t \in Seq(Nat)
    BY DEF Lists, Ascends
  <1>3. Len(s) = Len(t)
    BY <1>1, <1>2
  <1> QED
    BY <1>1, <1>2, <1>3, SeqEqual

LEMMA ListLonger ==
  ASSUME NEW numbers, NEW s, Lists(s, numbers), NEW v \in Nat, \A w \in numbers : w < v
  PROVE  Lists(Append(s, v), numbers \cup {v})
  <1> DEFINE t == Append(s, v)
  <1>1. s \in Seq(Nat) /\ Len(s) \in Nat
    BY DEF Lists, Ascends
  <1>2. /\ t \in Seq(Nat) /\ Len(t) = Len(s) + 1 /\ t[Len(s) + 1] = v
        /\ \A i \in 1..Len(s) : t[i] = s[i]
    BY <1>1
  <1>3. \A i \in 1..Len(s) : s[i] \in numbers
    BY DEF Lists
  <1> HIDE DEF t
  <1>4. ASSUME NEW i \in 1..Len(t), NEW j \in 1..Len(t), i < j PROVE t[i] < t[j]
    <2>1. i \in 1..Len(s)
      BY <1>1, <1>2, <1>4
    <2>2. CASE j \in 1..Len(s)
      BY <1>2, <1>4, <2>1, <2>2 DEF Lists, Ascends
    <2>3. CASE j = Len(s) + 1
      BY <1>2, <1>3, <2>1, <2>3
    <2> QED
      BY <1>1, <1>2, <2>2, <2>3
  <1>5. ASSUME NEW w PROVE w \in numbers \cup {v} <=> \E i \in 1..Len(t) : t[i] = w
    <2>1. ASSUME w \in numbers PROVE \E i \in 1..Len(t) : t[i] = w
      <3>1. PICK i \in 1..Len(s) : s[i] = w
        BY <2>1 DEF Lists
      <3>2. i \in 1..Len(t) /\ t[i] = w
        BY <1>1, <1>2, <3>1
      <3> QED
        BY <3>2
    <2>2. Len(s) + 1 \in 1..Len(t)
      BY <1>1, <1>2
    <2>3. ASSUME NEW i \in 1..Len(t), t[i] = w PROVE w \in numbers \cup {v}
      <3>1. i \in 1..Len(s) \/ i = Len(s) + 1
        BY <1>1, <1>2
      <3> QED
        BY <1>2, <1>3, <2>3, <3>1
    <2> QED
      BY <1>2, <2>1, <2>2, <2>3
  <1> QED
    BY <1>2, <1>4, <1>5 DEF Lists, Ascends, t

\* What NoticesAfter goes through is a function: it extends to every length.
LEMMA AmongExists ==
  ASSUME NEW n, NEW k \in Nat
  PROVE  \E f : f = [i \in 0..k |-> IF i = 0 THEN <<>> ELSE Taken(log[i], n, f[i - 1])]
  <1> DEFINE Steps(f, m) == f = [i \in 0..m |-> IF i = 0 THEN <<>> ELSE Taken(log[i], n, f[i - 1])]
             S == {m \in Nat : \E f : Steps(f, m)}
  <1>1. 0 \in S
    <2>1. Steps([i \in 0..0 |-> <<>>], 0)
      OBVIOUS
    <2> QED
      BY <2>1
  <1>2. ASSUME NEW m \in Nat, m \in S PROVE m + 1 \in S
    <2>1. PICK f : Steps(f, m)
      BY <1>2
    <2> DEFINE last == Taken(log[m + 1], n, f[m])
               g == [i \in 0..(m + 1) |-> IF i = m + 1 THEN last ELSE f[i]]
    <2>2. \A i \in 0..m : f[i] = IF i = 0 THEN <<>> ELSE Taken(log[i], n, f[i - 1])
      BY <2>1
    <2>3. ASSUME NEW i \in 0..(m + 1)
          PROVE  g[i] = IF i = 0 THEN <<>> ELSE Taken(log[i], n, g[i - 1])
      <3>1. CASE i = m + 1
        <4>1. g[i] = last /\ g[i - 1] = f[m] /\ i # 0 /\ i - 1 = m
          BY <3>1
        <4> QED
          BY <3>1, <4>1
      <3>2. CASE i = 0
        <4>1. g[i] = f[i]
          BY <3>2
        <4> QED
          BY <2>2, <3>2, <4>1
      <3>3. CASE i # 0 /\ i # m + 1
        <4>1. i \in 0..m /\ i - 1 \in 0..m
          BY <3>3
        <4>2. g[i] = f[i] /\ g[i - 1] = f[i - 1]
          BY <4>1
        <4> QED
          BY <2>2, <3>3, <4>1, <4>2
      <3> QED
        BY <3>1, <3>2, <3>3
    <2>4. g = [i \in 0..(m + 1) |-> g[i]]
      OBVIOUS
    <2>5. Steps(g, m + 1)
      <3> HIDE DEF g
      <3> QED
        BY <2>3, <2>4
    <2> HIDE DEF g
    <2> QED
      BY <2>5
  <1>3. Nat \subseteq S
    <2> HIDE DEF S
    <2> QED
      BY <1>1, <1>2, SetInduction
  <1> QED
    BY <1>3

\* The numbers of the notices after n, among the first k records.
Numbers(k, n) == {log[j].seq : j \in {i \in 1..k : log[i].seq > n /\ log[i].notice}}

LEMMA NoticesFacts ==
  ASSUME LogInv, NEW n
  PROVE  Lists(NoticesAfter(n), Numbers(Len(log), n))
  <1> DEFINE Steps(f) == f = [i \in 0..Len(log) |-> IF i = 0 THEN <<>> ELSE Taken(log[i], n, f[i - 1])]
             among == CHOOSE f : Steps(f)
  <1>1. Len(log) \in Nat
    BY DEF LogInv
  <1>2. \E f : Steps(f)
    BY <1>1, AmongExists
  <1>3. Steps(among)
    <2> HIDE DEF Steps
    <2> QED
      BY <1>2
  <1>4. NoticesAfter(n) = among[Len(log)]
    BY DEF NoticesAfter
  <1> HIDE DEF among
  <1>5. /\ among[0] = <<>>
        /\ \A i \in 1..Len(log) : among[i] = Taken(log[i], n, among[i - 1])
    BY <1>1, <1>3
  <1> DEFINE S == {k \in Nat : k <= Len(log) => Lists(among[k], Numbers(k, n))}
  <1>6. 0 \in S
    <2> DEFINE none == <<>>
    <2>1. none \in Seq(Nat) /\ Len(none) = 0 /\ among[0] = none
      BY <1>5
    <2> HIDE DEF none
    <2>2. \A w : w \notin Numbers(0, n)
      BY DEF Numbers
    <2>3. 1..Len(none) = {}
      BY <2>1
    <2>4. Lists(none, Numbers(0, n))
      BY <2>1, <2>2, <2>3 DEF Lists, Ascends
    <2> QED
      BY <2>1, <2>4
  <1>7. ASSUME NEW k \in Nat, k \in S PROVE k + 1 \in S
    <2> SUFFICES ASSUME k + 1 <= Len(log) PROVE Lists(among[k + 1], Numbers(k + 1, n))
      OBVIOUS
    <2> DEFINE v == log[k + 1].seq
    <2>1. Lists(among[k], Numbers(k, n)) /\ k + 1 \in 1..Len(log)
      BY <1>1, <1>7
    <2>2. among[k + 1] = Taken(log[k + 1], n, among[k])
      BY <1>5, <2>1
    <2>3. v \in Nat
      BY <2>1 DEF LogInv
    <2>4. \A w \in Numbers(k, n) : w < v
      <3> SUFFICES ASSUME NEW j \in 1..k PROVE log[j].seq < v
        BY DEF Numbers
      <3>1. j \in 1..Len(log) /\ j < k + 1
        BY <1>1, <2>1
      <3> QED
        BY <2>1, <3>1 DEF LogInv
    <2>5. CASE log[k + 1].seq > n /\ log[k + 1].notice
      <3>1. Numbers(k + 1, n) = Numbers(k, n) \cup {v}
        BY <2>5 DEF Numbers
      <3>2. among[k + 1] = Append(among[k], v)
        BY <2>2, <2>5 DEF Taken
      <3> QED
        BY <2>1, <2>3, <2>4, <3>1, <3>2, ListLonger
    <2>6. CASE ~(log[k + 1].seq > n /\ log[k + 1].notice)
      <3>1. Numbers(k + 1, n) = Numbers(k, n)
        BY <2>6 DEF Numbers
      <3>2. among[k + 1] = among[k]
        BY <2>2, <2>6 DEF Taken
      <3> QED
        BY <2>1, <3>1, <3>2
    <2> QED
      BY <2>5, <2>6
  <1>8. Len(log) \in S
    <2> HIDE DEF S
    <2>1. Nat \subseteq S
      BY <1>6, <1>7, SetInduction
    <2> QED
      BY <1>1, <2>1
  <1> QED
    BY <1>1, <1>4, <1>8

\* All notices of the journal.
Known == NoticesAfter(0)

LEMMA KnownNow == LogInv => Lists(Known, Numbers(Len(log), 0))
  BY NoticesFacts DEF Known

LEMMA KnownThen == LogInv' => Lists(Known, Numbers(Len(log), 0))'
  BY KnownNow, PTL

LEMMA KnownFacts ==
  ASSUME LogInv
  PROVE  /\ Known \in Seq(Nat) /\ Len(Known) \in Nat
         /\ \A i, j \in 1..Len(Known) : i < j => Known[i] < Known[j]
         /\ \A i \in 1..Len(Known) : Known[i] \in 1..sequence
         /\ \A i \in 1..Len(Known) : \E j \in 1..Len(log) : log[j].seq = Known[i]
  <1>1. Known \in Seq(Nat) /\ \A i, j \in 1..Len(Known) : i < j => Known[i] < Known[j]
    BY KnownNow DEF Lists, Ascends
  <1>2. \A i \in 1..Len(Known) : \E j \in 1..Len(log) : log[j].seq = Known[i]
    <2> SUFFICES ASSUME NEW i \in 1..Len(Known) PROVE \E j \in 1..Len(log) : log[j].seq = Known[i]
      OBVIOUS
    <2>1. Known[i] \in Numbers(Len(log), 0)
      BY KnownNow DEF Lists
    <2> QED
      BY <2>1 DEF Numbers
  <1> QED
    BY <1>1, <1>2 DEF LogInv

\* The notices after n are what is left of all notices after the k that n covers.
LEMMA PageFacts ==
  ASSUME LogInv, NEW n \in Nat, NEW k \in 0..Len(Known),
         \A i \in 1..Len(Known) : Known[i] <= n <=> i <= k
  PROVE  /\ NoticesAfter(n) \in Seq(Nat) /\ Len(NoticesAfter(n)) = Len(Known) - k
         /\ \A i \in 1..Len(NoticesAfter(n)) : NoticesAfter(n)[i] = Known[k + i]
  <1> DEFINE rest == [i \in 1..(Len(Known) - k) |-> Known[k + i]]
  <1>1. /\ Known \in Seq(Nat) /\ Len(Known) \in Nat /\ k \in Nat /\ Len(Known) - k \in Nat
        /\ \A i, j \in 1..Len(Known) : i < j => Known[i] < Known[j]
    BY KnownFacts
  <1>2. \A i \in 1..(Len(Known) - k) : k + i \in 1..Len(Known) /\ Known[k + i] \in Nat
    BY <1>1
  <1>3. /\ rest \in Seq(Nat) /\ Len(rest) = Len(Known) - k
        /\ \A i \in 1..Len(rest) : rest[i] = Known[k + i]
    BY <1>1, <1>2
  <1> HIDE DEF rest
  <1>4. Ascends(rest)
    <2> SUFFICES ASSUME NEW i \in 1..Len(rest), NEW j \in 1..Len(rest), i < j
                 PROVE  rest[i] < rest[j]
      BY <1>3 DEF Ascends
    <2>1. k + i \in 1..Len(Known) /\ k + j \in 1..Len(Known) /\ k + i < k + j
      BY <1>1, <1>3
    <2> QED
      BY <1>1, <1>3, <2>1
  <1>5. ASSUME NEW v PROVE v \in Numbers(Len(log), n) <=> \E i \in 1..Len(rest) : rest[i] = v
    <2>1. v \in Numbers(Len(log), n) <=> v \in Numbers(Len(log), 0) /\ v > n
      BY DEF Numbers, LogInv
    <2>2. v \in Numbers(Len(log), 0) <=> \E i \in 1..Len(Known) : Known[i] = v
      BY KnownNow DEF Lists
    <2>3. ASSUME NEW i \in 1..Len(Known), Known[i] = v, v > n
          PROVE  \E m \in 1..Len(rest) : rest[m] = v
      <3>1. ~(i <= k)
        BY <1>1, <2>3
      <3>2. i - k \in 1..Len(rest) /\ k + (i - k) = i
        BY <1>1, <1>3, <3>1
      <3>3. rest[i - k] = v
        BY <1>3, <2>3, <3>2
      <3> QED
        BY <3>2, <3>3
    <2>4. ASSUME NEW m \in 1..Len(rest), rest[m] = v
          PROVE  v > n /\ \E i \in 1..Len(Known) : Known[i] = v
      <3>1. k + m \in 1..Len(Known) /\ ~(k + m <= k) /\ Known[k + m] = v /\ Known[k + m] \in Nat
        BY <1>1, <1>2, <1>3, <2>4
      <3>2. ~(Known[k + m] <= n)
        BY <3>1
      <3> QED
        BY <3>1, <3>2
    <2> QED
      BY <2>1, <2>2, <2>3, <2>4
  <1>6. Lists(rest, Numbers(Len(log), n))
    BY <1>4, <1>5 DEF Lists
  <1>7. NoticesAfter(n) = rest
    BY <1>6, NoticesFacts, OneList
  <1> QED
    BY <1>3, <1>7

\* The client has the first notices, and its connection has the next: those up to
\* the cursor.
StreamInv ==
    /\ got \in Seq(Nat) /\ Len(got) <= Len(Known)
    /\ \A i \in 1..Len(got) : got[i] = Known[i]
    /\ stream.open =>
          /\ stream.page \in Seq(Nat) /\ stream.cursor \in 0..sequence
          /\ Len(got) + Len(stream.page) <= Len(Known)
          /\ \A i \in 1..Len(stream.page) : stream.page[i] = Known[Len(got) + i]
          /\ \A i \in 1..Len(Known) :
                Known[i] <= stream.cursor <=> i <= Len(got) + Len(stream.page)

LEMMA EmptyList ==
  ASSUME NEW s \in Seq(Nat), 1..Len(s) = {}
  PROVE  s = <<>>
  <1>1. Len(s) \in Nat
    OBVIOUS
  <1>2. 1 \notin 1..Len(s)
    OBVIOUS
  <1>3. Len(s) = 0
    BY <1>1, <1>2
  <1> QED
    BY <1>3

LEMMA StreamInit == Init => StreamInv /\ Client!Init
  <1> SUFFICES ASSUME Init PROVE StreamInv /\ Client!Init
    OBVIOUS
  <1>1. LogInv
    BY LogInit
  <1>2. Len(log) = 0
    BY DEF Init
  <1>3. Known \in Seq(Nat) /\ Len(Known) \in Nat /\ 1..Len(Known) = {}
    <2>1. \A i \in 1..Len(Known) : \E j \in 1..Len(log) : log[j].seq = Known[i]
      BY <1>1, KnownFacts
    <2> QED
      BY <1>1, <1>2, <2>1, KnownFacts
  <1>4. Known = <<>>
    BY <1>3, EmptyList
  <1>5. got = <<>> /\ ~stream.open /\ got \in Seq(Nat) /\ Len(got) = 0
    BY DEF Init, Closed
  <1>6. StreamInv
    BY <1>3, <1>5 DEF StreamInv
  <1> QED
    BY <1>4, <1>5, <1>6 DEF Client!Init, Known

LEMMA KnownStays ==
  ASSUME LogInv, LogInv', UNCHANGED log
  PROVE  Known' = Known
  <1>1. Lists(Known, Numbers(Len(log), 0))
    BY KnownNow
  <1>2. Lists(Known', Numbers(Len(log), 0))
    <2>1. Lists(Known, Numbers(Len(log), 0))'
      BY KnownThen
    <2>2. Numbers(Len(log), 0)' = Numbers(Len(log), 0)
      BY DEF Numbers
    <2> QED
      BY <2>1, <2>2 DEF Lists, Ascends
  <1> QED
    BY <1>1, <1>2, OneList

LEMMA KnownGrows ==
  ASSUME LogInv, LogInv', NEW notice \in BOOLEAN,
         log' = Append(log, [seq |-> sequence + 1, notice |-> notice])
  PROVE  Known' = Known \/ Known' = Append(Known, sequence + 1)
  <1> DEFINE record == [seq |-> sequence + 1, notice |-> notice]
             v == sequence + 1
             now == Numbers(Len(log), 0)
             then == Numbers(Len(log), 0)'
  <1>1. record \in Record /\ record.seq = v /\ record.notice = notice /\ v \in Nat /\ v > 0
    BY DEF LogInv, Record
  <1> HIDE DEF record
  <1>2. /\ Len(log') = Len(log) + 1 /\ log'[Len(log) + 1] = record /\ Len(log) \in Nat
        /\ \A i \in 1..Len(log) : log'[i] = log[i]
    BY <1>1 DEF LogInv, record
  <1>3. then = {log'[j].seq : j \in {i \in 1..(Len(log) + 1) : log'[i].seq > 0 /\ log'[i].notice}}
    BY <1>2 DEF Numbers
  <1>4. now = {log[j].seq : j \in {i \in 1..Len(log) : log[i].seq > 0 /\ log[i].notice}}
    BY DEF Numbers
  <1>5. \A i \in 1..(Len(log) + 1) : i \in 1..Len(log) \/ i = Len(log) + 1
    BY <1>2
  <1>6. \A i \in 1..Len(log) : i \in 1..(Len(log) + 1)
    BY <1>2
  <1>7. Len(log) + 1 \in 1..(Len(log) + 1)
    BY <1>2
  <1>8. Lists(Known, now) /\ Lists(Known', then)
    <2>1. Lists(Known, Numbers(Len(log), 0))'
      BY KnownThen
    <2> QED
      BY <2>1, KnownNow DEF Lists, Ascends
  <1>9. \A w \in now : w < v
    BY <1>4 DEF LogInv
  <1> HIDE DEF now, then, v
  <1>10. CASE notice
    <2>1. \A w : w \in then <=> w \in now \/ w = v
      BY <1>1, <1>2, <1>3, <1>4, <1>5, <1>6, <1>7, <1>10
    <2>2. then = now \cup {v}
      BY <2>1
    <2>3. Lists(Append(Known, v), then)
      BY <1>1, <1>8, <1>9, <2>2, ListLonger
    <2> QED
      BY <1>8, <2>3, OneList DEF v
  <1>11. CASE ~notice
    <2>1. \A w : w \in then <=> w \in now
      BY <1>1, <1>2, <1>3, <1>4, <1>5, <1>6, <1>11
    <2>2. then = now
      BY <2>1
    <2> QED
      BY <1>8, <2>2, OneList
  <1> QED
    BY <1>10, <1>11

\* The journal grows: the abstract stream commits a notice, or nothing happens.
LEMMA StreamCommits ==
  ASSUME LogInv, LogInv', StreamInv, NEW notice \in BOOLEAN, sequence' = sequence + 1,
         log' = Append(log, [seq |-> sequence + 1, notice |-> notice]), UNCHANGED <<stream, got>>
  PROVE  StreamInv' /\ [Client!Next]_<<Known, got>>
  <1> DEFINE v == sequence + 1
  <1>1. /\ Known \in Seq(Nat) /\ Len(Known) \in Nat
        /\ \A i \in 1..Len(Known) : Known[i] \in 1..sequence
    BY KnownFacts
  <1>2. CASE Known' = Known
    <2>1. StreamInv'
      BY <1>2 DEF StreamInv, LogInv
    <2> QED
      BY <1>2, <2>1
  <1>3. CASE Known' = Append(Known, v)
    <2>1. v \in Nat /\ sequence \in Nat
      BY DEF LogInv
    <2>2. /\ Known' \in Seq(Nat) /\ Len(Known') = Len(Known) + 1 /\ Known'[Len(Known) + 1] = v
          /\ \A i \in 1..Len(Known) : Known'[i] = Known[i]
      BY <1>1, <1>3, <2>1
    <2>3. Client!IsPrefix(Known, Known')
      <3> DEFINE u == SubSeq(Known', 1, Len(Known))
      <3>1. /\ u \in Seq(Nat) /\ Len(u) = Len(Known)
            /\ \A i \in 1..Len(Known) : u[i] = Known'[i]
        BY <1>1, <2>2, SubSeqProperties
      <3>2. u = Known
        <4> HIDE DEF u
        <4> QED
          BY <1>1, <2>2, <3>1, SeqEqual
      <3>3. SubSeq(Known, 1, Len(Known)) = Known
        BY <1>1
      <3> QED
        BY <1>1, <2>2, <3>2, <3>3 DEF Client!IsPrefix
    <2>4. Client!Commit
      BY <2>2, <2>3 DEF Client!Commit, Known
    <2>5. stream.open => stream.cursor \in 0..sequence /\ stream.page \in Seq(Nat)
      BY DEF StreamInv
    <2>6. ASSUME stream.open, NEW i \in 1..Len(Known')
          PROVE  Known'[i] <= stream.cursor <=> i <= Len(got) + Len(stream.page)
      <3>1. CASE i \in 1..Len(Known)
        BY <2>2, <2>6, <3>1 DEF StreamInv
      <3>2. CASE i = Len(Known) + 1
        <4>1. ~(v <= stream.cursor)
          BY <2>1, <2>5, <2>6
        <4>2. Len(got) + Len(stream.page) <= Len(Known) /\ Len(got) + Len(stream.page) \in Nat
          BY <2>5, <2>6 DEF StreamInv
        <4> QED
          BY <1>1, <2>2, <3>2, <4>1, <4>2
      <3> QED
        BY <1>1, <2>2, <3>1, <3>2
    <2>7. ASSUME NEW i \in 1..Len(got) PROVE got[i] = Known'[i]
      <3>1. i \in 1..Len(Known) /\ got[i] = Known[i]
        BY <1>1 DEF StreamInv
      <3> QED
        BY <2>2, <3>1
    <2>8. ASSUME stream.open, NEW i \in 1..Len(stream.page)
          PROVE  stream.page[i] = Known'[Len(got) + i]
      <3>1. Len(got) + i \in 1..Len(Known)
        BY <1>1, <2>5, <2>8 DEF StreamInv
      <3> QED
        BY <2>2, <2>8, <3>1 DEF StreamInv
    <2>9. Len(got) <= Len(Known')
      BY <1>1, <2>2 DEF StreamInv
    <2>10. stream.open => Len(got) + Len(stream.page) <= Len(Known') /\ stream.cursor \in 0..sequence'
      BY <1>1, <2>2, <2>5, <2>1 DEF StreamInv
    <2>11. StreamInv'
      BY <2>5, <2>6, <2>7, <2>8, <2>9, <2>10 DEF StreamInv
    <2> QED
      BY <2>4, <2>11 DEF Client!Next
  <1> QED
    BY <1>2, <1>3, KnownGrows

\* What the client knows of tells it how many notices it has.
LEMMA LastIdFacts ==
  ASSUME LogInv, StreamInv
  PROVE  /\ LastEventId \in 0..sequence
         /\ \A i \in 1..Len(Known) : Known[i] <= LastEventId <=> i <= Len(got)
  <1>1. /\ Known \in Seq(Nat) /\ Len(Known) \in Nat /\ sequence \in Nat
        /\ \A i, j \in 1..Len(Known) : i < j => Known[i] < Known[j]
        /\ \A i \in 1..Len(Known) : Known[i] \in 1..sequence
    BY KnownFacts DEF LogInv
  <1>2. got \in Seq(Nat) /\ Len(got) \in Nat /\ Len(got) <= Len(Known)
    BY DEF StreamInv
  <1>3. CASE Len(got) = 0
    <2>1. LastEventId = 0
      BY <1>2, <1>3 DEF LastEventId, LastOr
    <2> QED
      BY <1>1, <1>3, <2>1
  <1>4. CASE Len(got) # 0
    <2> DEFINE m == Len(got)
    <2>1. m \in 1..Len(Known)
      BY <1>1, <1>2, <1>4
    <2>2. LastEventId = Known[m]
      <3>1. got # <<>>
        BY <1>2, <1>4
      <3>2. LastEventId = got[m]
        BY <3>1 DEF LastEventId, LastOr, Last
      <3> QED
        BY <1>2, <1>4, <3>2 DEF StreamInv
    <2> HIDE DEF m
    <2>3. ASSUME NEW i \in 1..Len(Known) PROVE Known[i] <= Known[m] <=> i <= m
      <3>1. i < m \/ i = m \/ m < i
        BY <1>1, <2>1
      <3>2. Known[i] \in Int /\ Known[m] \in Int /\ m \in Int /\ i \in Int
        BY <1>1, <2>1
      <3>3. (i < m => Known[i] < Known[m]) /\ (m < i => Known[m] < Known[i])
        BY <1>1, <2>1
      <3> QED
        BY <3>1, <3>2, <3>3
    <2>4. Known[m] \in 0..sequence
      BY <1>1, <2>1
    <2> QED
      BY <2>2, <2>3, <2>4 DEF m
  <1> QED
    BY <1>3, <1>4

LEMMA StreamConnects ==
  ASSUME LogInv, LogInv', StreamInv, Connect
  PROVE  StreamInv' /\ [Client!Next]_<<Known, got>>
  <1> DEFINE page == NoticesAfter(LastEventId)
             cursor == LastOr(page, LastEventId)
  <1>1. /\ stream' = [open |-> TRUE, page |-> page, cursor |-> cursor]
        /\ UNCHANGED <<got, sequence, log>>
    BY DEF Connect, Streaming
  <1>2. Known' = Known
    BY <1>1, KnownStays
  <1>3. /\ Known \in Seq(Nat) /\ Len(Known) \in Nat /\ sequence \in Nat
        /\ \A i, j \in 1..Len(Known) : i < j => Known[i] < Known[j]
        /\ \A i \in 1..Len(Known) : Known[i] \in 1..sequence
    BY KnownFacts DEF LogInv
  <1>4. got \in Seq(Nat) /\ Len(got) \in 0..Len(Known)
    BY <1>3 DEF StreamInv
  <1>5. /\ LastEventId \in 0..sequence
        /\ \A i \in 1..Len(Known) : Known[i] <= LastEventId <=> i <= Len(got)
    BY LastIdFacts
  <1>6. /\ page \in Seq(Nat) /\ Len(page) = Len(Known) - Len(got)
        /\ \A i \in 1..Len(page) : page[i] = Known[Len(got) + i]
    BY <1>3, <1>4, <1>5, PageFacts
  <1>7. /\ stream'.page = page /\ stream'.cursor = cursor
        /\ UNCHANGED <<got, sequence>>
    BY <1>1
  <1>8. cursor \in 0..sequence /\ \A i \in 1..Len(Known) : Known[i] <= cursor
    <2> HIDE DEF page
    <2>1. CASE page = <<>>
      <3>1. cursor = LastEventId /\ Len(page) = 0
        BY <2>1 DEF LastOr
      <3>2. \A i \in 1..Len(Known) : i <= Len(got)
        BY <1>3, <1>4, <1>6, <3>1
      <3> QED
        BY <1>5, <3>1, <3>2
    <2>2. CASE page # <<>>
      <3>1. cursor = page[Len(page)] /\ Len(page) \in 1..Len(page)
        BY <1>6, <2>2 DEF LastOr, Last
      <3>2. Len(got) + Len(page) = Len(Known) /\ Len(Known) \in 1..Len(Known)
        BY <1>3, <1>4, <1>6, <3>1
      <3>3. cursor = Known[Len(Known)]
        BY <1>6, <3>1, <3>2
      <3>4. \A i \in 1..Len(Known) : i = Len(Known) \/ i < Len(Known)
        BY <1>3
      <3>5. cursor \in 1..sequence
        BY <1>3, <3>2, <3>3
      <3> QED
        BY <1>3, <3>2, <3>3, <3>4, <3>5
    <2> QED
      BY <2>1, <2>2
  <1> HIDE DEF page, cursor
  <1>9. Len(got) + Len(page) = Len(Known)
    BY <1>3, <1>4, <1>6
  <1>10. \A i \in 1..Len(Known) : Known[i] <= cursor <=> i <= Len(got) + Len(page)
    BY <1>3, <1>8, <1>9
  <1>11. Len(got) + Len(page) <= Len(Known)
    BY <1>3, <1>9
  <1>12. StreamInv'
    BY <1>2, <1>4, <1>6, <1>7, <1>8, <1>10, <1>11 DEF StreamInv
  <1> QED
    BY <1>1, <1>2, <1>12

LEMMA StreamPolls ==
  ASSUME LogInv, LogInv', StreamInv, Poll
  PROVE  StreamInv' /\ [Client!Next]_<<Known, got>>
  <1> DEFINE page == NoticesAfter(stream.cursor)
  <1>1. /\ stream.open /\ stream.page = <<>> /\ LastSequence > stream.cursor
        /\ stream' = [stream EXCEPT !.page = page, !.cursor = LastSequence]
        /\ UNCHANGED <<got, sequence, log>>
    BY DEF Poll, Streaming
  <1>2. Known' = Known
    BY <1>1, KnownStays
  <1>3. /\ Known \in Seq(Nat) /\ Len(Known) \in Nat /\ sequence \in Nat
        /\ \A i \in 1..Len(Known) : Known[i] \in 1..sequence
        /\ \A i \in 1..Len(Known) : \E j \in 1..Len(log) : log[j].seq = Known[i]
    BY KnownFacts DEF LogInv
  <1>4. got \in Seq(Nat) /\ Len(got) \in 0..Len(Known)
    BY <1>3 DEF StreamInv
  <1>5. /\ stream.cursor \in Nat
        /\ \A i \in 1..Len(Known) : Known[i] <= stream.cursor <=> i <= Len(got)
    <2>1. Len(stream.page) = 0
      BY <1>1
    <2> QED
      BY <1>1, <1>4, <2>1 DEF StreamInv
  <1>6. /\ page \in Seq(Nat) /\ Len(page) = Len(Known) - Len(got)
        /\ \A i \in 1..Len(page) : page[i] = Known[Len(got) + i]
    BY <1>3, <1>4, <1>5, PageFacts
  <1>7. stream'.page = page /\ stream'.cursor = LastSequence /\ stream'.open
    BY <1>1 DEF LogInv
  <1>8. LastSequence \in 0..sequence /\ \A j \in 1..Len(log) : log[j].seq <= LastSequence
    <2>1. CASE Len(log) = 0
      BY <1>3, <2>1 DEF LogInv, LastSequence
    <2>2. CASE Len(log) # 0
      <3>1. Len(log) \in 1..Len(log) /\ LastSequence = log[Len(log)].seq
        BY <2>2 DEF LogInv, LastSequence, Last
      <3>2. \A j \in 1..Len(log) : j = Len(log) \/ j < Len(log)
        BY DEF LogInv
      <3>3. \A j \in 1..Len(log) : log[j].seq \in 1..sequence
        BY DEF LogInv
      <3> QED
        BY <1>3, <3>1, <3>2, <3>3 DEF LogInv
    <2> QED
      BY <2>1, <2>2
  <1>9. \A i \in 1..Len(Known) : Known[i] <= LastSequence
    BY <1>3, <1>8
  <1> HIDE DEF page
  <1>10. Len(got) + Len(page) = Len(Known)
    BY <1>3, <1>4, <1>6
  <1>11. StreamInv'
    BY <1>1, <1>2, <1>3, <1>4, <1>6, <1>7, <1>8, <1>9, <1>10 DEF StreamInv
  <1> QED
    BY <1>1, <1>2, <1>11

LEMMA StreamSends ==
  ASSUME LogInv, LogInv', StreamInv, Send
  PROVE  StreamInv' /\ [Client!Next]_<<Known, got>>
  <1> DEFINE page == stream.page
             m == Len(got)
  <1>1. /\ page # <<>> /\ got' = Append(got, Head(page))
        /\ stream' = [stream EXCEPT !.page = Tail(page)]
        /\ UNCHANGED <<sequence, log>>
    BY DEF Send, Streaming
  <1>2. Known' = Known
    BY <1>1, KnownStays
  <1>3. Known \in Seq(Nat) /\ Len(Known) \in Nat
    BY KnownFacts
  <1>4. /\ stream.open /\ page \in Seq(Nat) /\ got \in Seq(Nat) /\ m \in Nat
        /\ m + Len(page) <= Len(Known)
        /\ \A i \in 1..Len(page) : page[i] = Known[m + i]
        /\ \A i \in 1..m : got[i] = Known[i]
        /\ stream.cursor \in 0..sequence
        /\ \A i \in 1..Len(Known) : Known[i] <= stream.cursor <=> i <= m + Len(page)
    BY <1>1 DEF StreamInv, LogInv
  <1>5. /\ stream'.page = Tail(page) /\ stream'.cursor = stream.cursor /\ stream'.open = stream.open
    BY <1>1 DEF LogInv
  <1> HIDE DEF page
  <1>6. /\ Len(page) \in Nat \ {0} /\ Head(page) = page[1] /\ Head(page) \in Nat
        /\ Tail(page) \in Seq(Nat) /\ Len(Tail(page)) = Len(page) - 1
        /\ \A i \in 1..Len(page) - 1 : Tail(page)[i] = page[i + 1]
    BY <1>1, <1>4, HeadTailProperties
  <1>7. Head(page) = Known[m + 1] /\ m + 1 <= Len(Known)
    BY <1>3, <1>4, <1>6
  <1>8. /\ got' \in Seq(Nat) /\ Len(got') = m + 1 /\ got'[m + 1] = Known[m + 1]
        /\ \A i \in 1..m : got'[i] = Known[i]
    BY <1>1, <1>4, <1>6, <1>7
  <1>9. got' = Append(got, Known[m + 1])
    BY <1>1, <1>7
  <1> HIDE DEF m
  <1>10. Len(got') + Len(Tail(page)) = m + Len(page)
    BY <1>4, <1>6, <1>8
  <1>11. \A i \in 1..Len(Tail(page)) : Tail(page)[i] = Known[Len(got') + i]
    <2> TAKE i \in 1..Len(Tail(page))
    <2>1. i \in 1..Len(page) - 1 /\ i + 1 \in 1..Len(page) /\ m + (i + 1) = Len(got') + i
      BY <1>4, <1>6, <1>8
    <2> QED
      BY <1>4, <1>6, <2>1
  <1>12. \A i \in 1..Len(got') : got'[i] = Known[i]
    <2>1. \A i \in 1..Len(got') : i \in 1..m \/ i = m + 1
      BY <1>4, <1>8
    <2> QED
      BY <1>8, <2>1
  <1>13. StreamInv'
    BY <1>1, <1>2, <1>4, <1>5, <1>6, <1>7, <1>8, <1>10, <1>11, <1>12 DEF StreamInv
  <1>14. Client!Deliver
    BY <1>2, <1>3, <1>4, <1>7, <1>9 DEF Client!Deliver, Known, m
  <1> QED
    BY <1>13, <1>14 DEF Client!Next

LEMMA StreamRests ==
  ASSUME LogInv, LogInv', StreamInv, UNCHANGED <<log, got>>,
         \/ UNCHANGED stream /\ sequence' \in Nat /\ sequence' >= sequence
         \/ stream' = Closed
  PROVE  StreamInv' /\ [Client!Next]_<<Known, got>>
  <1>1. Known' = Known
    BY KnownStays
  <1>2. StreamInv'
    <2>1. CASE stream' = Closed
      BY <1>1, <2>1 DEF StreamInv, Closed
    <2>2. CASE UNCHANGED stream /\ sequence' \in Nat /\ sequence' >= sequence
      BY <1>1, <2>2 DEF StreamInv, LogInv
    <2> QED
      BY <2>1, <2>2
  <1> QED
    BY <1>1, <1>2

LEMMA StreamStep ==
  ASSUME TypeInv, LogInv, StreamInv, [Next]_vars
  PROVE  StreamInv' /\ [Client!Next]_<<Known, got>>
  <1>1. LogInv'
    BY LogStep
  <1>2. sequence \in Nat
    BY DEF LogInv
  <1>3. CASE Appended
    BY <1>1, <1>3, NoticeType, StreamCommits DEF Appended, Others
  <1>4. CASE NotAppended
    <2>1. UNCHANGED <<log, got, stream>> /\ sequence' = sequence + 1
      BY <1>4 DEF NotAppended, Others
    <2> QED
      BY <1>1, <1>2, <2>1, StreamRests
  <1>5. CASE Answered \/ DeadlinePasses \/ UNCHANGED vars
    <2>1. UNCHANGED <<log, got, stream, sequence>>
      BY <1>5 DEF Answered, Others, DeadlinePasses, vars
    <2> QED
      BY <1>1, <1>2, <2>1, StreamRests
  <1>6. CASE Restart \/ Ends \/ Cut
    <2>1. UNCHANGED <<log, got>> /\ stream' = Closed
      BY <1>6 DEF Restart, Ends, Cut, Streaming
    <2> QED
      BY <1>1, <2>1, StreamRests
  <1>7. CASE Connect
    BY <1>1, <1>7, StreamConnects
  <1>8. CASE Poll
    BY <1>1, <1>8, StreamPolls
  <1>9. CASE Send
    BY <1>1, <1>9, StreamSends
  <1>10. ASSUME NEW r \in Request, NEW q \in Asks(r), Handle(r, q)
         PROVE  StreamInv' /\ [Client!Next]_<<Known, got>>
    <2>1. UNCHANGED <<log, got, stream, sequence>>
      BY <1>10 DEF Handle, Others
    <2> QED
      BY <1>1, <1>2, <2>1, StreamRests
  <1>11. ASSUME NEW i \in DOMAIN mem.att, AttemptMoves(i)
         PROVE  StreamInv' /\ [Client!Next]_<<Known, got>>
    BY <1>1, <1>11, NoticeType, StreamCommits DEF AttemptMoves, Others
  <1> QED
    BY <1>3, <1>4, <1>5, <1>6, <1>7, <1>8, <1>9, <1>10, <1>11 DEF Next

\* The safety half of DeliverySpec: over lost connections, timeouts, restarts and
\* gaps in the numbers, the client receives the notices of the task in the order
\* of the journal, each once (observability/events.py, the events handler).
THEOREM NoticesInOrder == Spec => Client!InOrder
  <1>1. TypeInv /\ LogInv /\ StreamInv /\ [Next]_vars => StreamInv' /\ [Client!Next]_<<Known, got>>
    BY StreamStep
  <1>2. Spec => [][Client!Next]_<<Known, got>>
    BY TypeInit, TypeStep, LogInit, LogStep, StreamInit, <1>1, PTL DEF Spec
  <1>3. Spec => Client!Init
    BY StreamInit, PTL DEF Spec
  <1> QED
    BY <1>2, <1>3 DEF Client!InOrder, Known
=============================================================================
