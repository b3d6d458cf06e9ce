---------------------------- MODULE ReviewsProofs ----------------------------
(***************************************************************************)
(* TypeOK, AcceptedIsVerified, PassesUnderOwner, OwnershipIsReplay and       *)
(* OneOpenReview for every instance of Reviews.                              *)
(*                                                                         *)
(* As in AuditProofs, each invariant speaks of todo: of what the appends     *)
(* still to be made may count on, when those before them may be the last.    *)
(***************************************************************************)
EXTENDS Reviews, TableProofs

-----------------------------------------------------------------------------
(* Regions *)

LEMMA PrefixFacts ==
  ASSUME NEW s \in Seq(STRING), NEW t \in Seq(STRING)
  PROVE  IsPrefix(s, t) <=> Len(s) <= Len(t) /\ \A i \in 1..Len(s) : s[i] = t[i]
  <1>1. SubSeq(s, 1, Len(s)) = s
    OBVIOUS
  <1>2. CASE Len(s) <= Len(t)
    <2> DEFINE u == SubSeq(t, 1, Len(s))
    <2>1. u \in Seq(STRING) /\ Len(u) = Len(s) /\ \A i \in 1..Len(s) : u[i] = t[i]
      BY <1>2, SubSeqProperties
    <2>2. u = s <=> \A i \in 1..Len(s) : s[i] = u[i]
      <3> HIDE DEF u
      <3> QED
        BY <2>1, SeqEqual
    <2> QED
      BY <1>1, <1>2, <2>1, <2>2 DEF IsPrefix
  <1>3. CASE ~(Len(s) <= Len(t))
    BY <1>3 DEF IsPrefix
  <1> QED
    BY <1>2, <1>3

LEMMA BelowTransitive ==
  ASSUME NEW s \in Seq(STRING), NEW t \in Seq(STRING), NEW u \in Seq(STRING),
         Below(s, t), Below(t, u)
  PROVE  Below(s, u)
  <1>1. CASE s # t /\ t # u
    <2>1. s # <<>> /\ IsPrefix(s, t) /\ IsPrefix(t, u)
      BY <1>1 DEF Below
    <2>2. Len(s) \in Nat /\ Len(t) \in Nat /\ Len(u) \in Nat
      OBVIOUS
    <2>3. IsPrefix(s, u)
      BY <2>1, <2>2, PrefixFacts
    <2> QED
      BY <2>1, <2>3 DEF Below
  <1> QED
    BY <1>1

LEMMA CoversTransitive ==
  ASSUME NEW a \in Region, NEW b \in Region, NEW c \in Region, Covers(a, b), Covers(b, c)
  PROVE  Covers(a, c)
  <1>1. CASE a.sel = "path_prefix" /\ b.sel = "path_prefix" /\ c.sel = "path_prefix"
    <2>1. a.val \in Seq(STRING) /\ b.val \in Seq(STRING) /\ c.val \in Seq(STRING)
      BY <1>1, ReviewsAssumption
    <2>2. Below(a.val, b.val) /\ Below(b.val, c.val)
      BY <1>1 DEF Covers, Below
    <2> QED
      BY <1>1, <2>1, <2>2, BelowTransitive DEF Covers
  <1>2. CASE ~(a.sel = "path_prefix" /\ b.sel = "path_prefix" /\ c.sel = "path_prefix")
    BY <1>2 DEF Covers
  <1> QED
    BY <1>1, <1>2

\* What an owner may be assigned, the child has; so has the owner's review.
LEMMA WithinTransitive ==
  ASSUME NEW R \in SUBSET Region, NEW S \in SUBSET Region, NEW T \in SUBSET Region,
         Within(R, S), Within(S, T)
  PROVE  Within(R, T)
  BY CoversTransitive DEF Within

-----------------------------------------------------------------------------
(* Types *)

OwnerTypes == {"ownership.owner_assigned", "ownership.owner_transferred",
               "ownership.owner_released"}
ReviewTypes == {"review.submitted", "review.accepted", "review.rejected"}

IsAssignment(a) ==
    /\ a \in Assignment /\ Within(a.regions, Boundary)
    /\ a.status = "active" => a.version = 1
IsReview(v) ==
    /\ v \in Review /\ Within(v.regions, Boundary)
    /\ v.status = "submitted" => v.version = 1

IsProjection(p) ==
    /\ p = [own |-> p.own, assign |-> p.assign, broken |-> p.broken,
            evidence |-> p.evidence, reviews |-> p.reviews, verifs |-> p.verifs]
    /\ IsAssignment(p.own) /\ IsAssignment(p.assign) /\ p.broken \in BOOLEAN
    /\ p.evidence \in [DOMAIN RegionOf -> {"missing", "pass", "fail"}]
    /\ IsFiniteSet(DOMAIN p.reviews) /\ \A i \in DOMAIN p.reviews : IsReview(p.reviews[i])
    /\ IsSequence(p.verifs) /\ \A i \in DOMAIN p.verifs : p.verifs[i].verifier \in Owner

IsEvent(e) ==
    \/ e.type \in OwnerTypes /\ IsAssignment(e.assignment)
    \/ e.type \in ReviewTypes /\ IsReview(e.review)
    \/ e.type = "verification.recorded" /\ e.verification.verifier \in Owner
    \/ /\ e.type = "task.updated"
       /\ e.evidence \in DOMAIN RegionOf /\ e.status \in {"missing", "pass", "fail"}

IsQuestion(q) ==
    /\ q.op \in {"assign", "transfer"} => q.owner \in Owner /\ q.regions \in Grant
    /\ q.op = "submit" => q.owner \in Owner /\ q.regions \in Reviewed /\ q.evidence \in Citations
    /\ q.op = "verify" => q.owner \in Owner

TypeInv ==
    /\ current = Nobody => todo = <<>>
    /\ IsProjection(mem) /\ IsProjection(dur)
    /\ IsSequence(todo)
    /\ \A n \in 1..Len(todo) : IsProjection(todo[n].mem) /\ IsEvent(todo[n].event)
    /\ DOMAIN sent = Request
    /\ \A r \in Request : IsQuestion(sent[r])

-----------------------------------------------------------------------------
(* The helpers of the projection *)

LEMMA WithOwnerFacts ==
  ASSUME NEW p, IsProjection(p), NEW a
  PROVE  WithOwner(p, a) =
            [own |-> a, assign |-> a, broken |-> p.broken,
             evidence |-> p.evidence, reviews |-> p.reviews, verifs |-> p.verifs]
  <1> DEFINE q == WithOwner(p, a)
  <1>1. q = [p EXCEPT !.own = a, !.assign = a]
    BY DEF WithOwner
  <1> HIDE DEF q
  <1>2. q = [own |-> a, assign |-> a, broken |-> p.broken,
             evidence |-> p.evidence, reviews |-> p.reviews, verifs |-> p.verifs]
    BY <1>1 DEF IsProjection
  <1> QED
    BY <1>2 DEF q

LEMMA WithReviewFacts ==
  ASSUME NEW p, IsProjection(p), NEW id, NEW v
  PROVE  WithReview(p, id, v) =
            [own |-> p.own, assign |-> p.assign, broken |-> p.broken,
             evidence |-> p.evidence, reviews |-> Put(p.reviews, id, v), verifs |-> p.verifs]
  BY DEF IsProjection, WithReview

LEMMA WithVerificationFacts ==
  ASSUME NEW p, IsProjection(p), NEW v
  PROVE  WithVerification(p, v) =
            [own |-> p.own, assign |-> p.assign, broken |-> p.broken,
             evidence |-> p.evidence, reviews |-> p.reviews, verifs |-> Append(p.verifs, v)]
  BY DEF IsProjection, WithVerification

LEMMA AppendFacts ==
  ASSUME NEW s, IsSequence(s), NEW a
  PROVE  /\ IsSequence(Append(s, a)) /\ Len(Append(s, a)) = Len(s) + 1
         /\ Len(s) \in Nat /\ DOMAIN s = 1..Len(s)
         /\ DOMAIN Append(s, a) = 1..Len(s) + 1
         /\ \A i \in DOMAIN s : Append(s, a)[i] = s[i]
         /\ Append(s, a)[Len(s) + 1] = a
         /\ Last(Append(s, a)) = a
  <1> DEFINE S == Elements(s) \cup {a}
  <1>1. s \in Seq(Elements(s)) /\ a \in S /\ Elements(s) \subseteq S
    BY DEF IsSequence
  <1> HIDE DEF S
  <1>2. s \in Seq(S)
    BY <1>1
  <1>3. Append(s, a) \in Seq(S)
    BY <1>1, <1>2
  <1>4. IsSequence(Append(s, a))
    BY <1>3, SequenceOver
  <1>5. /\ Len(Append(s, a)) = Len(s) + 1 /\ Len(s) \in Nat /\ DOMAIN s = 1..Len(s)
        /\ DOMAIN Append(s, a) = 1..Len(s) + 1
        /\ \A i \in DOMAIN s : Append(s, a)[i] = s[i]
        /\ Append(s, a)[Len(s) + 1] = a
    BY <1>1, <1>2
  <1> QED
    BY <1>4, <1>5 DEF Last

LEMMA WithOwnerType ==
  ASSUME NEW p, IsProjection(p), NEW a, IsAssignment(a)
  PROVE  IsProjection(WithOwner(p, a))
  BY WithOwnerFacts DEF IsProjection

LEMMA WithReviewType ==
  ASSUME NEW p, IsProjection(p), NEW id, NEW v, IsReview(v)
  PROVE  IsProjection(WithReview(p, id, v))
  <1> DEFINE t == Put(p.reviews, id, v)
  <1>1. /\ DOMAIN t = DOMAIN p.reviews \cup {id} /\ t[id] = v
        /\ \A j \in DOMAIN p.reviews : j # id => t[j] = p.reviews[j]
    BY DEF Put
  <1>2. WithReview(p, id, v) =
            [own |-> p.own, assign |-> p.assign, broken |-> p.broken,
             evidence |-> p.evidence, reviews |-> t, verifs |-> p.verifs]
    BY WithReviewFacts
  <1> HIDE DEF t
  <1>3. IsFiniteSet(DOMAIN t)
    BY <1>1, FS_AddElement DEF IsProjection
  <1>4. \A i \in DOMAIN t : IsReview(t[i])
    BY <1>1 DEF IsProjection
  <1> QED
    BY <1>2, <1>3, <1>4 DEF IsProjection

LEMMA WithVerificationType ==
  ASSUME NEW p, IsProjection(p), NEW v, v.verifier \in Owner
  PROVE  IsProjection(WithVerification(p, v))
  <1> DEFINE vs == Append(p.verifs, v)
  <1>1. IsSequence(p.verifs) /\ \A i \in DOMAIN p.verifs : p.verifs[i].verifier \in Owner
    BY DEF IsProjection
  <1>2. IsSequence(vs) /\ \A i \in DOMAIN vs : vs[i].verifier \in Owner
    <2>1. /\ IsSequence(vs) /\ DOMAIN p.verifs = 1..Len(p.verifs) /\ Len(p.verifs) \in Nat
          /\ DOMAIN vs = 1..Len(p.verifs) + 1
          /\ \A i \in DOMAIN p.verifs : vs[i] = p.verifs[i]
          /\ vs[Len(p.verifs) + 1] = v
      BY <1>1, AppendFacts
    <2> HIDE DEF vs
    <2>2. \A i \in DOMAIN vs : i \in DOMAIN p.verifs \/ i = Len(p.verifs) + 1
      BY <2>1
    <2> QED
      BY <1>1, <2>1, <2>2
  <1>3. WithVerification(p, v) =
            [own |-> p.own, assign |-> p.assign, broken |-> p.broken,
             evidence |-> p.evidence, reviews |-> p.reviews, verifs |-> vs]
    BY WithVerificationFacts
  <1> HIDE DEF vs
  <1> QED
    BY <1>2, <1>3 DEF IsProjection

\* What replaying an event does, by the type of the event.
LEMMA ReplayCases ==
  ASSUME NEW p, NEW e
  PROVE  /\ e.type \in OwnerTypes =>
               ReplayEvent(p, e) = [WithOwner(p, e.assignment) EXCEPT
                                       !.broken = @ \/ Conflicts(p, e)]
         /\ e.type \in ReviewTypes => ReplayEvent(p, e) = WithReview(p, e.id, e.review)
         /\ e.type = "verification.recorded" =>
               ReplayEvent(p, e) = WithVerification(p, e.verification)
         /\ e.type = "task.updated" => ReplayEvent(p, e) = [p EXCEPT !.evidence[e.evidence] = e.status]
  BY DEF ReplayEvent, OwnerTypes, ReviewTypes

LEMMA ReplayFacts ==
  ASSUME NEW p, IsProjection(p), NEW e, IsEvent(e)
  PROVE  LET n == ReplayEvent(p, e)
         IN /\ n.own = IF e.type \in OwnerTypes THEN e.assignment ELSE p.own
            /\ n.assign = IF e.type \in OwnerTypes THEN e.assignment ELSE p.assign
            /\ n.broken = (p.broken \/ (e.type \in OwnerTypes /\ Conflicts(p, e)))
            /\ n.reviews = IF e.type \in ReviewTypes THEN Put(p.reviews, e.id, e.review)
                           ELSE p.reviews
            /\ n.verifs = IF e.type = "verification.recorded" THEN Append(p.verifs, e.verification)
                          ELSE p.verifs
            /\ IsProjection(n)
  <1> DEFINE n == ReplayEvent(p, e)
  <1>0. p.broken \in BOOLEAN /\ Conflicts(p, e) \in BOOLEAN
    BY DEF IsProjection, Conflicts
  <1>1. CASE e.type \in OwnerTypes
    <2>1. n = [own |-> e.assignment, assign |-> e.assignment,
               broken |-> p.broken \/ Conflicts(p, e),
               evidence |-> p.evidence, reviews |-> p.reviews, verifs |-> p.verifs]
      <3> DEFINE w == WithOwner(p, e.assignment)
      <3>1. w = [own |-> e.assignment, assign |-> e.assignment, broken |-> p.broken,
                 evidence |-> p.evidence, reviews |-> p.reviews, verifs |-> p.verifs]
        BY WithOwnerFacts
      <3>2. n = [w EXCEPT !.broken = @ \/ Conflicts(p, e)]
        BY <1>1, ReplayCases
      <3> HIDE DEF n, w
      <3> QED
        BY <3>1, <3>2
    <2>2. e.type \notin ReviewTypes /\ e.type # "verification.recorded" /\ IsAssignment(e.assignment)
      BY <1>1 DEF OwnerTypes, ReviewTypes, IsEvent
    <2> HIDE DEF n
    <2>3. (p.broken \/ Conflicts(p, e)) \in BOOLEAN
      OBVIOUS
    <2>4. IsProjection(n)
      BY <2>1, <2>2, <2>3 DEF IsProjection
    <2> QED
      BY <1>1, <2>1, <2>2, <2>4 DEF n
  <1>2. CASE e.type \in ReviewTypes
    <2>1. n = WithReview(p, e.id, e.review) /\ IsReview(e.review)
      BY <1>2, ReplayCases DEF IsEvent, OwnerTypes, ReviewTypes
    <2>2. e.type \notin OwnerTypes /\ e.type # "verification.recorded"
      BY <1>2 DEF OwnerTypes, ReviewTypes
    <2> HIDE DEF n
    <2>3. IsProjection(n)
      BY <2>1, WithReviewType
    <2> QED
      BY <1>0, <1>2, <2>1, <2>2, <2>3, WithReviewFacts DEF n
  <1>3. CASE e.type = "verification.recorded"
    <2>1. n = WithVerification(p, e.verification) /\ e.verification.verifier \in Owner
      BY <1>3, ReplayCases DEF IsEvent, OwnerTypes, ReviewTypes
    <2>2. e.type \notin OwnerTypes /\ e.type \notin ReviewTypes
      BY <1>3 DEF OwnerTypes, ReviewTypes
    <2> HIDE DEF n
    <2>3. IsProjection(n)
      BY <2>1, WithVerificationType
    <2> QED
      BY <1>0, <1>3, <2>1, <2>2, <2>3, WithVerificationFacts DEF n
  <1>4. CASE e.type = "task.updated"
    <2>1. n = [p EXCEPT !.evidence[e.evidence] = e.status]
      BY <1>4, ReplayCases
    <2>2. /\ e.type \notin OwnerTypes /\ e.type \notin ReviewTypes
          /\ e.evidence \in DOMAIN RegionOf /\ e.status \in {"missing", "pass", "fail"}
      BY <1>4 DEF OwnerTypes, ReviewTypes, IsEvent
    <2> DEFINE ev == [p.evidence EXCEPT ![e.evidence] = e.status]
    <2>3. ev \in [DOMAIN RegionOf -> {"missing", "pass", "fail"}]
      BY <2>2 DEF IsProjection
    <2> HIDE DEF n
    <2>4. n = [own |-> p.own, assign |-> p.assign, broken |-> p.broken,
               evidence |-> ev, reviews |-> p.reviews, verifs |-> p.verifs]
      BY <2>1 DEF IsProjection
    <2> HIDE DEF ev
    <2>5. IsProjection(n)
      BY <2>3, <2>4 DEF IsProjection
    <2> QED
      BY <1>0, <1>4, <2>2, <2>4, <2>5 DEF n
  <1>5. e.type \in OwnerTypes \cup ReviewTypes \cup {"verification.recorded", "task.updated"}
    BY DEF IsEvent
  <1> QED
    BY <1>1, <1>2, <1>3, <1>4, <1>5

LEMMA EventTypes ==
  /\ \A t, a : OwnerEvent(t, a).type = t /\ OwnerEvent(t, a).assignment = a
  /\ \A t, id, v : /\ ReviewEvent(t, id, v).type = t /\ ReviewEvent(t, id, v).id = id
                   /\ ReviewEvent(t, id, v).review = v
  /\ \A v : /\ VerificationEvent(v).type = "verification.recorded"
            /\ VerificationEvent(v).verification = v
  /\ \A e, s : /\ EvidenceEvent(e, s).type = "task.updated"
               /\ EvidenceEvent(e, s).evidence = e /\ EvidenceEvent(e, s).status = s
  BY DEF OwnerEvent, ReviewEvent, VerificationEvent, EvidenceEvent

\* A review is dated after all there are.
LEMMA InstantFacts ==
  ASSUME IsProjection(mem)
  PROVE  Instant \in Nat /\ \A i \in ReviewIds : mem.reviews[i].at < Instant
  <1> DEFINE ats == {mem.reviews[i].at : i \in ReviewIds}
             f == [i \in ReviewIds |-> mem.reviews[i].at]
  <1>1. CASE ReviewIds = {}
    BY <1>1 DEF Instant
  <1>2. CASE ReviewIds # {}
    <2>1. IsFiniteSet(ReviewIds) /\ \A i \in ReviewIds : mem.reviews[i].at \in Nat
      BY DEF IsProjection, IsReview, Review, ReviewIds
    <2>2. f \in Surjection(ReviewIds, ats)
      BY DEF Surjection
    <2>3. IsFiniteSet(ats) /\ ats \in SUBSET Nat /\ ats # {}
      BY <1>2, <2>1, <2>2, FS_Surjection
    <2> HIDE DEF ats
    <2>4. \E m \in ats : \A k \in ats : m >= k
      <3>1. \E m \in ats : \A k \in ats : k <= m
        BY <2>3, LargestExists
      <3> QED
        BY <2>3, <3>1
    <2> DEFINE largest == Max(ats)
    <2>5. largest \in ats /\ \A k \in ats : largest >= k
      BY <2>4 DEF Max
    <2>6. Instant = largest + 1
      BY <1>2 DEF Instant, ats
    <2> HIDE DEF largest
    <2>7. ASSUME NEW i \in ReviewIds PROVE mem.reviews[i].at < Instant
      <3> DEFINE k == mem.reviews[i].at
      <3>1. k \in ats
        BY DEF ats
      <3> HIDE DEF k
      <3>2. k \in Nat /\ largest \in Nat /\ largest >= k
        BY <2>3, <2>5, <3>1
      <3>3. k < Instant
        BY <2>6, <3>2
      <3> QED
        BY <3>3 DEF k
    <2> QED
      BY <2>3, <2>5, <2>6, <2>7
  <1> QED
    BY <1>1, <1>2

LEMMA DecidedFacts ==
  ASSUME IsProjection(mem), NEW i \in ReviewIds, mem.reviews[i].status = "submitted",
         NEW s \in {"accepted", "rejected"}
  PROVE  LET v == Decided(i, s)
         IN /\ IsReview(v) /\ v.status = s /\ v.at = Instant
            /\ v.owner = mem.reviews[i].owner /\ v.regions = mem.reviews[i].regions
  <1> DEFINE old == mem.reviews[i]
             v == Decided(i, s)
  <1>1. IsReview(old) /\ old.status = "submitted"
    BY DEF IsProjection, ReviewIds
  <1>2. v = [old EXCEPT !.status = s, !.version = @ + 1, !.at = Instant]
    BY DEF Decided
  <1>3. Instant \in Nat
    BY InstantFacts
  <1> DEFINE now == Instant
  <1> HIDE DEF old, v, now
  <1>4. old \in Review /\ old.version = 1 /\ Within(old.regions, Boundary)
    BY <1>1 DEF IsReview
  <1>5. v = [old EXCEPT !.status = s, !.version = 2, !.at = now]
    BY <1>2, <1>4 DEF now
  <1>6. v = [owner |-> old.owner, regions |-> old.regions, evidence |-> old.evidence,
             status |-> s, version |-> 2, at |-> now]
    BY <1>4, <1>5 DEF Review
  <1>7. v \in Review /\ v.status = s /\ v.at = now /\ v.owner = old.owner /\ v.regions = old.regions
    BY <1>3, <1>4, <1>6 DEF Review, now
  <1> QED
    BY <1>4, <1>7 DEF IsReview, old, v, now

-----------------------------------------------------------------------------
(* The steps *)

LEMMA StepCases ==
  ASSUME [Next]_vars
  PROVE  \/ Persist /\ UNCHANGED sent
         \/ RefusedByCapacity /\ UNCHANGED sent
         \/ Answer /\ UNCHANGED sent
         \/ Crash /\ UNCHANGED sent
         \/ \E r \in Request : \E q \in Asks(r) : Handle(r, q)
         \/ \E e \in DOMAIN RegionOf : \E s \in {"pass", "fail"} : Observes(e, s)
         \/ UNCHANGED vars
  BY DEF Next, FrameStep

\* What is asked: something new, or once more what was asked.
LEMMA AsksFacts ==
  ASSUME TypeInv, NEW r \in Request, NEW q \in Asks(r)
  PROVE  IsQuestion(q)
  <1>1. CASE sent[r] = NotSent
    <2> DEFINE op == scenario.ask[r]
    <2> HIDE DEF op
    <2>1. q \in Questions(op)
      BY <1>1 DEF Asks, op
    <2>2. CASE op \in {"assign", "transfer"}
      BY <2>1, <2>2 DEF Questions, IsQuestion
    <2>3. CASE op = "release"
      BY <2>1, <2>3 DEF Questions, IsQuestion
    <2>4. CASE op = "reject"
      BY <2>1, <2>4 DEF Questions, IsQuestion
    <2>5. CASE op = "submit"
      BY <2>1, <2>5 DEF Questions, IsQuestion
    <2>6. CASE op = "verify"
      BY <2>1, <2>6 DEF Questions, IsQuestion
    <2>7. op \in {"assign", "transfer", "release", "reject", "submit", "verify"}
      BY <2>1 DEF Questions
    <2> QED
      BY <2>2, <2>3, <2>4, <2>5, <2>6, <2>7
  <1>2. CASE sent[r] # NotSent
    <2>1. q = sent[r]
      BY <1>2 DEF Asks
    <2> QED
      BY <2>1 DEF TypeInv
  <1> QED
    BY <1>1, <1>2

\* The ways to serve a request.
OwnerChanged(r, t, a, w) ==
    /\ t \in OwnerTypes /\ IsAssignment(a)
    /\ ~Conflicts(mem, OwnerEvent(t, a))
    /\ ~(a.status = "active" /\ mem.own.status = "active")
    /\ w.event = OwnerEvent(t, a) /\ w.mem = WithOwner(mem, a)
    /\ Serve(r, [mem EXCEPT !.own = a], <<w>>, "done")
ReviewChanged(r, t, id, v, w) ==
    /\ t \in ReviewTypes /\ IsReview(v) /\ v.status # "accepted" /\ v.at = Instant
    /\ \/ v.status = "rejected" /\ id \in ReviewIds /\ mem.reviews[id].status = "submitted"
       \/ ~LatestOpen
    /\ w.event = ReviewEvent(t, id, v) /\ w.mem = WithReview(mem, id, v)
    /\ Serve(r, w.mem, <<w>>, "done")
Blocked(r, v, w) ==
    /\ v.verifier \in Owner /\ v.status # "passed"
    /\ w.event = VerificationEvent(v) /\ w.mem = WithVerification(mem, v)
    /\ Serve(r, w.mem, <<w>>, "done")
Passed(r, i, v, x, m, w1, w2) ==
    /\ i \in ReviewIds /\ mem.reviews[i].status = "submitted"
    /\ mem.assign.status = "active" /\ mem.assign.owner = v.verifier
    /\ WriteAllowedTo(v.verifier, mem.reviews[i].regions)
    /\ v.verifier \in Owner /\ v = [review |-> i, verifier |-> x.owner, status |-> "passed"]
    /\ IsReview(x) /\ x.status = "accepted" /\ x.at = Instant
    /\ m = WithVerification(mem, v)
    /\ w1.event = VerificationEvent(v) /\ w1.mem = WithReview(m, i, x)
    /\ w2.event = ReviewEvent("review.accepted", i, x) /\ w2.mem = WithReview(m, i, x)
    /\ Serve(r, m, <<w1, w2>>, "done")

LEMMA ChangeOwnerFacts ==
  ASSUME NEW r, NEW t \in OwnerTypes, NEW a, IsAssignment(a),
         ~Conflicts(mem, OwnerEvent(t, a)), ~(a.status = "active" /\ mem.own.status = "active"),
         ChangeOwner(r, t, a)
  PROVE  \E w : OwnerChanged(r, t, a, w)
  <1> DEFINE w == Write(OwnerEvent(t, a), FALSE, WithOwner(mem, a))
  <1>1. w.event = OwnerEvent(t, a) /\ w.mem = WithOwner(mem, a)
    BY DEF Write
  <1>2. Serve(r, [mem EXCEPT !.own = a], <<w>>, "done")
    BY DEF ChangeOwner
  <1> HIDE DEF w
  <1> QED
    BY <1>1, <1>2 DEF OwnerChanged

LEMMA AssignFacts ==
  ASSUME TypeInv, NEW r, NEW q, IsQuestion(q), q.op \in {"assign", "transfer"},
         NEW t \in {"ownership.owner_assigned", "ownership.owner_transferred"}, Assign(r, q, t)
  PROVE  Refuse(r) \/ \E a, w : OwnerChanged(r, t, a, w)
  <1> SUFFICES ASSUME ~Refuse(r) PROVE \E a, w : OwnerChanged(r, t, a, w)
    OBVIOUS
  <1> DEFINE a == Assigned(q.owner, q.regions)
  <1>1. mem.own.status # "active" /\ Within(q.regions, Boundary) /\ ChangeOwner(r, t, a)
    BY DEF Assign
  <1>2. q.owner \in Owner /\ q.regions \in SUBSET Region
    BY ReviewsAssumption DEF IsQuestion
  <1>3. a \in Assignment /\ a.version = 1 /\ a.regions = q.regions
    BY <1>2 DEF Assigned, Assignment
  <1> HIDE DEF a
  <1>4. IsAssignment(a) /\ t \in OwnerTypes
    BY <1>1, <1>3 DEF IsAssignment, OwnerTypes
  <1>5. ~Conflicts(mem, OwnerEvent(t, a))
    BY <1>1, EventTypes DEF Conflicts
  <1> QED
    BY <1>1, <1>4, <1>5, ChangeOwnerFacts

LEMMA ReleaseFacts ==
  ASSUME TypeInv, NEW r, NEW q, Release(r, q)
  PROVE  Refuse(r) \/ \E t, a, w : OwnerChanged(r, t, a, w)
  <1> SUFFICES ASSUME ~Refuse(r) PROVE \E t, a, w : OwnerChanged(r, t, a, w)
    OBVIOUS
  <1> DEFINE t == "ownership.owner_released"
             o == mem.own
             a == Released(o)
  <1>1. o.status = "active" /\ ChangeOwner(r, t, a)
    BY DEF Release
  <1>2. IsAssignment(o)
    BY DEF TypeInv, IsProjection
  <1>3. a = [o EXCEPT !.status = "released", !.version = @ + 1]
    BY DEF Released
  <1> HIDE DEF o, a
  <1>4. o \in Assignment /\ o.version = 1 /\ Within(o.regions, Boundary)
    BY <1>1, <1>2 DEF IsAssignment
  <1>5. a = [status |-> "released", owner |-> o.owner, regions |-> o.regions, version |-> 2]
    <2>1. a = [o EXCEPT !.status = "released", !.version = 2]
      BY <1>3, <1>4
    <2> QED
      BY <1>4, <2>1 DEF Assignment
  <1>6. a \in Assignment /\ a.status = "released" /\ a.owner = o.owner /\ a.regions = o.regions
    BY <1>4, <1>5 DEF Assignment
  <1>7. IsAssignment(a) /\ t \in OwnerTypes
    BY <1>4, <1>6 DEF IsAssignment, OwnerTypes
  <1>8. ~Conflicts(mem, OwnerEvent(t, a))
    BY <1>1, <1>6, EventTypes DEF Conflicts, o
  <1>9. \E w : OwnerChanged(r, t, a, w)
    BY <1>1, <1>6, <1>7, <1>8, ChangeOwnerFacts
  <1> QED
    BY <1>9

LEMMA ReviewChangedFacts ==
  ASSUME NEW r, NEW t \in ReviewTypes, NEW id, NEW v, NEW keyed, NEW m, m = WithReview(mem, id, v),
         IsReview(v), v.status # "accepted", v.at = Instant,
         \/ v.status = "rejected" /\ id \in ReviewIds /\ mem.reviews[id].status = "submitted"
         \/ ~LatestOpen,
         Serve(r, m, <<Write(ReviewEvent(t, id, v), keyed, m)>>, "done")
  PROVE  \E w : ReviewChanged(r, t, id, v, w)
  <1> DEFINE w == Write(ReviewEvent(t, id, v), keyed, m)
  <1>1. w.event = ReviewEvent(t, id, v) /\ w.mem = m
    BY DEF Write
  <1>2. Serve(r, m, <<w>>, "done")
    OBVIOUS
  <1> HIDE DEF w
  <1> QED
    BY <1>1, <1>2 DEF ReviewChanged

LEMMA SubmitFacts ==
  ASSUME TypeInv, NEW r, NEW q, IsQuestion(q), q.op = "submit", Submit(r, q)
  PROVE  Repeat(r) \/ Refuse(r) \/ \E t, id, v, w : ReviewChanged(r, t, id, v, w)
  <1> SUFFICES ASSUME ~Repeat(r), ~Refuse(r)
               PROVE  \E t, id, v, w : ReviewChanged(r, t, id, v, w)
    OBVIOUS
  <1> DEFINE v == [owner |-> q.owner, regions |-> q.regions, evidence |-> q.evidence,
                   status |-> "submitted", version |-> 1, at |-> Instant]
             id == NewReview
             m == WithReview(mem, id, v)
             t == "review.submitted"
  <1>1. /\ q.regions # {} /\ WriteAllowedTo(q.owner, q.regions) /\ ~LatestOpen
        /\ Serve(r, m, <<Write(ReviewEvent(t, id, v), TRUE, m)>>, "done")
    BY DEF Submit
  <1>2. IsProjection(mem)
    BY DEF TypeInv
  <1>3. q.owner \in Owner /\ q.regions \in SUBSET Region /\ q.evidence \in SUBSET DOMAIN RegionOf
    BY ReviewsAssumption DEF IsQuestion, Citations
  <1>4. Instant \in Nat
    BY <1>2, InstantFacts
  <1>5. Within(q.regions, Boundary)
    <2>1. mem.own.regions \in SUBSET Region /\ Within(mem.own.regions, Boundary)
      BY <1>2 DEF IsProjection, IsAssignment, Assignment
    <2>2. Within(q.regions, mem.own.regions)
      BY <1>1 DEF WriteAllowedTo
    <2> QED
      BY <1>3, <2>1, <2>2, ReviewsAssumption, WithinTransitive
  <1>6. v \in Review /\ v.regions = q.regions /\ v.status = "submitted" /\ v.version = 1 /\ v.at = Instant
    BY <1>1, <1>3, <1>4 DEF Review
  <1>7. \E keyed : Serve(r, m, <<Write(ReviewEvent(t, id, v), keyed, m)>>, "done")
    BY <1>1
  <1>8. m = WithReview(mem, id, v) /\ t \in ReviewTypes
    BY DEF ReviewTypes
  <1> HIDE DEF v, id, m
  <1>9. IsReview(v) /\ v.status # "accepted"
    BY <1>5, <1>6 DEF IsReview
  <1>10. \E w : ReviewChanged(r, t, id, v, w)
    BY <1>1, <1>6, <1>7, <1>8, <1>9, ReviewChangedFacts
  <1> QED
    BY <1>10

LEMMA RejectFacts ==
  ASSUME TypeInv, NEW r, NEW q, Reject(r, q)
  PROVE  Refuse(r) \/ \E t, id, v, w : ReviewChanged(r, t, id, v, w)
  <1> SUFFICES ASSUME ~Refuse(r)
               PROVE  \E t, id, v, w : ReviewChanged(r, t, id, v, w)
    OBVIOUS
  <1> DEFINE id == q.review
             v == Decided(id, "rejected")
             m == WithReview(mem, id, v)
             t == "review.rejected"
  <1>1. /\ id \in ReviewIds /\ mem.reviews[id].status = "submitted"
        /\ Serve(r, m, <<Write(ReviewEvent(t, id, v), FALSE, m)>>, "done")
    BY DEF Reject
  <1>2. IsProjection(mem)
    BY DEF TypeInv
  <1>3. IsReview(v) /\ v.status = "rejected" /\ v.at = Instant
    BY <1>1, <1>2, DecidedFacts
  <1>4. \E keyed : Serve(r, m, <<Write(ReviewEvent(t, id, v), keyed, m)>>, "done")
    BY <1>1
  <1>5. m = WithReview(mem, id, v) /\ t \in ReviewTypes
    BY DEF ReviewTypes
  <1> HIDE DEF v, id, m
  <1>6. \E w : ReviewChanged(r, t, id, v, w)
    BY <1>1, <1>3, <1>4, <1>5, ReviewChangedFacts
  <1> QED
    BY <1>6

LEMMA VerifyFacts ==
  ASSUME TypeInv, NEW r, NEW q, IsQuestion(q), q.op = "verify", Verify(r, q)
  PROVE  \/ Repeat(r) \/ Refuse(r)
         \/ \E v, w : Blocked(r, v, w)
         \/ \E i, v, x, m, w1, w2 : Passed(r, i, v, x, m, w1, w2)
  <1> SUFFICES ASSUME ~Repeat(r), ~Refuse(r)
               PROVE  \/ \E v, w : Blocked(r, v, w)
                      \/ \E i, v, x, m, w1, w2 : Passed(r, i, v, x, m, w1, w2)
    OBVIOUS
  <1> DEFINE i == q.review
             v == Verification(q)
             x == Decided(i, "accepted")
             m == WithVerification(mem, v)
             n == WithReview(m, i, x)
             ve == VerificationEvent(v)
             re == ReviewEvent("review.accepted", i, x)
             w0 == Write(ve, TRUE, m)
             w1 == Write(ve, TRUE, n)
             w2 == Write(re, FALSE, n)
  <1>1. /\ i \in ReviewIds /\ ByOwner(q) /\ q.owner \in Owner
        /\ Serve(r, Verified(q),
                 IF Passes(q) THEN PassedWrites(q)
                 ELSE <<Write(VerificationEvent(Verification(q)), TRUE, Verified(q))>>, "done")
    BY DEF Verify, IsQuestion
  <1>2. IsProjection(mem)
    BY DEF TypeInv
  <1>3. v = [review |-> i, verifier |-> q.owner, status |-> IF Passes(q) THEN "passed" ELSE "blocked"]
    BY DEF Verification
  <1>4. Verified(q) = m
    BY DEF Verified
  <1>5. CASE ~Passes(q)
    <2>1. Serve(r, m, <<w0>>, "done")
      BY <1>1, <1>4, <1>5
    <2>2. w0.event = ve /\ w0.mem = m
      BY DEF Write
    <2> HIDE DEF v, m, ve, w0
    <2>3. v.verifier \in Owner /\ v.status = "blocked"
      BY <1>1, <1>3, <1>5
    <2>4. Blocked(r, v, w0)
      BY <2>1, <2>2, <2>3 DEF Blocked, m, ve
    <2> QED
      BY <2>4
  <1>6. CASE Passes(q)
    <2>1. PassedWrites(q) = <<w1, w2>>
      BY DEF PassedWrites, Verified, Accepted, Accepting
    <2>2. Serve(r, m, <<w1, w2>>, "done")
      BY <1>1, <1>4, <1>6, <2>1
    <2>3. w1.event = ve /\ w1.mem = n /\ w2.event = re /\ w2.mem = n
      BY DEF Write
    <2>4. mem.reviews[i].status = "submitted"
      BY <1>6 DEF Passes
    <2>5. /\ IsReview(x) /\ x.status = "accepted" /\ x.at = Instant
          /\ x.owner = mem.reviews[i].owner
      BY <1>1, <1>2, <2>4, DecidedFacts
    <2>6. /\ mem.assign.status = "active" /\ mem.assign.owner = q.owner
          /\ mem.reviews[i].owner = q.owner
          /\ WriteAllowedTo(q.owner, mem.reviews[i].regions)
      BY <1>1 DEF ByOwner
    <2> HIDE DEF i, v, x, m, n, ve, re, w1, w2
    <2>7. v = [review |-> i, verifier |-> x.owner, status |-> "passed"] /\ v.verifier = q.owner
      BY <1>3, <1>6, <2>5, <2>6
    <2>8. Passed(r, i, v, x, m, w1, w2)
      BY <1>1, <2>2, <2>3, <2>4, <2>5, <2>6, <2>7 DEF Passed, m, n, ve, re
    <2> QED
      BY <2>8
  <1> QED
    BY <1>5, <1>6

LEMMA HandleCases ==
  ASSUME TypeInv, NEW r \in Request, NEW q \in Asks(r), Handle(r, q)
  PROVE  \/ Repeat(r) \/ Refuse(r)
         \/ \E t, a, w : OwnerChanged(r, t, a, w)
         \/ \E t, id, v, w : ReviewChanged(r, t, id, v, w)
         \/ \E v, w : Blocked(r, v, w)
         \/ \E i, v, x, m, w1, w2 : Passed(r, i, v, x, m, w1, w2)
  <1>0. IsQuestion(q)
    BY AsksFacts
  <1>1. CASE q.op = "assign" /\ Assign(r, q, "ownership.owner_assigned")
    BY <1>0, <1>1, AssignFacts
  <1>2. CASE q.op = "transfer" /\ Assign(r, q, "ownership.owner_transferred")
    BY <1>0, <1>2, AssignFacts
  <1>3. CASE q.op = "release" /\ Release(r, q)
    BY <1>3, ReleaseFacts
  <1>4. CASE q.op = "reject" /\ Reject(r, q)
    BY <1>4, RejectFacts
  <1>5. CASE q.op = "submit" /\ Submit(r, q)
    BY <1>0, <1>5, SubmitFacts
  <1>6. CASE q.op = "verify" /\ Verify(r, q)
    BY <1>0, <1>6, VerifyFacts
  <1> QED
    BY <1>1, <1>2, <1>3, <1>4, <1>5, <1>6 DEF Handle

-----------------------------------------------------------------------------
(* TypeInv is inductive *)

LEMMA TypeInit == Init => TypeInv
  <1> SUFFICES ASSUME Init PROVE TypeInv
    OBVIOUS
  <1>1. mem = Empty /\ dur = mem /\ todo = <<>>
    BY DEF Init, Began
  <1>2. IsAssignment(Unassigned)
    BY DEF IsAssignment, Assignment, Unassigned, Within
  <1>3. /\ Empty.own = Unassigned /\ Empty.assign = Unassigned /\ Empty.broken = FALSE
        /\ Empty.evidence \in [DOMAIN RegionOf -> {"missing", "pass", "fail"}]
        /\ Empty.reviews = <<>> /\ Empty.verifs = <<>>
        /\ Empty = [own |-> Empty.own, assign |-> Empty.assign, broken |-> Empty.broken,
                    evidence |-> Empty.evidence, reviews |-> Empty.reviews,
                    verifs |-> Empty.verifs]
    BY DEF Empty
  <1>4. IsFiniteSet(DOMAIN <<>>) /\ DOMAIN <<>> = {}
    BY FS_EmptySet
  <1>5. IsProjection(Empty)
    BY <1>2, <1>3, <1>4, ShortSequences DEF IsProjection
  <1>6. IsSequence(todo) /\ Len(todo) = 0
    BY <1>1, ShortSequences
  <1>7. DOMAIN sent = Request /\ \A r \in Request : IsQuestion(sent[r])
    BY DEF Init, IsQuestion, NotSent
  <1> QED
    BY <1>1, <1>5, <1>6, <1>7 DEF TypeInv

\* What the first append of a handler leaves.
LEMMA PersistFacts ==
  ASSUME TypeInv, Persist
  PROVE  /\ Len(todo) \in Nat \ {0} /\ todo' = Tail(todo)
         /\ IsSequence(todo') /\ Len(todo') = Len(todo) - 1
         /\ \A n \in 1..Len(todo') : n + 1 \in 1..Len(todo) /\ todo'[n] = todo[n + 1]
         /\ 1 \in 1..Len(todo)
         /\ IsProjection(dur) /\ IsEvent(todo[1].event) /\ IsProjection(todo[1].mem)
         /\ mem' = todo[1].mem /\ dur' = ReplayEvent(dur, todo[1].event)
         /\ recorded' = IF todo[1].keyed THEN recorded \cup {current} ELSE recorded
         /\ UNCHANGED <<current, reply, answered, refusals>>
  <1>1. IsSequence(todo) /\ todo # <<>> /\ IsProjection(dur)
    BY DEF TypeInv, Persist
  <1>2. /\ Len(todo) \in Nat \ {0} /\ Head(todo) = todo[1] /\ IsSequence(Tail(todo))
        /\ Len(Tail(todo)) = Len(todo) - 1
        /\ \A i \in 1..Len(todo) - 1 : Tail(todo)[i] = todo[i + 1]
    BY <1>1, TailFacts
  <1>3. 1 \in 1..Len(todo)
    BY <1>2
  <1>4. IsEvent(todo[1].event) /\ IsProjection(todo[1].mem)
    BY <1>3 DEF TypeInv
  <1> QED
    BY <1>1, <1>2, <1>3, <1>4 DEF Persist

LEMMA PersistType ==
  ASSUME TypeInv, Persist, UNCHANGED sent
  PROVE  TypeInv'
  <1> USE PersistFacts
  <1>1. IsProjection(mem')
    OBVIOUS
  <1>2. IsProjection(dur')
    BY ReplayFacts
  <1>3. \A n \in 1..Len(todo') : IsProjection(todo'[n].mem) /\ IsEvent(todo'[n].event)
    BY DEF TypeInv
  <1>4. current' = Nobody => todo' = <<>>
    <2>1. current # Nobody
      BY DEF TypeInv, Persist
    <2> QED
      BY <2>1
  <1> QED
    BY <1>1, <1>2, <1>3, <1>4 DEF TypeInv

\* The handler is over.
LEMMA EndsType ==
  ASSUME TypeInv, todo' = <<>>, mem' = mem \/ mem' = dur, UNCHANGED <<dur, sent>>
  PROVE  TypeInv'
  <1>1. IsSequence(todo') /\ Len(todo') = 0
    BY ShortSequences
  <1> QED
    BY <1>1 DEF TypeInv

\* A handler begins: it has the appends ws to make.
LEMMA ServeType ==
  ASSUME TypeInv, NEW r \in Request, NEW q \in Asks(r), sent' = [sent EXCEPT ![r] = q],
         NEW m, NEW ws, NEW told, Serve(r, m, ws, told), IsProjection(m), IsSequence(ws),
         \A n \in 1..Len(ws) : IsProjection(ws[n].mem) /\ IsEvent(ws[n].event)
  PROVE  TypeInv'
  <1>1. /\ mem' = m /\ todo' = ws /\ dur' = dur /\ current' # Nobody
    BY ReviewsAssumption DEF Serve
  <1>2. DOMAIN sent' = Request /\ \A s \in Request : IsQuestion(sent'[s])
    BY AsksFacts DEF TypeInv
  <1> QED
    BY <1>1, <1>2 DEF TypeInv

\* ... or one, or two.
LEMMA ServeOneFacts ==
  ASSUME NEW r, NEW m, NEW w, NEW told, Serve(r, m, <<w>>, told)
  PROVE  /\ mem' = m /\ dur' = dur /\ refusals' = refusals
         /\ IsSequence(todo') /\ Len(todo') = 1 /\ todo'[1] = w
         /\ \A n \in 1..Len(todo') : n = 1 /\ todo'[n] = w
  <1>1. mem' = m /\ todo' = <<w>> /\ UNCHANGED <<dur, refusals>>
    BY DEF Serve
  <1>2. IsSequence(todo') /\ Len(todo') = 1 /\ todo'[1] = w
    BY <1>1, ShortSequences
  <1>3. \A n \in 1..Len(todo') : n = 1 /\ todo'[n] = w
    BY <1>2
  <1> QED
    BY <1>1, <1>2, <1>3

LEMMA ServeTwoFacts ==
  ASSUME NEW r, NEW m, NEW v, NEW w, NEW told, Serve(r, m, <<v, w>>, told)
  PROVE  /\ mem' = m /\ dur' = dur /\ refusals' = refusals
         /\ IsSequence(todo') /\ Len(todo') = 2 /\ todo'[1] = v /\ todo'[2] = w
         /\ \A n \in 1..Len(todo') : (n = 1 /\ todo'[n] = v) \/ (n = 2 /\ todo'[n] = w)
  <1>1. mem' = m /\ todo' = <<v, w>> /\ UNCHANGED <<dur, refusals>>
    BY DEF Serve
  <1>2. IsSequence(todo') /\ Len(todo') = 2 /\ todo'[1] = v /\ todo'[2] = w
    BY <1>1, ShortSequences
  <1>3. \A n \in 1..Len(todo') : (n = 1 /\ todo'[n] = v) \/ (n = 2 /\ todo'[n] = w)
    BY <1>2
  <1> QED
    BY <1>1, <1>2, <1>3

\* The events and the memories of the writes of each way to serve a request.
LEMMA OwnerChangedFacts ==
  ASSUME TypeInv, NEW r, NEW t, NEW a, NEW w, OwnerChanged(r, t, a, w)
  PROVE  /\ w.event.type \in OwnerTypes /\ w.event.assignment = a /\ IsEvent(w.event)
         /\ w.event.type \notin ReviewTypes /\ w.event.type # "verification.recorded"
         /\ w.mem = WithOwner(mem, a) /\ IsProjection(w.mem)
         /\ IsProjection(mem') /\ mem'.own = a /\ mem'.assign = mem.assign
         /\ ~Conflicts(mem, w.event) /\ ~(a.status = "active" /\ mem.own.status = "active")
         /\ Serve(r, mem', <<w>>, "done")
  <1>1. IsProjection(mem) /\ IsAssignment(a)
    BY DEF TypeInv, OwnerChanged
  <1>2. w.event.type = t /\ t \in OwnerTypes /\ w.event.assignment = a
    BY EventTypes DEF OwnerChanged
  <1>3. IsEvent(w.event) /\ w.event.type \notin ReviewTypes /\ w.event.type # "verification.recorded"
    BY <1>1, <1>2 DEF IsEvent, OwnerTypes, ReviewTypes
  <1>4. IsProjection(w.mem)
    BY <1>1, WithOwnerType DEF OwnerChanged
  <1>5. Serve(r, mem', <<w>>, "done") /\ mem' = [mem EXCEPT !.own = a]
    BY DEF OwnerChanged, Serve
  <1>6. mem' = [own |-> a, assign |-> mem.assign, broken |-> mem.broken,
                evidence |-> mem.evidence, reviews |-> mem.reviews, verifs |-> mem.verifs]
    BY <1>1, <1>5 DEF IsProjection
  <1>7. IsProjection(mem') /\ mem'.own = a /\ mem'.assign = mem.assign
    BY <1>1, <1>6 DEF IsProjection
  <1> QED
    BY <1>2, <1>3, <1>4, <1>5, <1>7 DEF OwnerChanged

LEMMA ReviewWriteFacts ==
  ASSUME TypeInv, NEW r, NEW t, NEW id, NEW v, NEW w, ReviewChanged(r, t, id, v, w)
  PROVE  /\ w.event.type \in ReviewTypes /\ w.event.id = id /\ w.event.review = v
         /\ w.event.type \notin OwnerTypes /\ w.event.type # "verification.recorded"
         /\ IsEvent(w.event) /\ w.mem = WithReview(mem, id, v) /\ IsProjection(w.mem)
         /\ w.mem.own = mem.own /\ w.mem.assign = mem.assign
         /\ Serve(r, w.mem, <<w>>, "done")
  <1>1. IsProjection(mem) /\ IsReview(v)
    BY DEF TypeInv, ReviewChanged
  <1>2. w.event.type = t /\ t \in ReviewTypes /\ w.event.id = id /\ w.event.review = v
    BY EventTypes DEF ReviewChanged
  <1>3. IsEvent(w.event) /\ w.event.type \notin OwnerTypes /\ w.event.type # "verification.recorded"
    BY <1>1, <1>2 DEF IsEvent, OwnerTypes, ReviewTypes
  <1>4. w.mem = WithReview(mem, id, v) /\ IsProjection(w.mem)
    BY <1>1, WithReviewType DEF ReviewChanged
  <1>5. w.mem.own = mem.own /\ w.mem.assign = mem.assign
    BY <1>1, <1>4, WithReviewFacts
  <1> QED
    BY <1>2, <1>3, <1>4, <1>5 DEF ReviewChanged

LEMMA BlockedFacts ==
  ASSUME TypeInv, NEW r, NEW v, NEW w, Blocked(r, v, w)
  PROVE  /\ w.event.type = "verification.recorded" /\ w.event.verification = v
         /\ w.event.type \notin OwnerTypes /\ w.event.type \notin ReviewTypes
         /\ IsEvent(w.event) /\ w.mem = WithVerification(mem, v) /\ IsProjection(w.mem)
         /\ w.mem.own = mem.own /\ w.mem.assign = mem.assign
         /\ Serve(r, w.mem, <<w>>, "done")
  <1>1. IsProjection(mem) /\ v.verifier \in Owner
    BY DEF TypeInv, Blocked
  <1>2. w.event.type = "verification.recorded" /\ w.event.verification = v
    BY EventTypes DEF Blocked
  <1>3. IsEvent(w.event) /\ w.event.type \notin OwnerTypes /\ w.event.type \notin ReviewTypes
    BY <1>1, <1>2 DEF IsEvent, OwnerTypes, ReviewTypes
  <1>4. w.mem = WithVerification(mem, v) /\ IsProjection(w.mem)
    BY <1>1, WithVerificationType DEF Blocked
  <1>5. w.mem.own = mem.own /\ w.mem.assign = mem.assign
    BY <1>1, <1>4, WithVerificationFacts
  <1> QED
    BY <1>2, <1>3, <1>4, <1>5 DEF Blocked

LEMMA PassedFacts ==
  ASSUME TypeInv, NEW r, NEW i, NEW v, NEW x, NEW m, NEW w1, NEW w2,
         Passed(r, i, v, x, m, w1, w2)
  PROVE  /\ w1.event.type = "verification.recorded" /\ w1.event.verification = v
         /\ w1.event.type \notin OwnerTypes /\ w1.event.type \notin ReviewTypes
         /\ w2.event.type \in ReviewTypes /\ w2.event.id = i /\ w2.event.review = x
         /\ w2.event.type \notin OwnerTypes /\ w2.event.type # "verification.recorded"
         /\ IsEvent(w1.event) /\ IsEvent(w2.event)
         /\ m = WithVerification(mem, v) /\ IsProjection(m)
         /\ m.own = mem.own /\ m.assign = mem.assign /\ m.reviews = mem.reviews
         /\ w1.mem = WithReview(m, i, x) /\ w2.mem = w1.mem /\ IsProjection(w1.mem)
         /\ w1.mem.own = mem.own /\ w1.mem.assign = mem.assign
         /\ Serve(r, m, <<w1, w2>>, "done")
  <1>1. IsProjection(mem) /\ v.verifier \in Owner /\ IsReview(x)
    BY DEF TypeInv, Passed
  <1>2. /\ w1.event.type = "verification.recorded" /\ w1.event.verification = v
        /\ w2.event.type = "review.accepted" /\ w2.event.id = i /\ w2.event.review = x
    BY EventTypes DEF Passed
  <1>3. /\ IsEvent(w1.event) /\ w1.event.type \notin OwnerTypes /\ w1.event.type \notin ReviewTypes
        /\ IsEvent(w2.event) /\ w2.event.type \in ReviewTypes /\ w2.event.type \notin OwnerTypes
        /\ w2.event.type # "verification.recorded"
    BY <1>1, <1>2 DEF IsEvent, OwnerTypes, ReviewTypes
  <1>4. m = WithVerification(mem, v) /\ IsProjection(m)
    BY <1>1, WithVerificationType DEF Passed
  <1>5. m.own = mem.own /\ m.assign = mem.assign /\ m.reviews = mem.reviews
    BY <1>1, <1>4, WithVerificationFacts
  <1>6. w1.mem = WithReview(m, i, x) /\ w2.mem = w1.mem /\ IsProjection(w1.mem)
    BY <1>1, <1>4, WithReviewType DEF Passed
  <1>7. w1.mem.own = mem.own /\ w1.mem.assign = mem.assign
    BY <1>4, <1>5, <1>6, WithReviewFacts
  <1> QED
    BY <1>2, <1>3, <1>4, <1>5, <1>6, <1>7 DEF Passed

LEMMA ServeOneType ==
  ASSUME TypeInv, NEW r \in Request, NEW q \in Asks(r), sent' = [sent EXCEPT ![r] = q],
         NEW m, NEW w, NEW told, Serve(r, m, <<w>>, told),
         IsProjection(m), IsProjection(w.mem), IsEvent(w.event)
  PROVE  TypeInv'
  <1> DEFINE ws == <<w>>
  <1>1. IsSequence(ws) /\ Len(ws) = 1 /\ ws[1] = w /\ Serve(r, m, ws, told)
    BY ShortSequences
  <1> HIDE DEF ws
  <1>2. \A n \in 1..Len(ws) : IsProjection(ws[n].mem) /\ IsEvent(ws[n].event)
    BY <1>1
  <1> QED
    BY <1>1, <1>2, ServeType

LEMMA HandleType ==
  ASSUME TypeInv, NEW r \in Request, NEW q \in Asks(r), Handle(r, q)
  PROVE  TypeInv'
  <1>1. sent' = [sent EXCEPT ![r] = q]
    BY DEF Handle
  <1>2. CASE Repeat(r) \/ Refuse(r)
    <2> DEFINE ws == <<>>
    <2>1. PICK told : Serve(r, mem, ws, told)
      BY <1>2 DEF Repeat, Refuse
    <2>2. IsSequence(ws) /\ Len(ws) = 0 /\ IsProjection(mem)
      BY ShortSequences DEF TypeInv
    <2> HIDE DEF ws
    <2>3. 1..Len(ws) = {}
      BY <2>2
    <2> QED
      BY <1>1, <2>1, <2>2, <2>3, ServeType
  <1>3. ASSUME NEW t, NEW a, NEW w, OwnerChanged(r, t, a, w) PROVE TypeInv'
    BY <1>1, <1>3, OwnerChangedFacts, ServeOneType
  <1>4. ASSUME NEW t, NEW id, NEW v, NEW w, ReviewChanged(r, t, id, v, w) PROVE TypeInv'
    <2>1. IsProjection(w.mem) /\ IsEvent(w.event) /\ Serve(r, w.mem, <<w>>, "done")
      BY <1>4, ReviewWriteFacts
    <2> QED
      BY <1>1, <2>1, ServeOneType
  <1>5. ASSUME NEW v, NEW w, Blocked(r, v, w) PROVE TypeInv'
    <2>1. IsProjection(w.mem) /\ IsEvent(w.event) /\ Serve(r, w.mem, <<w>>, "done")
      BY <1>5, BlockedFacts
    <2> QED
      BY <1>1, <2>1, ServeOneType
  <1>6. ASSUME NEW i, NEW v, NEW x, NEW m, NEW w1, NEW w2, Passed(r, i, v, x, m, w1, w2)
        PROVE  TypeInv'
    <2> DEFINE ws == <<w1, w2>>
    <2>1. IsSequence(ws) /\ Len(ws) = 2 /\ ws[1] = w1 /\ ws[2] = w2
      BY ShortSequences
    <2>2. /\ Serve(r, m, <<w1, w2>>, "done") /\ IsProjection(m)
          /\ IsProjection(w1.mem) /\ IsEvent(w1.event) /\ w2.mem = w1.mem /\ IsEvent(w2.event)
      BY <1>6, PassedFacts
    <2>3. Serve(r, m, ws, "done")
      BY <2>2
    <2> HIDE DEF ws
    <2>4. \A n \in 1..Len(ws) : n = 1 \/ n = 2
      BY <2>1
    <2>5. \A n \in 1..Len(ws) : IsProjection(ws[n].mem) /\ IsEvent(ws[n].event)
      BY <2>1, <2>2, <2>4
    <2> QED
      BY <1>1, <2>1, <2>2, <2>3, <2>5, ServeType
  <1> QED
    BY <1>2, <1>3, <1>4, <1>5, <1>6, HandleCases

\* What an observation changes.
LEMMA ObservesFacts ==
  ASSUME TypeInv, NEW e \in DOMAIN RegionOf, NEW s \in {"pass", "fail"}, Observes(e, s)
  PROVE  /\ todo' = <<>> /\ todo = <<>> /\ UNCHANGED <<current, recorded, answered, sent, scenario, refusals>>
         /\ \E ev : /\ IsEvent(ev) /\ ev.type = "task.updated"
                   /\ mem' = ReplayEvent(mem, ev) /\ dur' = ReplayEvent(dur, ev)
         /\ IsProjection(mem') /\ IsProjection(dur')
         /\ mem'.own = mem.own /\ mem'.assign = mem.assign
         /\ dur'.own = dur.own /\ dur'.assign = dur.assign /\ dur'.broken = dur.broken
         /\ dur'.reviews = dur.reviews /\ dur'.verifs = dur.verifs
  <1> DEFINE ev == EvidenceEvent(e, s)
  <1>1. /\ mem' = ReplayEvent(mem, ev) /\ dur' = ReplayEvent(dur, ev)
        /\ todo' = todo /\ current = Nobody /\ UNCHANGED <<current, recorded, answered, sent, scenario, refusals>>
    BY DEF Observes, Append1, Idle
  <1>2. ev.type = "task.updated" /\ ev.evidence = e /\ ev.status = s
    BY EventTypes
  <1> HIDE DEF ev
  <1>3. /\ IsEvent(ev) /\ ev.type \notin OwnerTypes /\ ev.type \notin ReviewTypes
        /\ ev.type # "verification.recorded"
    BY <1>2 DEF IsEvent, OwnerTypes, ReviewTypes
  <1>4. IsProjection(mem) /\ IsProjection(dur) /\ todo = <<>>
    BY <1>1 DEF TypeInv
  <1>5. /\ IsProjection(mem') /\ mem'.own = mem.own /\ mem'.assign = mem.assign
    BY <1>1, <1>3, <1>4, ReplayFacts
  <1>6. /\ IsProjection(dur') /\ dur'.own = dur.own /\ dur'.assign = dur.assign
        /\ dur'.reviews = dur.reviews /\ dur'.verifs = dur.verifs
        /\ dur'.broken = (dur.broken \/ FALSE)
    BY <1>1, <1>3, <1>4, ReplayFacts
  <1>7. dur'.broken = dur.broken
    BY <1>4, <1>6 DEF IsProjection
  <1> QED
    BY <1>1, <1>2, <1>3, <1>4, <1>5, <1>6, <1>7

LEMMA TypeStep == TypeInv /\ [Next]_vars => TypeInv'
  <1> SUFFICES ASSUME TypeInv, [Next]_vars PROVE TypeInv'
    OBVIOUS
  <1>1. CASE Persist /\ UNCHANGED sent
    BY <1>1, PersistType
  <1>2. CASE (RefusedByCapacity \/ Crash) /\ UNCHANGED sent
    BY <1>2, EndsType DEF RefusedByCapacity, Crash
  <1>3. CASE Answer /\ UNCHANGED sent
    BY <1>3, EndsType DEF Answer
  <1>4. CASE \E r \in Request : \E q \in Asks(r) : Handle(r, q)
    BY <1>4, HandleType
  <1>5. ASSUME NEW e \in DOMAIN RegionOf, NEW s \in {"pass", "fail"}, Observes(e, s) PROVE TypeInv'
    <2>1. IsProjection(mem') /\ IsProjection(dur') /\ todo' = <<>> /\ UNCHANGED sent
      BY <1>5, ObservesFacts
    <2>2. IsSequence(todo') /\ Len(todo') = 0
      BY <2>1, ShortSequences
    <2> QED
      BY <2>1, <2>2 DEF TypeInv
  <1>6. CASE UNCHANGED vars
    BY <1>6 DEF vars, TypeInv
  <1> QED
    BY <1>1, <1>2, <1>3, <1>4, <1>5, <1>6, StepCases

THEOREM TypeCorrect == Spec => []TypeInv
  BY TypeInit, TypeStep, PTL DEF Spec

-----------------------------------------------------------------------------
(* AcceptedIsVerified.  The verification is the first of the two appends: when   *)
(* the second is made, the first is in the journal.                            *)

Passing(i, v) == [review |-> i, verifier |-> v.owner, status |-> "passed"]
Backed(vs, i, v) == v.status = "accepted" => \E k \in DOMAIN vs : vs[k] = Passing(i, v)

AcceptedInv ==
    /\ \A i \in DOMAIN dur.reviews : Backed(dur.verifs, i, dur.reviews[i])
    /\ \A n \in 1..Len(todo) : todo[n].event.type \in ReviewTypes =>
          \/ Backed(dur.verifs, todo[n].event.id, todo[n].event.review)
          \/ /\ n = 2 /\ todo[1].event.type = "verification.recorded"
             /\ todo[1].event.verification = Passing(todo[2].event.id, todo[2].event.review)

LEMMA BackedGrows ==
  ASSUME NEW vs, IsSequence(vs), NEW a, NEW i, NEW v
  PROVE  /\ Backed(vs, i, v) => Backed(Append(vs, a), i, v)
         /\ a = Passing(i, v) => Backed(Append(vs, a), i, v)
  <1> DEFINE ws == Append(vs, a)
  <1>1. /\ DOMAIN vs = 1..Len(vs) /\ Len(vs) \in Nat /\ DOMAIN ws = 1..Len(vs) + 1
        /\ \A k \in DOMAIN vs : ws[k] = vs[k]
        /\ ws[Len(vs) + 1] = a
    BY AppendFacts
  <1> HIDE DEF ws
  <1>2. DOMAIN vs \subseteq DOMAIN ws /\ Len(vs) + 1 \in DOMAIN ws
    BY <1>1
  <1>3. /\ Backed(vs, i, v) => Backed(ws, i, v)
        /\ a = Passing(i, v) => Backed(ws, i, v)
    BY <1>1, <1>2 DEF Backed
  <1> QED
    BY <1>3 DEF ws

LEMMA AcceptedInit == Init => AcceptedInv
  <1> SUFFICES ASSUME Init PROVE AcceptedInv
    OBVIOUS
  <1>1. dur.reviews = <<>> /\ todo = <<>>
    BY DEF Init, Began, Empty
  <1>2. Len(todo) = 0 /\ DOMAIN dur.reviews = {}
    BY <1>1, ShortSequences
  <1> QED
    BY <1>2 DEF AcceptedInv

LEMMA PersistAccepted ==
  ASSUME TypeInv, AcceptedInv, Persist
  PROVE  AcceptedInv'
  <1> DEFINE e == todo[1].event
             vs == dur.verifs
             ws == dur'.verifs
  <1>1. /\ Len(todo) \in Nat \ {0} /\ Len(todo') = Len(todo) - 1 /\ 1 \in 1..Len(todo)
        /\ \A n \in 1..Len(todo') : n + 1 \in 1..Len(todo) /\ todo'[n] = todo[n + 1]
    BY PersistFacts
  <1>2. IsProjection(dur) /\ IsEvent(e) /\ dur' = ReplayEvent(dur, e)
    BY PersistFacts
  <1>3. /\ dur'.reviews = IF e.type \in ReviewTypes THEN Put(dur.reviews, e.id, e.review)
                          ELSE dur.reviews
        /\ ws = IF e.type = "verification.recorded" THEN Append(vs, e.verification) ELSE vs
    BY <1>2, ReplayFacts
  <1>4. IsSequence(vs)
    BY <1>2 DEF IsProjection
  <1>5. e.type \in ReviewTypes => Backed(vs, e.id, e.review)
    BY <1>1 DEF AcceptedInv
  <1>6. \A i \in DOMAIN dur.reviews : Backed(vs, i, dur.reviews[i])
    BY DEF AcceptedInv
  <1>7. ASSUME NEW n \in 1..Len(todo'), todo'[n].event.type \in ReviewTypes
        PROVE  \/ Backed(vs, todo'[n].event.id, todo'[n].event.review)
               \/ /\ e.type = "verification.recorded"
                  /\ e.verification = Passing(todo'[n].event.id, todo'[n].event.review)
    BY <1>1, <1>7 DEF AcceptedInv
  <1> HIDE DEF e, vs, ws
  <1>8. \A i, v : Backed(vs, i, v) => Backed(ws, i, v)
    BY <1>3, <1>4, BackedGrows
  <1>9. \A i, v : e.type = "verification.recorded" /\ e.verification = Passing(i, v) =>
           Backed(ws, i, v)
    BY <1>3, <1>4, BackedGrows
  <1>10. \A i \in DOMAIN dur'.reviews : Backed(ws, i, dur'.reviews[i])
    BY <1>3, <1>5, <1>6, <1>8 DEF Put
  <1>11. \A n \in 1..Len(todo') : todo'[n].event.type \in ReviewTypes =>
            Backed(ws, todo'[n].event.id, todo'[n].event.review)
    BY <1>7, <1>8, <1>9
  <1> QED
    BY <1>10, <1>11 DEF AcceptedInv, ws

LEMMA EndsAccepted ==
  ASSUME AcceptedInv, todo' = <<>>, dur'.reviews = dur.reviews, dur'.verifs = dur.verifs
  PROVE  AcceptedInv'
  <1>1. Len(todo') = 0
    BY ShortSequences
  <1> QED
    BY <1>1 DEF AcceptedInv

LEMMA HandleAccepted ==
  ASSUME TypeInv, AcceptedInv, NEW r \in Request, NEW q \in Asks(r), Handle(r, q)
  PROVE  AcceptedInv'
  <1>1. CASE Repeat(r) \/ Refuse(r)
    BY <1>1, EndsAccepted DEF Repeat, Refuse, Serve
  <1>2. ASSUME NEW w, NEW m, Serve(r, m, <<w>>, "done"),
               w.event.type \in ReviewTypes => w.event.review.status # "accepted"
        PROVE  AcceptedInv'
    <2>1. dur' = dur /\ \A n \in 1..Len(todo') : todo'[n] = w
      BY <1>2, ServeOneFacts
    <2> QED
      BY <1>2, <2>1 DEF AcceptedInv, Backed
  <1>3. ASSUME NEW t, NEW a, NEW w, OwnerChanged(r, t, a, w) PROVE AcceptedInv'
    <2>1. w.event.type \notin ReviewTypes /\ Serve(r, mem', <<w>>, "done")
      BY <1>3, OwnerChangedFacts
    <2> QED
      BY <1>2, <2>1
  <1>4. ASSUME NEW t, NEW id, NEW v, NEW w, ReviewChanged(r, t, id, v, w) PROVE AcceptedInv'
    <2>1. w.event.review = v /\ v.status # "accepted" /\ Serve(r, w.mem, <<w>>, "done")
      BY <1>4, ReviewWriteFacts DEF ReviewChanged
    <2> QED
      BY <1>2, <2>1
  <1>5. ASSUME NEW v, NEW w, Blocked(r, v, w) PROVE AcceptedInv'
    <2>1. w.event.type \notin ReviewTypes /\ Serve(r, w.mem, <<w>>, "done")
      BY <1>5, BlockedFacts
    <2> QED
      BY <1>2, <2>1
  <1>6. ASSUME NEW i, NEW v, NEW x, NEW m, NEW w1, NEW w2, Passed(r, i, v, x, m, w1, w2)
        PROVE  AcceptedInv'
    <2>1. /\ w1.event.type = "verification.recorded" /\ w1.event.verification = v
          /\ w1.event.type \notin ReviewTypes
          /\ w2.event.id = i /\ w2.event.review = x
          /\ Serve(r, m, <<w1, w2>>, "done")
      BY <1>6, PassedFacts
    <2>2. v = Passing(i, x)
      BY <1>6 DEF Passed, Passing
    <2>3. /\ dur' = dur /\ todo'[1] = w1 /\ todo'[2] = w2
          /\ \A n \in 1..Len(todo') : (n = 1 /\ todo'[n] = w1) \/ (n = 2 /\ todo'[n] = w2)
      BY <2>1, ServeTwoFacts
    <2>4. \A n \in 1..Len(todo') : todo'[n].event.type \in ReviewTypes =>
            /\ n = 2 /\ todo'[1].event.type = "verification.recorded"
            /\ todo'[1].event.verification = Passing(todo'[2].event.id, todo'[2].event.review)
      BY <2>1, <2>2, <2>3
    <2> QED
      BY <2>3, <2>4 DEF AcceptedInv
  <1> QED
    BY <1>1, <1>3, <1>4, <1>5, <1>6, HandleCases

LEMMA AcceptedStep == TypeInv /\ AcceptedInv /\ [Next]_vars => AcceptedInv'
  <1> SUFFICES ASSUME TypeInv, AcceptedInv, [Next]_vars PROVE AcceptedInv'
    OBVIOUS
  <1>1. CASE Persist
    BY <1>1, PersistAccepted
  <1>2. CASE RefusedByCapacity \/ Answer \/ Crash
    BY <1>2, EndsAccepted DEF RefusedByCapacity, Answer, Crash
  <1>3. CASE \E r \in Request : \E q \in Asks(r) : Handle(r, q)
    BY <1>3, HandleAccepted
  <1>4. CASE \E e \in DOMAIN RegionOf : \E s \in {"pass", "fail"} : Observes(e, s)
    BY <1>4, ObservesFacts, EndsAccepted
  <1>5. CASE UNCHANGED vars
    BY <1>5 DEF vars, AcceptedInv
  <1> QED
    BY <1>1, <1>2, <1>3, <1>4, <1>5, StepCases

\* Whatever crashes or refused appends came between the two frames of a passed
\* verification, a review that the journal says is accepted has that verification
\* in the journal, made by its owner (evidence/verifier.py).
THEOREM AcceptedAlwaysVerified == Spec => []AcceptedIsVerified
  <1>1. AcceptedInv => AcceptedIsVerified
    BY DEF AcceptedInv, AcceptedIsVerified, Backed, Passing
  <1> QED
    BY TypeInit, TypeStep, AcceptedInit, AcceptedStep, <1>1, PTL DEF Spec

-----------------------------------------------------------------------------
(* PassesUnderOwner.  The service's assignment runs ahead of the Store's only    *)
(* while the append of a change of owner is still to be made, and stays ahead    *)
(* when that append is refused.  After one refusal at most one of the two is     *)
(* active where they differ: a change of owner begins with no owner or leaves    *)
(* none.                                                                      *)

BothActive(a, b) == a.status = "active" /\ b.status = "active"
Agree(k, a, b) ==
    /\ k = 0 => a = b
    /\ k = 1 => a = b \/ ~BothActive(a, b)

OwnInv ==
    /\ refusals \in Nat
    /\ dur.own = dur.assign /\ mem.assign = dur.assign
    /\ \A n \in 1..Len(todo) : todo[n].event.type \in OwnerTypes =>
          /\ Len(todo) = 1
          /\ todo[n].mem.own = todo[n].event.assignment
          /\ todo[n].mem.assign = todo[n].event.assignment
          /\ refusals = 0 => ~BothActive(mem.own, dur.assign)
    /\ \A n \in 1..Len(todo) : todo[n].event.type \notin OwnerTypes =>
          todo[n].mem.own = mem.own /\ todo[n].mem.assign = mem.assign
    /\ (\A n \in 1..Len(todo) : todo[n].event.type \notin OwnerTypes) =>
          Agree(refusals, mem.own, dur.assign)

\* What a passed verification that is still to be appended may count on.
Held(v) ==
    /\ dur.assign.status = "active" /\ dur.assign.owner = v.verifier
    /\ refusals < 2 => Within(mem.reviews[v.review].regions, dur.assign.regions)

PassInv ==
    \A n \in 1..Len(todo) :
        /\ todo[n].event.type = "verification.recorded"
        /\ todo[n].event.verification.status = "passed"
        => n = 1 /\ Held(todo[n].event.verification)

LEMMA OwnInit == Init => OwnInv /\ PassInv
  <1> SUFFICES ASSUME Init PROVE OwnInv /\ PassInv
    OBVIOUS
  <1>1. mem = Empty /\ dur = mem /\ todo = <<>> /\ refusals = 0
    BY DEF Init, Began
  <1>2. Len(todo) = 0 /\ Empty.own = Empty.assign
    BY <1>1, ShortSequences DEF Empty
  <1> QED
    BY <1>1, <1>2 DEF OwnInv, PassInv, Agree

LEMMA PersistOwn ==
  ASSUME TypeInv, OwnInv, PassInv, Persist
  PROVE  OwnInv' /\ PassInv'
  <1> DEFINE e == todo[1].event
             m == todo[1].mem
  <1>1. /\ Len(todo) \in Nat \ {0} /\ Len(todo') = Len(todo) - 1 /\ 1 \in 1..Len(todo)
        /\ \A n \in 1..Len(todo') : n + 1 \in 1..Len(todo) /\ n + 1 # 1 /\ todo'[n] = todo[n + 1]
        /\ mem' = m /\ refusals' = refusals
    BY PersistFacts
  <1>2. IsProjection(dur) /\ IsEvent(e) /\ dur' = ReplayEvent(dur, e)
    BY PersistFacts
  <1>3. /\ dur'.own = IF e.type \in OwnerTypes THEN e.assignment ELSE dur.own
        /\ dur'.assign = IF e.type \in OwnerTypes THEN e.assignment ELSE dur.assign
    BY <1>2, ReplayFacts
  <1>4. PassInv'
    BY <1>1 DEF PassInv
  <1>5. /\ e.type \in OwnerTypes =>
              Len(todo) = 1 /\ m.own = e.assignment /\ m.assign = e.assignment
        /\ e.type \notin OwnerTypes => m.own = mem.own /\ m.assign = mem.assign
        /\ refusals \in Nat /\ dur.own = dur.assign /\ mem.assign = dur.assign
    BY <1>1 DEF OwnInv
  <1>6. CASE e.type \in OwnerTypes
    <2>1. Len(todo') = 0 /\ mem'.own = dur'.assign /\ mem'.assign = dur'.assign /\ dur'.own = dur'.assign
      BY <1>1, <1>3, <1>5, <1>6
    <2> HIDE DEF e, m
    <2>2. OwnInv'
      <3>1. 1..Len(todo') = {} /\ refusals' \in Nat /\ mem'.own = dur'.assign
        <4>1. 1..Len(todo') = {}
          BY <2>1
        <4>2. refusals' \in Nat
          BY <1>1, <1>5
        <4> QED
          BY <2>1, <4>1, <4>2
      <3>2. Agree(refusals', mem'.own, dur'.assign)
        BY <3>1 DEF Agree
      <3> QED
        BY <2>1, <3>1, <3>2 DEF OwnInv
    <2> QED
      BY <1>4, <2>2
  <1>7. CASE e.type \notin OwnerTypes
    <2>1. \A n \in 1..Len(todo) : todo[n].event.type \notin OwnerTypes
      <3> SUFFICES ASSUME NEW n \in 1..Len(todo), todo[n].event.type \in OwnerTypes PROVE FALSE
        OBVIOUS
      <3>1. Len(todo) = 1
        BY DEF OwnInv
      <3> QED
        BY <1>7, <3>1
    <2>2. Agree(refusals, mem.own, dur.assign)
      BY <2>1 DEF OwnInv
    <2>3. /\ mem'.own = mem.own /\ mem'.assign = mem.assign
          /\ dur'.own = dur.own /\ dur'.assign = dur.assign
      BY <1>1, <1>3, <1>5, <1>7
    <2>4. ASSUME NEW n \in 1..Len(todo')
          PROVE  /\ todo'[n].event.type \notin OwnerTypes
                 /\ todo'[n].mem.own = mem.own /\ todo'[n].mem.assign = mem.assign
      BY <1>1, <2>1 DEF OwnInv
    <2> HIDE DEF e, m
    <2>5. OwnInv'
      BY <1>1, <1>5, <2>2, <2>3, <2>4 DEF OwnInv
    <2> QED
      BY <1>4, <2>5
  <1> QED
    BY <1>6, <1>7

LEMMA RefusedOwn ==
  ASSUME OwnInv, RefusedByCapacity
  PROVE  OwnInv' /\ PassInv'
  <1>1. todo' = <<>> /\ mem' = mem /\ dur' = dur /\ refusals' = refusals + 1
    BY DEF RefusedByCapacity
  <1>2. Len(todo') = 0
    BY <1>1, ShortSequences
  <1>3. refusals \in Nat
    BY DEF OwnInv
  <1>4. refusals = 0 => mem.own = dur.assign \/ ~BothActive(mem.own, dur.assign)
    BY DEF OwnInv, Agree
  <1>5. Agree(refusals', mem'.own, dur'.assign)
    BY <1>1, <1>3, <1>4 DEF Agree
  <1> QED
    BY <1>1, <1>2, <1>3, <1>5 DEF OwnInv, PassInv

\* Nothing is to be appended, and nothing has changed of the owners.
LEMMA EndsOwn ==
  ASSUME OwnInv, todo' = <<>>, refusals' = refusals, dur'.own = dur.own, dur'.assign = dur.assign,
         \/ mem'.own = dur.own /\ mem'.assign = dur.assign
         \/ todo = <<>> /\ mem'.own = mem.own /\ mem'.assign = mem.assign
  PROVE  OwnInv' /\ PassInv'
  <1>1. Len(todo') = 0
    BY ShortSequences
  <1>2. todo = <<>> => Agree(refusals, mem.own, dur.assign)
    <2>1. todo = <<>> => Len(todo) = 0
      BY ShortSequences
    <2> QED
      BY <2>1 DEF OwnInv
  <1>3. Agree(refusals', mem'.own, dur'.assign)
    BY <1>2 DEF Agree, OwnInv
  <1> QED
    BY <1>1, <1>3 DEF OwnInv, PassInv

LEMMA HandleOwn ==
  ASSUME TypeInv, OwnInv, NEW r \in Request, NEW q \in Asks(r), Handle(r, q)
  PROVE  OwnInv' /\ PassInv'
  <1>1. todo = <<>>
    BY DEF Handle, Idle, TypeInv
  <1>2. Agree(refusals, mem.own, dur.assign) /\ refusals \in Nat
    <2>1. Len(todo) = 0
      BY <1>1, ShortSequences
    <2> QED
      BY <2>1 DEF OwnInv
  <1>3. dur.own = dur.assign /\ mem.assign = dur.assign
    BY DEF OwnInv
  <1>4. CASE Repeat(r) \/ Refuse(r)
    <2>1. todo' = <<>> /\ refusals' = refusals /\ dur' = dur /\ mem' = mem
      BY <1>4 DEF Repeat, Refuse, Serve
    <2> QED
      BY <1>1, <2>1, EndsOwn
  <1>5. ASSUME NEW t, NEW a, NEW w, OwnerChanged(r, t, a, w) PROVE OwnInv' /\ PassInv'
    <2>1. /\ w.event.type \in OwnerTypes /\ w.event.assignment = a
          /\ w.event.type # "verification.recorded"
          /\ w.mem = WithOwner(mem, a) /\ mem'.own = a /\ mem'.assign = mem.assign
          /\ ~BothActive(a, mem.own)
          /\ Serve(r, mem', <<w>>, "done")
      BY <1>5, OwnerChangedFacts DEF BothActive
    <2>2. w.mem.own = a /\ w.mem.assign = a
      BY <2>1, WithOwnerFacts DEF TypeInv
    <2>3. /\ dur' = dur /\ refusals' = refusals /\ Len(todo') = 1
          /\ \A n \in 1..Len(todo') : n = 1 /\ todo'[n] = w
      BY <2>1, ServeOneFacts
    <2>4. refusals = 0 => ~BothActive(mem'.own, dur.assign)
      BY <1>2, <2>1 DEF Agree
    <2>5. 1 \in 1..Len(todo') /\ todo'[1].event.type \in OwnerTypes
      BY <2>1, <2>3
    <2>6. OwnInv'
      BY <1>2, <1>3, <2>1, <2>2, <2>3, <2>4, <2>5 DEF OwnInv
    <2> QED
      BY <2>1, <2>3, <2>6 DEF PassInv
  <1>6. ASSUME NEW w, NEW m, w.event.type \notin OwnerTypes, Serve(r, m, <<w>>, "done"),
               w.event.type = "verification.recorded" => w.event.verification.status # "passed",
               m.own = mem.own, m.assign = mem.assign, w.mem.own = mem.own, w.mem.assign = mem.assign
        PROVE  OwnInv' /\ PassInv'
    <2>1. /\ mem' = m /\ dur' = dur /\ refusals' = refusals
          /\ \A n \in 1..Len(todo') : n = 1 /\ todo'[n] = w
      BY <1>6, ServeOneFacts
    <2> QED
      BY <1>2, <1>3, <1>6, <2>1 DEF OwnInv, PassInv
  <1>7. ASSUME NEW t, NEW id, NEW v, NEW w, ReviewChanged(r, t, id, v, w) PROVE OwnInv' /\ PassInv'
    <2>1. /\ w.event.type \notin OwnerTypes /\ w.event.type # "verification.recorded"
          /\ w.mem.own = mem.own /\ w.mem.assign = mem.assign
          /\ Serve(r, w.mem, <<w>>, "done")
      BY <1>7, ReviewWriteFacts
    <2> QED
      BY <1>6, <2>1
  <1>8. ASSUME NEW v, NEW w, Blocked(r, v, w) PROVE OwnInv' /\ PassInv'
    <2>1. /\ w.event.type \notin OwnerTypes /\ w.event.verification = v /\ v.status # "passed"
          /\ w.mem.own = mem.own /\ w.mem.assign = mem.assign
          /\ Serve(r, w.mem, <<w>>, "done")
      BY <1>8, BlockedFacts DEF Blocked
    <2> QED
      BY <1>6, <2>1
  <1>9. ASSUME NEW i, NEW v, NEW x, NEW m, NEW w1, NEW w2, Passed(r, i, v, x, m, w1, w2)
        PROVE  OwnInv' /\ PassInv'
    <2>1. /\ w1.event.verification = v /\ w1.event.type \notin OwnerTypes
          /\ w2.event.type \notin OwnerTypes /\ w2.event.type # "verification.recorded"
          /\ m.own = mem.own /\ m.assign = mem.assign /\ m.reviews = mem.reviews
          /\ w2.mem = w1.mem /\ w1.mem.own = mem.own /\ w1.mem.assign = mem.assign
          /\ Serve(r, m, <<w1, w2>>, "done")
      BY <1>9, PassedFacts
    <2>2. /\ mem' = m /\ dur' = dur /\ refusals' = refusals
          /\ \A n \in 1..Len(todo') : (n = 1 /\ todo'[n] = w1) \/ (n = 2 /\ todo'[n] = w2)
      BY <2>1, ServeTwoFacts
    <2>3. OwnInv'
      BY <1>2, <1>3, <2>1, <2>2 DEF OwnInv
    <2>4. v.review = i /\ dur.assign.status = "active" /\ dur.assign.owner = v.verifier
      BY <1>3, <1>9 DEF Passed
    <2>5. mem.own.status = "active" /\ Within(mem.reviews[i].regions, mem.own.regions)
      BY <1>9 DEF Passed, WriteAllowedTo
    <2>6. refusals < 2 => mem.own = dur.assign
      BY <1>2, <2>4, <2>5 DEF Agree, BothActive
    <2>7. Held(v)'
      BY <2>1, <2>2, <2>4, <2>5, <2>6 DEF Held
    <2>8. PassInv'
      BY <2>1, <2>2, <2>7 DEF PassInv
    <2> QED
      BY <2>3, <2>8
  <1> QED
    BY <1>4, <1>5, <1>7, <1>8, <1>9, HandleCases

LEMMA OwnStep == TypeInv /\ OwnInv /\ PassInv /\ [Next]_vars => OwnInv' /\ PassInv'
  <1> SUFFICES ASSUME TypeInv, OwnInv, PassInv, [Next]_vars PROVE OwnInv' /\ PassInv'
    OBVIOUS
  <1>1. CASE Persist
    BY <1>1, PersistOwn
  <1>2. CASE RefusedByCapacity
    BY <1>2, RefusedOwn
  <1>3. CASE Answer
    <2>1. todo = <<>> /\ UNCHANGED <<todo, refusals, mem, dur>>
      BY <1>3 DEF Answer
    <2> QED
      BY <2>1, EndsOwn
  <1>4. CASE Crash
    <2>1. todo' = <<>> /\ UNCHANGED <<refusals, dur>> /\ mem' = dur
      BY <1>4 DEF Crash
    <2> QED
      BY <2>1, EndsOwn
  <1>5. CASE \E r \in Request : \E q \in Asks(r) : Handle(r, q)
    BY <1>5, HandleOwn
  <1>6. CASE \E e \in DOMAIN RegionOf : \E s \in {"pass", "fail"} : Observes(e, s)
    BY <1>6, ObservesFacts, EndsOwn
  <1>7. CASE UNCHANGED vars
    BY <1>7 DEF vars, OwnInv, PassInv, Held
  <1> QED
    BY <1>1, <1>2, <1>3, <1>4, <1>5, <1>6, <1>7, StepCases

\* Only an append makes the verifications of the journal more.
LEMMA VerifiedByPersist ==
  ASSUME TypeInv, [Next]_vars, Len(dur'.verifs) > Len(dur.verifs)
  PROVE  /\ Persist /\ 1 \in 1..Len(todo) /\ todo[1].event.type = "verification.recorded"
         /\ Last(dur'.verifs) = todo[1].event.verification
  <1>1. IsSequence(dur.verifs) /\ Len(dur.verifs) \in Nat
    BY AppendFacts DEF TypeInv, IsProjection
  <1>2. dur'.verifs # dur.verifs
    BY <1>1
  <1>3. Persist
    <2>1. CASE RefusedByCapacity \/ Answer \/ Crash
      BY <1>2, <2>1 DEF RefusedByCapacity, Answer, Crash
    <2>2. CASE \E r \in Request : \E q \in Asks(r) : Handle(r, q)
      <3>1. dur' = dur
        BY <2>2, HandleCases DEF Repeat, Refuse, OwnerChanged, ReviewChanged, Blocked, Passed, Serve
      <3> QED
        BY <1>2, <3>1
    <2>3. CASE \E e \in DOMAIN RegionOf : \E s \in {"pass", "fail"} : Observes(e, s)
      BY <1>2, <2>3, ObservesFacts
    <2>4. CASE UNCHANGED vars
      BY <1>2, <2>4 DEF vars
    <2> QED
      BY <2>1, <2>2, <2>3, <2>4, StepCases
  <1> DEFINE e == todo[1].event
  <1>4. /\ IsProjection(dur) /\ IsEvent(e) /\ dur' = ReplayEvent(dur, e)
        /\ 1 \in 1..Len(todo)
    BY <1>3, PersistFacts
  <1>5. dur'.verifs = IF e.type = "verification.recorded" THEN Append(dur.verifs, e.verification)
                     ELSE dur.verifs
    BY <1>4, ReplayFacts
  <1>6. e.type = "verification.recorded" /\ dur'.verifs = Append(dur.verifs, e.verification)
    BY <1>2, <1>5
  <1>7. Last(dur'.verifs) = e.verification
    BY <1>1, <1>6, AppendFacts
  <1> QED
    BY <1>3, <1>4, <1>6, <1>7

\* A verification passes only while the journal says its verifier owns the child,
\* and until a second append is refused also everything reviewed, though a handler
\* reads memory (evidence/verifier.py, verify).
THEOREM AlwaysPassesUnderOwner == Spec => PassesUnderOwner
  <1> DEFINE Pass ==
        Len(dur'.verifs) > Len(dur.verifs) /\ Last(dur'.verifs).status = "passed" =>
          LET v == Last(dur'.verifs)
          IN /\ dur.assign.status = "active"
             /\ dur.assign.owner = v.verifier
             /\ refusals < 2 =>
                   Within(mem.reviews[v.review].regions, dur.assign.regions)
  <1>1. TypeInv /\ OwnInv /\ PassInv /\ [Next]_vars => Pass
    BY VerifiedByPersist DEF PassInv, Held
  <1>2. TypeInv /\ OwnInv /\ PassInv /\ [Next]_vars => [Pass]_vars
    BY <1>1
  <1> QED
    BY TypeInit, TypeStep, OwnInit, OwnStep, <1>2, PTL DEF Spec, PassesUnderOwner

-----------------------------------------------------------------------------
(* OwnershipIsReplay.  What a handler leaves in memory is what its appends give  *)
(* when they are replayed, one after the other; and no owner is changed by an   *)
(* event that the rebuild would refuse.                                        *)

ReplayInv == refusals = 0 =>
    /\ ~dur.broken
    /\ Len(todo) = 0 => mem = dur
    /\ Len(todo) <= 2
    /\ Len(todo) = 1 => todo[1].mem = ReplayEvent(dur, todo[1].event)
    /\ Len(todo) = 2 =>
          todo[2].mem = ReplayEvent(ReplayEvent(dur, todo[1].event), todo[2].event)
    /\ \A n \in 1..Len(todo) : todo[n].event.type \in OwnerTypes =>
          Len(todo) = 1 /\ ~Conflicts(dur, todo[n].event)

LEMMA ReplayInit == Init => ReplayInv
  <1> SUFFICES ASSUME Init PROVE ReplayInv
    OBVIOUS
  <1>1. mem = Empty /\ dur = mem /\ todo = <<>>
    BY DEF Init, Began
  <1>2. Len(todo) = 0 /\ ~Empty.broken
    BY <1>1, ShortSequences DEF Empty
  <1> QED
    BY <1>1, <1>2 DEF ReplayInv

LEMMA PersistReplay ==
  ASSUME TypeInv, ReplayInv, Persist
  PROVE  ReplayInv'
  <1> SUFFICES ASSUME refusals = 0 PROVE ReplayInv'
    BY PersistFacts DEF ReplayInv
  <1> DEFINE e == todo[1].event
  <1>1. /\ Len(todo) \in Nat \ {0} /\ Len(todo') = Len(todo) - 1 /\ 1 \in 1..Len(todo)
        /\ \A n \in 1..Len(todo') : n + 1 \in 1..Len(todo) /\ todo'[n] = todo[n + 1]
        /\ mem' = todo[1].mem /\ refusals' = refusals
    BY PersistFacts
  <1>2. IsProjection(dur) /\ IsEvent(e) /\ dur' = ReplayEvent(dur, e)
    BY PersistFacts
  <1>3. dur'.broken = (dur.broken \/ (e.type \in OwnerTypes /\ Conflicts(dur, e)))
    BY <1>2, ReplayFacts
  <1>4. ~dur'.broken
    <2>1. ~dur.broken /\ (e.type \in OwnerTypes => ~Conflicts(dur, e))
      BY <1>1 DEF ReplayInv
    <2> HIDE DEF e
    <2> QED
      BY <1>3, <2>1
  <1>5. CASE Len(todo) = 1
    <2>1. Len(todo') = 0 /\ mem' = dur'
      BY <1>1, <1>2, <1>5 DEF ReplayInv
    <2>2. 1..Len(todo') = {}
      BY <2>1
    <2> QED
      BY <1>4, <2>1, <2>2 DEF ReplayInv
  <1>6. CASE Len(todo) = 2
    <2>1. Len(todo') = 1 /\ 1 \in 1..Len(todo') /\ todo'[1] = todo[2] /\ 2 \in 1..Len(todo)
      BY <1>1, <1>6
    <2>2. todo'[1].mem = ReplayEvent(dur', todo'[1].event)
      BY <1>2, <1>6, <2>1 DEF ReplayInv
    <2>3. \A n \in 1..Len(todo') : n = 1
      BY <2>1
    <2>4. todo'[1].event.type \notin OwnerTypes
      BY <1>6, <2>1 DEF ReplayInv
    <2> QED
      BY <1>4, <2>1, <2>2, <2>3, <2>4 DEF ReplayInv
  <1>7. Len(todo) <= 2
    BY DEF ReplayInv
  <1> QED
    BY <1>1, <1>5, <1>6, <1>7

LEMMA EndsReplay ==
  ASSUME ReplayInv, todo' = <<>>, dur' = dur, refusals' = refusals,
         mem' = dur \/ (todo = <<>> /\ mem' = mem)
  PROVE  ReplayInv'
  <1>1. Len(todo') = 0 /\ (todo = <<>> => Len(todo) = 0)
    BY ShortSequences
  <1>2. 1..Len(todo') = {}
    BY <1>1
  <1> QED
    BY <1>1, <1>2 DEF ReplayInv

LEMMA HandleReplay ==
  ASSUME TypeInv, ReplayInv, NEW r \in Request, NEW q \in Asks(r), Handle(r, q)
  PROVE  ReplayInv'
  <1>1. todo = <<>> /\ Len(todo) = 0
    BY ShortSequences DEF Handle, Idle, TypeInv
  <1>2. CASE Repeat(r) \/ Refuse(r)
    BY <1>1, <1>2, EndsReplay DEF Repeat, Refuse, Serve
  <1>3. IsProjection(mem) /\ IsProjection(dur)
    BY DEF TypeInv
  <1>4. refusals = 0 => mem = dur /\ ~dur.broken
    BY <1>1 DEF ReplayInv
  <1>5. ASSUME NEW w, NEW m, Serve(r, m, <<w>>, "done"),
               refusals = 0 => /\ w.mem = ReplayEvent(dur, w.event)
                               /\ w.event.type \in OwnerTypes => ~Conflicts(dur, w.event)
        PROVE  ReplayInv'
    <2>1. /\ dur' = dur /\ refusals' = refusals /\ Len(todo') = 1 /\ todo'[1] = w
          /\ \A n \in 1..Len(todo') : n = 1 /\ todo'[n] = w
      BY <1>5, ServeOneFacts
    <2> QED
      BY <1>4, <1>5, <2>1 DEF ReplayInv
  <1>6. ASSUME NEW t, NEW a, NEW w, OwnerChanged(r, t, a, w) PROVE ReplayInv'
    <2>1. /\ w.event.type \in OwnerTypes /\ w.event.assignment = a
          /\ w.mem = WithOwner(mem, a) /\ ~Conflicts(mem, w.event)
          /\ Serve(r, mem', <<w>>, "done")
      BY <1>6, OwnerChangedFacts
    <2>2. ASSUME refusals = 0 PROVE w.mem = ReplayEvent(dur, w.event) /\ ~Conflicts(dur, w.event)
      <3> DEFINE p == WithOwner(dur, a)
                 n == ReplayEvent(dur, w.event)
      <3>1. p = [own |-> a, assign |-> a, broken |-> dur.broken,
                 evidence |-> dur.evidence, reviews |-> dur.reviews, verifs |-> dur.verifs]
        BY <1>3, WithOwnerFacts
      <3>2. n = [p EXCEPT !.broken = @ \/ Conflicts(dur, w.event)]
        BY <2>1, ReplayCases
      <3>3. mem = dur /\ dur.broken = FALSE /\ Conflicts(dur, w.event) = FALSE
        BY <1>3, <1>4, <2>1, <2>2 DEF IsProjection, Conflicts
      <3> HIDE DEF p, n
      <3>4. n = [p EXCEPT !.broken = FALSE]
        BY <3>1, <3>2, <3>3
      <3>5. n = p
        <4>1. p = [own |-> a, assign |-> a, broken |-> FALSE,
                   evidence |-> dur.evidence, reviews |-> dur.reviews, verifs |-> dur.verifs]
          BY <3>1, <3>3
        <4>2. n = [own |-> a, assign |-> a, broken |-> FALSE,
                   evidence |-> dur.evidence, reviews |-> dur.reviews, verifs |-> dur.verifs]
          BY <3>4, <4>1
        <4> QED
          BY <4>1, <4>2
      <3> QED
        BY <2>1, <3>3, <3>5 DEF p, n
    <2> QED
      BY <1>5, <2>1, <2>2
  <1>7. ASSUME NEW t, NEW id, NEW v, NEW w, ReviewChanged(r, t, id, v, w) PROVE ReplayInv'
    <2>1. /\ w.event.type \in ReviewTypes /\ w.event.id = id /\ w.event.review = v
          /\ w.event.type \notin OwnerTypes /\ w.mem = WithReview(mem, id, v)
          /\ Serve(r, w.mem, <<w>>, "done")
      BY <1>7, ReviewWriteFacts
    <2>2. refusals = 0 => w.mem = ReplayEvent(dur, w.event)
      BY <1>4, <2>1, ReplayCases
    <2> QED
      BY <1>5, <2>1, <2>2
  <1>8. ASSUME NEW v, NEW w, Blocked(r, v, w) PROVE ReplayInv'
    <2>1. /\ w.event.type = "verification.recorded" /\ w.event.verification = v
          /\ w.event.type \notin OwnerTypes /\ w.mem = WithVerification(mem, v)
          /\ Serve(r, w.mem, <<w>>, "done")
      BY <1>8, BlockedFacts
    <2>2. refusals = 0 => w.mem = ReplayEvent(dur, w.event)
      BY <1>4, <2>1, ReplayCases
    <2> QED
      BY <1>5, <2>1, <2>2
  <1>9. ASSUME NEW i, NEW v, NEW x, NEW m, NEW w1, NEW w2, Passed(r, i, v, x, m, w1, w2)
        PROVE  ReplayInv'
    <2>1. /\ w1.event.type = "verification.recorded" /\ w1.event.verification = v
          /\ w1.event.type \notin OwnerTypes /\ w2.event.type \notin OwnerTypes
          /\ w2.event.type \in ReviewTypes /\ w2.event.id = i /\ w2.event.review = x
          /\ m = WithVerification(mem, v) /\ w1.mem = WithReview(m, i, x) /\ w2.mem = w1.mem
          /\ Serve(r, m, <<w1, w2>>, "done")
      BY <1>9, PassedFacts
    <2>2. refusals = 0 => ReplayEvent(dur, w1.event) = m
      BY <1>4, <2>1, ReplayCases
    <2>3. ReplayEvent(m, w2.event) = w2.mem
      BY <2>1, ReplayCases
    <2>4. /\ dur' = dur /\ refusals' = refusals /\ Len(todo') = 2
          /\ todo'[1] = w1 /\ todo'[2] = w2
          /\ \A n \in 1..Len(todo') : (n = 1 /\ todo'[n] = w1) \/ (n = 2 /\ todo'[n] = w2)
      BY <2>1, ServeTwoFacts
    <2> QED
      BY <1>4, <2>1, <2>2, <2>3, <2>4 DEF ReplayInv
  <1> QED
    BY <1>2, <1>6, <1>7, <1>8, <1>9, HandleCases

LEMMA ReplayStep == TypeInv /\ OwnInv /\ ReplayInv /\ [Next]_vars => ReplayInv'
  <1> SUFFICES ASSUME TypeInv, OwnInv, ReplayInv, [Next]_vars PROVE ReplayInv'
    OBVIOUS
  <1>1. CASE Persist
    BY <1>1, PersistReplay
  <1>2. CASE RefusedByCapacity
    <2>1. refusals' # 0
      BY <1>2 DEF RefusedByCapacity, OwnInv
    <2> QED
      BY <2>1 DEF ReplayInv
  <1>3. CASE Answer \/ Crash
    BY <1>3, EndsReplay DEF Answer, Crash
  <1>4. CASE \E r \in Request : \E q \in Asks(r) : Handle(r, q)
    BY <1>4, HandleReplay
  <1>5. ASSUME NEW e \in DOMAIN RegionOf, NEW s \in {"pass", "fail"}, Observes(e, s)
        PROVE  ReplayInv'
    <2>1. /\ todo' = <<>> /\ todo = <<>> /\ refusals' = refusals /\ dur'.broken = dur.broken
      BY <1>5, ObservesFacts
    <2>2. PICK ev : mem' = ReplayEvent(mem, ev) /\ dur' = ReplayEvent(dur, ev)
      BY <1>5, ObservesFacts
    <2>3. Len(todo) = 0 /\ Len(todo') = 0
      BY <2>1, ShortSequences
    <2>4. 1..Len(todo') = {}
      BY <2>3
    <2> QED
      BY <2>1, <2>2, <2>3, <2>4 DEF ReplayInv
  <1>6. CASE UNCHANGED vars
    BY <1>6 DEF vars, ReplayInv
  <1> QED
    BY <1>1, <1>2, <1>3, <1>4, <1>5, <1>6, StepCases

\* While no append is refused, the service and the Store agree on the owner between
\* requests, and a restart gives the memory back (ownership/persistence.py).
THEOREM OwnershipAlwaysReplays == Spec => []OwnershipIsReplay
  <1>1. TypeInv /\ OwnInv /\ ReplayInv => OwnershipIsReplay
    <2> SUFFICES ASSUME TypeInv, OwnInv, ReplayInv, refusals = 0
                 PROVE  ~dur.broken /\ (Idle => mem.own = mem.assign /\ mem = dur)
      BY DEF OwnershipIsReplay
    <2>1. Idle => Len(todo) = 0
      BY ShortSequences DEF Idle, TypeInv
    <2> QED
      BY <2>1 DEF OwnInv, ReplayInv
  <1> QED
    BY TypeInit, TypeStep, OwnInit, OwnStep, ReplayInit, ReplayStep, <1>1, PTL DEF Spec

-----------------------------------------------------------------------------
(* OneOpenReview.  A submission looks only at the latest review; but a review    *)
(* that is open is the latest one, for each write to a review dates it anew.    *)

IsOpen(v) == v.status \in {"submitted", "accepted"}
Alone(t) == \A i, j \in DOMAIN t : IsOpen(t[i]) /\ i # j => ~IsOpen(t[j]) /\ t[j].at < t[i].at

OpenInv == refusals = 0 =>
    /\ Alone(dur.reviews)
    /\ \A n \in 1..Len(todo) : todo[n].event.type \in ReviewTypes =>
          n = Len(todo) /\ Alone(Put(dur.reviews, todo[n].event.id, todo[n].event.review))

\* The write of a review that is dated last, and is not open or is the only one open.
LEMMA PutAlone ==
  ASSUME NEW t, Alone(t), NEW i, NEW v,
         \A j \in DOMAIN t : t[j].at < v.at,
         \/ i \in DOMAIN t /\ IsOpen(t[i])
         \/ \A j \in DOMAIN t : ~IsOpen(t[j])
  PROVE  Alone(Put(t, i, v))
  <1> DEFINE u == Put(t, i, v)
  <1>1. /\ DOMAIN u = DOMAIN t \cup {i} /\ u[i] = v
        /\ \A j \in DOMAIN t : j # i => u[j] = t[j]
    BY DEF Put
  <1> HIDE DEF u
  <1>2. \A j \in DOMAIN u : j # i => j \in DOMAIN t /\ ~IsOpen(u[j]) /\ u[j].at < v.at
    BY <1>1 DEF Alone
  <1>3. Alone(u)
    BY <1>1, <1>2 DEF Alone
  <1> QED
    BY <1>3 DEF u

LEMMA OpenInit == Init => OpenInv
  <1> SUFFICES ASSUME Init PROVE OpenInv
    OBVIOUS
  <1>1. dur.reviews = <<>> /\ todo = <<>>
    BY DEF Init, Began, Empty
  <1>2. Len(todo) = 0 /\ DOMAIN dur.reviews = {}
    BY <1>1, ShortSequences
  <1> QED
    BY <1>2 DEF OpenInv, Alone

LEMMA PersistOpen ==
  ASSUME TypeInv, OpenInv, Persist
  PROVE  OpenInv'
  <1> DEFINE e == todo[1].event
  <1>1. /\ Len(todo) \in Nat \ {0} /\ Len(todo') = Len(todo) - 1 /\ 1 \in 1..Len(todo)
        /\ \A n \in 1..Len(todo') : n + 1 \in 1..Len(todo) /\ todo'[n] = todo[n + 1]
        /\ refusals' = refusals
    BY PersistFacts
  <1> SUFFICES ASSUME refusals = 0 PROVE OpenInv'
    BY <1>1 DEF OpenInv
  <1>2. IsProjection(dur) /\ IsEvent(e) /\ dur' = ReplayEvent(dur, e)
    BY PersistFacts
  <1>3. dur'.reviews = IF e.type \in ReviewTypes THEN Put(dur.reviews, e.id, e.review)
                       ELSE dur.reviews
    BY <1>2, ReplayFacts
  <1>4. CASE e.type \in ReviewTypes
    <2>1. Len(todo) = 1 /\ Alone(dur'.reviews)
      BY <1>1, <1>3, <1>4 DEF OpenInv
    <2>2. 1..Len(todo') = {}
      BY <1>1, <2>1
    <2> QED
      BY <2>1, <2>2 DEF OpenInv
  <1>5. CASE e.type \notin ReviewTypes
    <2>1. dur'.reviews = dur.reviews
      BY <1>3, <1>5
    <2>2. ASSUME NEW n \in 1..Len(todo'), todo'[n].event.type \in ReviewTypes
          PROVE  /\ n = Len(todo')
                 /\ Alone(Put(dur'.reviews, todo'[n].event.id, todo'[n].event.review))
      <3>1. n + 1 = Len(todo) /\ Alone(Put(dur.reviews, todo[n + 1].event.id, todo[n + 1].event.review))
        BY <1>1, <2>2 DEF OpenInv
      <3>2. n = Len(todo')
        BY <1>1, <3>1
      <3> QED
        BY <1>1, <2>1, <3>1, <3>2
    <2> QED
      BY <2>1, <2>2 DEF OpenInv
  <1> QED
    BY <1>4, <1>5

LEMMA EndsOpen ==
  ASSUME OpenInv, todo' = <<>>, dur'.reviews = dur.reviews, refusals' = 0 => refusals = 0
  PROVE  OpenInv'
  <1>1. Len(todo') = 0
    BY ShortSequences
  <1>2. 1..Len(todo') = {}
    BY <1>1
  <1> QED
    BY <1>2 DEF OpenInv

LEMMA HandleOpen ==
  ASSUME TypeInv, ReplayInv, OpenInv, NEW r \in Request, NEW q \in Asks(r), Handle(r, q)
  PROVE  OpenInv'
  <1>1. Len(todo) = 0
    BY ShortSequences DEF Handle, Idle, TypeInv
  <1>2. CASE Repeat(r) \/ Refuse(r)
    BY <1>2, EndsOpen DEF Repeat, Refuse, Serve
  <1>3. refusals = 0 => mem = dur /\ Alone(dur.reviews)
    BY <1>1 DEF ReplayInv, OpenInv
  <1>4. \A i \in DOMAIN mem.reviews : mem.reviews[i].at < Instant
    BY InstantFacts DEF TypeInv, ReviewIds
  <1>5. ASSUME NEW w, NEW m, Serve(r, m, <<w>>, "done"),
               refusals = 0 /\ w.event.type \in ReviewTypes =>
                  Alone(Put(dur.reviews, w.event.id, w.event.review))
        PROVE  OpenInv'
    <2>1. /\ dur' = dur /\ refusals' = refusals /\ Len(todo') = 1
          /\ \A n \in 1..Len(todo') : n = 1 /\ todo'[n] = w
      BY <1>5, ServeOneFacts
    <2> QED
      BY <1>3, <1>5, <2>1 DEF OpenInv
  <1>6. ASSUME NEW t, NEW a, NEW w, OwnerChanged(r, t, a, w) PROVE OpenInv'
    <2>1. w.event.type \notin ReviewTypes /\ Serve(r, mem', <<w>>, "done")
      BY <1>6, OwnerChangedFacts
    <2> QED
      BY <1>5, <2>1
  <1>7. ASSUME NEW t, NEW id, NEW v, NEW w, ReviewChanged(r, t, id, v, w) PROVE OpenInv'
    <2>1. w.event.id = id /\ w.event.review = v /\ Serve(r, w.mem, <<w>>, "done")
      BY <1>7, ReviewWriteFacts
    <2>2. ASSUME refusals = 0 PROVE Alone(Put(dur.reviews, id, v))
      <3> DEFINE rs == dur.reviews
      <3>1. mem.reviews = rs /\ Alone(rs) /\ v.at = Instant
        BY <1>3, <1>7, <2>2 DEF ReviewChanged
      <3>2. \A j \in DOMAIN rs : rs[j].at < v.at
        BY <1>4, <3>1
      <3>3. CASE id \in ReviewIds /\ mem.reviews[id].status = "submitted"
        <4>1. id \in DOMAIN rs /\ IsOpen(rs[id])
          BY <3>1, <3>3 DEF ReviewIds, IsOpen
        <4> HIDE DEF rs
        <4>2. Alone(Put(rs, id, v))
          BY <3>1, <3>2, <4>1, PutAlone
        <4> QED
          BY <4>2 DEF rs
      <3>4. CASE ~LatestOpen
        <4>1. ASSUME NEW i \in DOMAIN rs, IsOpen(rs[i]) PROVE FALSE
          <5>1. \A j \in DOMAIN rs : rs[j].at \in Nat
            BY DEF TypeInv, IsProjection, IsReview, Review
          <5>2. \A j \in DOMAIN rs : rs[j].at <= rs[i].at
            BY <3>1, <4>1, <5>1 DEF Alone
          <5>3. IsLatest(i) /\ i \in ReviewIds
            BY <3>1, <5>2 DEF IsLatest, ReviewIds
          <5> QED
            BY <3>1, <3>4, <4>1, <5>3 DEF LatestOpen, IsOpen
        <4> HIDE DEF rs
        <4>2. Alone(Put(rs, id, v))
          BY <3>1, <3>2, <4>1, PutAlone
        <4> QED
          BY <4>2 DEF rs
      <3> QED
        BY <1>7, <3>3, <3>4 DEF ReviewChanged
    <2> QED
      BY <1>5, <2>1, <2>2
  <1>8. ASSUME NEW v, NEW w, Blocked(r, v, w) PROVE OpenInv'
    <2>1. w.event.type \notin ReviewTypes /\ Serve(r, w.mem, <<w>>, "done")
      BY <1>8, BlockedFacts
    <2> QED
      BY <1>5, <2>1
  <1>9. ASSUME NEW i, NEW v, NEW x, NEW m, NEW w1, NEW w2, Passed(r, i, v, x, m, w1, w2)
        PROVE  OpenInv'
    <2>1. /\ w1.event.type \notin ReviewTypes
          /\ w2.event.id = i /\ w2.event.review = x
          /\ Serve(r, m, <<w1, w2>>, "done")
      BY <1>9, PassedFacts
    <2>2. ASSUME refusals = 0 PROVE Alone(Put(dur.reviews, i, x))
      <3> DEFINE rs == dur.reviews
      <3>1. mem.reviews = rs /\ Alone(rs) /\ x.at = Instant
        BY <1>3, <1>9, <2>2 DEF Passed
      <3>2. i \in DOMAIN rs /\ IsOpen(rs[i])
        BY <1>9, <3>1 DEF Passed, ReviewIds, IsOpen
      <3>3. \A j \in DOMAIN rs : rs[j].at < x.at
        BY <1>4, <3>1
      <3> HIDE DEF rs
      <3>4. Alone(Put(rs, i, x))
        BY <3>1, <3>2, <3>3, PutAlone
      <3> QED
        BY <3>4 DEF rs
    <2>3. /\ dur' = dur /\ refusals' = refusals /\ Len(todo') = 2
          /\ \A n \in 1..Len(todo') : (n = 1 /\ todo'[n] = w1) \/ (n = 2 /\ todo'[n] = w2)
      BY <2>1, ServeTwoFacts
    <2> QED
      BY <1>3, <2>1, <2>2, <2>3 DEF OpenInv
  <1> QED
    BY <1>2, <1>6, <1>7, <1>8, <1>9, HandleCases

LEMMA OpenStep == TypeInv /\ OwnInv /\ ReplayInv /\ OpenInv /\ [Next]_vars => OpenInv'
  <1> SUFFICES ASSUME TypeInv, OwnInv, ReplayInv, OpenInv, [Next]_vars PROVE OpenInv'
    OBVIOUS
  <1>1. CASE Persist
    BY <1>1, PersistOpen
  <1>2. CASE RefusedByCapacity \/ Answer \/ Crash
    <2>1. refusals \in Nat
      BY DEF OwnInv
    <2>2. refusals' = 0 => refusals = 0
      BY <1>2, <2>1 DEF RefusedByCapacity, Answer, Crash
    <2> QED
      BY <1>2, <2>2, EndsOpen DEF RefusedByCapacity, Answer, Crash
  <1>3. CASE \E r \in Request : \E q \in Asks(r) : Handle(r, q)
    BY <1>3, HandleOpen
  <1>4. CASE \E e \in DOMAIN RegionOf : \E s \in {"pass", "fail"} : Observes(e, s)
    BY <1>4, ObservesFacts, EndsOpen
  <1>5. CASE UNCHANGED vars
    BY <1>5 DEF vars, OpenInv
  <1> QED
    BY <1>1, <1>2, <1>3, <1>4, <1>5, StepCases

\* While no append is refused, a child never has two reviews that are waiting or
\* accepted (ownership/review.py, submit).
THEOREM AlwaysOneOpenReview == Spec => []OneOpenReview
  <1>1. OpenInv => OneOpenReview
    BY DEF OpenInv, OneOpenReview, Alone, IsOpen
  <1> QED
    BY TypeInit, TypeStep, OwnInit, OwnStep, ReplayInit, ReplayStep, OpenInit, OpenStep, <1>1,
       PTL DEF Spec

-----------------------------------------------------------------------------
(* TypeOK *)

RestInv ==
    /\ scenario \in Scenarios
    /\ current \in Request \cup {Nobody}
    /\ recorded \subseteq Request /\ answered \subseteq Request

LEMMA RestStep == TypeInv /\ RestInv /\ [Next]_vars => RestInv'
  <1> SUFFICES ASSUME TypeInv, RestInv, [Next]_vars PROVE RestInv'
    OBVIOUS
  <1>1. scenario' = scenario
    BY DEF Next, FrameStep, Handle, Observes, vars
  <1>2. CASE Persist
    <2>1. current # Nobody
      BY <1>2 DEF Persist, TypeInv
    <2>2. recorded' \subseteq recorded \cup {current} /\ UNCHANGED <<current, answered>>
      BY <1>2, PersistFacts
    <2> QED
      BY <1>1, <2>1, <2>2 DEF RestInv
  <1>3. CASE RefusedByCapacity \/ Answer \/ Crash
    BY <1>1, <1>3 DEF RefusedByCapacity, Answer, Crash, RestInv
  <1>4. ASSUME NEW r \in Request, NEW q \in Asks(r), Handle(r, q) PROVE RestInv'
    <2>1. current' = r /\ UNCHANGED <<recorded, answered>>
      BY <1>4, HandleCases DEF Repeat, Refuse, OwnerChanged, ReviewChanged, Blocked, Passed, Serve
    <2> QED
      BY <1>1, <2>1 DEF RestInv
  <1>5. CASE \E e \in DOMAIN RegionOf : \E s \in {"pass", "fail"} : Observes(e, s)
    BY <1>1, <1>5, ObservesFacts DEF RestInv
  <1>6. CASE UNCHANGED vars
    BY <1>6 DEF vars, RestInv
  <1> QED
    BY <1>2, <1>3, <1>4, <1>5, <1>6, StepCases

\* Assignments and reviews are well formed and within the child's boundary, in
\* memory and in the journal.
THEOREM TypeAlwaysOK == Spec => []TypeOK
  <1>1. Init => RestInv
    BY DEF Init, Began, RestInv
  <1>2. TypeInv /\ RestInv => TypeOK
    <2> SUFFICES ASSUME TypeInv, RestInv, NEW p \in {mem, dur}
                 PROVE  /\ p.own \in Assignment /\ p.assign \in Assignment /\ p.broken \in BOOLEAN
                        /\ Within(p.own.regions \cup p.assign.regions, Boundary)
                        /\ p.evidence \in [DOMAIN RegionOf -> {"missing", "pass", "fail"}]
                        /\ \A i \in DOMAIN p.reviews :
                              p.reviews[i] \in Review /\ Within(p.reviews[i].regions, Boundary)
                        /\ \A i \in DOMAIN p.verifs : p.verifs[i].verifier \in Owner
      BY DEF TypeOK, TypeInv, RestInv
    <2>1. IsProjection(p)
      BY DEF TypeInv
    <2>2. Within(p.own.regions \cup p.assign.regions, Boundary)
      BY <2>1 DEF IsProjection, IsAssignment, Within
    <2> QED
      BY <2>1, <2>2 DEF IsProjection, IsAssignment, IsReview
  <1> QED
    BY TypeInit, TypeStep, RestStep, <1>1, <1>2, PTL DEF Spec
=============================================================================
