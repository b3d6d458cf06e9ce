------------------------------ MODULE Reviews ------------------------------
(***************************************************************************)
(* The ownership of one child task, and the self-reviews of its owner:       *)
(* ownership/boundaries.py, ownership/persistence.py, ownership/review.py,   *)
(* evidence/verifier.py and their handlers in api/app.py.                    *)
(*                                                                         *)
(* The host assigns, releases and transfers owners and rejects reviews       *)
(* through app.state; it has no idempotency keys.  Owners submit reviews and  *)
(* verify them through the API.                                              *)
(***************************************************************************)
EXTENDS Regions, Tables

CONSTANTS
    Request, Nobody, MaxCrash, MaxRefuse,   \* as in Frames
    Owner,      \* agents
    Boundary,   \* the write regions of the child's boundary
    RegionOf,   \* the evidence that may be recorded for the child: id -> its region
    Region,     \* the regions requests name
    Grant,      \* the sets of regions an owner may be assigned
    Reviewed,   \* the sets of regions a review may be about
    Scenarios   \* what a behaviour's requests ask

Operation == {"assign", "release", "transfer", "reject", "submit", "verify"}

\* ask is the operation of each request; appends may be refused if full.
Scenario == [ask : [Request -> Operation \cup {"none"}], full : BOOLEAN]

ASSUME ReviewsAssumption ==
    /\ Boundary # {} /\ Boundary \subseteq Region
    /\ \A e \in DOMAIN RegionOf : RegionOf[e] \in Region
    /\ \A x \in Region : x.sel = "path_prefix" => x.val \in Seq(STRING)
    /\ Grant \subseteq SUBSET Region /\ Reviewed \subseteq SUBSET Region
    /\ MaxCrash \in Nat
    /\ MaxRefuse \in Nat
    /\ Nobody \notin Request
    /\ Scenarios \subseteq Scenario

VARIABLES
    scenario,   \* the scenario of this behaviour
    sent,       \* what each request has asked, or NotSent
    mem, dur, todo, current, reply, recorded, answered, up, crashes, refusals

vars == <<scenario, sent, mem, dur, todo, current, reply, recorded, answered, up, crashes, refusals>>

NotSent == [op |-> "none"]

\* Each region is covered by one of those allowed.
Within(rs, allowed) == \A x \in rs : \E a \in allowed : Covers(a, x)

-----------------------------------------------------------------------------
(* The projection *)

Unassigned == [status |-> "none", owner |-> "none", regions |-> {}, version |-> 0]
Assigned(o, rs) == [status |-> "active", owner |-> o, regions |-> rs, version |-> 1]
Released(a) == [a EXCEPT !.status = "released", !.version = @ + 1]

\* own is the service's assignment of the child, assign the Store's; broken is
\* set when the rebuild of the service meets a stream it refuses.
Empty == [own |-> Unassigned, assign |-> Unassigned, broken |-> FALSE,
          evidence |-> [e \in DOMAIN RegionOf |-> "missing"],
          reviews |-> <<>>,     \* id -> review, in the order of submission
          verifs |-> <<>>]      \* the verifications

OwnerEvent(type, a) == [type |-> type, assignment |-> a]
ReviewEvent(type, id, v) == [type |-> type, id |-> id, review |-> v]
VerificationEvent(v) == [type |-> "verification.recorded", verification |-> v]
EvidenceEvent(e, s) == [type |-> "task.updated", evidence |-> e, status |-> s]

\* PersistentOwnershipBoundaryService._rebuild: is the event refused?
Conflicts(p, e) ==
    IF e.type = "ownership.owner_released"
    THEN p.own.status # "active" \/ p.own.owner # e.assignment.owner
    ELSE p.own.status = "active"

WithOwner(p, a) == [p EXCEPT !.own = a, !.assign = a]
WithReview(p, id, v) == [p EXCEPT !.reviews = Put(@, id, v)]
WithVerification(p, v) == [p EXCEPT !.verifs = Append(@, v)]

\* Store._replay and _rebuild
ReplayEvent(p, e) ==
    CASE e.type \in {"ownership.owner_assigned", "ownership.owner_transferred",
                     "ownership.owner_released"} ->
           [WithOwner(p, e.assignment) EXCEPT !.broken = @ \/ Conflicts(p, e)]
      [] e.type \in {"review.submitted", "review.accepted", "review.rejected"} ->
           WithReview(p, e.id, e.review)
      [] e.type = "verification.recorded" -> WithVerification(p, e.verification)
      [] e.type = "task.updated" -> [p EXCEPT !.evidence[e.evidence] = e.status]

Rebuilds(p) == ~p.broken

INSTANCE Frames WITH Replay <- ReplayEvent, Loads <- Rebuilds

-----------------------------------------------------------------------------
(* Ownership: the service's assignment changes before the append, the Store's *)
(* after it.                                                                 *)

ChangeOwner(r, type, a) ==
    Serve(r, [mem EXCEPT !.own = a],
          <<Write(OwnerEvent(type, a), FALSE, WithOwner(mem, a))>>, "done")

\* A successor gets the child only when nobody has it; transfer does the same.
AssignAnyway(r, q, type) ==
    IF q.regions # {} /\ Within(q.regions, Boundary)
    THEN ChangeOwner(r, type, Assigned(q.owner, q.regions))
    ELSE Refuse(r)
Assign(r, q, type) ==
    IF mem.own.status # "active" /\ q.regions # {} /\ Within(q.regions, Boundary)
    THEN ChangeOwner(r, type, Assigned(q.owner, q.regions))
    ELSE Refuse(r)

Release(r, q) ==
    IF mem.own.status = "active" /\ mem.own.owner = q.owner
    THEN ChangeOwner(r, "ownership.owner_released", Released(mem.own))
    ELSE Refuse(r)

\* assert_write_allowed, for each of the regions
WriteAllowedTo(o, rs) ==
    mem.own.status = "active" /\ mem.own.owner = o /\ Within(rs, mem.own.regions)

-----------------------------------------------------------------------------
(* Reviews and verifications *)

ReviewIds == DOMAIN mem.reviews

\* new_id: no review, verification or request has ever named it.
Named == ReviewIds \cup DOMAIN dur.reviews \cup {mem.verifs[i].review : i \in DOMAIN mem.verifs}
            \cup {sent[r].review : r \in {r \in Request : sent[r].op \in {"reject", "verify"}}}
NewReview == IF Named = {} THEN 1 ELSE Max(Named) + 1

\* Every write to a review is later than the ones before it.
Instant == IF ReviewIds = {} THEN 1 ELSE Max({mem.reviews[i].at : i \in ReviewIds}) + 1

IsLatest(i) == \A j \in ReviewIds : mem.reviews[j].at <= mem.reviews[i].at
LatestAccepted == \E i \in ReviewIds : IsLatest(i) /\ mem.reviews[i].status = "accepted"
LatestOpen ==
    \E i \in ReviewIds : IsLatest(i) /\ mem.reviews[i].status \in {"submitted", "accepted"}

\* The evidence a review refers to is not looked up.
Submit(r, q) ==
    \/ Repeat(r)
    \/ r \notin recorded /\
       IF /\ mem.assign.status = "active"
          /\ mem.assign.version = q.version
          /\ mem.assign.owner = q.owner
          /\ q.regions # {} /\ WriteAllowedTo(q.owner, q.regions)
          /\ q.evidence # {}
          /\ ~LatestOpen
       THEN LET v == [owner |-> q.owner, regions |-> q.regions, evidence |-> q.evidence,
                      status |-> "submitted", version |-> 1, at |-> Instant]
                m == WithReview(mem, NewReview, v)
            IN Serve(r, m, <<Write(ReviewEvent("review.submitted", NewReview, v), TRUE, m)>>,
                     "done")
       ELSE Refuse(r)

Decided(id, s) == [mem.reviews[id] EXCEPT !.status = s, !.version = @ + 1, !.at = Instant]

\* OwnerReviewService.transition, called by the host
Reject(r, q) ==
    IF q.review \in ReviewIds /\ mem.reviews[q.review].status = "submitted"
    THEN LET v == Decided(q.review, "rejected")
             m == WithReview(mem, q.review, v)
         IN Serve(r, m, <<Write(ReviewEvent("review.rejected", q.review, v), FALSE, m)>>, "done")
    ELSE Refuse(r)

\* The evidence of a verification: the request's, or else the review's.
Cited(q) == IF q.evidence # {} THEN q.evidence ELSE mem.reviews[q.review].evidence

\* No reason to block: each cited record exists, passed, and is in a region
\* under review.
Passes(q) ==
    /\ mem.reviews[q.review].status = "submitted"
    /\ \A e \in Cited(q) : /\ mem.evidence[e] = "pass"
                           /\ Within({RegionOf[e]}, mem.reviews[q.review].regions)

Verification(q) ==
    [review |-> q.review, verifier |-> q.owner,
     status |-> IF Passes(q) THEN "passed" ELSE "blocked"]
Verified(q) == WithVerification(mem, Verification(q))
Accepted(q) == WithReview(Verified(q), q.review, Decided(q.review, "accepted"))
Accepting(q) == ReviewEvent("review.accepted", q.review, Decided(q.review, "accepted"))

\* The frame of the verification holds the result; a passed one is followed by
\* the frame that accepts the review.
PassedWritesSwapped(q) ==
    <<Write(Accepting(q), FALSE, Verified(q)),
      Write(VerificationEvent(Verification(q)), TRUE, Accepted(q))>>
PassedWrites(q) ==
    <<Write(VerificationEvent(Verification(q)), TRUE, Accepted(q)),
      Write(Accepting(q), FALSE, Accepted(q))>>

\* The verifier owns the child and the review, and may write all it covers.
ByReviewOwner(q) == mem.assign.status = "active" /\ mem.reviews[q.review].owner = q.owner
ByOwner(q) ==
    /\ mem.assign.status = "active"
    /\ mem.assign.owner = q.owner /\ mem.reviews[q.review].owner = q.owner
    /\ WriteAllowedTo(q.owner, mem.reviews[q.review].regions)

Verify(r, q) ==
    \/ Repeat(r)
    \/ r \notin recorded /\
       IF /\ q.review \in ReviewIds
          /\ mem.reviews[q.review].version = q.version
          /\ ByOwner(q)
       THEN Serve(r, Verified(q),
                  IF Passes(q) THEN PassedWrites(q)
                  ELSE <<Write(VerificationEvent(Verification(q)), TRUE, Verified(q))>>, "done")
       ELSE Refuse(r)

-----------------------------------------------------------------------------
(* Requests *)

\* The evidence a client names: none, or one record.
Citations == {{}} \cup {{e} : e \in DOMAIN RegionOf}

Questions(op) ==
    CASE op \in {"assign", "transfer"} ->
           [op : {op}, owner : Owner, regions : Grant]
      [] op = "release" -> [op : {op}, owner : Owner]
      [] op = "reject" -> [op : {op}, review : ReviewIds]
      [] op = "submit" ->
           [op : {op}, owner : Owner, regions : Reviewed,
            evidence : Citations, version : {mem.assign.version}]
      [] op = "verify" ->
           {[op |-> op, owner |-> o, review |-> i, evidence |-> es,
             version |-> mem.reviews[i].version] :
                o \in Owner, i \in ReviewIds, es \in Citations}
      [] OTHER -> {}

\* The host calls once; a client that was not told "done" asks for the same again.
Asks(r) ==
    IF sent[r] = NotSent THEN Questions(scenario.ask[r])
    ELSE IF sent[r].op \in {"submit", "verify"} /\ r \notin answered THEN {sent[r]} ELSE {}

Handle(r, q) ==
    /\ Idle
    /\ sent' = [sent EXCEPT ![r] = q]
    /\ \/ q.op = "assign" /\ Assign(r, q, "ownership.owner_assigned")
       \/ q.op = "transfer" /\ Assign(r, q, "ownership.owner_transferred")
       \/ q.op = "release" /\ Release(r, q)
       \/ q.op = "reject" /\ Reject(r, q)
       \/ q.op = "submit" /\ Submit(r, q)
       \/ q.op = "verify" /\ Verify(r, q)
    /\ UNCHANGED scenario

\* record_evidence, under a fresh id.
Observes(e, s) ==
    /\ mem.evidence[e] = "missing"
    /\ Append1(EvidenceEvent(e, s))
    /\ UNCHANGED <<scenario, sent>>

FrameStep ==
    /\ \/ Persist
       \/ scenario.full /\ RefusedByCapacity
       \/ Answer
       \/ Crash
    /\ UNCHANGED <<scenario, sent>>

Init ==
    /\ scenario \in Scenarios
    /\ sent = [r \in Request |-> NotSent]
    /\ Began(Empty)

Next ==
    \/ FrameStep
    \/ \E r \in Request : \E q \in Asks(r) : Handle(r, q)
    \/ \E e \in DOMAIN RegionOf : \E s \in {"pass", "fail"} : Observes(e, s)

Spec == Init /\ [][Next]_vars

-----------------------------------------------------------------------------
(* Properties *)

Assignment == [status : {"none", "active", "released"}, owner : Owner \cup {"none"},
               regions : SUBSET Region, version : 0..2]
Review == [owner : Owner, regions : (SUBSET Region) \ {{}}, evidence : SUBSET DOMAIN RegionOf,
           status : {"submitted", "accepted", "rejected"}, version : 1..2, at : Nat]

\* Assignments and reviews in memory and in the journal are well formed, and an
\* assignment or a review never goes beyond the child's boundary.
TypeOK ==
    /\ scenario \in Scenarios
    /\ \A p \in {mem, dur} :
          /\ p.own \in Assignment /\ p.assign \in Assignment /\ p.broken \in BOOLEAN
          /\ Within(p.own.regions \cup p.assign.regions, Boundary)
          /\ p.evidence \in [DOMAIN RegionOf -> {"missing", "pass", "fail"}]
          /\ \A i \in DOMAIN p.reviews :
                p.reviews[i] \in Review /\ Within(p.reviews[i].regions, Boundary)
          /\ \A i \in DOMAIN p.verifs : p.verifs[i].verifier \in Owner
    /\ current \in Request \cup {Nobody}
    /\ current = Nobody => todo = <<>>
    /\ recorded \subseteq Request /\ answered \subseteq Request

\* ownership/persistence.py: while no append is refused, the service's and the
\* Store's assignment agree between requests, and replaying the journal gives
\* the memory and starts again.
OwnershipIsReplay == refusals = 0 =>
    /\ ~dur.broken
    /\ Idle => mem.own = mem.assign /\ mem = dur

\* evidence/verifier.py: an accepted review in the journal has a passed
\* verification in the journal, made by its owner, whatever crashes or refused
\* appends came between the two frames.
AcceptedIsVerified == \A i \in DOMAIN dur.reviews : dur.reviews[i].status = "accepted" =>
    \E k \in DOMAIN dur.verifs :
        dur.verifs[k] = [review |-> i, verifier |-> dur.reviews[i].owner, status |-> "passed"]

\* ownership/review.py, submit: while no append is refused, a child never has two
\* reviews that are waiting or accepted.
OneOpenReview == refusals = 0 => \A i, j \in DOMAIN dur.reviews :
    {dur.reviews[i].status, dur.reviews[j].status} \subseteq {"submitted", "accepted"} => i = j

\* evidence/verifier.py, verify: a verification passes only while the journal says
\* its verifier owns the child, though memory and journal may differ by then; and
\* owns everything reviewed, until a second append is refused.  (The release and
\* the next assignment of one owner, both refused, leave the owner with its old
\* regions in the Store and with the new ones in the service, which is asked.)
PassesUnderOwner ==
    [][Len(dur'.verifs) > Len(dur.verifs) /\ Last(dur'.verifs).status = "passed" =>
          LET v == Last(dur'.verifs)
          IN /\ dur.assign.status = "active"
             /\ dur.assign.owner = v.verifier
             /\ refusals < 2 =>
                   Within(mem.reviews[v.review].regions, dur.assign.regions)]_vars

\* ValueRoute-*.md:1309 (NFR-001): what is committed of owners is not lost when
\* the process is interrupted.  Refuted: after a refused append the service and
\* the Store disagree, the next change of owner is journalled, and the rebuild
\* refuses the stream at every start.
StartsAgain == up
=============================================================================
