------------------------------- MODULE Audit -------------------------------
(***************************************************************************)
(* What others than the controller learn of a task and decide about it: the   *)
(* approvals, the handoffs to another provider and their egress records, the  *)
(* shadow records of routing advice, and the event stream that shows the      *)
(* journal to a client.  approvals/service.py, egress/, routing/shadow.py,     *)
(* observability/events.py and their handlers in api/app.py.                  *)
(***************************************************************************)
EXTENDS Integers, Sequences, SequencesExt, FiniteSetsExt, Tables

CONSTANTS
    Request, Nobody, MaxCrash, MaxRefuse,   \* as in Frames
    Provider,   \* the providers work is handed to
    Home,       \* the provider that has the attempts at first
    Field, AllowedField,    \* what may be asked to leave; what EgressPolicy lets leave
    AllowedClass,   \* allowed_classifications
    MaxCut,     \* bound on connections lost while something is to be sent
    Scenarios   \* what a behaviour's clients ask, and where they begin

Class == {"public", "internal", "confidential", "restricted"}
Operation == {"ask", "approve", "reject", "handoff", "shadow", "compare"}

\* ask is the operation of each request; att the statuses of the attempts of one
\* child; appends may be refused if full.
Scenario(s) ==
    /\ s.ask \in [Request -> Operation \cup {"none"}]
    /\ s.att \in Seq({"queued", "running", "succeeded"})
    /\ s.full \in BOOLEAN

ASSUME AuditAssumption ==
    /\ Home \notin Provider
    /\ AllowedField \subseteq Field /\ AllowedClass \subseteq Class
    /\ {MaxCrash, MaxRefuse, MaxCut} \subseteq Nat
    /\ Nobody \notin Request
    /\ \A s \in Scenarios : Scenario(s)

VARIABLES
    scenario, sent,     \* as in Tasks
    late,       \* the deadline of the approvals has passed
    sequence,   \* LocalJournal.sequence: a refused append leaves a gap
    log,        \* the records of the journal: [seq, notice]
    stream,     \* the connection of the client to the event stream
    got,        \* the sequence numbers the client has received
    cuts,
    mem, dur, todo, current, reply, recorded, answered, up, crashes, refusals

served == <<mem, dur, todo, current, reply, recorded, answered, up, crashes, refusals>>
vars == <<scenario, sent, late, sequence, log, stream, got, cuts, served>>

NotSent == [op |-> "none"]

-----------------------------------------------------------------------------
(* The projection *)

Decision == {"approve", "reject"}
Status(decision) == IF decision = "approve" THEN "approved" ELSE "rejected"

\* by is the request that led to a record.
Empty(statuses) ==
    [approvals |-> <<>>,    \* id -> [status, version, allowed]
     egress |-> {},         \* [id, by, attempt, target, class, fields]
     att |-> [i \in DOMAIN statuses |-> [status |-> statuses[i], provider |-> Home, version |-> 1]],
     shadows |-> {}]        \* [id, by, status]

WithApproval(p, id, a) == [p EXCEPT !.approvals = Put(@, id, a)]
WithEgress(p, e) == [p EXCEPT !.egress = @ \cup {e}]
WithAttempt(p, i, a) == [p EXCEPT !.att[i] = a]
WithShadow(p, s) == [p EXCEPT !.shadows = {t \in @ : t.id # s.id} \cup {s}]
HasShadow(p, s) == \E t \in p.shadows : t.id = s.id

ApprovalEvent(id, a) == [type |-> "approval", id |-> id, approval |-> a]
EgressEvent(e) == [type |-> "egress.recorded", egress |-> e]
AttemptEvent(i, a) == [type |-> "worker", id |-> i, attempt |-> a]
ResultEvent == [type |-> "egress.handoff_result"]
ShadowEvent(s) == [type |-> "routing.shadow_recorded", shadow |-> s]
ComparedEvent(s) == [type |-> "routing.shadow_compared", shadow |-> s]

\* Store._replay; the result of a handoff is not replayed, nor the comparison of
\* a record that is not there.
ReplayEvent(p, e) ==
    CASE e.type = "approval" -> WithApproval(p, e.id, e.approval)
      [] e.type = "egress.recorded" -> WithEgress(p, e.egress)
      [] e.type = "worker" -> WithAttempt(p, e.id, e.attempt)
      [] e.type = "routing.shadow_recorded" -> WithShadow(p, e.shadow)
      [] e.type = "routing.shadow_compared" /\ HasShadow(p, e.shadow) -> WithShadow(p, e.shadow)
      [] OTHER -> p
AlwaysLoads(p) == TRUE

INSTANCE Frames WITH Replay <- ReplayEvent, Loads <- AlwaysLoads

\* belongs: of these events only two name the task.
IsNotice(e) == e.type \in {"approval", "egress.recorded"}

-----------------------------------------------------------------------------
(* Approvals *)

\* request_approval: memory follows the append.
NewApproval == Cardinality(DOMAIN mem.approvals) + 1
AskApproval(r, q) ==
    \/ Repeat(r)
    \/ r \notin recorded /\
       LET a == [status |-> "pending", version |-> 1, allowed |-> q.allowed]
       IN Serve(r, mem,
                <<Write(ApprovalEvent(NewApproval, a), TRUE, WithApproval(mem, NewApproval, a))>>,
                "done")

\* ApprovalService.expire: what is pending after the deadline is not decided.
Expired(a) == a.status = "pending" /\ late

\* ApprovalService.decide: a repeated decision gives the approval as it is.
DecidedAgain(a, d) == [a EXCEPT !.status = Status(d), !.version = @ + 1]
Decided(a, d) ==
    IF a.status = "pending" THEN [a EXCEPT !.status = Status(d), !.version = @ + 1] ELSE a

DecidableAgain(a, d) == d \in a.allowed /\ ~Expired(a)
Decidable(a, d) == d \in a.allowed /\ ~Expired(a) /\ a.status \in {"pending", Status(d)}

Decide(r, q) ==
    \/ Repeat(r)
    \/ r \notin recorded /\
       LET a == mem.approvals[q.approval]
           b == Decided(a, q.op)
       IN IF a.version = q.version /\ Decidable(a, q.op)
          THEN Serve(r, mem,
                     <<Write(ApprovalEvent(q.approval, b), TRUE, WithApproval(mem, q.approval, b))>>,
                     "done")
          ELSE Refuse(r)

-----------------------------------------------------------------------------
(* Handoffs *)

\* EgressPolicy.allows, with no list of target providers.
Allows(class, fields) == class \in AllowedClass /\ fields \subseteq AllowedField

\* new_id
NewId(records) == IF records = {} THEN 1 ELSE Max({x.id : x \in records}) + 1

\* handoff_attempt: the egress, the attempt and the result, each after its own
\* change of memory; the attempt is the first of the child, in any status.
HandedOff(q) == [mem.att[1] EXCEPT !.provider = q.target, !.version = @ + 1]
EgressOf(r, q) ==
    [id |-> NewId(mem.egress), by |-> r, attempt |-> 1, target |-> q.target,
     class |-> q.class, fields |-> q.fields]
Disclosed(r, q) == WithEgress(mem, EgressOf(r, q))
Repointed(r, q) == WithAttempt(Disclosed(r, q), 1, HandedOff(q))

HandoffWritesLate(r, q) ==
    <<Write(AttemptEvent(1, HandedOff(q)), FALSE, Repointed(r, q)),
      Write(EgressEvent(EgressOf(r, q)), FALSE, Repointed(r, q)),
      Write(ResultEvent, TRUE, Repointed(r, q))>>
HandoffWrites(r, q) ==
    <<Write(EgressEvent(EgressOf(r, q)), FALSE, Repointed(r, q)),
      Write(AttemptEvent(1, HandedOff(q)), FALSE, Repointed(r, q)),
      Write(ResultEvent, TRUE, Repointed(r, q))>>

Handoff(r, q) ==
    \/ Repeat(r)
    \/ r \notin recorded /\
       IF DOMAIN mem.att # {} /\ Allows(q.class, q.fields)
       THEN Serve(r, Disclosed(r, q), HandoffWrites(r, q), "done")
       ELSE Refuse(r)

-----------------------------------------------------------------------------
(* Shadow records: memory changes before the append.                         *)

ChangeShadow(r, s, e, keyed) ==
    Serve(r, WithShadow(mem, s), <<Write(e, keyed, WithShadow(mem, s))>>, "done")

\* analyze_and_shadow
Shadow(r) ==
    \/ Repeat(r)
    \/ r \notin recorded /\
       LET s == [id |-> NewId(mem.shadows), by |-> r, status |-> "recorded"]
       IN ChangeShadow(r, s, ShadowEvent(s), TRUE)

\* mark_compared, which the host calls without a key.
Compare(r, q) ==
    LET s == [q.shadow EXCEPT !.status = "compared"]
    IN IF HasShadow(mem, s) THEN ChangeShadow(r, s, ComparedEvent(s), FALSE) ELSE Refuse(r)

-----------------------------------------------------------------------------
(* Requests *)

Questions(op) ==
    CASE op = "ask" -> [op : {op}, allowed : {Decision, {"approve"}}]
      [] op \in Decision ->
           {[op |-> op, approval |-> a, version |-> mem.approvals[a].version] :
                a \in DOMAIN mem.approvals}
      [] op = "handoff" -> [op : {op}, target : Provider, class : {"internal", "confidential"},
                            fields : {Field, AllowedField}]
      [] op = "shadow" -> [op : {op}]
      [] op = "compare" -> [op : {op}, shadow : mem.shadows]
      [] OTHER -> {}

\* A client that was not told "done" asks for the same again; the host does not.
Asks(r) ==
    IF sent[r] = NotSent THEN Questions(scenario.ask[r])
    ELSE IF sent[r].op # "compare" /\ r \notin answered THEN {sent[r]} ELSE {}

Others == UNCHANGED <<scenario, late, stream, got, cuts>>

Handle(r, q) ==
    /\ Idle
    /\ sent' = [sent EXCEPT ![r] = q]
    /\ \/ q.op = "ask" /\ AskApproval(r, q)
       \/ q.op \in Decision /\ Decide(r, q)
       \/ q.op = "handoff" /\ Handoff(r, q)
       \/ q.op = "shadow" /\ Shadow(r)
       \/ q.op = "compare" /\ Compare(r, q)
    /\ UNCHANGED <<sequence, log>> /\ Others

\* A runner goes on with its attempt.
After(status) == CASE status = "queued" -> "running" [] status = "running" -> "succeeded"
AttemptMoves(i) ==
    /\ mem.att[i].status # "succeeded"
    /\ LET e == AttemptEvent(i, [mem.att[i] EXCEPT !.status = After(@), !.version = @ + 1])
       IN /\ Append1(e)
          /\ log' = Append(log, [seq |-> sequence + 1, notice |-> IsNotice(e)])
    /\ sequence' = sequence + 1
    /\ UNCHANGED sent /\ Others

Appended ==
    /\ Persist
    /\ sequence' = sequence + 1
    /\ log' = Append(log, [seq |-> sequence', notice |-> IsNotice(Head(todo).event)])
    /\ UNCHANGED sent /\ Others

NotAppended ==
    /\ scenario.full
    /\ RefusedByCapacity
    /\ sequence' = sequence + 1
    /\ UNCHANGED <<log, sent>> /\ Others

Answered == Answer /\ UNCHANGED <<sequence, log, sent>> /\ Others

DeadlinePasses ==
    /\ ~late
    /\ late' = TRUE
    /\ Idle
    /\ UNCHANGED <<served, scenario, sent, sequence, log, stream, got, cuts>>

-----------------------------------------------------------------------------
(* The event stream.  Requests are served between its steps, and never read   *)
(* a handler's half of the journal.                                          *)

Closed == [open |-> FALSE, page |-> <<>>, cursor |-> 0]

LastOr(s, default) == IF s = <<>> THEN default ELSE Last(s)
LastSequence == IF log = <<>> THEN 0 ELSE Last(log).seq

\* The task's among journal.events(n).
Taken(record, n, taken) ==
    IF record.seq > n /\ record.notice THEN Append(taken, record.seq) ELSE taken
NoticesAfter(n) ==
    LET among[i \in 0..Len(log)] == IF i = 0 THEN <<>> ELSE Taken(log[i], n, among[i - 1])
    IN among[Len(log)]

Streaming == UNCHANGED <<served, scenario, sent, late, sequence, log>>

\* The client asks for what follows its Last-Event-ID.  What is followed begins
\* where the replay ends.
CountAsId == Len(got)
LastEventId == LastOr(got, 0)
Connect ==
    /\ Idle
    /\ ~stream.open
    /\ LET page == NoticesAfter(LastEventId)
       IN stream' = [open |-> TRUE, page |-> page, cursor |-> LastOr(page, LastEventId)]
    /\ UNCHANGED <<got, cuts>> /\ Streaming

Send ==
    /\ stream.page # <<>>
    /\ got' = Append(got, Head(stream.page))
    /\ stream' = [stream EXCEPT !.page = Tail(@)]
    /\ UNCHANGED cuts /\ Streaming

\* follow: everything that is newer is looked at, the task's notices are sent.
Poll ==
    /\ Idle
    /\ stream.open
    /\ stream.page = <<>>
    /\ LastSequence > stream.cursor
    /\ stream' = [stream EXCEPT !.page = NoticesAfter(stream.cursor), !.cursor = LastSequence]
    /\ UNCHANGED <<got, cuts>> /\ Streaming

\* All is sent, and the stream does not follow, or has followed to its timeout.
Ends ==
    /\ stream.open
    /\ stream.page = <<>>
    /\ stream' = Closed
    /\ UNCHANGED <<got, cuts>> /\ Streaming

\* The connection is lost.
Cut ==
    /\ stream.page # <<>>
    /\ cuts < MaxCut
    /\ cuts' = cuts + 1
    /\ stream' = Closed
    /\ UNCHANGED got /\ Streaming

\* The journal goes on from its last record.
Restart ==
    /\ Crash
    /\ sequence' = LastSequence
    /\ stream' = Closed
    /\ UNCHANGED <<scenario, sent, late, log, got, cuts>>

Init ==
    /\ scenario \in Scenarios
    /\ sent = [r \in Request |-> NotSent]
    /\ late = FALSE
    /\ sequence = 0 /\ log = <<>>
    /\ stream = Closed
    /\ got = <<>>
    /\ cuts = 0
    /\ Began(Empty(scenario.att))

Next ==
    \/ Appended \/ NotAppended \/ Answered \/ Restart
    \/ \E r \in Request : \E q \in Asks(r) : Handle(r, q)
    \/ \E i \in DOMAIN mem.att : AttemptMoves(i)
    \/ DeadlinePasses
    \/ Connect \/ Send \/ Poll \/ Ends \/ Cut

\* A handler runs to its end; the event loop serves a client that connects again
\* in its turn; a stream sends what it has, and ends by its timeout at the latest.
Spec ==
    /\ Init /\ [][Next]_vars
    /\ WF_vars(Appended) /\ WF_vars(Answered)
    /\ SF_vars(Connect)
    /\ WF_vars(Send) /\ WF_vars(Ends)

-----------------------------------------------------------------------------
(* Properties *)

Approval == [status : {"pending", "approved", "rejected"}, version : Nat \ {0},
             allowed : (SUBSET Decision) \ {{}}]

\* The records in memory and in the journal are well formed, egress records stay
\* within the policy, and the journal's sequence numbers grow.
TypeOK ==
    /\ scenario \in Scenarios /\ late \in BOOLEAN
    /\ \A p \in {mem, dur} :
          /\ \A a \in DOMAIN p.approvals : p.approvals[a] \in Approval
          /\ \A e \in p.egress : e.target \in Provider /\ Allows(e.class, e.fields)
          /\ \A i \in DOMAIN p.att : p.att[i].provider \in Provider \cup {Home}
          /\ \A s \in p.shadows : s.status \in {"recorded", "compared"}
    /\ \A i \in DOMAIN log : log[i].seq > (IF i = 1 THEN 0 ELSE log[i - 1].seq)
    /\ log # <<>> => sequence >= Last(log).seq
    /\ stream.page # <<>> => stream.open
    /\ current = Nobody => todo = <<>>

\* approvals/service.py: an approval that is decided in the journal keeps its
\* decision, and is decided before its deadline and only as it was offered, over
\* retries, new keys, refused appends and restarts.
DecisionIsFinal ==
    [][\A a \in DOMAIN dur.approvals :
          dur'.approvals[a] # dur.approvals[a] =>
              /\ dur.approvals[a].status = "pending"
              /\ ~late
              /\ \E d \in dur.approvals[a].allowed : dur'.approvals[a].status = Status(d)]_vars

\* A client that was told "done" finds after any crash its decision, its shadow record,
\* and of its handoff the egress record (whether the attempt has been re-pointed is not
\* asked: a later handoff may have re-pointed it again).
AnsweredIsDurable == \A r \in answered :
    /\ sent[r].op \in Decision => dur.approvals[sent[r].approval].status = Status(sent[r].op)
    /\ sent[r].op = "handoff" => \E e \in dur.egress : e.by = r /\ e.target = sent[r].target
    /\ sent[r].op = "shadow" => \E s \in dur.shadows : s.by = r

\* egress/handoff.py: an attempt that is with another provider has the egress
\* record of that handoff in the journal, at every instant, in memory and after a
\* restart.
EgressIsAudited == \A p \in {mem, dur} : \A i \in DOMAIN p.att :
    p.att[i].provider # Home =>
        \E e \in dur.egress : e.attempt = i /\ e.target = p.att[i].provider

\* observability/events.py and the events handler: notices are delivered once, in
\* order, and eventually, across lost connections, timeouts, restarts and gaps in
\* the sequence numbers.
Client == INSTANCE Delivery WITH notices <- NoticesAfter(0)
DeliverySpec == Client!Spec

-----------------------------------------------------------------------------
(* What is said of this part and the code does not do; the README names the *)
(* configuration that refutes each.                                         *)

\* egress/handoff.py:45-47: a replay with the same key "returns the original
\* handoff result instead of handing off twice".
HandsOffOnce == \A d, e \in dur.egress : d.by = e.by => d = e

\* egress/handoff.py:43: "The attempt must already be claimed by a source provider".
HandsOffClaimed ==
    [][\A i \in DOMAIN dur.att : dur'.att[i].provider # dur.att[i].provider =>
          dur.att[i].status = "running"]_vars
=============================================================================
