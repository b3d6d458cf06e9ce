-------------------------- MODULE ExecutionProofs --------------------------
(***************************************************************************)
(* Theorems about Execution for every number of attempts, children,         *)
(* concurrent runs, process deaths and control requests: its types, and     *)
(* that checkpoints agree with the attempts that name them.                 *)
(***************************************************************************)
EXTENDS Execution, SequenceTheorems, TLAPS

-----------------------------------------------------------------------------
(* Typing of the records the handlers build *)

LEMMA AttemptNat == Attempt \subseteq Nat /\ 0 \notin Attempt
  BY DEF Attempt

LEMMA AbsentType == Absent \in AttemptRec
  BY DEF Absent, AttemptRec, CpId, NoCp, L!Status, L!Live, L!Terminal

LEMMA MovedType ==
  ASSUME NEW r \in AttemptRec, NEW s \in L!Status
  PROVE  Moved(r, s) \in AttemptRec
  <1>1. r.ver + 1 \in Nat
    BY DEF AttemptRec
  <1> QED
    BY <1>1, Zenon DEF Moved, AttemptRec

LEMMA ClaimedType ==
  ASSUME NEW r \in AttemptRec
  PROVE  Claimed(r) \in AttemptRec
  <1>1. r.ver + 1 \in Nat
    BY DEF AttemptRec
  <1>2. "claimed" \in L!Status
    BY DEF L!Status, L!Live
  <1> QED
    BY <1>1, <1>2, Zenon DEF Claimed, AttemptRec

LEMMA BoundType ==
  ASSUME NEW r \in AttemptRec
  PROVE  Bound(r) \in AttemptRec
  <1>1. r.ver + 1 \in Nat
    BY DEF AttemptRec
  <1> QED
    BY <1>1, Zenon DEF Bound, AttemptRec

LEMMA CheckpointedType ==
  ASSUME NEW r \in AttemptRec, NEW a \in Attempt, NEW safe \in BOOLEAN
  PROVE  Checkpointed(a, r, safe) \in AttemptRec
  <1>1. r.ver + 1 \in Nat
    BY DEF AttemptRec
  <1>2. <<a, r.ver + 1>> \in CpId
    BY <1>1, AttemptNat DEF CpId
  <1> QED
    BY <1>1, <1>2, Zenon DEF Checkpointed, AttemptRec

LEMMA CpOfType ==
  ASSUME NEW r \in AttemptRec, NEW a \in Attempt, NEW safe \in BOOLEAN
  PROVE  CpOf(a, r, safe) \in CpFile
  BY AttemptNat DEF CpOf, CpFile, CpId, AttemptRec

LEMMA ReclaimedType ==
  ASSUME NEW r \in AttemptRec
  PROVE  Reclaimed(r) \in AttemptRec
  <1>1. "queued" \in L!Status /\ "blocked" \in L!Status
    BY DEF L!Status, L!Live, L!Terminal
  <1> QED
    BY <1>1, Zenon DEF Reclaimed, AttemptRec

LEMMA RequeuedType ==
  ASSUME NEW r \in AttemptRec
  PROVE  Requeued(r) \in AttemptRec
  <1>1. r.ver + 1 \in Nat
    BY DEF AttemptRec
  <1>2. "queued" \in L!Status
    BY DEF L!Status, L!Live
  <1> QED
    BY <1>1, <1>2, Zenon DEF Requeued, AttemptRec

LEMMA FreshType ==
  ASSUME NEW c \in Nat, NEW b \in BOOLEAN
  PROVE  Fresh(c, b) \in AttemptRec
  BY DEF Fresh, Absent, AttemptRec, CpId, NoCp, L!Status, L!Live, L!Terminal

LEMMA RecoveryType ==
  ASSUME NEW p \in Attempt, att \in [Attempt -> AttemptRec]
  PROVE  Recovery(p) \in AttemptRec
  <1>1. att[p].child \in Nat /\ att[p].byRef \in BOOLEAN /\ RecoveryPoint(att[p]) \in CpId
    BY DEF AttemptRec, RecoveryPoint
  <1>2. Fresh(att[p].child, att[p].byRef) \in AttemptRec
    BY <1>1, FreshType
  <1> QED
    BY <1>1, <1>2, AttemptNat DEF Recovery, AttemptRec

-----------------------------------------------------------------------------
(* Typing of the durable writes *)

LEMMA WAttType ==
  ASSUME NEW a \in Attempt, NEW r \in AttemptRec
  PROVE  WAtt(a, r) \in Write
  BY DEF WAtt, Write

LEMMA WAckUsageType ==
  ASSUME NEW a \in Attempt
  PROVE  WAck(a) \in Write /\ WUsage(a) \in Write
  BY DEF WAck, WUsage, Write

LEMMA WParentType ==
  ASSUME NEW s \in ParentStatus
  PROVE  WParent(s) \in Write
  BY DEF WParent, Write

LEMMA CheckpointWritesType ==
  ASSUME NEW r \in AttemptRec, NEW a \in Attempt, NEW safe \in BOOLEAN
  PROVE  CheckpointWrites(a, r, safe) \in Seq(Write)
  <1>1. WCp(CpOf(a, r, safe)) \in Write
    BY CpOfType DEF WCp, Write
  <1>2. WAtt(a, Checkpointed(a, r, safe)) \in Write
    BY CheckpointedType, WAttType
  <1> QED
    BY <1>1, <1>2 DEF CheckpointWrites

-----------------------------------------------------------------------------
(* Typing of the ends of a run *)

Ending == [rec : AttemptRec, ws : Seq(Write)]

LEMMA RequestType ==
  ASSUME TypeOK, NEW a \in Attempt, NEW s \in L!Status
  PROVE  Request(a, s) \in Ending
  <1>1. att[a] \in AttemptRec
    BY DEF TypeOK
  <1>2. Moved(att[a], s) \in AttemptRec
    BY <1>1, MovedType
  <1>3. WAtt(a, Moved(att[a], s)) \in Write
    BY <1>2, WAttType
  <1> QED
    BY <1>1, <1>2, <1>3 DEF Request, Ending

LEMMA EndPausedType ==
  ASSUME TypeOK, NEW a \in Attempt
  PROVE  EndPaused(a) \in Ending
  <1> DEFINE q == Request(a, "pause_requested")
             k == Checkpointed(a, q.rec, TRUE)
             p == Moved(k, "paused")
  <1>1. q \in Ending
    BY RequestType DEF L!Status, L!Live
  <1>2. q.rec \in AttemptRec /\ q.ws \in Seq(Write)
    BY <1>1 DEF Ending
  <1> HIDE DEF q
  <1>3. k \in AttemptRec
    BY <1>2, CheckpointedType
  <1> HIDE DEF k
  <1>4. p \in AttemptRec
    BY <1>3, MovedType DEF L!Status, L!Live
  <1> HIDE DEF p
  <1>5. CheckpointWrites(a, q.rec, TRUE) \in Seq(Write) /\ WAtt(a, p) \in Write
    BY <1>2, <1>4, CheckpointWritesType, WAttType
  <1> DEFINE w == q.ws \o CheckpointWrites(a, q.rec, TRUE) \o <<WAtt(a, p)>>
  <1>6. w \in Seq(Write)
    <2>1. q.ws \o CheckpointWrites(a, q.rec, TRUE) \in Seq(Write)
      BY <1>2, <1>5, ConcatProperties
    <2>2. <<WAtt(a, p)>> \in Seq(Write)
      BY <1>5
    <2> QED
      BY <2>1, <2>2, ConcatProperties
  <1>7. EndPaused(a) = IF q.rec.status # "pause_requested" THEN q ELSE [rec |-> p, ws |-> w]
    BY DEF EndPaused, q, k, p
  <1> HIDE DEF w
  <1> QED
    BY <1>1, <1>4, <1>6, <1>7 DEF Ending

LEMMA EndCancelledType ==
  ASSUME TypeOK, NEW a \in Attempt
  PROVE  EndCancelled(a) \in Ending
  <1> DEFINE q == Request(a, "cancel_requested")
             c == Moved(q.rec, "cancelled")
  <1>1. q \in Ending
    BY RequestType DEF L!Status, L!Live
  <1>2. q.rec \in AttemptRec /\ q.ws \in Seq(Write)
    BY <1>1 DEF Ending
  <1> HIDE DEF q
  <1>3. c \in AttemptRec
    BY <1>2, MovedType DEF L!Status, L!Terminal
  <1> HIDE DEF c
  <1>4. q.ws \o <<WAtt(a, c)>> \in Seq(Write)
    BY <1>2, <1>3, WAttType
  <1>5. EndCancelled(a) =
          IF q.rec.status # "cancel_requested" THEN q
          ELSE [rec |-> c, ws |-> q.ws \o <<WAtt(a, c)>>]
    BY DEF EndCancelled, q, c
  <1> QED
    BY <1>1, <1>3, <1>4, <1>5 DEF Ending

LEMMA EndCancelFailedType ==
  ASSUME TypeOK, NEW a \in Attempt
  PROVE  EndCancelFailed(a) \in Ending
  <1>1. att[a] \in AttemptRec
    BY DEF TypeOK
  <1>2. Moved(att[a], "failed") \in AttemptRec
    BY <1>1, MovedType DEF L!Status, L!Terminal
  <1>3. WAtt(a, Moved(att[a], "failed")) \in Write
    BY <1>2, WAttType
  <1> QED
    BY <1>1, <1>2, <1>3 DEF EndCancelFailed, Ending

LEMMA EndTerminalType ==
  ASSUME TypeOK, NEW a \in Attempt, NEW s \in {"succeeded", "failed"}
  PROVE  EndTerminal(a, s) \in Ending
  <1> DEFINE safe == (s = "succeeded")
             k == Checkpointed(a, att[a], safe)
             t == Moved(k, s)
  <1>1. att[a] \in AttemptRec /\ safe \in BOOLEAN
    BY DEF TypeOK
  <1>2. EndTerminal(a, s) =
          IF TerminalAllowed(a, s)
          THEN [rec |-> t, ws |-> CheckpointWrites(a, att[a], safe) \o <<WAtt(a, t), WAck(a)>>]
          ELSE [rec |-> k, ws |-> CheckpointWrites(a, att[a], safe)]
    BY DEF EndTerminal
  <1> HIDE DEF safe
  <1>3. k \in AttemptRec /\ CheckpointWrites(a, att[a], safe) \in Seq(Write)
    BY <1>1, CheckpointedType, CheckpointWritesType
  <1> HIDE DEF k
  <1>4. t \in AttemptRec
    BY <1>3, MovedType DEF L!Status, L!Terminal
  <1> HIDE DEF t
  <1>5. WAtt(a, t) \in Write /\ WAck(a) \in Write
    BY <1>4, WAttType, WAckUsageType
  <1>6. CheckpointWrites(a, att[a], safe) \o <<WAtt(a, t), WAck(a)>> \in Seq(Write)
    BY <1>3, <1>5
  <1> QED
    BY <1>2, <1>3, <1>4, <1>6 DEF Ending

-----------------------------------------------------------------------------
(* Type correctness *)

LEMMA TypeInit == Init => TypeOK
  <1> SUFFICES ASSUME Init PROVE TypeOK
    OBVIOUS
  <1>1. att \in [Attempt -> AttemptRec] /\ datt \in [Attempt -> AttemptRec]
    BY AbsentType DEF Init
  <1>2. todo \in Seq(Write) /\ cps \in SUBSET CpFile
    BY DEF Init
  <1>3. job \in [kind : JobKind, next : Nat]
    BY DEF Init, IdleJob, JobKind
  <1> QED
    BY <1>1, <1>2, <1>3 DEF TypeOK, Init, ParentStatus, Phase

LEMMA PersistType == TypeOK /\ Persist => TypeOK'
  <1> SUFFICES ASSUME TypeOK, Persist PROVE TypeOK'
    OBVIOUS
  <1> DEFINE w == Head(todo)
  <1>1. w \in Write /\ Tail(todo) \in Seq(Write)
    BY HeadTailProperties DEF TypeOK, Persist
  <1>2. datt' \in [Attempt -> AttemptRec]
    <2>1. w.kind = "att" => w.a \in Attempt /\ w.rec \in AttemptRec
      BY <1>1 DEF Write
    <2>2. datt' = IF w.kind = "att" THEN [datt EXCEPT ![w.a] = w.rec] ELSE datt
      BY DEF Persist
    <2> HIDE DEF w
    <2> QED
      BY <2>1, <2>2 DEF TypeOK
  <1>3. cps' \in SUBSET CpFile
    <2>1. w.kind = "cp" => w.file \in CpFile
      BY <1>1 DEF Write
    <2>2. cps' = IF w.kind = "cp" THEN cps \cup {w.file} ELSE cps
      BY DEF Persist
    <2> HIDE DEF w
    <2> QED
      BY <2>1, <2>2 DEF TypeOK
  <1>4. dack' \in SUBSET Attempt /\ dusage' \in SUBSET Attempt
    <2>1. w.kind \in {"ack", "usage"} => w.a \in Attempt
      BY <1>1 DEF Write
    <2>2. /\ dack' = IF w.kind = "ack" THEN dack \cup {w.a} ELSE dack
          /\ dusage' = IF w.kind = "usage" THEN dusage \cup {w.a} ELSE dusage
      BY DEF Persist
    <2> HIDE DEF w
    <2> QED
      BY <2>1, <2>2 DEF TypeOK
  <1>5. dparent' \in ParentStatus
    <2>1. w.kind = "parent" => w.st \in ParentStatus
      BY <1>1 DEF Write
    <2>2. dparent' = IF w.kind = "parent" THEN w.st ELSE dparent
      BY DEF Persist
    <2> HIDE DEF w
    <2> QED
      BY <2>1, <2>2 DEF TypeOK
  <1> QED
    BY <1>1, <1>2, <1>3, <1>4, <1>5 DEF TypeOK, Persist, memory, runner, bounds

LEMMA CrashType == TypeOK /\ Crash => TypeOK'
  <1> SUFFICES ASSUME TypeOK, Crash PROVE TypeOK'
    OBVIOUS
  <1>1. job' \in [kind : JobKind, next : Nat]
    BY DEF Crash, IdleJob, JobKind
  <1>2. phase' \in [Attempt -> Phase] /\ prov' \in [Attempt -> {"off", "on", "ok", "error"}]
    BY DEF Crash, Phase
  <1>3. todo' \in Seq(Write)
    BY DEF Crash
  <1>4. crashes' \in Nat /\ controls' \in Nat
    BY DEF TypeOK, Crash
  <1>5. up' \in BOOLEAN /\ refs' \in BOOLEAN
        /\ pauseReq' \in SUBSET Attempt /\ cancelReq' \in SUBSET Attempt
    BY DEF Crash
  <1>6. UNCHANGED <<att, ack, parent, datt, dack, dparent, dusage, cps, sup>>
    BY DEF Crash, memory, durable
  <1> QED
    BY <1>1, <1>2, <1>3, <1>4, <1>5, <1>6 DEF TypeOK

LEMMA RestartType == TypeOK /\ Restart => TypeOK'
  <1> SUFFICES ASSUME TypeOK, Restart PROVE TypeOK'
    OBVIOUS
  <1>1. job' \in [kind : JobKind, next : Nat]
    BY DEF Restart, JobKind
  <1> QED
    BY <1>1 DEF TypeOK, Restart, durable, runner, bounds

\* One attempt is changed and its record written, as most handlers do.
LEMMA OneWriteType ==
  ASSUME TypeOK, NEW a \in Attempt, NEW r \in AttemptRec,
         att' = [att EXCEPT ![a] = r], todo' = <<WAtt(a, r)>>
  PROVE  att' \in [Attempt -> AttemptRec] /\ todo' \in Seq(Write)
  BY WAttType DEF TypeOK

\* The loop variable of a job.
LEMMA JobType ==
  ASSUME TypeOK, NEW n \in Nat
  PROVE  [job EXCEPT !.next = n] \in [kind : JobKind, next : Nat]
  BY DEF TypeOK

LEMMA IdleJobType == IdleJob \in [kind : JobKind, next : Nat]
  BY DEF IdleJob, JobKind

LEMMA ReclaimStepType == TypeOK /\ ReclaimStep => TypeOK'
  <1> SUFFICES ASSUME TypeOK, ReclaimStep PROVE TypeOK'
    OBVIOUS
  <1>1. CASE job.next \in Attempt
    <2> DEFINE a == job.next
    <2>1. a + 1 \in Nat /\ job' = [job EXCEPT !.next = a + 1]
      BY <1>1, AttemptNat DEF ReclaimStep
    <2>2. job' \in [kind : JobKind, next : Nat]
      BY <2>1, JobType
    <2>3. Reclaimed(att[a]) \in AttemptRec
      BY <1>1, ReclaimedType DEF TypeOK
    <2>4. att' \in [Attempt -> AttemptRec] /\ todo' \in Seq(Write)
      <3>1. CASE Stale(att[a])
        BY <1>1, <2>3, <3>1, OneWriteType DEF ReclaimStep
      <3>2. CASE ~Stale(att[a])
        BY <1>1, <3>2 DEF ReclaimStep, TypeOK
      <3> QED
        BY <3>1, <3>2
    <2> QED
      BY <2>2, <2>4 DEF TypeOK, ReclaimStep, durable, runner, bounds
  <1>2. CASE job.next \notin Attempt
    BY <1>2, IdleJobType DEF TypeOK, ReclaimStep, durable, runner, bounds
  <1> QED
    BY <1>1, <1>2

LEMMA RunOnceType ==
  ASSUME TypeOK, NEW a \in Attempt, RunOnce(a)
  PROVE  TypeOK'
  <1> DEFINE c == Claimed(att[a])
             b == Bound(c)
             s == Moved(b, "running")
             k == Checkpointed(a, s, TRUE)
  <1>1. c \in AttemptRec
    BY ClaimedType DEF TypeOK
  <1>2. /\ att' = [att EXCEPT ![a] = k]
        /\ todo' = <<WAtt(a, c), WAtt(a, b), WAtt(a, s)>> \o CheckpointWrites(a, s, TRUE)
        /\ job' = [kind |-> "call", next |-> a]
        /\ pauseReq' = pauseReq \ {a}
        /\ cancelReq' = cancelReq \ {a}
        /\ UNCHANGED <<up, ack, parent, refs, datt, dack, dparent, dusage, cps, phase, prov, sup,
                       crashes, controls>>
    BY DEF RunOnce, durable, bounds
  <1> HIDE DEF c
  <1>3. b \in AttemptRec
    BY <1>1, BoundType
  <1> HIDE DEF b
  <1>4. s \in AttemptRec
    BY <1>3, MovedType DEF L!Status, L!Live
  <1> HIDE DEF s
  <1>5. k \in AttemptRec
    BY <1>4, CheckpointedType
  <1> HIDE DEF k
  <1>6. todo' \in Seq(Write)
    <2>1. WAtt(a, c) \in Write /\ WAtt(a, b) \in Write /\ WAtt(a, s) \in Write
      BY <1>1, <1>3, <1>4, WAttType
    <2>2. <<WAtt(a, c), WAtt(a, b), WAtt(a, s)>> \in Seq(Write)
      BY <2>1
    <2>3. CheckpointWrites(a, s, TRUE) \in Seq(Write)
      BY <1>4, CheckpointWritesType
    <2> QED
      BY <1>2, <2>2, <2>3, ConcatProperties
  <1>7. job' \in [kind : JobKind, next : Nat]
    BY <1>2, AttemptNat DEF JobKind
  <1>8. att' \in [Attempt -> AttemptRec]
    BY <1>2, <1>5 DEF TypeOK
  <1> QED
    BY <1>2, <1>6, <1>7, <1>8 DEF TypeOK

LEMMA CallProviderType == TypeOK /\ CallProvider => TypeOK'
  BY IdleJobType DEF TypeOK, CallProvider, memory, durable, bounds, Phase

LEMMA ProviderType ==
  ASSUME TypeOK, NEW a \in Attempt, ProviderStops(a) \/ Wake(a) \/ Timeout(a)
  PROVE  TypeOK'
  <1>1. CASE ProviderStops(a)
    BY <1>1 DEF TypeOK, ProviderStops, memory, durable, bounds
  <1>2. CASE Wake(a)
    BY <1>2 DEF TypeOK, Wake, memory, durable, bounds, Phase
  <1>3. CASE Timeout(a)
    BY <1>3 DEF TypeOK, Timeout, memory, durable, bounds, Phase
  <1> QED
    BY <1>1, <1>2, <1>3

LEMMA HeartbeatType ==
  ASSUME TypeOK, NEW a \in Attempt, Heartbeat(a)
  PROVE  TypeOK'
  <1> DEFINE r == [att[a] EXCEPT !.ver = @ + 1]
  <1>1. r \in AttemptRec
    <2>1. att[a] \in AttemptRec
      BY DEF TypeOK
    <2>2. att[a].ver + 1 \in Nat
      BY <2>1 DEF AttemptRec
    <2> QED
      BY <2>1, <2>2, Zenon DEF AttemptRec
  <1>2. att' = [att EXCEPT ![a] = r] /\ todo' = <<WAtt(a, r)>>
    BY DEF Heartbeat
  <1> HIDE DEF r
  <1>3. att' \in [Attempt -> AttemptRec] /\ todo' \in Seq(Write)
    BY <1>1, <1>2, OneWriteType
  <1> QED
    BY <1>3 DEF TypeOK, Heartbeat, durable, runner, bounds

LEMMA ReturnType ==
  ASSUME TypeOK, NEW a \in Attempt, NEW e \in Ending, Return(a, e)
  PROVE  /\ att' \in [Attempt -> AttemptRec]
         /\ todo' \in Seq(Write)
         /\ phase' \in [Attempt -> Phase]
  BY DEF TypeOK, Return, Ending, Phase

LEMMA CancellingType ==
  ASSUME TypeOK, NEW a \in Attempt,
         CancelConfirmed(a) \/ CancelRefused(a) \/ CancelRaises(a)
  PROVE  TypeOK'
  <1>1. PICK e \in Ending : Return(a, e)
    BY EndCancelledType, EndCancelFailedType
       DEF CancelConfirmed, CancelRefused, CancelRaises
  <1>2. /\ att' \in [Attempt -> AttemptRec]
        /\ todo' \in Seq(Write)
        /\ phase' \in [Attempt -> Phase]
    BY <1>1, ReturnType
  <1>3. UNCHANGED <<up, job, ack, parent, refs, datt, dack, dparent, dusage, cps, pauseReq,
                    cancelReq, prov, sup, crashes, controls>>
    BY DEF CancelConfirmed, CancelRefused, CancelRaises, durable, bounds
  <1> QED
    BY <1>2, <1>3 DEF TypeOK

LEMMA AfterResultType ==
  ASSUME TypeOK, NEW a \in Attempt, AfterResult(a)
  PROVE  TypeOK'
  <1>1. /\ att' \in [Attempt -> AttemptRec]
        /\ todo' \in Seq(Write)
        /\ phase' \in [Attempt -> Phase]
    <2>1. CASE CancelWanted(a)
      BY <2>1, EndCancelledType, ReturnType DEF AfterResult
    <2>2. CASE ~CancelWanted(a) /\ PauseWanted(a)
      <3> DEFINE e == [EndPaused(a) EXCEPT !.ws = <<WUsage(a)>> \o @]
      <3>1. <<WUsage(a)>> \in Seq(Write)
        BY WAckUsageType
      <3>2. EndPaused(a) \in Ending /\ EndPaused(a).ws \in Seq(Write)
        BY EndPausedType DEF Ending
      <3>3. <<WUsage(a)>> \o EndPaused(a).ws \in Seq(Write)
        BY <3>1, <3>2, ConcatProperties
      <3>4. e \in Ending
        BY <3>2, <3>3, Zenon DEF Ending
      <3>5. Return(a, e)
        BY <2>2 DEF AfterResult
      <3> HIDE DEF e
      <3> QED
        BY <3>4, <3>5, ReturnType
    <2>3. CASE ~CancelWanted(a) /\ ~PauseWanted(a)
      <3>1. /\ todo' = <<WUsage(a)>>
            /\ phase' = [phase EXCEPT ![a] = "finishing"]
            /\ UNCHANGED att
        BY <2>3 DEF AfterResult
      <3>2. todo' \in Seq(Write)
        BY <3>1, WAckUsageType
      <3> QED
        BY <3>1, <3>2 DEF TypeOK, Phase
    <2> QED
      BY <2>1, <2>2, <2>3
  <1>2. UNCHANGED <<up, job, ack, parent, refs, datt, dack, dparent, dusage, cps, pauseReq,
                    cancelReq, prov, sup, crashes, controls>>
    BY DEF AfterResult, durable, bounds
  <1> QED
    BY <1>1, <1>2 DEF TypeOK

LEMMA AfterErrorType ==
  ASSUME TypeOK, NEW a \in Attempt, AfterError(a)
  PROVE  TypeOK'
  <1>1. PICK e \in Ending : Return(a, e)
    BY EndCancelledType, EndTerminalType DEF AfterError
  <1>2. /\ att' \in [Attempt -> AttemptRec]
        /\ todo' \in Seq(Write)
        /\ phase' \in [Attempt -> Phase]
    BY <1>1, ReturnType
  <1>3. ack' \in SUBSET Attempt
    BY DEF AfterError, TypeOK
  <1>4. UNCHANGED <<up, job, parent, refs, datt, dack, dparent, dusage, cps, pauseReq,
                    cancelReq, prov, sup, crashes, controls>>
    BY DEF AfterError, durable, bounds
  <1> QED
    BY <1>2, <1>3, <1>4 DEF TypeOK

LEMMA FinishType ==
  ASSUME TypeOK, NEW a \in Attempt, Finish(a)
  PROVE  TypeOK'
  <1>1. PICK e \in Ending : Return(a, e)
    BY EndTerminalType DEF Finish
  <1>2. /\ att' \in [Attempt -> AttemptRec]
        /\ todo' \in Seq(Write)
        /\ phase' \in [Attempt -> Phase]
    BY <1>1, ReturnType
  <1>3. ack' \in SUBSET Attempt /\ sup' \in {"running", "dead"}
    BY DEF Finish, TypeOK
  <1>4. UNCHANGED <<up, job, parent, refs, datt, dack, dparent, dusage, cps, pauseReq,
                    cancelReq, prov, crashes, controls>>
    BY DEF Finish, durable, bounds
  <1> QED
    BY <1>2, <1>3, <1>4 DEF TypeOK

LEMMA ControlType == TypeOK /\ (Pause \/ Resume \/ Cancel) => TypeOK'
  <1> SUFFICES ASSUME TypeOK, Pause \/ Resume \/ Cancel PROVE TypeOK'
    OBVIOUS
  <1>1. job' \in [kind : JobKind, next : Nat] /\ controls' \in Nat
    BY DEF TypeOK, Pause, Resume, Cancel, Control, JobKind
  <1>2. UNCHANGED <<up, todo, att, ack, parent, refs, datt, dack, dparent, dusage, cps, phase,
                    pauseReq, cancelReq, prov, sup, crashes>>
    BY DEF Pause, Resume, Cancel, Control, memory, durable, runner
  <1> QED
    BY <1>1, <1>2 DEF TypeOK

LEMMA CommitParentType ==
  ASSUME TypeOK, NEW st \in ParentStatus, CommitParent(st)
  PROVE  /\ att' \in [Attempt -> AttemptRec]
         /\ todo' \in Seq(Write)
         /\ parent' \in ParentStatus
  BY WParentType DEF CommitParent, TypeOK

LEMMA CancelPausedType == TypeOK /\ CancelPaused => TypeOK'
  <1> SUFFICES ASSUME TypeOK, CancelPaused PROVE TypeOK'
    OBVIOUS
  <1>1. /\ att' \in [Attempt -> AttemptRec]
        /\ todo' \in Seq(Write)
        /\ parent' \in ParentStatus
    BY CommitParentType DEF CancelPaused, ParentStatus
  <1>2. controls' \in Nat
    BY DEF CancelPaused, TypeOK
  <1>3. UNCHANGED <<up, job, ack, refs, datt, dack, dparent, dusage, cps, phase, pauseReq,
                    cancelReq, prov, sup, crashes>>
    BY DEF CancelPaused, durable, runner
  <1> QED
    BY <1>1, <1>2, <1>3 DEF TypeOK

LEMMA RequestStepType ==
  ASSUME TypeOK, PauseStep \/ CancelStep
  PROVE  TypeOK'
  <1>1. PICK kind, st : /\ RequestStep(kind, st)
                        /\ kind \in {"pause", "cancel"}
                        /\ st \in ParentStatus
    BY DEF PauseStep, CancelStep, ParentStatus
  <1>2. CASE job.next \in Attempt
    <2> DEFINE a == job.next
               r == Moved(att[a], Wanted(kind))
    <2>1. r \in AttemptRec
      BY <1>1, <1>2, MovedType DEF TypeOK, Wanted, L!Status, L!Live
    <2>2. job' \in [kind : JobKind, next : Nat]
      <3>1. a + 1 \in Nat /\ job' = [job EXCEPT !.next = a + 1]
        BY <1>1, <1>2, AttemptNat DEF RequestStep
      <3> QED
        BY <3>1, JobType
    <2>3. Askable(att[a]) => att' = [att EXCEPT ![a] = r] /\ todo' = <<WAtt(a, r)>>
      BY <1>1, <1>2 DEF RequestStep
    <2>4. ~Askable(att[a]) => UNCHANGED <<att, todo>>
      BY <1>1, <1>2 DEF RequestStep
    <2>5. pauseReq' \in SUBSET Attempt /\ cancelReq' \in SUBSET Attempt
      BY <1>1, <1>2 DEF RequestStep, TypeOK
    <2>6. UNCHANGED <<up, ack, parent, refs, datt, dack, dparent, dusage, cps, phase, prov, sup,
                      crashes, controls>>
      BY <1>1, <1>2 DEF RequestStep, durable, bounds
    <2> HIDE DEF r
    <2>7. att' \in [Attempt -> AttemptRec] /\ todo' \in Seq(Write)
      BY <1>2, <2>1, <2>3, <2>4, OneWriteType DEF TypeOK
    <2> QED
      BY <2>2, <2>5, <2>6, <2>7 DEF TypeOK
  <1>3. CASE job.next \notin Attempt
    <2>1. CommitParent(st) /\ job' = IdleJob
      BY <1>1, <1>3 DEF RequestStep
    <2>2. UNCHANGED <<up, ack, refs, datt, dack, dparent, dusage, cps, phase, pauseReq, cancelReq,
                      prov, sup, crashes, controls>>
      BY <1>1, <1>3 DEF RequestStep, durable, bounds
    <2> QED
      BY <1>1, <2>1, <2>2, CommitParentType, IdleJobType DEF TypeOK
  <1> QED
    BY <1>2, <1>3

LEMMA ResumeStepType == TypeOK /\ ResumeStep => TypeOK'
  <1> SUFFICES ASSUME TypeOK, ResumeStep PROVE TypeOK'
    OBVIOUS
  <1>1. UNCHANGED <<up, ack, refs, datt, dack, dparent, dusage, cps, phase, pauseReq, cancelReq,
                    prov, sup, crashes, controls>>
    BY DEF ResumeStep, durable, runner, bounds
  <1>2. CASE job.next \in Attempt
    <2> DEFINE a == job.next
    <2>1. Requeued(att[a]) \in AttemptRec
      BY <1>2, RequeuedType DEF TypeOK
    <2>2. [job EXCEPT !.next = a + 1] \in [kind : JobKind, next : Nat]
      BY <1>2, AttemptNat, JobType
    <2>3. job' \in [kind : JobKind, next : Nat] /\ parent' = parent
      BY <1>2, <2>2, IdleJobType DEF ResumeStep
    <2>4. \/ att' = [att EXCEPT ![a] = Requeued(att[a])] /\ todo' = <<WAtt(a, Requeued(att[a]))>>
          \/ UNCHANGED <<att, todo>>
      BY <1>2 DEF ResumeStep
    <2>5. att' \in [Attempt -> AttemptRec] /\ todo' \in Seq(Write)
      BY <1>2, <2>1, <2>4, OneWriteType DEF TypeOK
    <2> QED
      BY <1>1, <2>3, <2>5 DEF TypeOK
  <1>3. CASE job.next \notin Attempt
    <2>1. CommitParent("running") /\ job' = IdleJob
      BY <1>3 DEF ResumeStep
    <2> QED
      BY <1>1, <2>1, CommitParentType, IdleJobType DEF TypeOK, ParentStatus
  <1> QED
    BY <1>2, <1>3

LEMMA ExecuteType == TypeOK /\ Execute => TypeOK'
  <1> SUFFICES ASSUME TypeOK, Execute PROVE TypeOK'
    OBVIOUS
  <1>1. /\ att' \in [Attempt -> AttemptRec]
        /\ todo' \in Seq(Write)
        /\ parent' \in ParentStatus
    BY CommitParentType DEF Execute, ParentStatus
  <1>2. controls' \in Nat /\ job' \in [kind : JobKind, next : Nat]
    BY DEF Execute, TypeOK, JobKind
  <1>3. UNCHANGED <<up, ack, refs, datt, dack, dparent, dusage, cps, phase, pauseReq, cancelReq,
                    prov, sup, crashes>>
    BY DEF Execute, durable, runner
  <1> QED
    BY <1>1, <1>2, <1>3 DEF TypeOK

LEMMA EnqueueStepType == TypeOK /\ EnqueueStep => TypeOK'
  <1> SUFFICES ASSUME TypeOK, EnqueueStep PROVE TypeOK'
    OBVIOUS
  <1>1. UNCHANGED <<up, ack, parent, refs, datt, dack, dparent, dusage, cps, phase, pauseReq,
                    cancelReq, prov, sup, crashes, controls>>
    BY DEF EnqueueStep, durable, runner, bounds
  <1>2. CASE job.next \in 1..NChild
    <2>1. PICK a \in Attempt : /\ att' = [att EXCEPT ![a] = Fresh(job.next, ~refs)]
                               /\ todo' = <<WAtt(a, Fresh(job.next, ~refs))>>
                               /\ job' = [job EXCEPT !.next = @ + 1]
      BY <1>2 DEF EnqueueStep
    <2>2. job.next \in Nat /\ job.next + 1 \in Nat
      BY <1>2
    <2>3. Fresh(job.next, ~refs) \in AttemptRec
      BY <2>2, FreshType DEF TypeOK
    <2>4. att' \in [Attempt -> AttemptRec] /\ todo' \in Seq(Write)
      BY <2>1, <2>3, OneWriteType
    <2>5. job' \in [kind : JobKind, next : Nat]
      BY <2>1, <2>2, JobType
    <2> QED
      BY <1>1, <2>4, <2>5 DEF TypeOK
  <1>3. CASE job.next \notin 1..NChild
    BY <1>1, <1>3, IdleJobType DEF EnqueueStep, TypeOK
  <1> QED
    BY <1>2, <1>3

LEMMA HostType ==
  ASSUME TypeOK, NEW a \in Attempt,
         \/ HostPause(a) \/ HostCancel(a) \/ HostRegister(a)
         \/ \E p \in Attempt : HostRecover(p, a)
  PROVE  TypeOK'
  <1>1. CASE HostPause(a)
    BY <1>1 DEF TypeOK, HostPause, memory, durable, bounds
  <1>2. CASE HostCancel(a)
    BY <1>2 DEF TypeOK, HostCancel, memory, durable, bounds
  <1>3. CASE \E p \in Attempt : HostRecover(p, a)
    <2>1. PICK p \in Attempt : HostRecover(p, a)
      BY <1>3
    <2>2. Recovery(p) \in AttemptRec
      BY RecoveryType DEF TypeOK
    <2>3. att' = [att EXCEPT ![a] = Recovery(p)] /\ todo' = <<WAtt(a, Recovery(p))>>
      BY <2>1 DEF HostRecover
    <2>4. att' \in [Attempt -> AttemptRec] /\ todo' \in Seq(Write)
      BY <2>2, <2>3, OneWriteType
    <2> QED
      BY <2>1, <2>4 DEF TypeOK, HostRecover, durable, runner, bounds
  <1>4. CASE HostRegister(a)
    <2>1. Bound(att[a]) \in AttemptRec
      BY BoundType DEF TypeOK
    <2>2. att' = [att EXCEPT ![a] = Bound(att[a])] /\ todo' = <<WAtt(a, Bound(att[a]))>>
      BY <1>4 DEF HostRegister
    <2>3. att' \in [Attempt -> AttemptRec] /\ todo' \in Seq(Write)
      BY <2>1, <2>2, OneWriteType
    <2> QED
      BY <1>4, <2>3 DEF TypeOK, HostRegister, durable, runner, bounds
  <1> QED
    BY <1>1, <1>2, <1>3, <1>4

\* Every variable keeps its type: the records of the attempts, the writes a
\* handler still makes and the checkpoint files are always well formed.
THEOREM TypeCorrect == Spec => []TypeOK
  <1>1. Init => TypeOK
    BY TypeInit
  <1>2. TypeOK /\ [Next]_vars => TypeOK'
    <2> SUFFICES ASSUME TypeOK, [Next]_vars PROVE TypeOK'
      OBVIOUS
    <2>1. CASE Persist \/ Crash \/ Restart
      BY <2>1, PersistType, CrashType, RestartType
    <2>2. CASE JobStep
      BY <2>2, CallProviderType, ReclaimStepType, RequestStepType, ResumeStepType,
         EnqueueStepType DEF JobStep
    <2>3. CASE Execute \/ Pause \/ Resume \/ Cancel \/ CancelPaused
      BY <2>3, ExecuteType, ControlType, CancelPausedType
    <2>4. ASSUME NEW a \in Attempt,
                 RunOnce(a) \/ ProviderStops(a) \/ Timeout(a) \/ Heartbeat(a)
          PROVE  TypeOK'
      BY <2>4, RunOnceType, ProviderType, HeartbeatType
    <2>5. ASSUME NEW a \in Attempt, RunnerStep(a)
          PROVE  TypeOK'
      BY <2>5, ProviderType, CancellingType, AfterResultType, AfterErrorType, FinishType
         DEF RunnerStep
    <2>6. ASSUME NEW a \in Attempt,
                 \/ HostPause(a) \/ HostCancel(a) \/ HostRegister(a)
                 \/ \E p \in Attempt : HostRecover(p, a)
          PROVE  TypeOK'
      BY <2>6, HostType
    <2>7. CASE UNCHANGED vars
      BY <2>7 DEF TypeOK, vars
    <2> QED
      BY <2>1, <2>2, <2>3, <2>4, <2>5, <2>6, <2>7 DEF Next
  <1> QED
    BY <1>1, <1>2, PTL DEF Spec

-----------------------------------------------------------------------------
(* CheckpointAgreement                                                      *)
(*                                                                         *)
(* It is not inductive: a record becomes durable in a Persist step that     *)
(* says nothing of the file it names.  That file was saved before, by an    *)
(* earlier write of the same handler, or it was there when the handler      *)
(* began.  So the invariant speaks of the writes still to be made (Backed)  *)
(* and of the attempts in memory, whose files are there or on their way.    *)

\* The checkpoint that r names is among the files C, with the same flag.
Named(C, r) == r.cp # NoCp => [id |-> r.cp, safe |-> r.cpSafe] \in C

\* The checkpoint files that the writes ws save.
Files(ws) == {f \in CpFile : \E i \in 1..Len(ws) : ws[i].kind = "cp" /\ ws[i].file = f}

\* Every record among ws names a file of C or one that ws saves before it.
Backed(C, ws) ==
    \A i \in 1..Len(ws) : ws[i].kind = "att" =>
        \/ Named(C, ws[i].rec)
        \/ \E j \in 1..i - 1 : ws[j].kind = "cp" /\ Named({ws[j].file}, ws[i].rec)

CheckpointInv ==
    /\ \A a \in Attempt : Named(cps, datt[a])
    /\ Backed(cps, todo)
    /\ up => \A a \in Attempt : Named(cps \cup Files(todo), att[a])

-----------------------------------------------------------------------------
(* Facts about Named, Files and Backed *)

LEMMA NamedMonotone ==
  ASSUME NEW C, NEW D, C \subseteq D, NEW r, Named(C, r)
  PROVE  Named(D, r)
  BY DEF Named

LEMMA BackedMonotone ==
  ASSUME NEW C, NEW D, C \subseteq D, NEW ws, Backed(C, ws)
  PROVE  Backed(D, ws)
  BY NamedMonotone DEF Backed

LEMMA FilesEmpty == Files(<<>>) = {}
  BY DEF Files

LEMMA BackedEmpty == ASSUME NEW C PROVE Backed(C, <<>>)
  BY DEF Backed

LEMMA WriteKinds ==
  ASSUME NEW a \in Attempt, NEW r, NEW f
  PROVE  /\ WAtt(a, r).kind = "att" /\ WAtt(a, r).rec = r
         /\ WCp(f).kind = "cp" /\ WCp(f).file = f
         /\ WAck(a).kind = "ack" /\ WUsage(a).kind = "usage"
  BY DEF WAtt, WCp, WAck, WUsage

LEMMA ParentKind == ASSUME NEW s PROVE WParent(s).kind = "parent"
  BY DEF WParent

LEMMA OneRecord ==
  ASSUME NEW C, NEW a \in Attempt, NEW r, Named(C, r)
  PROVE  Backed(C, <<WAtt(a, r)>>)
  BY WriteKinds DEF Backed

\* Writes that are neither records nor files need no backing.
LEMMA OtherWrite ==
  ASSUME NEW C, NEW w, w.kind \notin {"att", "cp"}
  PROVE  Backed(C, <<w>>)
  BY DEF Backed

LEMMA FilesConcat ==
  ASSUME NEW s \in Seq(Write), NEW t \in Seq(Write)
  PROVE  Files(s \o t) = Files(s) \cup Files(t)
  <1> DEFINE u == s \o t
  <1>1. /\ Len(u) = Len(s) + Len(t) /\ Len(s) \in Nat /\ Len(t) \in Nat
        /\ \A i \in 1..Len(u) : u[i] = IF i <= Len(s) THEN s[i] ELSE t[i - Len(s)]
    BY ConcatProperties, LenProperties
  <1> HIDE DEF u
  <1>2. \A i \in 1..Len(s) : i \in 1..Len(u) /\ u[i] = s[i]
    BY <1>1
  <1>3. \A i \in 1..Len(t) : i + Len(s) \in 1..Len(u) /\ u[i + Len(s)] = t[i]
    BY <1>1
  <1>4. \A i \in 1..Len(u) : \/ i \in 1..Len(s) /\ u[i] = s[i]
                             \/ i - Len(s) \in 1..Len(t) /\ u[i] = t[i - Len(s)]
    BY <1>1
  <1>5. Files(u) = Files(s) \cup Files(t)
    BY <1>2, <1>3, <1>4 DEF Files
  <1> QED
    BY <1>5 DEF u

LEMMA BackedConcat ==
  ASSUME NEW C, NEW s \in Seq(Write), NEW t \in Seq(Write),
         Backed(C, s), Backed(C \cup Files(s), t)
  PROVE  Backed(C, s \o t)
  <1> DEFINE u == s \o t
  <1>1. /\ Len(u) = Len(s) + Len(t) /\ Len(s) \in Nat /\ Len(t) \in Nat
        /\ \A i \in 1..Len(u) : u[i] = IF i <= Len(s) THEN s[i] ELSE t[i - Len(s)]
    BY ConcatProperties, LenProperties
  <1> HIDE DEF u
  <1>2. ASSUME NEW i \in 1..Len(u), u[i].kind = "att"
        PROVE  \/ Named(C, u[i].rec)
               \/ \E j \in 1..i - 1 : u[j].kind = "cp" /\ Named({u[j].file}, u[i].rec)
    <2>1. CASE i <= Len(s)
      <3>1. i \in 1..Len(s) /\ u[i] = s[i] /\ \A j \in 1..i - 1 : u[j] = s[j]
        BY <1>1, <2>1
      <3>2. \/ Named(C, s[i].rec)
            \/ \E j \in 1..i - 1 : s[j].kind = "cp" /\ Named({s[j].file}, s[i].rec)
        BY <1>2, <3>1 DEF Backed
      <3> QED
        BY <3>1, <3>2, Zenon
    <2>2. CASE i > Len(s)
      <3> DEFINE k == i - Len(s)
      <3>1. k \in 1..Len(t) /\ u[i] = t[k]
        BY <1>1, <2>2
      <3>2. \A j \in 1..k - 1 : j + Len(s) \in 1..i - 1 /\ u[j + Len(s)] = t[j]
        <4> TAKE j \in 1..k - 1
        <4>1. /\ j + Len(s) \in 1..i - 1 /\ j + Len(s) \in 1..Len(u)
              /\ ~(j + Len(s) <= Len(s)) /\ j + Len(s) - Len(s) = j
          BY <1>1, <2>2
        <4> QED
          BY <1>1, <4>1
      <3>3. \A j \in 1..Len(s) : j \in 1..i - 1 /\ u[j] = s[j]
        BY <1>1, <2>2
      <3> HIDE DEF k
      <3>4. \/ Named(C \cup Files(s), t[k].rec)
            \/ \E j \in 1..k - 1 : t[j].kind = "cp" /\ Named({t[j].file}, t[k].rec)
        BY <1>2, <3>1 DEF Backed
      <3>5. CASE Named(C \cup Files(s), t[k].rec)
        <4> DEFINE f == [id |-> t[k].rec.cp, safe |-> t[k].rec.cpSafe]
        <4>1. CASE Named(C, t[k].rec)
          BY <3>1, <4>1
        <4>2. CASE ~Named(C, t[k].rec)
          <5>1. f \in Files(s)
            BY <3>5, <4>2 DEF Named
          <5>2. PICK j \in 1..Len(s) : s[j].kind = "cp" /\ s[j].file = f
            BY <5>1 DEF Files
          <5>3. Named({s[j].file}, t[k].rec)
            BY <5>2 DEF Named
          <5> QED
            BY <3>1, <3>3, <5>2, <5>3
        <4> QED
          BY <4>1, <4>2
      <3>6. CASE \E j \in 1..k - 1 : t[j].kind = "cp" /\ Named({t[j].file}, t[k].rec)
        <4>1. PICK j \in 1..k - 1 : t[j].kind = "cp" /\ Named({t[j].file}, t[k].rec)
          BY <3>6
        <4>2. j + Len(s) \in 1..i - 1 /\ u[j + Len(s)] = t[j]
          BY <3>2, Zenon
        <4> DEFINE h == j + Len(s)
        <4>3. h \in 1..i - 1 /\ u[h].kind = "cp" /\ Named({u[h].file}, u[i].rec)
          BY <3>1, <4>1, <4>2
        <4> QED
          BY <4>3, Zenon
      <3> QED
        BY <3>4, <3>5, <3>6
    <2>3. i <= Len(s) \/ i > Len(s)
      BY <1>1
    <2> QED
      BY <2>1, <2>2, <2>3, Zenon
  <1>3. Backed(C, u)
    BY <1>2 DEF Backed
  <1> QED
    BY <1>3 DEF u

-----------------------------------------------------------------------------
(* What the handlers do to the checkpoint of a record *)

LEMMA KeepsCheckpoint ==
  ASSUME NEW r \in AttemptRec, NEW s
  PROVE  /\ Moved(r, s).cp = r.cp /\ Moved(r, s).cpSafe = r.cpSafe
         /\ Claimed(r).cp = r.cp /\ Claimed(r).cpSafe = r.cpSafe
         /\ Bound(r).cp = r.cp /\ Bound(r).cpSafe = r.cpSafe
         /\ Requeued(r).cp = r.cp /\ Requeued(r).cpSafe = r.cpSafe
         /\ Reclaimed(r).cp = r.cp /\ Reclaimed(r).cpSafe = r.cpSafe
  BY DEF AttemptRec, Moved, Claimed, Bound, Requeued, Reclaimed

LEMMA NamedKept ==
  ASSUME NEW C, NEW r \in AttemptRec, NEW s, Named(C, r)
  PROVE  /\ Named(C, Moved(r, s))
         /\ Named(C, Claimed(r))
         /\ Named(C, Bound(r))
         /\ Named(C, Requeued(r))
         /\ Named(C, Reclaimed(r))
  <1> HIDE DEF AttemptRec
  <1> QED
    BY KeepsCheckpoint DEF Named

\* A handler that leaves the record e.rec and writes e.ws keeps the agreement.
Good(C, e) == Backed(C, e.ws) /\ Named(C \cup Files(e.ws), e.rec)

LEMMA CheckpointGood ==
  ASSUME NEW C, NEW a \in Attempt, NEW r \in AttemptRec, NEW safe \in BOOLEAN
  PROVE  /\ Backed(C, CheckpointWrites(a, r, safe))
         /\ Named(Files(CheckpointWrites(a, r, safe)), Checkpointed(a, r, safe))
  <1> DEFINE f == CpOf(a, r, safe)
             k == Checkpointed(a, r, safe)
             ws == CheckpointWrites(a, r, safe)
  <1>1. f \in CpFile
    BY CpOfType
  <1>2. Named({f}, k)
    BY DEF Named, CpOf, Checkpointed, AttemptRec
  <1>3. /\ Len(ws) = 2
        /\ ws[1].kind = "cp" /\ ws[1].file = f
        /\ ws[2].kind = "att" /\ ws[2].rec = k
    BY WriteKinds DEF CheckpointWrites
  <1> HIDE DEF f, k, ws
  <1>4. Backed(C, ws)
    BY <1>2, <1>3 DEF Backed
  <1>5. f \in Files(ws)
    BY <1>1, <1>3 DEF Files
  <1>6. Named(Files(ws), k)
    BY <1>2, <1>5, NamedMonotone
  <1> QED
    BY <1>4, <1>6 DEF ws, k

\* One more record behind ws, backed by C and by what ws saves.
LEMMA AppendRecord ==
  ASSUME NEW C, NEW a \in Attempt, NEW r \in AttemptRec, NEW ws \in Seq(Write),
         Backed(C, ws), Named(C \cup Files(ws), r)
  PROVE  /\ ws \o <<WAtt(a, r)>> \in Seq(Write)
         /\ Backed(C, ws \o <<WAtt(a, r)>>)
         /\ Named(C \cup Files(ws \o <<WAtt(a, r)>>), r)
  <1>1. <<WAtt(a, r)>> \in Seq(Write)
    BY WAttType
  <1>2. Backed(C \cup Files(ws), <<WAtt(a, r)>>)
    BY OneRecord
  <1>3. Backed(C, ws \o <<WAtt(a, r)>>)
    BY <1>1, <1>2, BackedConcat
  <1>4. C \cup Files(ws) \subseteq C \cup Files(ws \o <<WAtt(a, r)>>)
    BY <1>1, FilesConcat
  <1> QED
    BY <1>1, <1>3, <1>4, NamedMonotone, ConcatProperties

\* A checkpoint behind ws.
LEMMA AppendCheckpoint ==
  ASSUME NEW C, NEW a \in Attempt, NEW r \in AttemptRec, NEW safe \in BOOLEAN,
         NEW ws \in Seq(Write), Backed(C, ws)
  PROVE  /\ ws \o CheckpointWrites(a, r, safe) \in Seq(Write)
         /\ Backed(C, ws \o CheckpointWrites(a, r, safe))
         /\ Named(C \cup Files(ws \o CheckpointWrites(a, r, safe)), Checkpointed(a, r, safe))
  <1> DEFINE t == CheckpointWrites(a, r, safe)
             k == Checkpointed(a, r, safe)
  <1>1. t \in Seq(Write)
    BY CheckpointWritesType
  <1>2. Backed(C \cup Files(ws), t) /\ Named(Files(t), k)
    BY CheckpointGood
  <1> HIDE DEF t, k
  <1>3. Backed(C, ws \o t)
    BY <1>1, <1>2, BackedConcat
  <1>4. Files(t) \subseteq C \cup Files(ws \o t)
    BY <1>1, FilesConcat
  <1>5. Named(C \cup Files(ws \o t), k)
    BY <1>2, <1>4, NamedMonotone
  <1>6. ws \o t \in Seq(Write)
    BY <1>1, ConcatProperties
  <1> QED
    BY <1>3, <1>5, <1>6 DEF t, k

LEMMA OneRecordGood ==
  ASSUME NEW C, NEW a \in Attempt, NEW r, Named(C, r)
  PROVE  Good(C, [rec |-> r, ws |-> <<WAtt(a, r)>>])
  <1>1. Backed(C, <<WAtt(a, r)>>)
    BY OneRecord
  <1>2. Named(C \cup Files(<<WAtt(a, r)>>), r)
    BY NamedMonotone
  <1> QED
    BY <1>1, <1>2 DEF Good

LEMMA NothingGood ==
  ASSUME NEW C, NEW r, Named(C, r)
  PROVE  Good(C, [rec |-> r, ws |-> <<>>])
  BY BackedEmpty, NamedMonotone DEF Good

-----------------------------------------------------------------------------
(* The ends of a run *)

LEMMA RequestGood ==
  ASSUME TypeOK, NEW C, NEW a \in Attempt, NEW s, Named(C, att[a])
  PROVE  Good(C, Request(a, s))
  <1>1. att[a] \in AttemptRec
    BY DEF TypeOK
  <1>2. Named(C, Moved(att[a], s))
    BY <1>1, NamedKept
  <1> QED
    BY <1>2, OneRecordGood, NothingGood DEF Request

LEMMA EndPausedGood ==
  ASSUME TypeOK, NEW C, NEW a \in Attempt, Named(C, att[a])
  PROVE  Good(C, EndPaused(a))
  <1> DEFINE q == Request(a, "pause_requested")
             k == Checkpointed(a, q.rec, TRUE)
             p == Moved(k, "paused")
             w == q.ws \o CheckpointWrites(a, q.rec, TRUE)
  <1>1. q \in Ending /\ Good(C, q)
    BY RequestType, RequestGood DEF L!Status, L!Live
  <1>2. EndPaused(a) = IF q.rec.status # "pause_requested" THEN q
                       ELSE [rec |-> p, ws |-> w \o <<WAtt(a, p)>>]
    BY DEF EndPaused, q, k, p, w
  <1>3. q.rec \in AttemptRec /\ q.ws \in Seq(Write) /\ Backed(C, q.ws)
    BY <1>1 DEF Ending, Good
  <1> HIDE DEF q
  <1>4. w \in Seq(Write) /\ Backed(C, w) /\ Named(C \cup Files(w), k)
    BY <1>3, AppendCheckpoint
  <1>5. k \in AttemptRec
    BY <1>3, CheckpointedType
  <1> HIDE DEF k, w
  <1>6. p \in AttemptRec /\ Named(C \cup Files(w), p)
    BY <1>4, <1>5, NamedKept, MovedType DEF L!Status, L!Live
  <1> HIDE DEF p
  <1>7. Good(C, [rec |-> p, ws |-> w \o <<WAtt(a, p)>>])
    BY <1>4, <1>6, AppendRecord DEF Good
  <1> QED
    BY <1>1, <1>2, <1>7

LEMMA EndCancelledGood ==
  ASSUME TypeOK, NEW C, NEW a \in Attempt, Named(C, att[a])
  PROVE  Good(C, EndCancelled(a))
  <1> DEFINE q == Request(a, "cancel_requested")
             c == Moved(q.rec, "cancelled")
  <1>1. q \in Ending /\ Good(C, q)
    BY RequestType, RequestGood DEF L!Status, L!Live
  <1>2. EndCancelled(a) = IF q.rec.status # "cancel_requested" THEN q
                          ELSE [rec |-> c, ws |-> q.ws \o <<WAtt(a, c)>>]
    BY DEF EndCancelled, q, c
  <1>3. /\ q.rec \in AttemptRec /\ q.ws \in Seq(Write)
        /\ Backed(C, q.ws) /\ Named(C \cup Files(q.ws), q.rec)
    BY <1>1 DEF Ending, Good
  <1> HIDE DEF q
  <1>4. c \in AttemptRec /\ Named(C \cup Files(q.ws), c)
    BY <1>3, NamedKept, MovedType DEF L!Status, L!Terminal
  <1> HIDE DEF c
  <1>5. Good(C, [rec |-> c, ws |-> q.ws \o <<WAtt(a, c)>>])
    BY <1>3, <1>4, AppendRecord DEF Good
  <1> QED
    BY <1>1, <1>2, <1>5

LEMMA EndCancelFailedGood ==
  ASSUME TypeOK, NEW C, NEW a \in Attempt, Named(C, att[a])
  PROVE  Good(C, EndCancelFailed(a))
  <1>1. Named(C, Moved(att[a], "failed"))
    BY NamedKept DEF TypeOK
  <1> QED
    BY <1>1, OneRecordGood, NothingGood DEF EndCancelFailed

LEMMA EndTerminalGood ==
  ASSUME TypeOK, NEW C, NEW a \in Attempt, NEW s \in {"succeeded", "failed"}
  PROVE  Good(C, EndTerminal(a, s))
  <1> DEFINE safe == (s = "succeeded")
             k == Checkpointed(a, att[a], safe)
             t == Moved(k, s)
             w == CheckpointWrites(a, att[a], safe)
             tail == <<WAtt(a, t), WAck(a)>>
  <1>1. att[a] \in AttemptRec /\ safe \in BOOLEAN
    BY DEF TypeOK
  <1>2. EndTerminal(a, s) = IF TerminalAllowed(a, s)
                            THEN [rec |-> t, ws |-> w \o tail]
                            ELSE [rec |-> k, ws |-> w]
    BY DEF EndTerminal
  <1> HIDE DEF safe
  <1>3. /\ k \in AttemptRec /\ w \in Seq(Write)
        /\ Backed(C, w) /\ Named(Files(w), k)
    BY <1>1, CheckpointedType, CheckpointWritesType, CheckpointGood
  <1> HIDE DEF k, w
  <1>4. t \in AttemptRec /\ Named(Files(w), t)
    BY <1>3, NamedKept, MovedType DEF L!Status, L!Terminal
  <1> HIDE DEF t
  <1>5. Named(C \cup Files(w), k) /\ Named(C \cup Files(w), t)
    BY <1>3, <1>4, NamedMonotone
  <1>6. tail \in Seq(Write) /\ Backed(C \cup Files(w), tail)
    <2>1. WAtt(a, t) \in Write /\ WAck(a) \in Write
      BY <1>4, WAttType, WAckUsageType
    <2>2. /\ Len(tail) = 2 /\ tail[1].kind = "att" /\ tail[1].rec = t
          /\ tail[2].kind = "ack"
      BY WriteKinds
    <2>3. tail \in Seq(Write)
      BY <2>1
    <2> HIDE DEF tail
    <2> QED
      BY <1>5, <2>2, <2>3 DEF Backed
  <1> HIDE DEF tail
  <1>7. Backed(C, w \o tail)
    BY <1>3, <1>6, BackedConcat
  <1>8. Files(w) \subseteq Files(w \o tail)
    BY <1>3, <1>6, FilesConcat
  <1>9. Named(C \cup Files(w \o tail), t)
    BY <1>4, <1>8, NamedMonotone
  <1>10. Good(C, [rec |-> t, ws |-> w \o tail]) /\ Good(C, [rec |-> k, ws |-> w])
    BY <1>3, <1>5, <1>7, <1>9 DEF Good
  <1> QED
    BY <1>2, <1>10

-----------------------------------------------------------------------------
(* What a handler that starts with no write left does to the invariant *)

LEMMA InMemoryNamed ==
  ASSUME CheckpointInv, up, todo = <<>>, NEW a \in Attempt
  PROVE  Named(cps, att[a])
  BY FilesEmpty, NamedMonotone DEF CheckpointInv

\* The handler leaves the attempt a as e says.
LEMMA StepOne ==
  ASSUME TypeOK, CheckpointInv, up, todo = <<>>, NEW a \in Attempt, NEW e, Good(cps, e),
         att' = [att EXCEPT ![a] = e.rec], todo' = e.ws,
         UNCHANGED <<cps, datt>>
  PROVE  CheckpointInv'
  <1>1. \A b \in Attempt : Named(cps, datt[b])
    BY DEF CheckpointInv
  <1>2. Backed(cps, todo') /\ Named(cps \cup Files(todo'), e.rec)
    BY DEF Good
  <1>3. ASSUME NEW b \in Attempt PROVE Named(cps \cup Files(todo'), att'[b])
    <2>1. CASE b = a
      BY <1>2, <2>1 DEF TypeOK
    <2>2. CASE b # a
      <3>1. att'[b] = att[b]
        BY <2>2 DEF TypeOK
      <3>2. Named(cps, att[b])
        BY InMemoryNamed
      <3> QED
        BY <3>1, <3>2, NamedMonotone
    <2> QED
      BY <2>1, <2>2
  <1> QED
    BY <1>1, <1>2, <1>3 DEF CheckpointInv

\* The handler changes and writes one record that names a file of cps.
LEMMA StepRecord ==
  ASSUME TypeOK, CheckpointInv, up, todo = <<>>, NEW a \in Attempt, NEW r, Named(cps, r),
         att' = [att EXCEPT ![a] = r], todo' = <<WAtt(a, r)>>,
         UNCHANGED <<cps, datt>>
  PROVE  CheckpointInv'
  <1> DEFINE e == [rec |-> r, ws |-> <<WAtt(a, r)>>]
  <1>1. Good(cps, e) /\ e.rec = r /\ e.ws = <<WAtt(a, r)>>
    BY OneRecordGood
  <1> HIDE DEF e
  <1> QED
    BY <1>1, StepOne

\* The handler leaves the attempts and the files alone.
LEMMA StepSame ==
  ASSUME CheckpointInv, up, todo = <<>>,
         todo' = <<>> \/ \E w : w.kind \notin {"att", "cp"} /\ todo' = <<w>>,
         UNCHANGED <<att, cps, datt>>
  PROVE  CheckpointInv'
  <1>1. Backed(cps, todo')
    BY BackedEmpty, OtherWrite
  <1>2. ASSUME NEW a \in Attempt PROVE Named(cps \cup Files(todo'), att[a])
    BY InMemoryNamed, NamedMonotone
  <1> QED
    BY <1>1, <1>2 DEF CheckpointInv

-----------------------------------------------------------------------------
(* The actions *)

LEMMA CheckpointInit == Init => CheckpointInv
  <1> SUFFICES ASSUME Init PROVE CheckpointInv
    OBVIOUS
  <1>1. ASSUME NEW C PROVE Named(C, Absent)
    BY DEF Named, Absent
  <1>2. \A a \in Attempt : att[a] = Absent /\ datt[a] = Absent
    BY DEF Init
  <1>3. Backed(cps, todo)
    BY BackedEmpty DEF Init
  <1> QED
    BY <1>1, <1>2, <1>3 DEF CheckpointInv

LEMMA CrashKeeps == CheckpointInv /\ Crash => CheckpointInv'
  BY BackedEmpty DEF CheckpointInv, Crash, durable

LEMMA RestartKeeps == TypeOK /\ CheckpointInv /\ Restart => CheckpointInv'
  <1> SUFFICES ASSUME TypeOK, CheckpointInv, Restart PROVE CheckpointInv'
    OBVIOUS
  <1>1. UNCHANGED <<todo, cps, datt>> /\ att' = datt
    BY DEF Restart, durable
  <1>2. ASSUME NEW a \in Attempt PROVE Named(cps \cup Files(todo), datt[a])
    BY NamedMonotone DEF CheckpointInv
  <1> QED
    BY <1>1, <1>2 DEF CheckpointInv

LEMMA ReclaimKeeps == TypeOK /\ CheckpointInv /\ ReclaimStep => CheckpointInv'
  <1> SUFFICES ASSUME TypeOK, CheckpointInv, ReclaimStep PROVE CheckpointInv'
    OBVIOUS
  <1>1. up /\ todo = <<>> /\ UNCHANGED <<cps, datt>>
    BY DEF ReclaimStep, InJob, durable
  <1>2. CASE job.next \in Attempt /\ Stale(att[job.next])
    <2> DEFINE a == job.next
               r == Reclaimed(att[a])
    <2>1. att' = [att EXCEPT ![a] = r] /\ todo' = <<WAtt(a, r)>>
      BY <1>2 DEF ReclaimStep
    <2>2. Named(cps, r)
      BY <1>1, <1>2, InMemoryNamed, NamedKept DEF TypeOK
    <2> HIDE DEF r
    <2> QED
      BY <1>1, <1>2, <2>1, <2>2, StepRecord
  <1>3. CASE ~(job.next \in Attempt /\ Stale(att[job.next]))
    <2>1. UNCHANGED <<att, todo>>
      BY <1>3 DEF ReclaimStep
    <2> QED
      BY <1>1, <2>1, StepSame
  <1> QED
    BY <1>2, <1>3

LEMMA HeartbeatKeeps ==
  ASSUME TypeOK, CheckpointInv, NEW a \in Attempt, Heartbeat(a)
  PROVE  CheckpointInv'
  <1> DEFINE r == [att[a] EXCEPT !.ver = @ + 1]
  <1>1. /\ up /\ todo = <<>> /\ UNCHANGED <<cps, datt>>
        /\ att' = [att EXCEPT ![a] = r] /\ todo' = <<WAtt(a, r)>>
    BY DEF Heartbeat, Idle, durable
  <1>2. Named(cps, att[a])
    BY <1>1, InMemoryNamed
  <1>3. r.cp = att[a].cp /\ r.cpSafe = att[a].cpSafe
    BY DEF TypeOK, AttemptRec
  <1> HIDE DEF r
  <1>4. Named(cps, r)
    BY <1>2, <1>3 DEF Named
  <1> QED
    BY <1>1, <1>4, StepRecord

\* A write that is made is no longer among the writes to be made, but its
\* file is then among the files.
LEMMA PersistKeeps == TypeOK /\ CheckpointInv /\ Persist => CheckpointInv'
  <1> SUFFICES ASSUME TypeOK, CheckpointInv, Persist PROVE CheckpointInv'
    OBVIOUS
  <1> DEFINE w == Head(todo)
             t == Tail(todo)
  <1>1. /\ todo \in Seq(Write) /\ todo # <<>>
        /\ up' = up /\ att' = att /\ todo' = t
        /\ datt' = IF w.kind = "att" THEN [datt EXCEPT ![w.a] = w.rec] ELSE datt
        /\ cps' = IF w.kind = "cp" THEN cps \cup {w.file} ELSE cps
    BY DEF Persist, memory, TypeOK
  <1>2. /\ w \in Write /\ w = todo[1] /\ 1 \in 1..Len(todo)
        /\ Len(todo) \in Nat /\ Len(t) = Len(todo) - 1
        /\ \A i \in 1..Len(t) : i + 1 \in 1..Len(todo) /\ t[i] = todo[i + 1]
    BY <1>1, HeadTailProperties, LenProperties
  <1>3. \A i \in 1..Len(todo) : i = 1 \/ (i - 1 \in 1..Len(t) /\ todo[i] = t[i - 1])
    <2> TAKE i \in 1..Len(todo)
    <2>1. CASE i # 1
      <3>1. i - 1 \in 1..Len(t) /\ (i - 1) + 1 = i
        BY <1>2, <2>1
      <3> QED
        BY <1>2, <3>1
    <2> QED
      BY <2>1
  <1> HIDE DEF w, t
  <1>4. w.kind = "att" => w.a \in Attempt /\ Named(cps, w.rec)
    <2>1. w.kind = "att" => w.a \in Attempt
      <3>1. w \in Write
        BY <1>2
      <3> QED
        BY <3>1 DEF Write
    <2>2. w.kind = "att" => Named(cps, w.rec)
      <3>1. 1 \in 1..Len(todo) /\ w = todo[1] /\ 1..1 - 1 = {}
        BY <1>2
      <3> QED
        BY <3>1 DEF CheckpointInv, Backed
    <2> QED
      BY <2>1, <2>2
  <1>5. cps \subseteq cps'
    BY <1>1
  <1>6. ASSUME NEW a \in Attempt PROVE Named(cps', datt'[a])
    <2>1. Named(cps, datt[a])
      BY DEF CheckpointInv
    <2>2. datt'[a] = datt[a] \/ (w.kind = "att" /\ datt'[a] = w.rec)
      <3>1. datt \in [Attempt -> AttemptRec]
        BY DEF TypeOK
      <3> QED
        BY <1>1, <1>4, <3>1
    <2> QED
      BY <1>4, <1>5, <2>1, <2>2, NamedMonotone
  <1>7. ASSUME NEW i \in 1..Len(t), t[i].kind = "att"
        PROVE  \/ Named(cps', t[i].rec)
               \/ \E j \in 1..i - 1 : t[j].kind = "cp" /\ Named({t[j].file}, t[i].rec)
    <2> DEFINE n == i + 1
    <2>1. n \in 1..Len(todo) /\ todo[n] = t[i]
      BY <1>2
    <2>2. \A j \in 1..n - 1 : j = 1 \/ (j - 1 \in 1..i - 1 /\ todo[j] = t[j - 1])
      BY <1>2, <1>3
    <2> HIDE DEF n
    <2>3. \/ Named(cps, todo[n].rec)
          \/ \E j \in 1..n - 1 : todo[j].kind = "cp" /\ Named({todo[j].file}, todo[n].rec)
      BY <1>7, <2>1 DEF CheckpointInv, Backed
    <2>4. CASE Named(cps, todo[n].rec)
      BY <1>5, <2>1, <2>4, NamedMonotone
    <2>5. CASE \E j \in 1..n - 1 : todo[j].kind = "cp" /\ Named({todo[j].file}, todo[n].rec)
      <3>1. PICK j \in 1..n - 1 : todo[j].kind = "cp" /\ Named({todo[j].file}, todo[n].rec)
        BY <2>5
      <3>2. CASE j = 1
        <4>1. w.kind = "cp" /\ Named({w.file}, t[i].rec) /\ {w.file} \subseteq cps'
          BY <1>1, <1>2, <2>1, <3>1, <3>2
        <4> QED
          BY <4>1, NamedMonotone
      <3>3. CASE j # 1
        <4> DEFINE h == j - 1
        <4>1. h \in 1..i - 1 /\ todo[j] = t[h]
          BY <2>2, <3>3
        <4> HIDE DEF h
        <4> QED
          BY <2>1, <3>1, <4>1, Zenon
      <3> QED
        BY <3>2, <3>3
    <2> QED
      BY <2>3, <2>4, <2>5
  <1>8. Backed(cps', todo')
    BY <1>1, <1>7 DEF Backed
  <1>9. cps \cup Files(todo) \subseteq cps' \cup Files(t)
    <2> SUFFICES ASSUME NEW f \in Files(todo) PROVE f \in cps' \cup Files(t)
      BY <1>5
    <2>1. f \in CpFile
      BY DEF Files
    <2>2. PICK i \in 1..Len(todo) : todo[i].kind = "cp" /\ todo[i].file = f
      BY DEF Files
    <2>3. CASE i = 1
      BY <1>1, <1>2, <2>2, <2>3
    <2>4. CASE i # 1
      <3>1. i - 1 \in 1..Len(t) /\ todo[i] = t[i - 1]
        BY <1>3, <2>4
      <3> QED
        BY <2>1, <2>2, <3>1 DEF Files
    <2> QED
      BY <2>3, <2>4
  <1>10. up' => \A a \in Attempt : Named(cps' \cup Files(todo'), att'[a])
    BY <1>1, <1>9, NamedMonotone DEF CheckpointInv
  <1> QED
    BY <1>6, <1>8, <1>10 DEF CheckpointInv

LEMMA RunOnceKeeps ==
  ASSUME TypeOK, CheckpointInv, NEW a \in Attempt, RunOnce(a)
  PROVE  CheckpointInv'
  <1> DEFINE c == Claimed(att[a])
             b == Bound(c)
             s == Moved(b, "running")
             k == Checkpointed(a, s, TRUE)
             h == <<WAtt(a, c), WAtt(a, b), WAtt(a, s)>>
             w == h \o CheckpointWrites(a, s, TRUE)
             e == [rec |-> k, ws |-> w]
  <1>1. /\ up /\ todo = <<>> /\ UNCHANGED <<cps, datt>>
        /\ att' = [att EXCEPT ![a] = k] /\ todo' = w
    BY DEF RunOnce, Idle, durable
  <1>2. c \in AttemptRec /\ Named(cps, c)
    BY <1>1, InMemoryNamed, ClaimedType, NamedKept DEF TypeOK
  <1> HIDE DEF c
  <1>3. b \in AttemptRec /\ Named(cps, b)
    BY <1>2, BoundType, NamedKept
  <1> HIDE DEF b
  <1>4. s \in AttemptRec /\ Named(cps, s)
    BY <1>3, MovedType, NamedKept DEF L!Status, L!Live
  <1> HIDE DEF s
  <1>5. h \in Seq(Write) /\ Backed(cps, h)
    <2>1. WAtt(a, c) \in Write /\ WAtt(a, b) \in Write /\ WAtt(a, s) \in Write
      BY <1>2, <1>3, <1>4, WAttType
    <2>2. /\ Len(h) = 3 /\ h[1].rec = c /\ h[2].rec = b /\ h[3].rec = s
      BY WriteKinds
    <2>3. h \in Seq(Write)
      BY <2>1
    <2> HIDE DEF h
    <2> QED
      BY <1>2, <1>3, <1>4, <2>2, <2>3 DEF Backed
  <1> HIDE DEF h
  <1>6. Backed(cps, w) /\ Named(cps \cup Files(w), k)
    BY <1>4, <1>5, AppendCheckpoint
  <1> HIDE DEF k, w
  <1>7. Good(cps, e) /\ e.rec = k /\ e.ws = w
    BY <1>6 DEF Good
  <1> HIDE DEF e
  <1> QED
    BY <1>1, <1>7, StepOne

LEMMA AttemptIsThere == 1 \in Attempt
  BY ExecutionAssumption DEF Attempt

\* Steps that touch neither the attempts nor the files.
LEMMA WaitKeeps ==
  ASSUME CheckpointInv, NEW a \in Attempt,
         \/ CallProvider \/ ProviderStops(a) \/ Wake(a) \/ Timeout(a)
         \/ HostPause(a) \/ HostCancel(a)
         \/ Pause \/ Resume \/ Cancel
  PROVE  CheckpointInv'
  <1>1. UNCHANGED <<up, todo, att, cps, datt>>
    BY DEF CallProvider, ProviderStops, Wake, Timeout, HostPause, HostCancel,
           Pause, Resume, Cancel, Control, memory, durable
  <1> QED
    BY <1>1 DEF CheckpointInv

LEMMA ReturnKeeps ==
  ASSUME TypeOK, CheckpointInv, Idle, NEW a \in Attempt, NEW e, Good(cps, e), Return(a, e),
         UNCHANGED durable
  PROVE  CheckpointInv'
  <1>1. /\ up /\ todo = <<>> /\ UNCHANGED <<cps, datt>>
        /\ att' = [att EXCEPT ![a] = e.rec] /\ todo' = e.ws
    BY DEF Idle, Return, durable
  <1> QED
    BY <1>1, StepOne

LEMMA CancellingKeeps ==
  ASSUME TypeOK, CheckpointInv, NEW a \in Attempt,
         CancelConfirmed(a) \/ CancelRefused(a) \/ CancelRaises(a)
  PROVE  CheckpointInv'
  <1>1. Idle /\ UNCHANGED durable
    BY DEF CancelConfirmed, CancelRefused, CancelRaises
  <1>2. Named(cps, att[a])
    BY <1>1, InMemoryNamed DEF Idle
  <1>3. PICK e : Good(cps, e) /\ Return(a, e)
    BY <1>2, EndCancelledGood, EndCancelFailedGood
       DEF CancelConfirmed, CancelRefused, CancelRaises
  <1> QED
    BY <1>1, <1>3, ReturnKeeps

LEMMA AfterResultKeeps ==
  ASSUME TypeOK, CheckpointInv, NEW a \in Attempt, AfterResult(a)
  PROVE  CheckpointInv'
  <1>1. Idle /\ UNCHANGED durable
    BY DEF AfterResult
  <1>2. Named(cps, att[a])
    BY <1>1, InMemoryNamed DEF Idle
  <1>3. CASE CancelWanted(a)
    <2>1. Return(a, EndCancelled(a))
      BY <1>3 DEF AfterResult
    <2> QED
      BY <1>1, <1>2, <2>1, EndCancelledGood, ReturnKeeps
  <1>4. CASE ~CancelWanted(a) /\ PauseWanted(a)
    <2> DEFINE u == <<WUsage(a)>>
               p == EndPaused(a)
               e == [p EXCEPT !.ws = u \o @]
    <2>1. p \in Ending /\ Good(cps, p)
      BY <1>2, EndPausedType, EndPausedGood
    <2>2. u \in Seq(Write) /\ Backed(cps, u)
      BY WAckUsageType, OtherWrite, WriteKinds
    <2>3. Return(a, e)
      BY <1>4 DEF AfterResult
    <2> HIDE DEF p, u
    <2>4. /\ p.ws \in Seq(Write) /\ e.ws = u \o p.ws /\ e.rec = p.rec
          /\ Backed(cps, p.ws) /\ Named(cps \cup Files(p.ws), p.rec)
      BY <2>1 DEF Ending, Good
    <2> HIDE DEF e
    <2>5. Backed(cps, u \o p.ws)
      <3>1. Backed(cps \cup Files(u), p.ws)
        BY <2>4, BackedMonotone
      <3> QED
        BY <2>2, <2>4, <3>1, BackedConcat
    <2>6. Named(cps \cup Files(u \o p.ws), p.rec)
      <3>1. cps \cup Files(p.ws) \subseteq cps \cup Files(u \o p.ws)
        BY <2>2, <2>4, FilesConcat
      <3> QED
        BY <2>4, <3>1, NamedMonotone
    <2>7. Good(cps, e)
      BY <2>4, <2>5, <2>6 DEF Good
    <2> QED
      BY <1>1, <2>3, <2>7, ReturnKeeps
  <1>5. CASE ~CancelWanted(a) /\ ~PauseWanted(a)
    <2>1. todo' = <<WUsage(a)>> /\ UNCHANGED <<att, cps, datt>>
      BY <1>5 DEF AfterResult, durable
    <2> QED
      BY <1>1, <2>1, WriteKinds, StepSame DEF Idle
  <1> QED
    BY <1>3, <1>4, <1>5

LEMMA AfterErrorKeeps ==
  ASSUME TypeOK, CheckpointInv, NEW a \in Attempt, AfterError(a)
  PROVE  CheckpointInv'
  <1>1. Idle /\ UNCHANGED durable
    BY DEF AfterError
  <1>2. Named(cps, att[a])
    BY <1>1, InMemoryNamed DEF Idle
  <1>3. PICK e : Good(cps, e) /\ Return(a, e)
    BY <1>2, EndCancelledGood, EndTerminalGood DEF AfterError
  <1> QED
    BY <1>1, <1>3, ReturnKeeps

LEMMA FinishKeeps ==
  ASSUME TypeOK, CheckpointInv, NEW a \in Attempt, Finish(a)
  PROVE  CheckpointInv'
  BY EndTerminalGood, ReturnKeeps DEF Finish

LEMMA RequestStepKeeps ==
  ASSUME TypeOK, CheckpointInv, PauseStep \/ CancelStep
  PROVE  CheckpointInv'
  <1>1. PICK kind, st : RequestStep(kind, st)
    BY DEF PauseStep, CancelStep
  <1>2. up /\ todo = <<>> /\ UNCHANGED <<cps, datt>>
    BY <1>1 DEF RequestStep, InJob, durable
  <1>3. CASE job.next \in Attempt /\ Askable(att[job.next])
    <2> DEFINE a == job.next
               r == Moved(att[a], Wanted(kind))
    <2>1. att' = [att EXCEPT ![a] = r] /\ todo' = <<WAtt(a, r)>>
      BY <1>1, <1>3 DEF RequestStep
    <2>2. Named(cps, r)
      BY <1>2, <1>3, InMemoryNamed, NamedKept DEF TypeOK
    <2> HIDE DEF r
    <2> QED
      BY <1>2, <1>3, <2>1, <2>2, StepRecord
  <1>4. CASE job.next \in Attempt /\ ~Askable(att[job.next])
    <2>1. UNCHANGED <<att, todo>>
      BY <1>1, <1>4 DEF RequestStep
    <2> QED
      BY <1>2, <2>1, StepSame
  <1>5. CASE job.next \notin Attempt
    <2>1. todo' = <<WParent(st)>> /\ UNCHANGED att
      BY <1>1, <1>5 DEF RequestStep, CommitParent
    <2> QED
      BY <1>2, <2>1, ParentKind, StepSame
  <1> QED
    BY <1>3, <1>4, <1>5

LEMMA ResumeStepKeeps == TypeOK /\ CheckpointInv /\ ResumeStep => CheckpointInv'
  <1> SUFFICES ASSUME TypeOK, CheckpointInv, ResumeStep PROVE CheckpointInv'
    OBVIOUS
  <1>1. up /\ todo = <<>> /\ UNCHANGED <<cps, datt>>
    BY DEF ResumeStep, InJob, durable
  <1>2. CASE job.next \in Attempt
    <2> DEFINE a == job.next
               r == Requeued(att[a])
    <2>1. \/ att' = [att EXCEPT ![a] = r] /\ todo' = <<WAtt(a, r)>>
          \/ UNCHANGED <<att, todo>>
      BY <1>2 DEF ResumeStep
    <2>2. Named(cps, r)
      BY <1>1, <1>2, InMemoryNamed, NamedKept DEF TypeOK
    <2> HIDE DEF r
    <2> QED
      BY <1>1, <1>2, <2>1, <2>2, StepRecord, StepSame
  <1>3. CASE job.next \notin Attempt
    <2>1. todo' = <<WParent("running")>> /\ UNCHANGED att
      BY <1>3 DEF ResumeStep, CommitParent
    <2> QED
      BY <1>1, <2>1, ParentKind, StepSame
  <1> QED
    BY <1>2, <1>3

LEMMA ExecuteKeeps == CheckpointInv /\ (Execute \/ CancelPaused) => CheckpointInv'
  <1> SUFFICES ASSUME CheckpointInv, Execute \/ CancelPaused PROVE CheckpointInv'
    OBVIOUS
  <1>1. PICK st : todo' = <<WParent(st)>>
    BY DEF Execute, CancelPaused, CommitParent
  <1>2. up /\ todo = <<>> /\ UNCHANGED <<att, cps, datt>>
    BY DEF Execute, CancelPaused, CommitParent, Idle, durable
  <1> QED
    BY <1>1, <1>2, ParentKind, StepSame

LEMMA EnqueueStepKeeps == TypeOK /\ CheckpointInv /\ EnqueueStep => CheckpointInv'
  <1> SUFFICES ASSUME TypeOK, CheckpointInv, EnqueueStep PROVE CheckpointInv'
    OBVIOUS
  <1>1. up /\ todo = <<>> /\ UNCHANGED <<cps, datt>>
    BY DEF EnqueueStep, InJob, durable
  <1>2. CASE job.next \in 1..NChild
    <2> DEFINE r == Fresh(job.next, ~refs)
    <2>1. PICK a \in Attempt : att' = [att EXCEPT ![a] = r] /\ todo' = <<WAtt(a, r)>>
      BY <1>2 DEF EnqueueStep
    <2>2. r.cp = NoCp
      BY DEF Fresh, Absent
    <2>3. Named(cps, r)
      BY <2>2 DEF Named
    <2> HIDE DEF r
    <2> QED
      BY <1>1, <2>1, <2>3, StepRecord
  <1>3. CASE job.next \notin 1..NChild
    <2>1. UNCHANGED <<att, todo>>
      BY <1>3 DEF EnqueueStep
    <2> QED
      BY <1>1, <2>1, StepSame
  <1> QED
    BY <1>2, <1>3

\* recover copies the recovery point, whose file it has seen to be safe.
LEMMA HostRecoverKeeps ==
  ASSUME TypeOK, CheckpointInv, NEW a \in Attempt, NEW p \in Attempt, HostRecover(p, a)
  PROVE  CheckpointInv'
  <1> DEFINE r == Recovery(p)
             c == RecoveryPoint(att[p])
  <1>1. /\ up /\ todo = <<>> /\ UNCHANGED <<cps, datt>>
        /\ att' = [att EXCEPT ![a] = r] /\ todo' = <<WAtt(a, r)>>
        /\ SafeFile(c)
    BY DEF HostRecover, Idle, durable
  <1>2. r.cp = c /\ r.cpSafe = TRUE
    BY DEF Recovery, Fresh, Absent
  <1> HIDE DEF r, c
  <1>3. Named(cps, r)
    BY <1>1, <1>2 DEF Named, SafeFile
  <1> QED
    BY <1>1, <1>3, StepRecord

LEMMA HostRegisterKeeps ==
  ASSUME TypeOK, CheckpointInv, NEW a \in Attempt, HostRegister(a)
  PROVE  CheckpointInv'
  <1> DEFINE r == Bound(att[a])
  <1>1. /\ up /\ todo = <<>> /\ UNCHANGED <<cps, datt>>
        /\ att' = [att EXCEPT ![a] = r] /\ todo' = <<WAtt(a, r)>>
    BY DEF HostRegister, Idle, durable
  <1>2. Named(cps, att[a])
    BY <1>1, InMemoryNamed
  <1>3. r.cp = att[a].cp /\ r.cpSafe = att[a].cpSafe
    BY DEF TypeOK, AttemptRec, Bound
  <1> HIDE DEF r
  <1>4. Named(cps, r)
    BY <1>2, <1>3 DEF Named
  <1> QED
    BY <1>1, <1>4, StepRecord

LEMMA NextKeeps == TypeOK /\ CheckpointInv /\ [Next]_vars => CheckpointInv'
  <1> SUFFICES ASSUME TypeOK, CheckpointInv, [Next]_vars PROVE CheckpointInv'
    OBVIOUS
  <1> USE AttemptIsThere
  <1>1. CASE Persist \/ Crash \/ Restart
    BY <1>1, PersistKeeps, CrashKeeps, RestartKeeps
  <1>2. CASE JobStep
    BY <1>2, WaitKeeps, ReclaimKeeps, RequestStepKeeps, ResumeStepKeeps, EnqueueStepKeeps
       DEF JobStep
  <1>3. CASE Execute \/ Pause \/ Resume \/ Cancel \/ CancelPaused
    BY <1>3, ExecuteKeeps, WaitKeeps
  <1>4. ASSUME NEW a \in Attempt,
               RunOnce(a) \/ ProviderStops(a) \/ Timeout(a) \/ Heartbeat(a)
        PROVE  CheckpointInv'
    BY <1>4, RunOnceKeeps, WaitKeeps, HeartbeatKeeps
  <1>5. ASSUME NEW a \in Attempt, RunnerStep(a)
        PROVE  CheckpointInv'
    BY <1>5, WaitKeeps, CancellingKeeps, AfterResultKeeps, AfterErrorKeeps, FinishKeeps
       DEF RunnerStep
  <1>6. ASSUME NEW a \in Attempt,
               \/ HostPause(a) \/ HostCancel(a) \/ HostRegister(a)
               \/ \E p \in Attempt : HostRecover(p, a)
        PROVE  CheckpointInv'
    BY <1>6, WaitKeeps, HostRecoverKeeps, HostRegisterKeeps
  <1>7. CASE UNCHANGED vars
    BY <1>7 DEF CheckpointInv, vars
  <1> QED
    BY <1>1, <1>2, <1>3, <1>4, <1>5, <1>6, <1>7 DEF Next

\* Whenever the process dies, every journalled attempt that names a checkpoint
\* names a file that exists and says the same of its safety as the attempt:
\* the order "file first, record second" of WorkerRunner._checkpoint is kept
\* by every handler that makes, copies or keeps such a name.
THEOREM CheckpointCorrect == Spec => []CheckpointAgreement
  <1>1. CheckpointInv => CheckpointAgreement
    BY DEF CheckpointInv, CheckpointAgreement, Named
  <1>2. Init => CheckpointInv
    BY CheckpointInit
  <1>3. TypeOK /\ CheckpointInv /\ [Next]_vars => CheckpointInv'
    BY NextKeeps
  <1>4. Spec => []TypeOK
    BY TypeCorrect
  <1> QED
    BY <1>1, <1>2, <1>3, <1>4, PTL DEF Spec

=============================================================================
