-------------------------- MODULE LifecycleProofs --------------------------
(***************************************************************************)
(* The life of the attempts for every instance of Execution: its runners,   *)
(* what the durable writes of a handler add up to, and from that the        *)
(* refinement of Lifecycle.                                                 *)
(***************************************************************************)
EXTENDS ExecutionProofs, FiniteSetTheorems

-----------------------------------------------------------------------------
(* The statuses that the operations lead to *)

LEMMA StatusOf ==
  ASSUME NEW r \in AttemptRec, NEW s
  PROVE  /\ Moved(r, s).status = s
         /\ Claimed(r).status = "claimed"
         /\ Bound(r).status = r.status
         /\ Requeued(r).status = "queued"
         /\ Reclaimed(r).status \in {"queued", "blocked"}
  BY DEF AttemptRec, Moved, Claimed, Bound, Requeued, Reclaimed

LEMMA CheckpointedStatus ==
  ASSUME NEW r \in AttemptRec, NEW a, NEW safe
  PROVE  Checkpointed(a, r, safe).status = r.status
  BY DEF AttemptRec, Checkpointed

LEMMA FreshStatus ==
  ASSUME NEW c, NEW b, NEW p
  PROVE  Fresh(c, b).status = "queued" /\ Recovery(p).status = "queued"
  BY DEF Fresh, Recovery, Absent

LEMMA EndCancelledStatus ==
  ASSUME TypeOK, NEW a \in Attempt
  PROVE  EndCancelled(a).rec.status =
           IF att[a].status \in {"running", "cancel_requested"} THEN "cancelled" ELSE att[a].status
  <1> DEFINE q == Request(a, "cancel_requested")
             c == Moved(q.rec, "cancelled")
  <1>1. att[a] \in AttemptRec
    BY DEF TypeOK
  <1>2. q.rec.status = IF att[a].status = "running" THEN "cancel_requested" ELSE att[a].status
    BY <1>1, StatusOf DEF Request
  <1>3. q \in Ending
    BY RequestType DEF L!Status, L!Live
  <1>4. EndCancelled(a) = IF q.rec.status # "cancel_requested" THEN q
                          ELSE [rec |-> c, ws |-> q.ws \o <<WAtt(a, c)>>]
    BY DEF EndCancelled, q, c
  <1> HIDE DEF q
  <1>5. c.status = "cancelled"
    BY <1>3, StatusOf DEF Ending
  <1> HIDE DEF c
  <1> QED
    BY <1>2, <1>4, <1>5

LEMMA EndPausedStatus ==
  ASSUME TypeOK, NEW a \in Attempt
  PROVE  EndPaused(a).rec.status =
           IF att[a].status \in {"running", "pause_requested"} THEN "paused" ELSE att[a].status
  <1> DEFINE q == Request(a, "pause_requested")
             k == Checkpointed(a, q.rec, TRUE)
             p == Moved(k, "paused")
  <1>1. att[a] \in AttemptRec
    BY DEF TypeOK
  <1>2. q.rec.status = IF att[a].status = "running" THEN "pause_requested" ELSE att[a].status
    BY <1>1, StatusOf DEF Request
  <1>3. q \in Ending
    BY RequestType DEF L!Status, L!Live
  <1>4. EndPaused(a) = IF q.rec.status # "pause_requested" THEN q
                       ELSE [rec |-> p, ws |-> q.ws \o CheckpointWrites(a, q.rec, TRUE) \o <<WAtt(a, p)>>]
    BY DEF EndPaused, q, k, p
  <1> HIDE DEF q
  <1>5. k \in AttemptRec
    BY <1>3, CheckpointedType DEF Ending
  <1> HIDE DEF k
  <1>6. p.status = "paused"
    BY <1>5, StatusOf
  <1> HIDE DEF p
  <1> QED
    BY <1>2, <1>4, <1>6

LEMMA EndCancelFailedStatus ==
  ASSUME TypeOK, NEW a \in Attempt
  PROVE  EndCancelFailed(a).rec.status =
           IF att[a].status = "cancel_requested" THEN "failed" ELSE att[a].status
  <1>1. att[a] \in AttemptRec
    BY DEF TypeOK
  <1>2. Moved(att[a], "failed").status = "failed"
    BY <1>1, StatusOf
  <1> QED
    BY <1>2 DEF EndCancelFailed

LEMMA EndTerminalStatus ==
  ASSUME TypeOK, NEW a \in Attempt, NEW s \in {"succeeded", "failed"}
  PROVE  EndTerminal(a, s).rec.status = IF TerminalAllowed(a, s) THEN s ELSE att[a].status
  <1> DEFINE safe == (s = "succeeded")
             k == Checkpointed(a, att[a], safe)
             t == Moved(k, s)
  <1>1. att[a] \in AttemptRec /\ safe \in BOOLEAN
    BY DEF TypeOK
  <1>2. EndTerminal(a, s) =
          IF TerminalAllowed(a, s)
          THEN [rec |-> t, ws |-> CheckpointWrites(a, att[a], safe) \o <<WAtt(a, t), WAck(a)>>]
          ELSE [rec |-> k, ws |-> CheckpointWrites(a, att[a], safe)]
    BY DEF EndTerminal
  <1> HIDE DEF safe
  <1>3. k \in AttemptRec /\ k.status = att[a].status
    BY <1>1, CheckpointedType, CheckpointedStatus
  <1> HIDE DEF k
  <1>4. t.status = s
    BY <1>3, StatusOf
  <1> HIDE DEF t
  <1> QED
    BY <1>2, <1>3, <1>4

\* From which statuses a run may end.
LEMMA TerminalAllowedWhen ==
  ASSUME NEW a \in Attempt, NEW s \in {"succeeded", "failed"}
  PROVE  TerminalAllowed(a, s) <=>
           \/ att[a].status = "running"
           \/ s = "failed" /\ att[a].status \in {"waiting_approval", "pause_requested",
                                                 "cancel_requested"}
  BY DEF TerminalAllowed, Allowed, L!CanMove, L!Successors, L!Terminal

-----------------------------------------------------------------------------
(* The runners: what the phase of a runner says of its attempt and of its    *)
(* provider task.                                                            *)

Started == {"running", "pause_requested", "cancel_requested"}

RunnerInv ==
    /\ \A a \in Attempt :
          /\ phase[a] # "none" => att[a].status \in Started
          /\ phase[a] = "cancelling" => a \in cancelReq
          /\ phase[a] \in {"returned", "finishing"} => prov[a] = "ok"
          /\ phase[a] = "raised" => prov[a] = "error"
    /\ job.kind = "call" =>
          job.next \in Attempt \ cancelReq /\ att[job.next].status = "running"
    /\ job.kind = "reclaim" => job.next # 0
    /\ ~up \/ job.kind = "reclaim" => \A a \in Attempt : phase[a] = "none" /\ prov[a] = "off"
    /\ ~up => todo = <<>>

\* An attempt that is claimed or running has a runner, except while it is
\* started and until a restart has looked at it; a handle that was told to
\* cancel belongs to an attempt of which that is recorded.
Attended ==
    /\ \A a \in Attempt : phase[a] # "none" /\ a \in cancelReq =>
          att[a].status = "cancel_requested"
    /\ \A a \in Attempt : att[a].status \in {"claimed", "running"} =>
          \/ phase[a] # "none"
          \/ job.kind = "call" /\ job.next = a
          \/ job.kind = "reclaim" /\ job.next <= a

Settled == \A a \in Attempt :
    att[a].status \in {"cancelled", "paused", "succeeded"} => prov[a] # "on"

HandsInv ==
    /\ RunnerInv
    /\ ~DirectHandles /\ up => Attended
    /\ ~CancelMayRaise /\ up => Settled

LEMMA HandsInit == Init => HandsInv
  BY DEF Init, HandsInv, RunnerInv, Attended, Settled, IdleJob, Absent

LEMMA HandsProcess == TypeOK /\ HandsInv /\ (Persist \/ Crash \/ Restart) => HandsInv'
  <1> SUFFICES ASSUME TypeOK, HandsInv, Persist \/ Crash \/ Restart PROVE HandsInv'
    OBVIOUS
  <1>1. CASE Persist
    BY <1>1 DEF HandsInv, RunnerInv, Attended, Settled, Persist, memory, runner
  <1>2. CASE Crash
    BY <1>2 DEF HandsInv, RunnerInv, Attended, Settled, Crash, IdleJob
  <1>3. CASE Restart
    <2>1. RunnerInv' /\ \A a \in Attempt : prov'[a] = "off"
      BY <1>3 DEF HandsInv, RunnerInv, Restart, runner
    <2>2. \A a \in Attempt : phase'[a] = "none" /\ job'.kind = "reclaim" /\ job'.next <= a
      BY <1>3, AttemptNat DEF HandsInv, RunnerInv, Restart, runner, Attempt
    <2> QED
      BY <2>1, <2>2 DEF HandsInv, Attended, Settled
  <1> QED
    BY <1>1, <1>2, <1>3

\* A handler that is no runner changes one attempt.
LEMMA HandsRecord ==
  ASSUME TypeOK, HandsInv, up, NEW a \in Attempt, NEW r,
         att' = [att EXCEPT ![a] = r],
         phase[a] # "none" => r.status \in Started,
         \/ r.status \notin {"claimed", "running"}
         \/ phase[a] # "none"
         \/ job'.kind = "call" /\ job'.next = a,
         r.status \notin {"cancelled", "paused", "succeeded"},
         phase[a] # "none" /\ a \in cancelReq' => r.status = "cancel_requested",
         job'.kind = "call" => job'.next = a /\ r.status = "running" /\ a \notin cancelReq',
         \/ job'.kind # "reclaim" /\ job.kind \notin {"call", "reclaim"}
         \/ job.kind = "reclaim" /\ job'.kind = "reclaim" /\ job.next = a /\ job'.next = a + 1,
         cancelReq \ {a} = cancelReq' \ {a},
         phase[a] = "cancelling" /\ a \in cancelReq => a \in cancelReq',
         UNCHANGED <<up, phase, prov>>
  PROVE  HandsInv'
  <1>1. /\ att'[a] = r /\ \A b \in Attempt : b # a => att'[b] = att[b]
        /\ a \in Nat /\ a # 0
    BY AttemptNat DEF TypeOK
  <1>2. RunnerInv'
    BY <1>1 DEF HandsInv, RunnerInv
  <1>3. ~DirectHandles => Attended'
    <2> SUFFICES ASSUME ~DirectHandles PROVE Attended'
      OBVIOUS
    <2>1. Attended
      BY DEF HandsInv
    <2>2. \A b \in Attempt : b \in Int /\ job.next \in Nat
      BY AttemptNat DEF TypeOK
    <2> QED
      BY <1>1, <2>1, <2>2 DEF Attended
  <1>4. ~CancelMayRaise => Settled'
    BY <1>1 DEF HandsInv, Settled
  <1> QED
    BY <1>2, <1>3, <1>4 DEF HandsInv

\* A handler that changes no attempt.
LEMMA HandsSame ==
  ASSUME TypeOK, HandsInv, up, job.kind # "call",
         \/ job'.kind \notin {"call", "reclaim"} /\ job.kind # "reclaim"
         \/ /\ job.kind = "reclaim" /\ job.next \in Attempt
            /\ att[job.next].status \notin {"claimed", "running"}
            /\ job'.kind = "reclaim" /\ job'.next = job.next + 1
         \/ job.kind = "reclaim" /\ job.next \notin Attempt /\ job' = IdleJob,
         UNCHANGED <<up, att, cancelReq, phase, prov>>
  PROVE  HandsInv'
  <1>1. RunnerInv'
    <2>1. job'.kind # "call"
      BY DEF IdleJob
    <2>2. job'.kind = "reclaim" => job.kind = "reclaim" /\ job'.next # 0
      <3>1. job.next \in Attempt => job.next + 1 # 0
        BY DEF Attempt
      <3> QED
        BY <3>1 DEF IdleJob
    <2> QED
      BY <2>1, <2>2 DEF HandsInv, RunnerInv
  <1>2. ~DirectHandles => Attended'
    <2> SUFFICES ASSUME ~DirectHandles PROVE Attended'
      OBVIOUS
    <2>1. Attended
      BY DEF HandsInv
    <2>2. \A b \in Attempt : b \in Int /\ job.next \in Nat
      BY AttemptNat DEF TypeOK
    <2>3. CASE job.kind = "reclaim" /\ job.next \notin Attempt
      <3>1. \A b \in Attempt : ~(job.next <= b)
        BY <2>2, <2>3, ExecutionAssumption DEF Attempt, HandsInv, RunnerInv
      <3> QED
        BY <2>1, <2>3, <3>1 DEF Attended, IdleJob
    <2>4. CASE ~(job.kind = "reclaim" /\ job.next \notin Attempt)
      BY <2>1, <2>2, <2>4 DEF Attended
    <2> QED
      BY <2>3, <2>4
  <1>3. ~CancelMayRaise => Settled'
    BY DEF HandsInv, Settled
  <1> QED
    BY <1>1, <1>2, <1>3 DEF HandsInv

\* A run ends.
LEMMA HandsReturn ==
  ASSUME TypeOK, HandsInv, Idle, NEW a \in Attempt, NEW e, Return(a, e),
         ~DirectHandles => e.rec.status \notin {"claimed", "running"},
         ~CancelMayRaise => \/ e.rec.status \notin {"cancelled", "paused", "succeeded"}
                            \/ prov[a] # "on",
         UNCHANGED <<up, job, cancelReq, prov>>
  PROVE  HandsInv'
  <1>1. /\ att'[a] = e.rec /\ \A b \in Attempt : b # a => att'[b] = att[b]
        /\ phase'[a] = "none" /\ \A b \in Attempt : b # a => phase'[b] = phase[b]
        /\ up /\ job.kind = "idle"
    BY DEF TypeOK, Return, Idle
  <1>2. RunnerInv'
    BY <1>1 DEF HandsInv, RunnerInv
  <1>3. ~DirectHandles => Attended'
    BY <1>1 DEF HandsInv, Attended
  <1>4. ~CancelMayRaise => Settled'
    BY <1>1 DEF HandsInv, Settled
  <1> QED
    BY <1>1, <1>2, <1>3, <1>4 DEF HandsInv

LEMMA HandsWait ==
  ASSUME TypeOK, HandsInv, NEW a \in Attempt,
         CallProvider \/ ProviderStops(a) \/ Wake(a) \/ Timeout(a) \/ HostPause(a) \/ HostCancel(a)
  PROVE  HandsInv'
  <1>1. CASE CallProvider
    <2> DEFINE n == job.next
    <2>1. /\ n \in Attempt \ cancelReq /\ att[n].status = "running"
          /\ up /\ job.kind = "call" /\ job'.kind = "idle"
          /\ phase' = [phase EXCEPT ![n] = "provider"] /\ prov' = [prov EXCEPT ![n] = "on"]
          /\ UNCHANGED <<up, att, cancelReq>>
      BY <1>1 DEF HandsInv, RunnerInv, CallProvider, InJob, IdleJob, memory
    <2> HIDE DEF n
    <2>2. /\ phase'[n] = "provider" /\ \A b \in Attempt : b # n => phase'[b] = phase[b]
          /\ prov'[n] = "on" /\ \A b \in Attempt : b # n => prov'[b] = prov[b]
      BY <2>1 DEF TypeOK
    <2>3. RunnerInv'
      BY <2>1, <2>2 DEF HandsInv, RunnerInv, Started
    <2>4. ~DirectHandles => Attended'
      BY <2>1, <2>2 DEF HandsInv, Attended, n
    <2>5. ~CancelMayRaise => Settled'
      BY <2>1, <2>2 DEF HandsInv, Settled
    <2> QED
      BY <2>3, <2>4, <2>5 DEF HandsInv
  <1>2. CASE ProviderStops(a)
    BY <1>2 DEF TypeOK, HandsInv, RunnerInv, Attended, Settled, ProviderStops, Idle, memory
  <1>3. CASE Wake(a)
    BY <1>3 DEF TypeOK, HandsInv, RunnerInv, Attended, Settled, Wake, Idle, memory
  <1>4. CASE Timeout(a)
    BY <1>4 DEF TypeOK, HandsInv, RunnerInv, Attended, Settled, Timeout, Idle, memory
  <1>5. CASE HostPause(a)
    BY <1>5 DEF TypeOK, HandsInv, RunnerInv, Attended, Settled, HostPause, Idle, memory
  <1>6. CASE HostCancel(a)
    BY <1>6 DEF TypeOK, HandsInv, RunnerInv, Attended, Settled, HostCancel, Idle, memory
  <1> QED
    BY <1>1, <1>2, <1>3, <1>4, <1>5, <1>6

LEMMA HandsReclaim == TypeOK /\ HandsInv /\ ReclaimStep => HandsInv'
  <1> SUFFICES ASSUME TypeOK, HandsInv, ReclaimStep PROVE HandsInv'
    OBVIOUS
  <1>1. /\ up /\ job.kind = "reclaim" /\ UNCHANGED <<up, phase, prov, cancelReq>>
        /\ \A b \in Attempt : phase[b] = "none"
    BY DEF ReclaimStep, InJob, runner, HandsInv, RunnerInv
  <1>2. CASE job.next \in Attempt /\ Stale(att[job.next])
    <2> DEFINE a == job.next
               r == Reclaimed(att[a])
    <2>1. /\ att' = [att EXCEPT ![a] = r]
          /\ job' = [job EXCEPT !.next = a + 1]
      BY <1>2 DEF ReclaimStep
    <2>2. r.status \in {"queued", "blocked"}
      BY <1>2, StatusOf DEF TypeOK
    <2>3. job'.kind = "reclaim" /\ job'.next = a + 1
      BY <1>1, <2>1 DEF TypeOK
    <2> HIDE DEF r
    <2>4. phase[a] = "none"
      BY <1>1, <1>2
    <2> QED
      BY <1>1, <1>2, <2>1, <2>2, <2>3, <2>4, HandsRecord
  <1>3. CASE job.next \in Attempt /\ ~Stale(att[job.next])
    <2>1. /\ UNCHANGED att /\ job' = [job EXCEPT !.next = job.next + 1]
      BY <1>3 DEF ReclaimStep
    <2>2. job'.kind = "reclaim" /\ job'.next = job.next + 1
      BY <1>1, <2>1 DEF TypeOK
    <2> QED
      BY <1>1, <1>3, <2>1, <2>2, HandsSame DEF Stale
  <1>4. CASE job.next \notin Attempt
    BY <1>1, <1>4, HandsSame DEF ReclaimStep
  <1> QED
    BY <1>2, <1>3, <1>4

LEMMA HandsRunOnce ==
  ASSUME TypeOK, HandsInv, NEW a \in Attempt, RunOnce(a)
  PROVE  HandsInv'
  <1> DEFINE c == Claimed(att[a])
             b == Bound(c)
             s == Moved(b, "running")
             k == Checkpointed(a, s, TRUE)
  <1>1. /\ up /\ job.kind = "idle" /\ UNCHANGED <<up, phase, prov>>
        /\ att[a].status = "queued"
        /\ att' = [att EXCEPT ![a] = k]
        /\ job' = [kind |-> "call", next |-> a]
        /\ cancelReq' = cancelReq \ {a}
    BY DEF RunOnce, Idle, FirstQueued
  <1>2. c \in AttemptRec
    BY ClaimedType DEF TypeOK
  <1> HIDE DEF c
  <1>3. b \in AttemptRec
    BY <1>2, BoundType
  <1> HIDE DEF b
  <1>4. s \in AttemptRec /\ s.status = "running"
    BY <1>3, MovedType, StatusOf DEF L!Status, L!Live
  <1> HIDE DEF s
  <1>5. k.status = "running"
    BY <1>4, CheckpointedStatus
  <1> HIDE DEF k
  <1>6. phase[a] = "none"
    BY <1>1 DEF HandsInv, RunnerInv, Started
  <1>7. job'.kind = "call" /\ job'.next = a
    BY <1>1
  <1> QED
    BY <1>1, <1>5, <1>6, <1>7, HandsRecord

LEMMA HandsHeartbeat ==
  ASSUME TypeOK, HandsInv, NEW a \in Attempt, Heartbeat(a)
  PROVE  HandsInv'
  <1> DEFINE r == [att[a] EXCEPT !.ver = @ + 1]
  <1>1. /\ up /\ job.kind = "idle" /\ UNCHANGED <<up, job, cancelReq, phase, prov>>
        /\ phase[a] # "none" /\ att[a].status = "running"
        /\ att' = [att EXCEPT ![a] = r]
    BY DEF Heartbeat, Idle, runner
  <1>2. r.status = "running"
    BY <1>1 DEF TypeOK, AttemptRec
  <1> HIDE DEF r
  <1>3. ~DirectHandles => a \notin cancelReq
    BY <1>1 DEF HandsInv, Attended
  <1> QED
    BY <1>1, <1>2, <1>3
       DEF HandsInv, RunnerInv, Attended, Settled, TypeOK, Started

LEMMA HandsCancelling ==
  ASSUME TypeOK, HandsInv, NEW a \in Attempt,
         CancelConfirmed(a) \/ CancelRefused(a) \/ CancelRaises(a)
  PROVE  HandsInv'
  <1>1. /\ Idle /\ UNCHANGED <<up, job, cancelReq, prov>> /\ phase[a] = "cancelling"
        /\ att[a].status \in Started /\ a \in cancelReq
    BY DEF CancelConfirmed, CancelRefused, CancelRaises, HandsInv, RunnerInv
  <1>2. ~DirectHandles => att[a].status = "cancel_requested"
    BY <1>1 DEF HandsInv, Attended, Idle
  <1>3. CASE CancelConfirmed(a) \/ CancelRaises(a)
    <2>1. Return(a, EndCancelled(a)) /\ (prov[a] # "on" \/ CancelMayRaise)
      BY <1>3 DEF CancelConfirmed, CancelRaises, Stopped
    <2>2. EndCancelled(a).rec.status \in {"cancelled", "pause_requested"}
      BY <1>1, EndCancelledStatus DEF Started
    <2> QED
      BY <1>1, <2>1, <2>2, HandsReturn
  <1>4. CASE CancelRefused(a)
    <2>1. Return(a, EndCancelFailed(a))
      BY <1>4 DEF CancelRefused
    <2>2. /\ EndCancelFailed(a).rec.status \in {"failed", "running", "pause_requested"}
          /\ ~DirectHandles => EndCancelFailed(a).rec.status = "failed"
      BY <1>1, <1>2, EndCancelFailedStatus DEF Started
    <2> QED
      BY <1>1, <2>1, <2>2, HandsReturn
  <1> QED
    BY <1>3, <1>4

LEMMA HandsAfterResult ==
  ASSUME TypeOK, HandsInv, NEW a \in Attempt, AfterResult(a)
  PROVE  HandsInv'
  <1>1. /\ Idle /\ UNCHANGED <<up, job, cancelReq, prov>> /\ phase[a] = "returned"
        /\ att[a].status \in Started /\ prov[a] = "ok"
    BY DEF AfterResult, HandsInv, RunnerInv
  <1>2. CASE CancelWanted(a)
    <2>1. Return(a, EndCancelled(a))
      BY <1>2 DEF AfterResult
    <2>2. EndCancelled(a).rec.status \in {"cancelled", "pause_requested"}
      BY <1>1, EndCancelledStatus DEF Started
    <2> QED
      BY <1>1, <2>1, <2>2, HandsReturn
  <1>3. CASE ~CancelWanted(a) /\ PauseWanted(a)
    <2> DEFINE q == EndPaused(a)
               e == [q EXCEPT !.ws = <<WUsage(a)>> \o @]
    <2>1. Return(a, e)
      BY <1>3 DEF AfterResult
    <2>2. q \in Ending /\ q.rec.status \in {"paused", "cancel_requested"}
      BY <1>1, EndPausedType, EndPausedStatus DEF Started
    <2> HIDE DEF q
    <2>3. e.rec = q.rec
      BY <2>2 DEF Ending
    <2> HIDE DEF e
    <2> QED
      BY <1>1, <2>1, <2>2, <2>3, HandsReturn
  <1>4. CASE ~CancelWanted(a) /\ ~PauseWanted(a)
    <2>1. phase' = [phase EXCEPT ![a] = "finishing"] /\ UNCHANGED att
      BY <1>4 DEF AfterResult
    <2> QED
      BY <1>1, <2>1 DEF TypeOK, HandsInv, RunnerInv, Attended, Settled, Idle
  <1> QED
    BY <1>2, <1>3, <1>4

LEMMA HandsAfterError ==
  ASSUME TypeOK, HandsInv, NEW a \in Attempt, AfterError(a)
  PROVE  HandsInv'
  <1>1. /\ Idle /\ UNCHANGED <<up, job, cancelReq, prov>> /\ phase[a] = "raised"
        /\ att[a].status \in Started /\ prov[a] = "error"
    BY DEF AfterError, HandsInv, RunnerInv
  <1>2. CASE CancelWanted(a)
    <2>1. Return(a, EndCancelled(a))
      BY <1>2 DEF AfterError
    <2>2. EndCancelled(a).rec.status \in {"cancelled", "pause_requested"}
      BY <1>1, EndCancelledStatus DEF Started
    <2> QED
      BY <1>1, <2>1, <2>2, HandsReturn
  <1>3. CASE ~CancelWanted(a)
    <2>1. Return(a, EndTerminal(a, "failed"))
      BY <1>3 DEF AfterError
    <2>2. EndTerminal(a, "failed").rec.status = "failed"
      BY <1>1, EndTerminalStatus, TerminalAllowedWhen DEF Started
    <2> QED
      BY <1>1, <2>1, <2>2, HandsReturn
  <1> QED
    BY <1>2, <1>3

LEMMA HandsFinish ==
  ASSUME TypeOK, HandsInv, NEW a \in Attempt, Finish(a)
  PROVE  HandsInv'
  <1>1. /\ Idle /\ UNCHANGED <<up, job, cancelReq, prov>> /\ phase[a] = "finishing"
        /\ att[a].status \in Started /\ prov[a] = "ok"
        /\ Return(a, EndTerminal(a, "succeeded"))
    BY DEF Finish, HandsInv, RunnerInv
  <1>2. EndTerminal(a, "succeeded").rec.status \in {"succeeded", "pause_requested", "cancel_requested"}
    BY <1>1, EndTerminalStatus, TerminalAllowedWhen DEF Started
  <1> QED
    BY <1>1, <1>2, HandsReturn

LEMMA HandsControl ==
  ASSUME TypeOK, HandsInv, Pause \/ Resume \/ Cancel \/ CancelPaused \/ Execute
  PROVE  HandsInv'
  <1>1. /\ up /\ job.kind = "idle" /\ job'.kind \notin {"call", "reclaim"}
        /\ UNCHANGED <<up, att, cancelReq, phase, prov>>
    BY DEF Pause, Resume, Cancel, Control, CancelPaused, Execute, CommitParent, Idle, memory, runner
  <1> QED
    BY <1>1, HandsSame

LEMMA HandsRequestStep ==
  ASSUME TypeOK, HandsInv, PauseStep \/ CancelStep
  PROVE  HandsInv'
  <1>1. PICK kind, st : RequestStep(kind, st) /\ kind \in {"pause", "cancel"}
    BY DEF PauseStep, CancelStep
  <1>2. up /\ job.kind = kind /\ UNCHANGED <<up, phase, prov>>
    BY <1>1 DEF RequestStep, InJob
  <1>3. CASE job.next \in Attempt /\ Askable(att[job.next])
    <2> DEFINE a == job.next
               r == Moved(att[a], Wanted(kind))
    <2>1. /\ att' = [att EXCEPT ![a] = r] /\ job' = [job EXCEPT !.next = a + 1]
          /\ att[a].status = "running"
          /\ cancelReq' = IF kind = "cancel" /\ phase[a] # "none" THEN cancelReq \cup {a} ELSE cancelReq
      BY <1>1, <1>3 DEF RequestStep, Askable
    <2>2. r.status = IF kind = "pause" THEN "pause_requested" ELSE "cancel_requested"
      BY <1>3, StatusOf DEF TypeOK, Wanted
    <2>3. job'.kind = kind
      BY <1>2, <2>1 DEF TypeOK
    <2> HIDE DEF r
    <2>4. RunnerInv'
      BY <1>1, <1>2, <1>3, <2>1, <2>2, <2>3 DEF TypeOK, HandsInv, RunnerInv, Started
    <2>5. ~DirectHandles => Attended'
      BY <1>1, <1>2, <1>3, <2>1, <2>2, <2>3 DEF TypeOK, HandsInv, Attended
    <2>6. ~CancelMayRaise => Settled'
      BY <1>1, <1>2, <1>3, <2>1, <2>2 DEF TypeOK, HandsInv, Settled
    <2> QED
      BY <2>4, <2>5, <2>6 DEF HandsInv
  <1>4. CASE ~(job.next \in Attempt /\ Askable(att[job.next]))
    <2>1. UNCHANGED <<att, cancelReq>> /\ (job' = IdleJob \/ job' = [job EXCEPT !.next = job.next + 1])
      BY <1>1, <1>4 DEF RequestStep, CommitParent
    <2>2. job'.kind \notin {"call", "reclaim"}
      BY <1>1, <1>2, <2>1 DEF TypeOK, IdleJob
    <2> QED
      BY <1>1, <1>2, <2>1, <2>2, HandsSame
  <1> QED
    BY <1>3, <1>4

LEMMA HandsResumeStep == TypeOK /\ HandsInv /\ ResumeStep => HandsInv'
  <1> SUFFICES ASSUME TypeOK, HandsInv, ResumeStep PROVE HandsInv'
    OBVIOUS
  <1>1. up /\ job.kind = "resume" /\ UNCHANGED <<up, phase, prov, cancelReq>>
    BY DEF ResumeStep, InJob, runner
  <1>2. job' = IdleJob \/ job' = [job EXCEPT !.next = job.next + 1]
    BY DEF ResumeStep
  <1>3. job'.kind \notin {"call", "reclaim"}
    BY <1>1, <1>2 DEF TypeOK, IdleJob
  <1>4. CASE UNCHANGED att
    BY <1>1, <1>3, <1>4, HandsSame
  <1>5. CASE ~UNCHANGED att
    <2> DEFINE a == job.next
               r == Requeued(att[a])
    <2>1. a \in Attempt /\ att[a].status = "paused" /\ att' = [att EXCEPT ![a] = r]
      BY <1>5 DEF ResumeStep, CommitParent
    <2>2. r.status = "queued" /\ phase[a] = "none"
      BY <2>1, StatusOf DEF TypeOK, HandsInv, RunnerInv, Started
    <2> HIDE DEF r
    <2> QED
      BY <1>1, <1>3, <2>1, <2>2, HandsRecord
  <1> QED
    BY <1>4, <1>5

\* An attempt nobody created yet has no runner.
LEMMA HandsCreated ==
  ASSUME TypeOK, HandsInv, up, NEW a \in Attempt, NEW r, IsNext(a), r.status = "queued",
         att' = [att EXCEPT ![a] = r], job.kind \notin {"call", "reclaim"},
         job'.kind \notin {"call", "reclaim"},
         UNCHANGED <<up, phase, prov, cancelReq>>
  PROVE  HandsInv'
  <1>1. phase[a] = "none"
    BY DEF IsNext, Born, HandsInv, RunnerInv, Started
  <1> QED
    BY <1>1, HandsRecord

LEMMA HandsEnqueueStep == TypeOK /\ HandsInv /\ EnqueueStep => HandsInv'
  <1> SUFFICES ASSUME TypeOK, HandsInv, EnqueueStep PROVE HandsInv'
    OBVIOUS
  <1>1. up /\ job.kind = "enqueue" /\ UNCHANGED <<up, phase, prov, cancelReq>>
    BY DEF EnqueueStep, InJob, runner
  <1>2. CASE job.next \in 1..NChild
    <2> DEFINE r == Fresh(job.next, ~refs)
    <2>1. PICK a \in Attempt : /\ IsNext(a) /\ att' = [att EXCEPT ![a] = r]
                               /\ job' = [job EXCEPT !.next = @ + 1]
      BY <1>2 DEF EnqueueStep
    <2>2. r.status = "queued" /\ job'.kind = "enqueue"
      BY <1>1, <2>1, FreshStatus DEF TypeOK
    <2> HIDE DEF r
    <2> QED
      BY <1>1, <2>1, <2>2, HandsCreated
  <1>3. CASE job.next \notin 1..NChild
    <2>1. UNCHANGED att /\ job'.kind = "idle"
      BY <1>3 DEF EnqueueStep, IdleJob
    <2> QED
      BY <1>1, <2>1, HandsSame
  <1> QED
    BY <1>2, <1>3

LEMMA HandsHostRecover ==
  ASSUME TypeOK, HandsInv, NEW a \in Attempt, NEW p \in Attempt, HostRecover(p, a)
  PROVE  HandsInv'
  <1>1. /\ up /\ job.kind = "idle" /\ UNCHANGED <<up, job, phase, prov, cancelReq>>
        /\ IsNext(a) /\ att' = [att EXCEPT ![a] = Recovery(p)]
    BY DEF HostRecover, Idle, runner
  <1>2. Recovery(p).status = "queued"
    BY FreshStatus
  <1> QED
    BY <1>1, <1>2, HandsCreated

LEMMA HandsHostRegister ==
  ASSUME TypeOK, HandsInv, NEW a \in Attempt, HostRegister(a)
  PROVE  HandsInv'
  <1> DEFINE r == Bound(att[a])
  <1>1. /\ up /\ job.kind = "idle" /\ UNCHANGED <<up, job, phase, prov, cancelReq>>
        /\ att' = [att EXCEPT ![a] = r] /\ att[a].status \in {"queued", "blocked"}
    BY DEF HostRegister, Idle, runner
  <1>2. r.status = att[a].status
    BY StatusOf DEF TypeOK
  <1> HIDE DEF r
  <1>3. phase[a] = "none"
    BY <1>1 DEF HandsInv, RunnerInv, Started
  <1> QED
    BY <1>1, <1>2, <1>3, HandsRecord

LEMMA HandsNext == TypeOK /\ HandsInv /\ [Next]_vars => HandsInv'
  <1> SUFFICES ASSUME TypeOK, HandsInv, [Next]_vars PROVE HandsInv'
    OBVIOUS
  <1> USE AttemptIsThere
  <1>1. CASE Persist \/ Crash \/ Restart
    BY <1>1, HandsProcess
  <1>2. CASE JobStep
    BY <1>2, HandsWait, HandsReclaim, HandsRequestStep, HandsResumeStep, HandsEnqueueStep
       DEF JobStep
  <1>3. CASE Execute \/ Pause \/ Resume \/ Cancel \/ CancelPaused
    BY <1>3, HandsControl
  <1>4. ASSUME NEW a \in Attempt,
               RunOnce(a) \/ ProviderStops(a) \/ Timeout(a) \/ Heartbeat(a)
        PROVE  HandsInv'
    BY <1>4, HandsRunOnce, HandsWait, HandsHeartbeat
  <1>5. ASSUME NEW a \in Attempt, RunnerStep(a)
        PROVE  HandsInv'
    BY <1>5, HandsWait, HandsCancelling, HandsAfterResult, HandsAfterError, HandsFinish
       DEF RunnerStep
  <1>6. ASSUME NEW a \in Attempt,
               \/ HostPause(a) \/ HostCancel(a) \/ HostRegister(a)
               \/ \E p \in Attempt : HostRecover(p, a)
        PROVE  HandsInv'
    BY <1>6, HandsWait, HandsHostRecover, HandsHostRegister
  <1>7. CASE UNCHANGED vars
    BY <1>7 DEF HandsInv, RunnerInv, Attended, Settled, vars
  <1> QED
    BY <1>1, <1>2, <1>3, <1>4, <1>5, <1>6, <1>7 DEF Next

LEMMA HandsCorrect == Spec => []HandsInv
  <1>1. Init => HandsInv
    BY HandsInit
  <1>2. TypeOK /\ HandsInv /\ [Next]_vars => HandsInv'
    BY HandsNext
  <1>3. Spec => []TypeOK
    BY TypeCorrect
  <1> QED
    BY <1>1, <1>2, <1>3, PTL DEF Spec

\* Under the API, where nobody but the control service tells a runner to stop,
\* no path of run(), no request and no restart leaves an attempt claimed or
\* running with nobody to run it.
THEOREM NobodyLeftBehind == ~DirectHandles => (Spec => []NoOrphanRun)
  <1> SUFFICES ASSUME ~DirectHandles PROVE Spec => []NoOrphanRun
    OBVIOUS
  <1>1. HandsInv => NoOrphanRun
    BY DEF HandsInv, Attended, NoOrphanRun, Idle
  <1> QED
    BY <1>1, HandsCorrect, PTL

\* As long as no cancel hook raises, an attempt is never recorded as cancelled,
\* paused or succeeded while its provider task still runs, whichever of the
\* result, the error, the timeout and the request comes first.
THEOREM SettledAfterStop == ~CancelMayRaise => (Spec => []SettledMeansStopped)
  <1> SUFFICES ASSUME ~CancelMayRaise PROVE Spec => []SettledMeansStopped
    OBVIOUS
  <1>1. HandsInv => SettledMeansStopped
    BY DEF HandsInv, Settled, SettledMeansStopped
  <1> QED
    BY <1>1, HandsCorrect, PTL

-----------------------------------------------------------------------------
(* What the durable writes of a handler add up to.  All the writes of a      *)
(* handler are about one attempt.  A point is what is durable of it, with    *)
(* the files, the usage records, the acknowledgements and the parent.        *)

Point == [rec   : AttemptRec,
          files : SUBSET CpFile,
          used  : SUBSET Attempt,
          acks  : SUBSET Attempt,
          par   : ParentStatus]

\* The point after the write w.
After(p, w) ==
    [rec   |-> IF w.kind = "att" THEN w.rec ELSE p.rec,
     files |-> IF w.kind = "cp" THEN p.files \cup {w.file} ELSE p.files,
     used  |-> IF w.kind = "usage" THEN p.used \cup {w.a} ELSE p.used,
     acks  |-> IF w.kind = "ack" THEN p.acks \cup {w.a} ELSE p.acks,
     par   |-> IF w.kind = "parent" THEN w.st ELSE p.par]

\* What may follow one another as the journalled status of an attempt.  Of an
\* ended one only a record that a restart blocked is written again, by register.
Follows(s, t) ==
    \/ s = "blocked" /\ t = "blocked"
    \/ /\ s \notin L!Terminal
       /\ \/ s = t /\ s # "absent"
          \/ s = "absent" /\ t = "queued"
          \/ L!CanMove(s, t)
          \/ L!Reclaimed(s, t)

\* A checkpoint file of version v may exist while the attempt is recorded
\* as r.  A file is saved before the record of its version, so a death leaves
\* it one version ahead of a running attempt, which a restart then requeues;
\* a claim catches up, and only then is another file saved.  Requests that a
\* death leaves unanswered are never answered, so no file follows them.
Room(r, v) ==
    CASE r.status = "absent" -> FALSE
      [] r.status \in {"queued", "running"} -> v <= r.ver + 1
      [] r.status \in {"claimed", "paused", "waiting_approval"} -> v <= r.ver
      [] OTHER -> TRUE

\* What holds of an attempt a at every point.
Lineage(p) == p.rec.resumed # 0 =>
    /\ p.rec.rcp # NoCp
    /\ [id |-> p.rec.rcp, safe |-> TRUE] \in p.files
    /\ p.rec.status # "blocked"

Earned(a, p) == p.rec.status = "succeeded" =>
    a \in p.used /\ p.rec.cpSafe = TRUE /\ p.rec.cp # NoCp

Roomy(a, p) == \A f \in p.files : f.id[1] = a => Room(p.rec, f.id[2])

Closed(a, p) == a \in p.acks => p.rec.status \in {"succeeded", "failed"}

Sound(a, p) == Lineage(p) /\ Earned(a, p) /\ Roomy(a, p) /\ Closed(a, p)

\* The write w may be made for a at p.
Legal(a, p, w) ==
    /\ w.kind \in {"att", "usage", "ack"} => w.a = a
    /\ w.kind = "att" => /\ Follows(p.rec.status, w.rec.status)
                         /\ p.rec.status # "absent" => w.rec.resumed = p.rec.resumed
    /\ w.kind = "cp" => w.file.id[1] = a /\ \A f \in p.files : f.id # w.file.id
    /\ Sound(a, After(p, w))

\* Nothing durable is taken back on the way from p to q, and the files that
\* are saved are a's.  What was created stays, with where it comes from, and
\* what has ended stays ended.
Further(a, p, q) ==
    /\ p.files \subseteq q.files /\ p.used \subseteq q.used
    /\ p.rec.status # "absent" => q.rec.status # "absent" /\ q.rec.resumed = p.rec.resumed
    /\ p.rec.status \in L!Terminal => q.rec.status \in L!Terminal
    /\ \A f \in q.files : f \in p.files \/ f.id[1] = a

\* The writes ws lead from p to q, each of them legal where it is made.
IsTrail(a, p, ws, q, f) ==
    /\ f \in [0..Len(ws) -> Point]
    /\ f[0] = p /\ f[Len(ws)] = q
    /\ \A i \in 1..Len(ws) : Legal(a, f[i - 1], ws[i]) /\ f[i] = After(f[i - 1], ws[i])
    /\ \A i, j \in 0..Len(ws) : i <= j => Further(a, f[i], f[j])

Leads(a, p, ws, q) == \E f : IsTrail(a, p, ws, q, f)

LEMMA AfterType ==
  ASSUME NEW p \in Point, NEW w \in Write
  PROVE  After(p, w) \in Point
  BY DEF After, Point, Write

LEMMA FurtherSame ==
  ASSUME NEW a, NEW p
  PROVE  Further(a, p, p)
  BY DEF Further

LEMMA FurtherOn ==
  ASSUME NEW a, NEW p, NEW q, NEW r, Further(a, p, q), Further(a, q, r)
  PROVE  Further(a, p, r)
  BY DEF Further

LEMMA FurtherAfter ==
  ASSUME NEW a, NEW p, NEW w, Legal(a, p, w)
  PROVE  Further(a, p, After(p, w))
  <1> DEFINE q == After(p, w)
  <1>1. /\ w.kind = "att" => /\ Follows(p.rec.status, q.rec.status)
                             /\ p.rec.status # "absent" => q.rec.resumed = p.rec.resumed
        /\ w.kind # "att" => q.rec = p.rec
    BY DEF After, Legal
  <1>2. Follows(p.rec.status, q.rec.status) =>
          /\ q.rec.status # "absent"
          /\ p.rec.status \in L!Terminal => q.rec.status \in L!Terminal
    BY DEF Follows, L!CanMove, L!Successors, L!Reclaimed, L!Terminal
  <1>3. /\ p.files \subseteq q.files /\ p.used \subseteq q.used
        /\ \A f \in q.files : f \in p.files \/ f.id[1] = a
    BY DEF After, Legal
  <1> QED
    BY <1>1, <1>2, <1>3 DEF Further

LEMMA LeadsPoints ==
  ASSUME NEW a, NEW p, NEW q, NEW ws \in Seq(Write), Leads(a, p, ws, q)
  PROVE  p \in Point /\ q \in Point /\ Further(a, p, q)
  <1>1. PICK f : IsTrail(a, p, ws, q, f)
    BY DEF Leads
  <1>2. 0 \in 0..Len(ws) /\ Len(ws) \in 0..Len(ws) /\ 0 <= Len(ws)
    BY LenProperties
  <1> QED
    BY <1>1, <1>2 DEF IsTrail

LEMMA LeadsNothing ==
  ASSUME NEW a, NEW p \in Point
  PROVE  Leads(a, p, <<>>, p)
  <1> DEFINE f == [i \in 0..0 |-> p]
  <1>1. Len(<<>>) = 0 /\ 1..0 = {} /\ 0 \in 0..0
    OBVIOUS
  <1>2. f \in [0..0 -> Point] /\ f[0] = p
    BY <1>1
  <1> HIDE DEF f
  <1>3. \A i, j \in 0..0 : Further(a, f[i], f[j])
    BY <1>2, FurtherSame
  <1>4. IsTrail(a, p, <<>>, p, f)
    BY <1>1, <1>2, <1>3 DEF IsTrail
  <1> QED
    BY <1>4 DEF Leads

LEMMA LeadsNowhere ==
  ASSUME NEW a, NEW p, NEW q, Leads(a, p, <<>>, q)
  PROVE  q = p
  <1>1. Len(<<>>) = 0
    OBVIOUS
  <1> QED
    BY <1>1 DEF Leads, IsTrail

LEMMA LeadsOne ==
  ASSUME NEW a, NEW p \in Point, NEW w \in Write, Legal(a, p, w)
  PROVE  Leads(a, p, <<w>>, After(p, w))
  <1> DEFINE q == After(p, w)
             ws == <<w>>
             f == [i \in 0..1 |-> IF i = 0 THEN p ELSE q]
  <1>1. Len(ws) = 1 /\ ws[1] = w
    OBVIOUS
  <1>2. q \in Point
    BY AfterType
  <1>3. 0 \in 0..1 /\ 1 \in 0..1 /\ \A i \in 1..1 : i = 1 /\ i - 1 = 0
    OBVIOUS
  <1>4. f \in [0..1 -> Point] /\ f[0] = p /\ f[1] = q
    BY <1>2
  <1> HIDE DEF f, ws
  <1>5. \A i \in 1..Len(ws) : Legal(a, f[i - 1], ws[i]) /\ f[i] = After(f[i - 1], ws[i])
    BY <1>1, <1>3, <1>4
  <1>6. \A i, j \in 0..1 : i <= j => Further(a, f[i], f[j])
    <2>1. Further(a, p, p) /\ Further(a, q, q) /\ Further(a, p, q)
      BY FurtherSame, FurtherAfter
    <2> HIDE DEF q
    <2> QED
      BY <1>4, <2>1
  <1>7. IsTrail(a, p, ws, q, f)
    BY <1>1, <1>4, <1>5, <1>6 DEF IsTrail
  <1> QED
    BY <1>7 DEF Leads, ws

LEMMA LeadsOn ==
  ASSUME NEW a, NEW p, NEW q, NEW r, NEW s \in Seq(Write), NEW t \in Seq(Write),
         Leads(a, p, s, q), Leads(a, q, t, r)
  PROVE  Leads(a, p, s \o t, r)
  <1>1. PICK f : IsTrail(a, p, s, q, f)
    BY DEF Leads
  <1>2. PICK g : IsTrail(a, q, t, r, g)
    BY DEF Leads
  <1> DEFINE u == s \o t
             m == Len(s)
             n == Len(t)
             h == [i \in 0..m + n |-> IF i <= m THEN f[i] ELSE g[i - m]]
  <1>3. /\ Len(u) = m + n /\ m \in Nat /\ n \in Nat
        /\ \A i \in 1..Len(u) : u[i] = IF i <= m THEN s[i] ELSE t[i - m]
    BY ConcatProperties, LenProperties
  <1> HIDE DEF u, m, n
  <1>4. /\ f \in [0..m -> Point] /\ f[0] = p /\ f[m] = q
        /\ \A i \in 1..m : Legal(a, f[i - 1], s[i]) /\ f[i] = After(f[i - 1], s[i])
        /\ \A i, j \in 0..m : i <= j => Further(a, f[i], f[j])
    BY <1>1 DEF IsTrail, m
  <1>5. /\ g \in [0..n -> Point] /\ g[0] = q /\ g[n] = r
        /\ \A i \in 1..n : Legal(a, g[i - 1], t[i]) /\ g[i] = After(g[i - 1], t[i])
        /\ \A i, j \in 0..n : i <= j => Further(a, g[i], g[j])
    BY <1>2 DEF IsTrail, n
  <1>6. \A i \in 0..m : h[i] = f[i]
    BY <1>3
  <1>7. \A i \in 0..n : h[m + i] = g[i]
    <2> TAKE i \in 0..n
    <2>1. m + i \in 0..m + n /\ (m + i) - m = i
      BY <1>3
    <2>2. CASE i = 0
      BY <1>3, <1>4, <1>5, <1>6, <2>2
    <2>3. CASE i # 0
      <3>1. ~(m + i <= m)
        BY <1>3, <2>3
      <3> QED
        BY <2>1, <3>1
    <2> QED
      BY <2>2, <2>3
  <1>8. h \in [0..m + n -> Point]
    <2>1. \A i \in 0..m + n : (i <= m => i \in 0..m) /\ (~(i <= m) => i - m \in 0..n)
      BY <1>3
    <2> QED
      BY <1>4, <1>5, <2>1
  <1> HIDE DEF h
  <1>9. ASSUME NEW i \in 1..m + n
        PROVE  Legal(a, h[i - 1], u[i]) /\ h[i] = After(h[i - 1], u[i])
    <2>1. CASE i <= m
      <3>1. i \in 1..m /\ i \in 0..m /\ i - 1 \in 0..m /\ i \in 1..Len(u)
        BY <1>3, <2>1
      <3>2. h[i] = f[i] /\ h[i - 1] = f[i - 1] /\ u[i] = s[i]
        BY <1>3, <1>6, <2>1, <3>1
      <3> QED
        BY <1>4, <3>1, <3>2
    <2>2. CASE ~(i <= m)
      <3> DEFINE j == i - m
      <3>1. /\ j \in 1..n /\ j \in 0..n /\ j - 1 \in 0..n /\ i \in 1..Len(u)
            /\ m + j = i /\ m + (j - 1) = i - 1
        BY <1>3, <2>2
      <3>2. u[i] = t[j]
        BY <1>3, <2>2, <3>1
      <3> HIDE DEF j
      <3>3. h[i] = g[j] /\ h[i - 1] = g[j - 1]
        BY <1>7, <3>1
      <3> QED
        BY <1>5, <3>1, <3>2, <3>3
    <2> QED
      BY <2>1, <2>2
  <1>10. h[0] = p /\ h[m + n] = r
    <2>1. 0 \in 0..m /\ n \in 0..n
      BY <1>3
    <2> QED
      BY <1>4, <1>5, <1>6, <1>7, <2>1
  <1>11. ASSUME NEW i \in 0..m + n, NEW j \in 0..m + n, i <= j
         PROVE  Further(a, h[i], h[j])
    <2>1. CASE j <= m
      <3>1. i \in 0..m /\ j \in 0..m
        BY <1>3, <1>11, <2>1
      <3> QED
        BY <1>4, <1>6, <1>11, <3>1
    <2>2. CASE ~(i <= m)
      <3>1. /\ i - m \in 0..n /\ j - m \in 0..n /\ i - m <= j - m
            /\ m + (i - m) = i /\ m + (j - m) = j
        BY <1>3, <1>11, <2>2
      <3>2. h[i] = g[i - m] /\ h[j] = g[j - m]
        BY <1>7, <3>1
      <3> QED
        BY <1>5, <3>1, <3>2
    <2>3. CASE i <= m /\ ~(j <= m)
      <3>1. /\ i \in 0..m /\ m \in 0..m /\ i <= m
            /\ j - m \in 0..n /\ 0 \in 0..n /\ 0 <= j - m /\ m + (j - m) = j
        BY <1>3, <1>11, <2>3
      <3>2. Further(a, f[i], q) /\ h[i] = f[i]
        BY <1>4, <1>6, <3>1
      <3>3. Further(a, q, g[j - m]) /\ h[j] = g[j - m]
        BY <1>5, <1>7, <3>1
      <3> QED
        BY <3>2, <3>3, FurtherOn
    <2> QED
      BY <2>1, <2>2, <2>3
  <1>12. IsTrail(a, p, u, r, h)
    BY <1>3, <1>8, <1>9, <1>10, <1>11 DEF IsTrail
  <1> QED
    BY <1>12 DEF Leads, u

\* The first write is legal, and the others lead on from the point after it.
LEMMA LeadsFirst ==
  ASSUME NEW a, NEW p, NEW q, NEW ws \in Seq(Write), ws # <<>>, Leads(a, p, ws, q)
  PROVE  Legal(a, p, Head(ws)) /\ Leads(a, After(p, Head(ws)), Tail(ws), q)
  <1>1. PICK f : IsTrail(a, p, ws, q, f)
    BY DEF Leads
  <1> DEFINE t == Tail(ws)
             n == Len(t)
             g == [i \in 0..n |-> f[i + 1]]
  <1>2. /\ n \in Nat /\ Len(ws) = n + 1 /\ Head(ws) = ws[1] /\ 1 \in 1..Len(ws)
        /\ \A i \in 1..n : t[i] = ws[i + 1]
    BY HeadTailProperties, LenProperties
  <1> HIDE DEF t
  <1>3. /\ f \in [0..n + 1 -> Point] /\ f[0] = p /\ f[n + 1] = q
        /\ \A i \in 1..n + 1 : Legal(a, f[i - 1], ws[i]) /\ f[i] = After(f[i - 1], ws[i])
        /\ \A i, j \in 0..n + 1 : i <= j => Further(a, f[i], f[j])
    BY <1>1, <1>2 DEF IsTrail
  <1> HIDE DEF n
  <1>4. 1 \in 1..n + 1 /\ 1 - 1 = 0
    BY <1>2
  <1>5. Legal(a, p, Head(ws)) /\ f[1] = After(p, Head(ws))
    BY <1>2, <1>3, <1>4
  <1>6. /\ g \in [0..n -> Point] /\ g[0] = f[1] /\ g[n] = q
        /\ \A i \in 0..n : g[i] = f[i + 1]
    <2>1. 0 \in 0..n /\ n \in 0..n /\ \A i \in 0..n : i + 1 \in 0..n + 1
      BY <1>2
    <2> QED
      BY <1>3, <2>1
  <1> HIDE DEF g
  <1>7. ASSUME NEW i \in 1..n
        PROVE  Legal(a, g[i - 1], t[i]) /\ g[i] = After(g[i - 1], t[i])
    <2>1. /\ i \in 0..n /\ i - 1 \in 0..n /\ i + 1 \in 1..n + 1
          /\ (i - 1) + 1 = i /\ (i + 1) - 1 = i
      BY <1>2
    <2>2. g[i - 1] = f[i] /\ g[i] = f[i + 1] /\ t[i] = ws[i + 1]
      BY <1>2, <1>6, <2>1
    <2>3. Legal(a, f[(i + 1) - 1], ws[i + 1]) /\ f[i + 1] = After(f[(i + 1) - 1], ws[i + 1])
      BY <1>3, <2>1
    <2> QED
      BY <2>1, <2>2, <2>3
  <1>8. ASSUME NEW i \in 0..n, NEW j \in 0..n, i <= j
        PROVE  Further(a, g[i], g[j])
    <2>1. i + 1 \in 0..n + 1 /\ j + 1 \in 0..n + 1 /\ i + 1 <= j + 1
      BY <1>2, <1>8
    <2> QED
      BY <1>3, <1>6, <2>1
  <1>9. IsTrail(a, After(p, Head(ws)), t, q, g)
    BY <1>5, <1>6, <1>7, <1>8 DEF IsTrail, n
  <1> QED
    BY <1>5, <1>9 DEF Leads, t

\* The files that ws saves are none of those that were there.
LEMMA LeadsFresh ==
  ASSUME NEW a, NEW p, NEW q, NEW ws \in Seq(Write), Leads(a, p, ws, q),
         NEW i \in 1..Len(ws), ws[i].kind = "cp", NEW g \in p.files
  PROVE  g.id # ws[i].file.id
  <1>1. PICK f : IsTrail(a, p, ws, q, f)
    BY DEF Leads
  <1>2. 0 \in 0..Len(ws) /\ i - 1 \in 0..Len(ws) /\ 0 <= i - 1
    BY LenProperties
  <1>3. Further(a, p, f[i - 1]) /\ Legal(a, f[i - 1], ws[i])
    BY <1>1, <1>2 DEF IsTrail
  <1> QED
    BY <1>3 DEF Further, Legal

-----------------------------------------------------------------------------
(* The invariant: the writes a handler still has to make lead from what is    *)
(* durable to what is in memory.                                             *)

At(a) == [rec |-> datt[a], files |-> cps, used |-> dusage, acks |-> dack, par |-> dparent]

\* The attempt b is run, or about to be.
InHands(b) == phase[b] # "none" \/ (job.kind = "call" /\ job.next = b)

\* The files of b are no newer than the version v.
Clear(b, files, v) == \A f \in files : f.id[1] = b => f.id[2] <= v

\* Memory is at q, as far as the attempt a is concerned; every attempt in the
\* hands of a runner may save the file of its next version, and a run that
\* goes to its end has its usage recorded.
Reaches(a, q) ==
    /\ q.rec = att[a] /\ q.acks = ack /\ q.par = parent
    /\ \A b \in Attempt : b # a => att[b] = datt[b]
    /\ \A b \in Attempt : InHands(b) => Clear(b, q.files, att[b].ver)
    /\ \A b \in Attempt : phase[b] = "finishing" => b \in q.used

OnTrail == \E a \in Attempt, q \in Point : Leads(a, At(a), todo, q) /\ Reaches(a, q)

TrailInv ==
    /\ \A a \in Attempt : Sound(a, At(a))
    /\ up => OnTrail

LEMMA AtType == ASSUME TypeOK, NEW a \in Attempt PROVE At(a) \in Point
  BY DEF TypeOK, At, Point

LEMMA TrailInit == Init => TrailInv
  <1> SUFFICES ASSUME Init PROVE TrailInv
    OBVIOUS
  <1>1. TypeOK
    BY TypeInit
  <1>2. ASSUME NEW a \in Attempt PROVE Sound(a, At(a))
    <2>1. datt[a].status = "absent" /\ datt[a].resumed = 0 /\ cps = {} /\ dack = {}
      BY DEF Init, Absent
    <2> QED
      BY <2>1 DEF Sound, Lineage, Earned, Roomy, Closed, At
  <1>3. Leads(1, At(1), todo, At(1))
    BY <1>1, AttemptIsThere, AtType, LeadsNothing DEF Init
  <1>4. Reaches(1, At(1))
    <2>1. At(1).rec = att[1] /\ At(1).acks = ack /\ At(1).par = parent /\ At(1).files = {}
      BY DEF Init, At
    <2>2. \A b \in Attempt : att[b] = datt[b] /\ phase[b] = "none" /\ job.kind # "call"
      BY DEF Init, IdleJob
    <2> QED
      BY <2>1, <2>2 DEF Reaches, Clear, InHands
  <1> QED
    BY <1>1, <1>2, <1>3, <1>4, AttemptIsThere, AtType DEF TrailInv, OnTrail

\* Between two handlers memory is what is durable.
LEMMA TrailRest ==
  ASSUME TypeOK, TrailInv, up, todo = <<>>
  PROVE  /\ att = datt /\ ack = dack /\ parent = dparent
         /\ \A b \in Attempt : InHands(b) => Clear(b, cps, att[b].ver)
         /\ \A b \in Attempt : phase[b] = "finishing" => b \in dusage
  <1>1. PICK a \in Attempt, q \in Point : Leads(a, At(a), todo, q) /\ Reaches(a, q)
    BY DEF TrailInv, OnTrail
  <1>2. q = At(a)
    BY <1>1, LeadsNowhere
  <1>3. /\ q.rec = datt[a] /\ q.files = cps /\ q.used = dusage /\ q.acks = dack
        /\ q.par = dparent
    BY <1>2 DEF At
  <1>4. \A b \in Attempt : att[b] = datt[b]
    BY <1>1, <1>3 DEF Reaches
  <1>5. att = datt
    BY <1>4 DEF TypeOK
  <1> QED
    BY <1>1, <1>3, <1>5 DEF Reaches

\* A handler about the attempt a.
LEMMA TrailStep ==
  ASSUME TypeOK, TrailInv, up, todo = <<>>, NEW a \in Attempt, NEW q \in Point,
         Leads(a, At(a), todo', q), todo' \in Seq(Write),
         q.rec = att'[a], q.acks = ack', q.par = parent',
         \A b \in Attempt : b # a => att'[b] = att[b],
         InHands(a)' => Clear(a, q.files, att'[a].ver),
         \A b \in Attempt : b # a /\ InHands(b)' => InHands(b),
         \A b \in Attempt : phase'[b] = "finishing" => phase[b] = "finishing" \/ b \in q.used,
         UNCHANGED <<up, datt, cps, dusage, dack, dparent>>
  PROVE  TrailInv'
  <1>1. /\ att = datt /\ ack = dack /\ parent = dparent
        /\ \A b \in Attempt : InHands(b) => Clear(b, cps, att[b].ver)
        /\ \A b \in Attempt : phase[b] = "finishing" => b \in dusage
    BY TrailRest
  <1>2. At(a)' = At(a)
    BY DEF At
  <1>3. Further(a, At(a), q)
    BY LeadsPoints
  <1>4. dusage \subseteq q.used /\ \A f \in q.files : f \in cps \/ f.id[1] = a
    BY <1>3 DEF Further, At
  <1>5. ASSUME NEW b \in Attempt, InHands(b)'
        PROVE  Clear(b, q.files, att'[b].ver)
    <2>1. CASE b = a
      BY <1>5, <2>1
    <2>2. CASE b # a
      BY <1>1, <1>4, <1>5, <2>2 DEF Clear
    <2> QED
      BY <2>1, <2>2
  <1>6. Reaches(a, q)'
    BY <1>1, <1>4, <1>5 DEF Reaches
  <1>7. Leads(a, At(a)', todo', q)
    BY <1>2
  <1>8. OnTrail'
    BY <1>6, <1>7 DEF OnTrail
  <1>9. \A b \in Attempt : Sound(b, At(b)')
    BY DEF TrailInv, At
  <1> QED
    BY <1>8, <1>9 DEF TrailInv

\* A handler that leaves the attempts, the files and the journal alone.
LEMMA TrailSame ==
  ASSUME TypeOK, TrailInv, up, todo = <<>>,
         \A b \in Attempt : InHands(b)' => InHands(b),
         \A b \in Attempt : phase'[b] = "finishing" => phase[b] = "finishing",
         UNCHANGED <<up, todo, att, ack, parent, datt, cps, dusage, dack, dparent>>
  PROVE  TrailInv'
  <1>1. At(1) \in Point /\ Leads(1, At(1), todo', At(1)) /\ todo' \in Seq(Write)
    BY AtType, AttemptIsThere, LeadsNothing
  <1>2. /\ At(1).rec = att'[1] /\ At(1).acks = ack' /\ At(1).par = parent' /\ At(1).files = cps
        /\ InHands(1)' => Clear(1, cps, att'[1].ver)
    BY TrailRest, AttemptIsThere DEF At
  <1> QED
    BY <1>1, <1>2, TrailStep, AttemptIsThere

\* The parent is committed.
LEMMA TrailParent ==
  ASSUME TypeOK, TrailInv, up, todo = <<>>, NEW st \in ParentStatus,
         todo' = <<WParent(st)>>, parent' = st,
         \A b \in Attempt : InHands(b)' => InHands(b),
         UNCHANGED <<up, att, ack, phase, datt, cps, dusage, dack, dparent>>
  PROVE  TrailInv'
  <1> DEFINE w == WParent(st)
             p == At(1)
             q == After(p, w)
  <1>1. w \in Write /\ w.kind = "parent" /\ w.st = st
    BY WParentType DEF WParent
  <1>2. p \in Point /\ Sound(1, p)
    BY AtType, AttemptIsThere DEF TrailInv
  <1>3. q.rec = p.rec /\ q.files = p.files /\ q.used = p.used /\ q.acks = p.acks /\ q.par = st
    BY <1>1 DEF After
  <1>4. p.rec = att[1] /\ p.files = cps /\ p.acks = ack /\ p.par = parent
    BY TrailRest, AttemptIsThere DEF At
  <1> HIDE DEF w, p, q
  <1>5. Sound(1, q)
    BY <1>2, <1>3 DEF Sound, Lineage, Earned, Roomy, Closed
  <1>6. Legal(1, p, w)
    BY <1>1, <1>5 DEF Legal, q
  <1>7. Leads(1, p, <<w>>, q) /\ q \in Point
    BY <1>1, <1>2, <1>6, LeadsOne, AfterType DEF q
  <1>8. todo' \in Seq(Write) /\ todo' = <<w>>
    BY <1>1 DEF w
  <1>9. InHands(1)' => Clear(1, q.files, att'[1].ver)
    BY <1>3, <1>4, TrailRest, AttemptIsThere
  <1> QED
    BY <1>3, <1>4, <1>7, <1>8, <1>9, TrailStep, AttemptIsThere DEF p

-----------------------------------------------------------------------------
(* The steps of the process *)

\* What a write does to the journal.
LEMMA PersistOne ==
  ASSUME TypeOK, TrailInv, HandsInv, Persist
  PROVE  \E a \in Attempt, q \in Point :
           /\ Legal(a, At(a), Head(todo))
           /\ At(a)' = After(At(a), Head(todo))
           /\ \A b \in Attempt : b # a => datt'[b] = datt[b]
           /\ Leads(a, After(At(a), Head(todo)), todo', q) /\ Reaches(a, q)
  <1>1. up /\ todo # <<>> /\ todo \in Seq(Write) /\ todo' = Tail(todo)
    BY DEF Persist, TypeOK
  <1>2. PICK a \in Attempt, q \in Point : Leads(a, At(a), todo, q) /\ Reaches(a, q)
    BY <1>1 DEF TrailInv, OnTrail
  <1>3. /\ Legal(a, At(a), Head(todo))
        /\ Leads(a, After(At(a), Head(todo)), todo', q)
    BY <1>1, <1>2, LeadsFirst
  <1> DEFINE w == Head(todo)
  <1>4. w.kind = "att" => w.a = a
    BY <1>3 DEF Legal
  <1>5. /\ datt' = IF w.kind = "att" THEN [datt EXCEPT ![w.a] = w.rec] ELSE datt
        /\ cps' = IF w.kind = "cp" THEN cps \cup {w.file} ELSE cps
        /\ dack' = IF w.kind = "ack" THEN dack \cup {w.a} ELSE dack
        /\ dusage' = IF w.kind = "usage" THEN dusage \cup {w.a} ELSE dusage
        /\ dparent' = IF w.kind = "parent" THEN w.st ELSE dparent
    BY DEF Persist
  <1> HIDE DEF w
  <1>6. /\ datt'[a] = IF w.kind = "att" THEN w.rec ELSE datt[a]
        /\ \A b \in Attempt : b # a => datt'[b] = datt[b]
    BY <1>4, <1>5 DEF TypeOK
  <1>7. At(a)' = After(At(a), w)
    BY <1>5, <1>6 DEF At, After
  <1> QED
    BY <1>2, <1>3, <1>6, <1>7 DEF w

LEMMA TrailPersist == TypeOK /\ TrailInv /\ HandsInv /\ Persist => TrailInv'
  <1> SUFFICES ASSUME TypeOK, TrailInv, HandsInv, Persist PROVE TrailInv'
    OBVIOUS
  <1>1. PICK a \in Attempt, q \in Point :
           /\ Legal(a, At(a), Head(todo))
           /\ At(a)' = After(At(a), Head(todo))
           /\ \A b \in Attempt : b # a => datt'[b] = datt[b]
           /\ Leads(a, After(At(a), Head(todo)), todo', q) /\ Reaches(a, q)
    BY PersistOne
  <1>2. UNCHANGED <<up, job, att, ack, parent, phase>>
    BY DEF Persist, memory, runner
  <1>3. Reaches(a, q)'
    BY <1>1, <1>2 DEF Reaches, InHands
  <1>4. OnTrail'
    BY <1>1, <1>3 DEF OnTrail
  <1>5. ASSUME NEW b \in Attempt PROVE Sound(b, At(b)')
    <2>1. CASE b = a
      BY <1>1, <2>1 DEF Legal
    <2>2. CASE b # a
      <3> DEFINE p == At(a)
                 w == Head(todo)
                 d == At(b)
                 e == After(p, w)
                 g == At(b)'
      <3>1. Sound(b, d) /\ d.rec = datt[b] /\ d.files = cps /\ d.used = dusage /\ d.acks = dack
        BY DEF TrailInv, At
      <3>2. /\ g.rec = datt'[b] /\ g.files = cps' /\ g.used = dusage' /\ g.acks = dack'
        BY DEF At
      <3>3. /\ w.kind \in {"usage", "ack"} => w.a = a
            /\ w.kind = "cp" => w.file.id[1] = a
        BY <1>1 DEF Legal
      <3>4. /\ cps' = IF w.kind = "cp" THEN cps \cup {w.file} ELSE cps
            /\ dack' = IF w.kind = "ack" THEN dack \cup {w.a} ELSE dack
            /\ dusage' = IF w.kind = "usage" THEN dusage \cup {w.a} ELSE dusage
        BY DEF Persist
      <3>5. datt'[b] = datt[b]
        BY <1>1, <2>2
      <3> HIDE DEF w, d, g
      <3>6. /\ g.rec = d.rec /\ d.files \subseteq g.files /\ d.used \subseteq g.used
            /\ \A f \in g.files : f.id[1] = b => f \in d.files
            /\ b \in g.acks => b \in d.acks
        BY <2>2, <3>1, <3>2, <3>3, <3>4, <3>5
      <3>7. Sound(b, g)
        BY <3>1, <3>6 DEF Sound, Lineage, Earned, Roomy, Closed
      <3> QED
        BY <3>7 DEF g
    <2> QED
      BY <2>1, <2>2
  <1> QED
    BY <1>4, <1>5 DEF TrailInv

LEMMA TrailCrash == TypeOK /\ TrailInv /\ Crash => TrailInv'
  <1> SUFFICES ASSUME TypeOK, TrailInv, Crash PROVE TrailInv'
    OBVIOUS
  <1>1. ~up' /\ UNCHANGED <<datt, cps, dusage, dack, dparent>>
    BY DEF Crash, durable
  <1> QED
    BY <1>1 DEF TrailInv, At

LEMMA TrailRestart == TypeOK /\ TrailInv /\ HandsInv /\ Restart => TrailInv'
  <1> SUFFICES ASSUME TypeOK, TrailInv, HandsInv, Restart PROVE TrailInv'
    OBVIOUS
  <1>1. /\ todo = <<>> /\ UNCHANGED <<todo, phase, datt, cps, dusage, dack, dparent>>
        /\ att' = datt /\ ack' = dack /\ parent' = dparent
        /\ job'.kind = "reclaim" /\ \A a \in Attempt : phase[a] = "none"
    BY DEF Restart, HandsInv, RunnerInv, durable, runner
  <1>2. At(1) \in Point /\ Leads(1, At(1), todo', At(1)) /\ At(1)' = At(1)
    BY <1>1, AtType, AttemptIsThere, LeadsNothing DEF At
  <1>3. /\ At(1).rec = att'[1] /\ At(1).acks = ack' /\ At(1).par = parent'
        /\ \A b \in Attempt : ~InHands(b)' /\ att'[b] = datt'[b]
    BY <1>1 DEF At, InHands
  <1>4. Reaches(1, At(1))'
    BY <1>1, <1>2, <1>3 DEF Reaches
  <1>5. OnTrail'
    <2>1. Leads(1, At(1)', todo', At(1)')
      BY <1>2
    <2>2. At(1)' \in Point
      BY <1>2
    <2> QED
      BY <1>4, <2>1, <2>2, AttemptIsThere DEF OnTrail
  <1>6. \A b \in Attempt : Sound(b, At(b)')
    BY <1>1 DEF TrailInv, At
  <1> QED
    BY <1>5, <1>6 DEF TrailInv

-----------------------------------------------------------------------------
(* One record, one checkpoint *)

\* ws leads from p to q, where a is sound again and the parent is the same.
Carries(a, p, ws, q) ==
    q \in Point /\ Leads(a, p, ws, q) /\ Sound(a, q) /\ q.par = p.par

LEMMA CarriesOn ==
  ASSUME NEW a, NEW p, NEW q, NEW r, NEW s \in Seq(Write), NEW t \in Seq(Write),
         Carries(a, p, s, q), Carries(a, q, t, r)
  PROVE  Carries(a, p, s \o t, r)
  BY LeadsOn DEF Carries

LEMMA CarriesNothing ==
  ASSUME NEW a, NEW p \in Point, Sound(a, p)
  PROVE  Carries(a, p, <<>>, p)
  BY LeadsNothing DEF Carries

\* The attempt is recorded as s.
LEMMA RecordCarries ==
  ASSUME NEW a \in Attempt, NEW p \in Point, Sound(a, p), NEW s \in AttemptRec,
         Follows(p.rec.status, s.status), p.rec.status # "absent" => s.resumed = p.rec.resumed,
         s.resumed # 0 => /\ s.rcp # NoCp
                          /\ [id |-> s.rcp, safe |-> TRUE] \in p.files
                          /\ s.status # "blocked",
         s.status = "succeeded" => a \in p.used /\ s.cpSafe = TRUE /\ s.cp # NoCp,
         \A f \in p.files : f.id[1] = a => Room(s, f.id[2])
  PROVE  \E q : /\ Carries(a, p, <<WAtt(a, s)>>, q)
                /\ q.rec = s /\ q.files = p.files /\ q.used = p.used /\ q.acks = p.acks
  <1> DEFINE w == WAtt(a, s)
             q == After(p, w)
  <1>1. w \in Write /\ w.kind = "att" /\ w.a = a /\ w.rec = s
    BY WAttType DEF WAtt
  <1>2. /\ q.rec = s /\ q.files = p.files /\ q.used = p.used /\ q.acks = p.acks
        /\ q.par = p.par
    BY <1>1 DEF After
  <1>3. q \in Point
    BY <1>1, AfterType
  <1> HIDE DEF w, q
  <1>4. a \notin p.acks
    BY DEF Follows, Sound, Closed, L!Terminal
  <1>5. Sound(a, q)
    BY <1>2, <1>4 DEF Sound, Lineage, Earned, Roomy, Closed
  <1>6. Legal(a, p, w)
    BY <1>1, <1>5 DEF Legal, q
  <1>7. Leads(a, p, <<w>>, q)
    BY <1>1, <1>6, LeadsOne DEF q
  <1> QED
    BY <1>2, <1>3, <1>5, <1>7 DEF Carries, w

\* The same, when s neither is a new attempt nor ends it.
LEMMA MoveCarries ==
  ASSUME NEW a \in Attempt, NEW p \in Point, Sound(a, p), NEW s \in AttemptRec,
         Follows(p.rec.status, s.status), s.status \notin {"blocked", "succeeded"},
         s.resumed = p.rec.resumed, s.rcp = p.rec.rcp,
         \A f \in p.files : f.id[1] = a => Room(s, f.id[2])
  PROVE  \E q : /\ Carries(a, p, <<WAtt(a, s)>>, q)
                /\ q.rec = s /\ q.files = p.files /\ q.used = p.used /\ q.acks = p.acks
  <1>1. s.resumed # 0 => /\ s.rcp # NoCp
                         /\ [id |-> s.rcp, safe |-> TRUE] \in p.files
                         /\ s.status # "blocked"
    BY DEF Sound, Lineage
  <1> QED
    BY <1>1, RecordCarries

\* The files bear out where the attempt was recovered from.
Traced(s, files) == s.resumed # 0 =>
    s.rcp # NoCp /\ [id |-> s.rcp, safe |-> TRUE] \in files /\ s.status # "blocked"

\* The same, when s is no success.
LEMMA OpenCarries ==
  ASSUME NEW a \in Attempt, NEW p \in Point, Sound(a, p), NEW s \in AttemptRec,
         Follows(p.rec.status, s.status), p.rec.status # "absent" => s.resumed = p.rec.resumed,
         s.status # "succeeded", Traced(s, p.files),
         \A f \in p.files : f.id[1] = a => Room(s, f.id[2])
  PROVE  \E q : /\ Carries(a, p, <<WAtt(a, s)>>, q)
                /\ q.rec = s /\ q.files = p.files /\ q.used = p.used /\ q.acks = p.acks
  <1>1. s.resumed # 0 => /\ s.rcp # NoCp
                         /\ [id |-> s.rcp, safe |-> TRUE] \in p.files
                         /\ s.status # "blocked"
    BY DEF Traced
  <1> QED
    BY <1>1, RecordCarries

\* What the operations leave of a record.
LEMMA OriginKept ==
  ASSUME NEW r \in AttemptRec, NEW s
  PROVE  /\ Moved(r, s).resumed = r.resumed /\ Moved(r, s).rcp = r.rcp
         /\ Claimed(r).resumed = r.resumed /\ Claimed(r).rcp = r.rcp
         /\ Bound(r).resumed = r.resumed /\ Bound(r).rcp = r.rcp
         /\ Requeued(r).resumed = r.resumed /\ Requeued(r).rcp = r.rcp
         /\ Reclaimed(r).resumed = r.resumed /\ Reclaimed(r).rcp = r.rcp
  BY DEF AttemptRec, Moved, Claimed, Bound, Requeued, Reclaimed

LEMMA VersionOf ==
  ASSUME NEW r \in AttemptRec, NEW s
  PROVE  /\ Moved(r, s).ver = r.ver + 1
         /\ Claimed(r).ver = r.ver + 1
         /\ Bound(r).ver \in {r.ver, r.ver + 1}
         /\ Requeued(r).ver = r.ver + 1
         /\ Reclaimed(r).ver = r.ver
         /\ r.ver \in Nat
  BY DEF AttemptRec, Moved, Claimed, Bound, Requeued, Reclaimed

LEMMA OfCheckpointed ==
  ASSUME NEW r \in AttemptRec, NEW a \in Attempt, NEW safe \in BOOLEAN
  PROVE  LET k == Checkpointed(a, r, safe)
         IN  /\ k.ver = r.ver + 1 /\ k.status = r.status
             /\ k.resumed = r.resumed /\ k.rcp = r.rcp
             /\ k.cp = <<a, r.ver + 1>> /\ k.cpSafe = safe
  BY DEF AttemptRec, Checkpointed

LEMMA FileNames ==
  ASSUME NEW f \in CpFile
  PROVE  f.id[1] \in Nat /\ f.id[2] \in Nat
  BY DEF CpFile, CpId

\* WorkerRunner._checkpoint for an attempt whose files are no newer than it.
LEMMA CheckpointCarries ==
  ASSUME NEW a \in Attempt, NEW p \in Point, Sound(a, p), NEW safe \in BOOLEAN,
         p.rec.status \in Started, Clear(a, p.files, p.rec.ver)
  PROVE  \E q : /\ Carries(a, p, CheckpointWrites(a, p.rec, safe), q)
                /\ q.rec = Checkpointed(a, p.rec, safe)
                /\ Clear(a, q.files, q.rec.ver)
                /\ q.used = p.used /\ q.acks = p.acks
  <1> DEFINE r == p.rec
             f == CpOf(a, r, safe)
             k == Checkpointed(a, r, safe)
             w == WCp(f)
             m == After(p, w)
  <1>1. r \in AttemptRec /\ p.files \in SUBSET CpFile
    BY DEF Point
  <1>2. f \in CpFile /\ f.id[1] = a /\ f.id[2] = r.ver + 1 /\ r.ver \in Nat
    BY <1>1, CpOfType DEF CpOf, AttemptRec
  <1>3. /\ k \in AttemptRec /\ k.ver = r.ver + 1 /\ k.status = r.status
        /\ k.resumed = r.resumed /\ k.rcp = r.rcp
    BY <1>1, CheckpointedType, OfCheckpointed
  <1>4. CheckpointWrites(a, r, safe) = <<w>> \o <<WAtt(a, k)>>
    BY DEF CheckpointWrites
  <1> HIDE DEF f, k
  <1>5. w \in Write /\ w.kind = "cp" /\ w.file = f
    BY <1>2 DEF WCp, Write
  <1>6. /\ m.rec = r /\ m.files = p.files \cup {f} /\ m.used = p.used /\ m.acks = p.acks
        /\ m.par = p.par
    BY <1>5 DEF After
  <1>7. m \in Point
    BY <1>5, AfterType
  <1> HIDE DEF w, m
  <1>8. \A g \in m.files : g.id[1] = a => g.id[2] <= r.ver + 1
    BY <1>1, <1>2, <1>6, FileNames DEF Clear
  <1>9. Sound(a, m)
    <2>1. Lineage(m) /\ Earned(a, m) /\ Closed(a, m)
      BY <1>6 DEF Sound, Lineage, Earned, Closed, Started
    <2>2. Roomy(a, m)
      BY <1>6, <1>8 DEF Roomy, Room, Started
    <2> QED
      BY <2>1, <2>2 DEF Sound
  <1>10. \A g \in p.files : g.id # f.id
    BY <1>1, <1>2 DEF Clear
  <1>11. Legal(a, p, w)
    BY <1>2, <1>5, <1>9, <1>10 DEF Legal, m
  <1>12. Carries(a, p, <<w>>, m)
    BY <1>5, <1>6, <1>7, <1>9, <1>11, LeadsOne DEF Carries, m
  <1>13. Follows(m.rec.status, k.status) /\ k.status \notin {"blocked", "succeeded"}
    BY <1>3, <1>6 DEF Follows, Started, L!Terminal
  <1>14. ASSUME NEW g \in m.files, g.id[1] = a
         PROVE  Room(k, g.id[2])
    <2>1. g.id[2] <= k.ver /\ k.status \in Started
      BY <1>3, <1>8, <1>14
    <2>2. g.id[2] \in Nat /\ k.ver \in Nat
      BY <1>1, <1>2, <1>3, <1>6, <1>14, FileNames
    <2> QED
      BY <2>1, <2>2 DEF Room, Started
  <1>15. PICK q : /\ Carries(a, m, <<WAtt(a, k)>>, q)
                  /\ q.rec = k /\ q.files = m.files /\ q.used = m.used /\ q.acks = m.acks
    BY <1>3, <1>6, <1>7, <1>9, <1>13, <1>14, MoveCarries
  <1>16. Carries(a, p, <<w>> \o <<WAtt(a, k)>>, q)
    <2>1. <<w>> \in Seq(Write) /\ <<WAtt(a, k)>> \in Seq(Write)
      BY <1>3, <1>5, WAttType
    <2> QED
      BY <1>12, <1>15, <2>1, CarriesOn
  <1>17. Clear(a, q.files, q.rec.ver)
    BY <1>3, <1>8, <1>15 DEF Clear
  <1> QED
    BY <1>4, <1>6, <1>15, <1>16, <1>17 DEF k
-----------------------------------------------------------------------------
(* The ends of a run *)

\* ws leads from p to the record s, which is no older than a's files.
Does(a, p, ws, s) ==
    \E q : /\ Carries(a, p, ws, q)
           /\ q.rec = s /\ q.used = p.used /\ q.acks = p.acks
           /\ Clear(a, q.files, s.ver)

LEMMA RoomAfter ==
  ASSUME NEW a, NEW files \in SUBSET CpFile, NEW v \in Nat, Clear(a, files, v),
         NEW s \in AttemptRec, v <= s.ver, s.status # "absent",
         NEW f \in files, f.id[1] = a
  PROVE  Room(s, f.id[2]) /\ f.id[2] <= s.ver
  <1>1. f.id[2] \in Nat /\ f.id[2] <= v
    BY FileNames DEF Clear
  <1>2. s.ver \in Nat
    BY DEF AttemptRec
  <1>3. f.id[2] <= s.ver
    BY <1>1, <1>2
  <1> QED
    BY <1>1, <1>2, <1>3 DEF Room

LEMMA MovedDoes ==
  ASSUME NEW a \in Attempt, NEW p \in Point, Sound(a, p), Clear(a, p.files, p.rec.ver),
         NEW s \in L!Status \ {"absent", "blocked", "succeeded"}, Follows(p.rec.status, s)
  PROVE  Does(a, p, <<WAtt(a, Moved(p.rec, s))>>, Moved(p.rec, s))
  <1> DEFINE t == Moved(p.rec, s)
  <1>1. p.rec \in AttemptRec /\ p.files \in SUBSET CpFile
    BY DEF Point
  <1>2. /\ t \in AttemptRec /\ t.status = s /\ t.ver = p.rec.ver + 1
        /\ t.resumed = p.rec.resumed /\ t.rcp = p.rec.rcp /\ p.rec.ver \in Nat
    BY <1>1, MovedType, StatusOf, OriginKept, VersionOf
  <1> HIDE DEF t
  <1>3. ASSUME NEW f \in p.files, f.id[1] = a
        PROVE  Room(t, f.id[2]) /\ f.id[2] <= t.ver
    <2>1. p.rec.ver <= t.ver /\ t.status # "absent"
      BY <1>2
    <2> QED
      BY <1>1, <1>2, <1>3, <2>1, RoomAfter
  <1>4. PICK q : /\ Carries(a, p, <<WAtt(a, t)>>, q)
                 /\ q.rec = t /\ q.files = p.files /\ q.used = p.used /\ q.acks = p.acks
    BY <1>2, <1>3, MoveCarries
  <1>5. Clear(a, q.files, t.ver)
    BY <1>3, <1>4 DEF Clear
  <1> QED
    BY <1>4, <1>5 DEF Does, t

LEMMA NothingDoes ==
  ASSUME NEW a \in Attempt, NEW p \in Point, Sound(a, p), Clear(a, p.files, p.rec.ver)
  PROVE  Does(a, p, <<>>, p.rec)
  BY CarriesNothing DEF Does

LEMMA CheckpointDoes ==
  ASSUME NEW a \in Attempt, NEW p \in Point, Sound(a, p), Clear(a, p.files, p.rec.ver),
         NEW safe \in BOOLEAN, p.rec.status \in Started
  PROVE  Does(a, p, CheckpointWrites(a, p.rec, safe), Checkpointed(a, p.rec, safe))
  <1>1. PICK q : /\ Carries(a, p, CheckpointWrites(a, p.rec, safe), q)
                 /\ q.rec = Checkpointed(a, p.rec, safe)
                 /\ Clear(a, q.files, q.rec.ver)
                 /\ q.used = p.used /\ q.acks = p.acks
    BY CheckpointCarries
  <1>2. Clear(a, q.files, Checkpointed(a, p.rec, safe).ver)
    BY <1>1
  <1> QED
    BY <1>1, <1>2 DEF Does

\* What holds where some writes have led.
LEMMA DoesPoint ==
  ASSUME NEW a, NEW p, NEW ws, NEW s, Does(a, p, ws, s)
  PROVE  \E q \in Point :
           /\ Carries(a, p, ws, q) /\ Sound(a, q) /\ q.par = p.par
           /\ q.rec = s /\ q.used = p.used /\ q.acks = p.acks
           /\ Clear(a, q.files, q.rec.ver)
  BY DEF Does, Carries

LEMMA RequestDoes ==
  ASSUME TypeOK, NEW a \in Attempt, NEW p \in Point, Sound(a, p), Clear(a, p.files, p.rec.ver),
         p.rec = att[a], att[a].status \in Started,
         NEW s \in {"pause_requested", "cancel_requested"}
  PROVE  Does(a, p, Request(a, s).ws, Request(a, s).rec)
  <1>1. CASE att[a].status = "running"
    <2>1. Request(a, s).ws = <<WAtt(a, Moved(p.rec, s))>> /\ Request(a, s).rec = Moved(p.rec, s)
      BY <1>1 DEF Request
    <2>2. Follows(p.rec.status, s) /\ s \in L!Status \ {"absent", "blocked", "succeeded"}
      BY <1>1 DEF Follows, L!CanMove, L!Successors, L!Terminal, L!Status, L!Live
    <2>3. Does(a, p, <<WAtt(a, Moved(p.rec, s))>>, Moved(p.rec, s))
      BY <2>2, MovedDoes
    <2> QED
      BY <2>1, <2>3
  <1>2. CASE att[a].status # "running"
    <2>1. Request(a, s).ws = <<>> /\ Request(a, s).rec = p.rec
      BY <1>2 DEF Request
    <2> QED
      BY <2>1, NothingDoes
  <1> QED
    BY <1>1, <1>2

LEMMA DoesOn ==
  ASSUME NEW a, NEW p, NEW s \in Seq(Write), NEW t \in Seq(Write), NEW u, NEW q \in Point,
         Carries(a, p, s, q), q.used = p.used, q.acks = p.acks,
         Does(a, q, t, u)
  PROVE  Does(a, p, s \o t, u)
  <1>1. PICK z : /\ Carries(a, q, t, z)
                 /\ z.rec = u /\ z.used = q.used /\ z.acks = q.acks
                 /\ Clear(a, z.files, u.ver)
    BY DEF Does
  <1>2. Carries(a, p, s \o t, z)
    BY <1>1, CarriesOn
  <1> QED
    BY <1>1, <1>2 DEF Does

LEMMA EndCancelledDoes ==
  ASSUME TypeOK, NEW a \in Attempt, NEW p \in Point, Sound(a, p), Clear(a, p.files, p.rec.ver),
         p.rec = att[a], att[a].status \in Started
  PROVE  Does(a, p, EndCancelled(a).ws, EndCancelled(a).rec)
  <1> DEFINE e == Request(a, "cancel_requested")
             c == Moved(e.rec, "cancelled")
  <1>1. e \in Ending
    BY RequestType DEF L!Status, L!Live
  <1>2. Does(a, p, e.ws, e.rec)
    BY RequestDoes
  <1>3. /\ e.rec.status # "cancel_requested" => EndCancelled(a) = e
        /\ e.rec.status = "cancel_requested" => /\ EndCancelled(a).rec = c
                                                /\ EndCancelled(a).ws = e.ws \o <<WAtt(a, c)>>
    BY DEF EndCancelled, e, c
  <1> HIDE DEF e
  <1>4. CASE e.rec.status = "cancel_requested"
    <2>1. PICK q \in Point :
            /\ Carries(a, p, e.ws, q) /\ Sound(a, q)
            /\ q.rec = e.rec /\ q.used = p.used /\ q.acks = p.acks
            /\ Clear(a, q.files, q.rec.ver)
      BY <1>2, DoesPoint
    <2>2. Follows(q.rec.status, "cancelled")
      BY <1>4, <2>1 DEF Follows, L!CanMove, L!Successors, L!Terminal
    <2>3. Does(a, q, <<WAtt(a, c)>>, c)
      BY <2>1, <2>2, MovedDoes DEF L!Status, L!Terminal
    <2>4. e.ws \in Seq(Write) /\ <<WAtt(a, c)>> \in Seq(Write)
      BY <1>1, MovedType, WAttType DEF Ending, L!Status, L!Terminal
    <2> HIDE DEF c
    <2>5. Does(a, p, e.ws \o <<WAtt(a, c)>>, c)
      BY <2>1, <2>3, <2>4, DoesOn
    <2> QED
      BY <1>3, <1>4, <2>5
  <1>5. CASE e.rec.status # "cancel_requested"
    BY <1>2, <1>3, <1>5
  <1> QED
    BY <1>4, <1>5

LEMMA EndPausedDoes ==
  ASSUME TypeOK, NEW a \in Attempt, NEW p \in Point, Sound(a, p), Clear(a, p.files, p.rec.ver),
         p.rec = att[a], att[a].status \in Started
  PROVE  Does(a, p, EndPaused(a).ws, EndPaused(a).rec)
  <1> DEFINE e == Request(a, "pause_requested")
             k == Checkpointed(a, e.rec, TRUE)
             c == Moved(k, "paused")
             cw == CheckpointWrites(a, e.rec, TRUE)
  <1>1. e \in Ending
    BY RequestType DEF L!Status, L!Live
  <1>2. Does(a, p, e.ws, e.rec)
    BY RequestDoes
  <1>3. /\ e.rec.status # "pause_requested" => EndPaused(a) = e
        /\ e.rec.status = "pause_requested" => /\ EndPaused(a).rec = c
                                               /\ EndPaused(a).ws = (e.ws \o cw) \o <<WAtt(a, c)>>
    BY DEF EndPaused, e, k, c, cw
  <1> HIDE DEF e
  <1>4. CASE e.rec.status = "pause_requested"
    <2>1. PICK q \in Point :
            /\ Carries(a, p, e.ws, q) /\ Sound(a, q)
            /\ q.rec = e.rec /\ q.used = p.used /\ q.acks = p.acks
            /\ Clear(a, q.files, q.rec.ver)
      BY <1>2, DoesPoint
    <2>2. Does(a, q, cw, k)
      <3>1. q.rec.status \in Started /\ TRUE \in BOOLEAN
        BY <1>4, <2>1 DEF Started
      <3>2. Does(a, q, CheckpointWrites(a, q.rec, TRUE), Checkpointed(a, q.rec, TRUE))
        BY <2>1, <3>1, CheckpointDoes
      <3> QED
        BY <2>1, <3>2
    <2>3. /\ e.ws \in Seq(Write) /\ e.rec \in AttemptRec /\ cw \in Seq(Write)
          /\ k \in AttemptRec /\ k.status = e.rec.status
      BY <1>1, CheckpointWritesType, CheckpointedType, CheckpointedStatus DEF Ending
    <2> HIDE DEF cw, k
    <2>4. Does(a, p, e.ws \o cw, k)
      BY <2>1, <2>2, <2>3, DoesOn
    <2>5. PICK z \in Point :
            /\ Carries(a, p, e.ws \o cw, z) /\ Sound(a, z)
            /\ z.rec = k /\ z.used = p.used /\ z.acks = p.acks
            /\ Clear(a, z.files, z.rec.ver)
      BY <2>4, DoesPoint
    <2>6. Follows(z.rec.status, "paused")
      BY <1>4, <2>3, <2>5 DEF Follows, L!CanMove, L!Successors, L!Terminal
    <2>7. Does(a, z, <<WAtt(a, c)>>, c)
      BY <2>5, <2>6, MovedDoes DEF L!Status, L!Live, L!Terminal
    <2>8. e.ws \o cw \in Seq(Write) /\ <<WAtt(a, c)>> \in Seq(Write)
      BY <2>3, MovedType, WAttType, ConcatProperties DEF L!Status, L!Live
    <2> HIDE DEF c
    <2>9. Does(a, p, (e.ws \o cw) \o <<WAtt(a, c)>>, c)
      BY <2>5, <2>7, <2>8, DoesOn
    <2> QED
      BY <1>3, <1>4, <2>9
  <1>5. CASE e.rec.status # "pause_requested"
    BY <1>2, <1>3, <1>5
  <1> QED
    BY <1>4, <1>5

LEMMA EndCancelFailedDoes ==
  ASSUME TypeOK, NEW a \in Attempt, NEW p \in Point, Sound(a, p), Clear(a, p.files, p.rec.ver),
         p.rec = att[a]
  PROVE  Does(a, p, EndCancelFailed(a).ws, EndCancelFailed(a).rec)
  <1>1. CASE att[a].status = "cancel_requested"
    <2>1. Follows(p.rec.status, "failed")
      BY <1>1 DEF Follows, L!CanMove, L!Successors, L!Terminal
    <2>2. Does(a, p, <<WAtt(a, Moved(p.rec, "failed"))>>, Moved(p.rec, "failed"))
      BY <2>1, MovedDoes DEF L!Status, L!Terminal
    <2> QED
      BY <1>1, <2>2 DEF EndCancelFailed
  <1>2. CASE att[a].status # "cancel_requested"
    BY <1>2, NothingDoes DEF EndCancelFailed
  <1> QED
    BY <1>1, <1>2
\* The record s, for which a's files are not too new.
LEMMA RecordDoes ==
  ASSUME NEW a \in Attempt, NEW p \in Point, Sound(a, p),
         NEW v \in Nat, Clear(a, p.files, v),
         NEW s \in AttemptRec, v <= s.ver, s.status \notin {"absent", "blocked", "succeeded"},
         Follows(p.rec.status, s.status), s.resumed = p.rec.resumed, s.rcp = p.rec.rcp
  PROVE  Does(a, p, <<WAtt(a, s)>>, s)
  <1>1. p.files \in SUBSET CpFile
    BY DEF Point
  <1>2. ASSUME NEW f \in p.files, f.id[1] = a
        PROVE  Room(s, f.id[2]) /\ f.id[2] <= s.ver
    BY <1>1, <1>2, RoomAfter
  <1>3. PICK q : /\ Carries(a, p, <<WAtt(a, s)>>, q)
                 /\ q.rec = s /\ q.files = p.files /\ q.used = p.used /\ q.acks = p.acks
    BY <1>2, MoveCarries
  <1>4. Clear(a, q.files, s.ver)
    BY <1>2, <1>3 DEF Clear
  <1> QED
    BY <1>3, <1>4 DEF Does

LEMMA AckCarries ==
  ASSUME NEW a \in Attempt, NEW p \in Point, Sound(a, p),
         p.rec.status \in {"succeeded", "failed"}
  PROVE  \E q \in Point : /\ Carries(a, p, <<WAck(a)>>, q)
                          /\ q.rec = p.rec /\ q.files = p.files /\ q.used = p.used
                          /\ q.acks = p.acks \cup {a}
  <1> DEFINE w == WAck(a)
             q == After(p, w)
  <1>1. w \in Write /\ w.kind = "ack" /\ w.a = a
    BY WAckUsageType DEF WAck
  <1>2. /\ q.rec = p.rec /\ q.files = p.files /\ q.used = p.used /\ q.acks = p.acks \cup {a}
        /\ q.par = p.par
    BY <1>1 DEF After
  <1>3. q \in Point
    BY <1>1, AfterType
  <1> HIDE DEF w, q
  <1>4. Sound(a, q)
    BY <1>2 DEF Sound, Lineage, Earned, Roomy, Closed
  <1>5. Legal(a, p, w)
    BY <1>1, <1>4 DEF Legal, q
  <1>6. Leads(a, p, <<w>>, q)
    BY <1>1, <1>5, LeadsOne DEF q
  <1> QED
    BY <1>2, <1>3, <1>4, <1>6 DEF Carries, w

LEMMA UsageCarries ==
  ASSUME NEW a \in Attempt, NEW p \in Point, Sound(a, p)
  PROVE  \E q \in Point : /\ Carries(a, p, <<WUsage(a)>>, q)
                          /\ q.rec = p.rec /\ q.files = p.files /\ q.acks = p.acks
                          /\ q.used = p.used \cup {a}
  <1> DEFINE w == WUsage(a)
             q == After(p, w)
  <1>1. w \in Write /\ w.kind = "usage" /\ w.a = a
    BY WAckUsageType DEF WUsage
  <1>2. /\ q.rec = p.rec /\ q.files = p.files /\ q.acks = p.acks /\ q.used = p.used \cup {a}
        /\ q.par = p.par
    BY <1>1 DEF After
  <1>3. q \in Point
    BY <1>1, AfterType
  <1> HIDE DEF w, q
  <1>4. Sound(a, q)
    BY <1>2 DEF Sound, Lineage, Earned, Roomy, Closed
  <1>5. Legal(a, p, w)
    BY <1>1, <1>4 DEF Legal, q
  <1>6. Leads(a, p, <<w>>, q)
    BY <1>1, <1>5, LeadsOne DEF q
  <1> QED
    BY <1>2, <1>3, <1>4, <1>6 DEF Carries, w

LEMMA TwoWrites ==
  ASSUME NEW v \in Write, NEW w \in Write
  PROVE  /\ <<v>> \in Seq(Write) /\ <<w>> \in Seq(Write) /\ <<v, w>> \in Seq(Write)
         /\ <<v>> \o <<w>> = <<v, w>>
  <1> DEFINE s == <<v>>
             t == <<w>>
             u == <<v, w>>
  <1>1. /\ s \in Seq(Write) /\ Len(s) = 1 /\ s[1] = v
        /\ t \in Seq(Write) /\ Len(t) = 1 /\ t[1] = w
    OBVIOUS
  <1>2. u \in Seq(Write) /\ Len(u) = 2 /\ u[1] = v /\ u[2] = w
    OBVIOUS
  <1> HIDE DEF s, t, u
  <1>3. /\ s \o t \in Seq(Write) /\ Len(s \o t) = 2
        /\ (s \o t)[1] = v /\ (s \o t)[2] = w
    BY <1>1, ConcatProperties
  <1>4. \A i \in 1..2 : i = 1 \/ i = 2
    OBVIOUS
  <1>5. \A i \in 1..Len(u) : (s \o t)[i] = u[i]
    BY <1>2, <1>3, <1>4
  <1>6. s \o t = u
    BY <1>2, <1>3, <1>5, SeqEqual
  <1> QED
    BY <1>1, <1>2, <1>6 DEF s, t, u

\* What a success needs where it is recorded.
Backs(a, p) == a \in p.used /\ p.rec.cpSafe = TRUE /\ p.rec.cp # NoCp

\* The transition that ends a run.
LEMMA EndingCarries ==
  ASSUME NEW a \in Attempt, NEW p \in Point, Sound(a, p), Clear(a, p.files, p.rec.ver),
         NEW s \in {"succeeded", "failed"}, Follows(p.rec.status, s),
         s = "succeeded" => Backs(a, p)
  PROVE  \E q \in Point : /\ Carries(a, p, <<WAtt(a, Moved(p.rec, s))>>, q)
                          /\ q.rec = Moved(p.rec, s) /\ q.files = p.files
                          /\ q.used = p.used /\ q.acks = p.acks
  <1> DEFINE t == Moved(p.rec, s)
  <1>1. p.rec \in AttemptRec /\ p.files \in SUBSET CpFile
    BY DEF Point
  <1>2. /\ t \in AttemptRec /\ t.status = s
        /\ t.resumed = p.rec.resumed /\ t.rcp = p.rec.rcp
    BY <1>1, MovedType, StatusOf, OriginKept DEF L!Status, L!Terminal
  <1>3. t.cpSafe = p.rec.cpSafe /\ t.cp = p.rec.cp
    BY <1>1 DEF AttemptRec, Moved
  <1> HIDE DEF t
  <1>4. \A f \in p.files : Room(t, f.id[2])
    BY <1>2 DEF Room
  <1>5. t.resumed # 0 => /\ t.rcp # NoCp
                         /\ [id |-> t.rcp, safe |-> TRUE] \in p.files
                         /\ t.status # "blocked"
    BY <1>2 DEF Sound, Lineage
  <1>6. t.status = "succeeded" => a \in p.used /\ t.cpSafe = TRUE /\ t.cp # NoCp
    BY <1>2, <1>3 DEF Backs
  <1>7. Follows(p.rec.status, t.status)
    BY <1>2
  <1>8. PICK q : /\ Carries(a, p, <<WAtt(a, t)>>, q)
                 /\ q.rec = t /\ q.files = p.files /\ q.used = p.used /\ q.acks = p.acks
    BY <1>2, <1>4, <1>5, <1>6, <1>7, RecordCarries
  <1> QED
    BY <1>8 DEF Carries, t

LEMMA EndTerminalCarries ==
  ASSUME TypeOK, NEW a \in Attempt, NEW p \in Point, Sound(a, p), Clear(a, p.files, p.rec.ver),
         p.rec = att[a], att[a].status \in Started,
         NEW s \in {"succeeded", "failed"}, s = "succeeded" => a \in p.used
  PROVE  \E q \in Point :
           /\ Carries(a, p, EndTerminal(a, s).ws, q)
           /\ q.rec = EndTerminal(a, s).rec /\ q.used = p.used
           /\ q.acks = IF TerminalAllowed(a, s) THEN p.acks \cup {a} ELSE p.acks
  <1> DEFINE safe == (s = "succeeded")
             k == Checkpointed(a, att[a], safe)
             t == Moved(k, s)
             cw == CheckpointWrites(a, att[a], safe)
  <1>1. att[a] \in AttemptRec /\ safe \in BOOLEAN
    BY DEF TypeOK
  <1>2. /\ TerminalAllowed(a, s) => /\ EndTerminal(a, s).rec = t
                                    /\ EndTerminal(a, s).ws = cw \o <<WAtt(a, t), WAck(a)>>
        /\ ~TerminalAllowed(a, s) => EndTerminal(a, s).rec = k /\ EndTerminal(a, s).ws = cw
    BY DEF EndTerminal
  <1>3. Does(a, p, cw, k)
    <2>1. Does(a, p, CheckpointWrites(a, p.rec, safe), Checkpointed(a, p.rec, safe))
      BY <1>1, CheckpointDoes
    <2> QED
      BY <2>1
  <1>4. s = "succeeded" => safe = TRUE
    OBVIOUS
  <1> HIDE DEF safe
  <1>5. /\ k \in AttemptRec /\ cw \in Seq(Write) /\ k.status = att[a].status
        /\ k.cp = <<a, att[a].ver + 1>> /\ k.cpSafe = safe
    BY <1>1, CheckpointedType, CheckpointWritesType, OfCheckpointed
  <1>6. k.cp # NoCp
    BY <1>5, AttemptNat DEF NoCp
  <1> HIDE DEF k, cw
  <1>7. PICK m \in Point :
           /\ Carries(a, p, cw, m) /\ Sound(a, m)
           /\ m.rec = k /\ m.used = p.used /\ m.acks = p.acks
           /\ Clear(a, m.files, m.rec.ver)
    BY <1>3, DoesPoint
  <1>8. CASE TerminalAllowed(a, s)
    <2>1. Follows(m.rec.status, s)
      BY <1>5, <1>7, <1>8 DEF TerminalAllowed, Allowed, Follows, Started, L!Terminal
    <2>2. PICK n \in Point :
             /\ Carries(a, m, <<WAtt(a, t)>>, n)
             /\ n.rec = t /\ n.files = m.files /\ n.used = m.used /\ n.acks = m.acks
      <3>1. s = "succeeded" => Backs(a, m)
        BY <1>4, <1>5, <1>6, <1>7 DEF Backs
      <3>2. \E n \in Point : /\ Carries(a, m, <<WAtt(a, Moved(m.rec, s))>>, n)
                             /\ n.rec = Moved(m.rec, s) /\ n.files = m.files
                             /\ n.used = m.used /\ n.acks = m.acks
        BY <1>7, <2>1, <3>1, EndingCarries
      <3> QED
        BY <1>7, <3>2
    <2>3. t \in AttemptRec /\ t.status = s
      BY <1>5, MovedType, StatusOf DEF L!Status, L!Terminal
    <2> HIDE DEF t
    <2>4. n.rec.status \in {"succeeded", "failed"} /\ Sound(a, n)
      BY <2>2, <2>3 DEF Carries
    <2>5. PICK q \in Point :
             /\ Carries(a, n, <<WAck(a)>>, q)
             /\ q.rec = n.rec /\ q.files = n.files /\ q.used = n.used
             /\ q.acks = n.acks \cup {a}
      BY <2>4, AckCarries
    <2>6. WAtt(a, t) \in Write /\ WAck(a) \in Write
      BY <2>3, WAttType, WAckUsageType
    <2>7. /\ <<WAtt(a, t)>> \in Seq(Write) /\ <<WAck(a)>> \in Seq(Write)
          /\ <<WAtt(a, t), WAck(a)>> \in Seq(Write)
          /\ <<WAtt(a, t)>> \o <<WAck(a)>> = <<WAtt(a, t), WAck(a)>>
      BY <2>6, TwoWrites
    <2>8. Carries(a, m, <<WAtt(a, t), WAck(a)>>, q)
      <3>1. Carries(a, m, <<WAtt(a, t)>> \o <<WAck(a)>>, q)
        BY <2>2, <2>5, <2>7, CarriesOn
      <3> QED
        BY <2>7, <3>1
    <2>9. Carries(a, p, cw \o <<WAtt(a, t), WAck(a)>>, q)
      BY <1>5, <1>7, <2>7, <2>8, CarriesOn
    <2>10. q.rec = t /\ q.used = p.used /\ q.acks = p.acks \cup {a}
      BY <1>7, <2>2, <2>5
    <2> QED
      BY <1>2, <1>8, <2>9, <2>10
  <1>9. CASE ~TerminalAllowed(a, s)
    BY <1>2, <1>7, <1>9
  <1> QED
    BY <1>8, <1>9
-----------------------------------------------------------------------------
(* The steps of the runners *)

\* Where a handler about a starts from.
LEMMA TrailHere ==
  ASSUME TypeOK, TrailInv, up, todo = <<>>, NEW a \in Attempt
  PROVE  /\ At(a) \in Point /\ Sound(a, At(a))
         /\ At(a).rec = att[a] /\ At(a).files = cps /\ At(a).used = dusage
         /\ At(a).acks = ack /\ At(a).par = parent
         /\ InHands(a) => Clear(a, At(a).files, At(a).rec.ver)
  <1>1. att = datt /\ ack = dack /\ parent = dparent
        /\ \A b \in Attempt : InHands(b) => Clear(b, cps, att[b].ver)
    BY TrailRest
  <1>2. At(a) \in Point /\ Sound(a, At(a))
    BY AtType DEF TrailInv
  <1> QED
    BY <1>1, <1>2 DEF At

\* A run that ends.
LEMMA TrailReturn ==
  ASSUME TypeOK, TrailInv, Idle, NEW a \in Attempt, NEW e \in Ending, Return(a, e),
         NEW q \in Point, Carries(a, At(a), e.ws, q), q.rec = e.rec, q.acks = ack',
         UNCHANGED <<up, job, parent, durable>>
  PROVE  TrailInv'
  <1>1. /\ up /\ todo = <<>> /\ job.kind = "idle"
        /\ UNCHANGED <<up, datt, cps, dusage, dack, dparent>>
    BY DEF Idle, durable
  <1>2. /\ att'[a] = e.rec /\ \A b \in Attempt : b # a => att'[b] = att[b]
        /\ todo' = e.ws /\ e.ws \in Seq(Write)
        /\ phase'[a] = "none" /\ \A b \in Attempt : b # a => phase'[b] = phase[b]
    BY DEF Return, TypeOK, Ending
  <1>3. Leads(a, At(a), todo', q) /\ q.par = parent'
    BY <1>1, <1>2, TrailHere DEF Carries
  <1>4. /\ ~InHands(a)' /\ \A b \in Attempt : b # a /\ InHands(b)' => InHands(b)
        /\ \A b \in Attempt : phase'[b] = "finishing" => phase[b] = "finishing"
    BY <1>1, <1>2 DEF InHands
  <1> QED
    BY <1>1, <1>2, <1>3, <1>4, TrailStep

\* A run that ends without an acknowledgement.
LEMMA TrailDone ==
  ASSUME TypeOK, TrailInv, Idle, NEW a \in Attempt, NEW e \in Ending, Return(a, e),
         Does(a, At(a), e.ws, e.rec),
         UNCHANGED <<up, job, ack, parent, durable>>
  PROVE  TrailInv'
  <1>1. PICK q \in Point : /\ Carries(a, At(a), e.ws, q)
                           /\ q.rec = e.rec /\ q.acks = At(a).acks
    BY DoesPoint
  <1>2. At(a).acks = ack'
    BY TrailHere DEF Idle
  <1> QED
    BY <1>1, <1>2, TrailReturn

\* A runner that is about to end its run.
LEMMA TrailRunner ==
  ASSUME TypeOK, TrailInv, HandsInv, Idle, NEW a \in Attempt, phase[a] # "none"
  PROVE  /\ At(a) \in Point /\ Sound(a, At(a)) /\ At(a).rec = att[a]
         /\ At(a).used = dusage /\ At(a).acks = ack
         /\ Clear(a, At(a).files, At(a).rec.ver)
         /\ att[a].status \in Started
  BY TrailHere DEF HandsInv, RunnerInv, Idle, InHands

LEMMA TrailCancelling ==
  ASSUME TypeOK, TrailInv, HandsInv, NEW a \in Attempt,
         CancelConfirmed(a) \/ CancelRefused(a) \/ CancelRaises(a)
  PROVE  TrailInv'
  <1>1. Idle /\ phase[a] # "none" /\ UNCHANGED <<up, job, ack, parent, durable>>
    BY DEF CancelConfirmed, CancelRefused, CancelRaises
  <1>2. Return(a, EndCancelled(a)) \/ Return(a, EndCancelFailed(a))
    BY DEF CancelConfirmed, CancelRefused, CancelRaises
  <1>3. /\ Does(a, At(a), EndCancelled(a).ws, EndCancelled(a).rec)
        /\ Does(a, At(a), EndCancelFailed(a).ws, EndCancelFailed(a).rec)
    BY <1>1, TrailRunner, EndCancelledDoes, EndCancelFailedDoes
  <1>4. EndCancelled(a) \in Ending /\ EndCancelFailed(a) \in Ending
    BY EndCancelledType, EndCancelFailedType
  <1> QED
    BY <1>1, <1>2, <1>3, <1>4, TrailDone

LEMMA TrailAfterResult ==
  ASSUME TypeOK, TrailInv, HandsInv, NEW a \in Attempt, AfterResult(a)
  PROVE  TrailInv'
  <1>1. Idle /\ phase[a] # "none" /\ UNCHANGED <<up, job, ack, parent, durable>>
    BY DEF AfterResult
  <1>2. /\ At(a) \in Point /\ Sound(a, At(a)) /\ At(a).rec = att[a]
        /\ At(a).used = dusage /\ At(a).acks = ack
        /\ Clear(a, At(a).files, At(a).rec.ver)
        /\ att[a].status \in Started
    BY <1>1, TrailRunner
  <1>3. PICK m \in Point : /\ Carries(a, At(a), <<WUsage(a)>>, m)
                           /\ m.rec = At(a).rec /\ m.files = At(a).files
                           /\ m.acks = At(a).acks /\ m.used = At(a).used \cup {a}
    BY <1>2, UsageCarries
  <1>4. Sound(a, m) /\ <<WUsage(a)>> \in Seq(Write)
    BY <1>3, WAckUsageType DEF Carries
  <1>5. CASE Return(a, EndCancelled(a))
    BY <1>1, <1>2, <1>5, EndCancelledDoes, EndCancelledType, TrailDone
  <1>6. CASE Return(a, [EndPaused(a) EXCEPT !.ws = <<WUsage(a)>> \o @])
    <2> DEFINE e == EndPaused(a)
               g == [e EXCEPT !.ws = <<WUsage(a)>> \o @]
    <2>1. e \in Ending
      BY EndPausedType
    <2>2. Does(a, m, e.ws, e.rec)
      BY <1>2, <1>3, <1>4, EndPausedDoes
    <2> HIDE DEF e
    <2>3. g.ws = <<WUsage(a)>> \o e.ws /\ g.rec = e.rec /\ g \in Ending
      BY <1>4, <2>1, ConcatProperties DEF Ending
    <2>4. PICK q \in Point : /\ Carries(a, m, e.ws, q)
                             /\ q.rec = e.rec /\ q.acks = m.acks
      BY <2>2, DoesPoint
    <2>5. Carries(a, At(a), <<WUsage(a)>> \o e.ws, q)
      BY <1>3, <1>4, <2>1, <2>4, CarriesOn DEF Ending
    <2>6. Return(a, g)
      BY <1>6 DEF e
    <2> HIDE DEF g
    <2>7. Carries(a, At(a), g.ws, q) /\ q.rec = g.rec /\ q.acks = ack'
      BY <1>1, <1>2, <1>3, <2>3, <2>4, <2>5
    <2> QED
      BY <1>1, <2>3, <2>6, <2>7, TrailReturn
  <1>7. CASE /\ todo' = <<WUsage(a)>> /\ phase' = [phase EXCEPT ![a] = "finishing"]
             /\ UNCHANGED att
    <2>1. up /\ todo = <<>> /\ UNCHANGED <<up, datt, cps, dusage, dack, dparent>>
      BY <1>1 DEF Idle, durable
    <2>2. todo' \in Seq(Write) /\ Leads(a, At(a), todo', m)
      BY <1>3, <1>4, <1>7 DEF Carries
    <2>3. m.rec = att'[a] /\ m.acks = ack' /\ m.par = parent'
      BY <1>1, <1>2, <1>3, <1>7, <2>1, TrailHere DEF Carries
    <2>4. Clear(a, m.files, att'[a].ver)
      BY <1>2, <1>3, <1>7
    <2>5. /\ \A b \in Attempt : b # a => phase'[b] = phase[b]
          /\ \A b \in Attempt : phase'[b] = "finishing" => phase[b] = "finishing" \/ b \in m.used
      BY <1>3, <1>7 DEF TypeOK
    <2>6. \A b \in Attempt : b # a /\ InHands(b)' => InHands(b)
      BY <1>1, <2>5 DEF InHands
    <2> QED
      BY <1>7, <2>1, <2>2, <2>3, <2>4, <2>5, <2>6, TrailStep
  <1> QED
    BY <1>5, <1>6, <1>7 DEF AfterResult

LEMMA TrailAfterError ==
  ASSUME TypeOK, TrailInv, HandsInv, NEW a \in Attempt, AfterError(a)
  PROVE  TrailInv'
  <1>1. Idle /\ phase[a] # "none" /\ UNCHANGED <<up, job, parent, durable>>
    BY DEF AfterError
  <1>2. /\ At(a) \in Point /\ Sound(a, At(a)) /\ At(a).rec = att[a]
        /\ At(a).used = dusage /\ At(a).acks = ack
        /\ Clear(a, At(a).files, At(a).rec.ver)
        /\ att[a].status \in Started
    BY <1>1, TrailRunner
  <1>3. CASE Return(a, EndCancelled(a)) /\ UNCHANGED ack
    BY <1>1, <1>2, <1>3, EndCancelledDoes, EndCancelledType, TrailDone
  <1>4. CASE Return(a, EndTerminal(a, "failed")) /\ ack' = ack \cup {a}
    <2>1. TerminalAllowed(a, "failed")
      BY <1>2, TerminalAllowedWhen DEF Started
    <2>2. PICK q \in Point :
             /\ Carries(a, At(a), EndTerminal(a, "failed").ws, q)
             /\ q.rec = EndTerminal(a, "failed").rec
             /\ q.acks = IF TerminalAllowed(a, "failed") THEN At(a).acks \cup {a} ELSE At(a).acks
      BY <1>2, EndTerminalCarries
    <2>3. q.acks = ack'
      BY <1>2, <1>4, <2>1, <2>2
    <2>4. EndTerminal(a, "failed") \in Ending
      BY EndTerminalType
    <2> QED
      BY <1>1, <1>4, <2>2, <2>3, <2>4, TrailReturn
  <1> QED
    BY <1>3, <1>4 DEF AfterError

LEMMA TrailFinish ==
  ASSUME TypeOK, TrailInv, HandsInv, NEW a \in Attempt, Finish(a)
  PROVE  TrailInv'
  <1>1. /\ Idle /\ phase[a] = "finishing" /\ phase[a] # "none"
        /\ UNCHANGED <<up, job, parent, durable>>
        /\ Return(a, EndTerminal(a, "succeeded"))
        /\ ack' = IF TerminalAllowed(a, "succeeded") THEN ack \cup {a} ELSE ack
    BY DEF Finish
  <1>2. /\ At(a) \in Point /\ Sound(a, At(a)) /\ At(a).rec = att[a]
        /\ At(a).used = dusage /\ At(a).acks = ack
        /\ Clear(a, At(a).files, At(a).rec.ver)
        /\ att[a].status \in Started
    BY <1>1, TrailRunner
  <1>3. a \in At(a).used
    BY <1>1, <1>2, TrailRest DEF Idle
  <1>4. PICK q \in Point :
           /\ Carries(a, At(a), EndTerminal(a, "succeeded").ws, q)
           /\ q.rec = EndTerminal(a, "succeeded").rec
           /\ q.acks = IF TerminalAllowed(a, "succeeded") THEN At(a).acks \cup {a} ELSE At(a).acks
    BY <1>2, <1>3, EndTerminalCarries
  <1>5. q.acks = ack'
    BY <1>1, <1>2, <1>4
  <1>6. EndTerminal(a, "succeeded") \in Ending
    BY EndTerminalType
  <1> QED
    BY <1>1, <1>4, <1>5, <1>6, TrailReturn
-----------------------------------------------------------------------------
(* The other handlers *)

\* A handler that leaves the attempt a at the record s.
LEMMA TrailRecord ==
  ASSUME TypeOK, TrailInv, up, todo = <<>>, NEW a \in Attempt, NEW s,
         att' = [att EXCEPT ![a] = s], todo' \in Seq(Write), Does(a, At(a), todo', s),
         \A b \in Attempt : b # a /\ InHands(b)' => InHands(b),
         UNCHANGED <<up, ack, parent, phase, datt, cps, dusage, dack, dparent>>
  PROVE  TrailInv'
  <1>1. PICK q \in Point : /\ Carries(a, At(a), todo', q)
                           /\ q.par = At(a).par /\ q.rec = s /\ q.acks = At(a).acks
                           /\ Clear(a, q.files, q.rec.ver)
    BY DoesPoint
  <1>2. /\ At(a).acks = ack /\ At(a).par = parent
    BY TrailHere
  <1>3. att'[a] = s /\ \A b \in Attempt : b # a => att'[b] = att[b]
    BY DEF TypeOK
  <1>4. Leads(a, At(a), todo', q)
    BY <1>1 DEF Carries
  <1>5. /\ q.rec = att'[a] /\ q.acks = ack' /\ q.par = parent'
        /\ Clear(a, q.files, att'[a].ver)
    BY <1>1, <1>2, <1>3
  <1> QED
    BY <1>3, <1>4, <1>5, TrailStep

\* The same for an attempt that nobody runs.
LEMMA TrailUnattended ==
  ASSUME TypeOK, TrailInv, up, todo = <<>>, NEW a \in Attempt, NEW s,
         att' = [att EXCEPT ![a] = s], todo' \in Seq(Write),
         NEW q, Carries(a, At(a), todo', q), q.rec = s, q.acks = At(a).acks,
         \A b \in Attempt : InHands(b)' => InHands(b), ~InHands(a)',
         UNCHANGED <<up, ack, parent, phase, datt, cps, dusage, dack, dparent>>
  PROVE  TrailInv'
  <1>1. q \in Point /\ Leads(a, At(a), todo', q) /\ q.par = At(a).par
    BY DEF Carries
  <1>2. /\ At(a).acks = ack /\ At(a).par = parent
    BY TrailHere
  <1>3. att'[a] = s /\ \A b \in Attempt : b # a => att'[b] = att[b]
    BY DEF TypeOK
  <1>4. q.rec = att'[a] /\ q.acks = ack' /\ q.par = parent'
    BY <1>1, <1>2, <1>3
  <1> QED
    BY <1>1, <1>3, <1>4, TrailStep

\* The record of one operation.
LEMMA TrailOne ==
  ASSUME TypeOK, TrailInv, up, todo = <<>>, NEW a \in Attempt, NEW s \in AttemptRec,
         att' = [att EXCEPT ![a] = s], todo' = <<WAtt(a, s)>>,
         s.status \notin {"absent", "blocked", "succeeded"}, Follows(att[a].status, s.status),
         s.resumed = att[a].resumed, s.rcp = att[a].rcp,
         att[a].ver \in Nat, Clear(a, cps, att[a].ver + 1), s.ver = att[a].ver + 1,
         \A b \in Attempt : b # a /\ InHands(b)' => InHands(b),
         UNCHANGED <<up, ack, parent, phase, datt, cps, dusage, dack, dparent>>
  PROVE  TrailInv'
  <1>1. At(a) \in Point /\ Sound(a, At(a)) /\ At(a).rec = att[a] /\ At(a).files = cps
    BY TrailHere
  <1>2. s.ver \in Nat /\ s.ver <= s.ver /\ Clear(a, At(a).files, s.ver)
    BY <1>1
  <1>3. Does(a, At(a), <<WAtt(a, s)>>, s)
    BY <1>1, <1>2, RecordDoes
  <1>4. <<WAtt(a, s)>> \in Seq(Write)
    BY WAttType
  <1> QED
    BY <1>3, <1>4, TrailRecord

\* What the status of an attempt says of its files.
LEMMA RoomHere ==
  ASSUME TypeOK, TrailInv, up, todo = <<>>, NEW a \in Attempt
  PROVE  /\ att[a] \in AttemptRec /\ att[a].ver \in Nat
         /\ \A f \in cps : f.id[1] = a => Room(att[a], f.id[2])
         /\ att[a].status \in {"queued", "running", "paused"} => Clear(a, cps, att[a].ver + 1)
  <1>1. At(a).rec = att[a] /\ At(a).files = cps /\ Sound(a, At(a))
    BY TrailHere
  <1>2. att[a] \in AttemptRec /\ att[a].ver \in Nat /\ cps \in SUBSET CpFile
    BY DEF TypeOK, AttemptRec
  <1>3. \A f \in cps : f.id[1] = a => Room(att[a], f.id[2])
    BY <1>1 DEF Sound, Roomy
  <1>4. ASSUME att[a].status \in {"queued", "running", "paused"}, NEW f \in cps, f.id[1] = a
        PROVE  f.id[2] <= att[a].ver + 1
    <2>1. f.id[2] \in Nat
      BY <1>2, FileNames
    <2> QED
      BY <1>2, <1>3, <1>4, <2>1 DEF Room
  <1> QED
    BY <1>2, <1>3, <1>4 DEF Clear

LEMMA TrailHeartbeat ==
  ASSUME TypeOK, TrailInv, NEW a \in Attempt, Heartbeat(a)
  PROVE  TrailInv'
  <1> DEFINE r == [att[a] EXCEPT !.ver = @ + 1]
  <1>1. /\ up /\ todo = <<>> /\ att[a].status = "running"
        /\ att' = [att EXCEPT ![a] = r] /\ todo' = <<WAtt(a, r)>>
        /\ UNCHANGED <<up, job, ack, parent, phase, datt, cps, dusage, dack, dparent>>
    BY DEF Heartbeat, Idle, durable, runner
  <1>2. att[a] \in AttemptRec /\ att[a].ver \in Nat /\ Clear(a, cps, att[a].ver + 1)
    BY <1>1, RoomHere
  <1>3. /\ r \in AttemptRec /\ r.status = att[a].status /\ r.ver = att[a].ver + 1
        /\ r.resumed = att[a].resumed /\ r.rcp = att[a].rcp
    BY <1>2 DEF AttemptRec
  <1> HIDE DEF r
  <1>4. Follows(att[a].status, r.status) /\ r.status \notin {"absent", "blocked", "succeeded"}
    BY <1>1, <1>3 DEF Follows, L!Terminal
  <1>5. \A b \in Attempt : InHands(b)' => InHands(b)
    BY <1>1 DEF InHands
  <1> QED
    BY <1>1, <1>2, <1>3, <1>4, <1>5, TrailOne

LEMMA TrailRequestStep ==
  ASSUME TypeOK, TrailInv, NEW kind \in {"pause", "cancel"}, NEW st \in ParentStatus,
         RequestStep(kind, st)
  PROVE  TrailInv'
  <1>1. /\ up /\ todo = <<>> /\ job.kind \notin {"call", "reclaim"}
        /\ UNCHANGED <<up, ack, phase, datt, cps, dusage, dack, dparent>>
    BY DEF RequestStep, InJob, durable
  <1>2. CASE job.next \in Attempt /\ Askable(att[job.next])
    <2> DEFINE a == job.next
               r == Moved(att[a], Wanted(kind))
    <2>1. /\ job' = [job EXCEPT !.next = a + 1] /\ UNCHANGED parent
          /\ att' = [att EXCEPT ![a] = r] /\ todo' = <<WAtt(a, r)>>
          /\ att[a].status = "running" /\ a \in Attempt
      BY <1>2 DEF RequestStep, Askable
    <2> HIDE DEF a
    <2>2. Wanted(kind) \in {"pause_requested", "cancel_requested"}
      BY DEF Wanted
    <2>3. att[a] \in AttemptRec /\ att[a].ver \in Nat /\ Clear(a, cps, att[a].ver + 1)
      BY <1>1, <2>1, RoomHere
    <2>4. /\ r \in AttemptRec /\ r.status = Wanted(kind) /\ r.ver = att[a].ver + 1
          /\ r.resumed = att[a].resumed /\ r.rcp = att[a].rcp
      BY <2>2, <2>3, MovedType, StatusOf, VersionOf, OriginKept DEF L!Status, L!Live
    <2> HIDE DEF r
    <2>5. Follows(att[a].status, r.status) /\ r.status \notin {"absent", "blocked", "succeeded"}
      BY <2>1, <2>2, <2>4 DEF Follows, L!CanMove, L!Successors, L!Terminal
    <2>6. \A b \in Attempt : InHands(b)' => InHands(b)
      <3>1. job'.kind = job.kind
        BY <2>1 DEF TypeOK
      <3> QED
        BY <1>1, <3>1 DEF InHands
    <2> QED
      BY <1>1, <2>1, <2>3, <2>4, <2>5, <2>6, TrailOne
  <1>3. CASE job.next \in Attempt /\ ~Askable(att[job.next])
    <2>1. /\ job' = [job EXCEPT !.next = job.next + 1]
          /\ UNCHANGED <<att, todo, parent>>
      BY <1>3 DEF RequestStep
    <2>2. job'.kind = job.kind
      BY <2>1 DEF TypeOK
    <2>3. \A b \in Attempt : InHands(b)' => InHands(b)
      BY <1>1, <2>2 DEF InHands
    <2> QED
      BY <1>1, <2>1, <2>3, TrailSame
  <1>4. CASE job.next \notin Attempt
    <2>1. job' = IdleJob /\ CommitParent(st)
      BY <1>4 DEF RequestStep
    <2>2. \A b \in Attempt : InHands(b)' => InHands(b)
      BY <1>1, <2>1 DEF InHands, IdleJob
    <2> QED
      BY <1>1, <2>1, <2>2, TrailParent DEF CommitParent
  <1> QED
    BY <1>2, <1>3, <1>4

LEMMA TrailResumeStep == TypeOK /\ TrailInv /\ ResumeStep => TrailInv'
  <1> SUFFICES ASSUME TypeOK, TrailInv, ResumeStep PROVE TrailInv'
    OBVIOUS
  <1>1. /\ up /\ todo = <<>> /\ job.kind = "resume"
        /\ UNCHANGED <<up, ack, phase, datt, cps, dusage, dack, dparent>>
    BY DEF ResumeStep, InJob, durable, runner
  <1>2. CASE /\ job.next \in Attempt
             /\ OfParent(att[job.next]) /\ att[job.next].status = "paused"
             /\ SafeFile(RecoveryPoint(att[job.next]))
    <2> DEFINE a == job.next
               r == Requeued(att[a])
    <2>1. /\ job' = [job EXCEPT !.next = a + 1] /\ UNCHANGED parent
          /\ att' = [att EXCEPT ![a] = r] /\ todo' = <<WAtt(a, r)>>
          /\ att[a].status = "paused" /\ a \in Attempt
      BY <1>2 DEF ResumeStep
    <2> HIDE DEF a
    <2>2. att[a] \in AttemptRec /\ att[a].ver \in Nat /\ Clear(a, cps, att[a].ver + 1)
      BY <1>1, <2>1, RoomHere
    <2>3. /\ r \in AttemptRec /\ r.status = "queued" /\ r.ver = att[a].ver + 1
          /\ r.resumed = att[a].resumed /\ r.rcp = att[a].rcp
      BY <2>2, RequeuedType, StatusOf, VersionOf, OriginKept
    <2> HIDE DEF r
    <2>4. Follows(att[a].status, r.status) /\ r.status \notin {"absent", "blocked", "succeeded"}
      BY <2>1, <2>3 DEF Follows, L!CanMove, L!Successors, L!Terminal
    <2>5. \A b \in Attempt : InHands(b)' => InHands(b)
      <3>1. job'.kind = job.kind
        BY <2>1 DEF TypeOK
      <3> QED
        BY <1>1, <3>1 DEF InHands
    <2> QED
      BY <1>1, <2>1, <2>2, <2>3, <2>4, <2>5, TrailOne
  <1>3. CASE job' = [job EXCEPT !.next = job.next + 1] /\ UNCHANGED <<att, todo, parent>>
    <2>1. job'.kind = job.kind
      BY <1>3 DEF TypeOK
    <2>2. \A b \in Attempt : InHands(b)' => InHands(b)
      BY <1>1, <2>1 DEF InHands
    <2> QED
      BY <1>1, <1>3, <2>2, TrailSame
  <1>4. CASE job' = IdleJob /\ UNCHANGED <<att, todo, parent>>
    <2>1. \A b \in Attempt : InHands(b)' => InHands(b)
      BY <1>1, <1>4 DEF InHands, IdleJob
    <2> QED
      BY <1>1, <1>4, <2>1, TrailSame
  <1>5. CASE job' = IdleJob /\ CommitParent("running")
    <2>1. \A b \in Attempt : InHands(b)' => InHands(b)
      BY <1>1, <1>5 DEF InHands, IdleJob
    <2>2. "running" \in ParentStatus
      BY DEF ParentStatus
    <2> QED
      BY <1>1, <1>5, <2>1, <2>2, TrailParent DEF CommitParent
  <1> QED
    BY <1>2, <1>3, <1>4, <1>5 DEF ResumeStep
LEMMA TrailReclaimStep == TypeOK /\ TrailInv /\ HandsInv /\ ReclaimStep => TrailInv'
  <1> SUFFICES ASSUME TypeOK, TrailInv, HandsInv, ReclaimStep PROVE TrailInv'
    OBVIOUS
  <1>1. /\ up /\ todo = <<>> /\ job.kind = "reclaim" /\ job' \in [kind : JobKind, next : Nat]
        /\ UNCHANGED <<up, ack, parent, phase, datt, cps, dusage, dack, dparent>>
        /\ \A b \in Attempt : phase[b] = "none"
    BY ReclaimStepType DEF ReclaimStep, InJob, durable, runner, HandsInv, RunnerInv, TypeOK
  <1>2. job'.kind \in {"reclaim", "idle"}
    BY <1>1 DEF ReclaimStep, IdleJob, TypeOK
  <1>3. \A b \in Attempt : ~InHands(b)'
    BY <1>1, <1>2 DEF InHands
  <1>4. CASE job.next \in Attempt /\ Stale(att[job.next])
    <2> DEFINE a == job.next
               r == Reclaimed(att[a])
               p == At(a)
    <2>1. /\ att' = [att EXCEPT ![a] = r] /\ todo' = <<WAtt(a, r)>>
          /\ att[a].status \in {"claimed", "running"} /\ a \in Attempt
      BY <1>4 DEF ReclaimStep, Stale
    <2> HIDE DEF a
    <2>2. /\ p \in Point /\ Sound(a, p) /\ p.rec = att[a] /\ p.files = cps
      BY <1>1, <2>1, TrailHere
    <2>3. /\ att[a] \in AttemptRec /\ att[a].ver \in Nat
          /\ \A f \in cps : f.id[1] = a => Room(att[a], f.id[2])
      BY <1>1, <2>1, RoomHere
    <2>4. /\ r \in AttemptRec /\ r.status \in {"queued", "blocked"} /\ r.ver = att[a].ver
          /\ r.resumed = att[a].resumed /\ r.rcp = att[a].rcp
      BY <2>3, ReclaimedType, StatusOf, VersionOf, OriginKept
    <2>5. r.status = IF SafeFile(RecoveryPoint(att[a])) THEN "queued" ELSE "blocked"
      BY <2>3 DEF Reclaimed, AttemptRec
    <2>6. Traced(r, p.files)
      <3> SUFFICES ASSUME r.resumed # 0
                   PROVE  /\ r.rcp # NoCp /\ [id |-> r.rcp, safe |-> TRUE] \in p.files
                          /\ r.status # "blocked"
        BY DEF Traced
      <3>1. att[a].rcp # NoCp /\ [id |-> att[a].rcp, safe |-> TRUE] \in cps
        BY <2>2, <2>4 DEF Sound, Lineage
      <3>2. SafeFile(RecoveryPoint(att[a]))
        BY <3>1 DEF RecoveryPoint, SafeFile
      <3> QED
        BY <2>2, <2>4, <2>5, <3>1, <3>2
    <2> HIDE DEF p, r
    <2>7. ASSUME NEW f \in p.files, f.id[1] = a
          PROVE  Room(r, f.id[2])
      <3>1. f.id[2] \in Nat /\ Room(att[a], f.id[2])
        BY <2>2, <2>3, <2>7, FileNames DEF TypeOK
      <3> QED
        BY <2>1, <2>3, <2>4, <3>1 DEF Room
    <2>8. Follows(p.rec.status, r.status) /\ r.status # "succeeded"
      BY <2>1, <2>2, <2>4 DEF Follows, L!Reclaimed, L!Terminal
    <2>9. PICK q : /\ Carries(a, p, <<WAtt(a, r)>>, q)
                   /\ q.rec = r /\ q.acks = p.acks
      BY <2>1, <2>2, <2>4, <2>6, <2>7, <2>8, OpenCarries
    <2>10. <<WAtt(a, r)>> \in Seq(Write)
      BY <2>1, <2>4, WAttType
    <2> QED
      BY <1>1, <1>3, <2>1, <2>9, <2>10, TrailUnattended DEF p
  <1>5. CASE ~(job.next \in Attempt /\ Stale(att[job.next]))
    <2>1. UNCHANGED <<att, todo>>
      BY <1>5 DEF ReclaimStep
    <2> QED
      BY <1>1, <1>3, <2>1, TrailSame
  <1> QED
    BY <1>4, <1>5

\* A new attempt: no file is named after it yet.
LEMMA TrailCreated ==
  ASSUME TypeOK, TrailInv, HandsInv, up, todo = <<>>, NEW a \in Attempt, att[a].status = "absent",
         NEW s \in AttemptRec, s.status = "queued",
         s.resumed # 0 => s.rcp # NoCp /\ SafeFile(s.rcp),
         att' = [att EXCEPT ![a] = s], todo' = <<WAtt(a, s)>>,
         job'.kind # "call",
         UNCHANGED <<up, ack, parent, phase, datt, cps, dusage, dack, dparent>>
  PROVE  TrailInv'
  <1> DEFINE p == At(a)
  <1>1. /\ p \in Point /\ Sound(a, p) /\ p.rec = att[a] /\ p.files = cps
    BY TrailHere
  <1>2. ~InHands(a)' /\ \A b \in Attempt : InHands(b)' => InHands(b)
    BY DEF InHands, HandsInv, RunnerInv, Started
  <1> HIDE DEF p
  <1>3. \A f \in p.files : f.id[1] = a => Room(s, f.id[2])
    BY <1>1 DEF Sound, Roomy, Room
  <1>4. Follows(p.rec.status, s.status) /\ p.rec.status = "absent"
    BY <1>1 DEF Follows, L!Terminal
  <1>5. Traced(s, p.files)
    BY <1>1 DEF SafeFile, Traced
  <1>6. s.status # "succeeded"
    OBVIOUS
  <1>7. PICK q : /\ Carries(a, p, <<WAtt(a, s)>>, q)
                 /\ q.rec = s /\ q.acks = p.acks
    BY <1>1, <1>3, <1>4, <1>5, <1>6, OpenCarries
  <1>8. <<WAtt(a, s)>> \in Seq(Write)
    BY WAttType
  <1> QED
    BY <1>2, <1>7, <1>8, TrailUnattended DEF p

LEMMA TrailEnqueueStep == TypeOK /\ TrailInv /\ HandsInv /\ EnqueueStep => TrailInv'
  <1> SUFFICES ASSUME TypeOK, TrailInv, HandsInv, EnqueueStep PROVE TrailInv'
    OBVIOUS
  <1>1. /\ up /\ todo = <<>> /\ job.kind = "enqueue"
        /\ UNCHANGED <<up, ack, parent, phase, datt, cps, dusage, dack, dparent>>
    BY DEF EnqueueStep, InJob, durable, runner
  <1>2. CASE job.next \in 1..NChild
    <2> DEFINE r == Fresh(job.next, ~refs)
    <2>1. PICK a \in Attempt : /\ IsNext(a) /\ att' = [att EXCEPT ![a] = r]
                               /\ todo' = <<WAtt(a, r)>>
                               /\ job' = [job EXCEPT !.next = @ + 1]
      BY <1>2 DEF EnqueueStep
    <2>2. r \in AttemptRec /\ r.status = "queued" /\ r.resumed = 0
      <3>1. job.next \in Nat
        BY <1>2
      <3>2. r \in AttemptRec
        BY <3>1, FreshType DEF TypeOK
      <3>3. r.resumed = 0
        BY DEF Fresh, Absent
      <3> QED
        BY <3>2, <3>3, FreshStatus
    <2> HIDE DEF r
    <2>3. att[a].status = "absent"
      BY <2>1 DEF IsNext, Born
    <2>4. job'.kind # "call"
      BY <1>1, <2>1 DEF TypeOK
    <2> QED
      BY <1>1, <2>1, <2>2, <2>3, <2>4, TrailCreated
  <1>3. CASE job.next \notin 1..NChild
    <2>1. UNCHANGED <<att, todo>> /\ job' = IdleJob
      BY <1>3 DEF EnqueueStep
    <2>2. \A b \in Attempt : InHands(b)' => InHands(b)
      BY <1>1, <2>1 DEF InHands, IdleJob
    <2> QED
      BY <1>1, <2>1, <2>2, TrailSame
  <1> QED
    BY <1>2, <1>3

LEMMA TrailHostRecover ==
  ASSUME TypeOK, TrailInv, HandsInv, NEW a \in Attempt, NEW p \in Attempt, HostRecover(p, a)
  PROVE  TrailInv'
  <1> DEFINE r == Recovery(p)
  <1>1. /\ up /\ todo = <<>> /\ job'.kind = "idle"
        /\ UNCHANGED <<up, ack, parent, phase, datt, cps, dusage, dack, dparent>>
        /\ att' = [att EXCEPT ![a] = r] /\ todo' = <<WAtt(a, r)>>
    BY DEF HostRecover, Idle, durable, runner
  <1>2. r \in AttemptRec /\ r.status = "queued" /\ r.rcp = RecoveryPoint(att[p])
    <2>1. r \in AttemptRec
      BY RecoveryType DEF TypeOK
    <2>2. r.rcp = RecoveryPoint(att[p])
      BY DEF Recovery, Fresh, Absent
    <2> QED
      BY <2>1, <2>2, FreshStatus
  <1> HIDE DEF r
  <1>3. att[a].status = "absent"
    BY DEF HostRecover, IsNext, Born
  <1>4. r.rcp # NoCp /\ SafeFile(r.rcp)
    BY <1>2 DEF HostRecover
  <1> QED
    BY <1>1, <1>2, <1>3, <1>4, TrailCreated

LEMMA TrailHostRegister ==
  ASSUME TypeOK, TrailInv, HandsInv, NEW a \in Attempt, HostRegister(a)
  PROVE  TrailInv'
  <1> DEFINE r == Bound(att[a])
             p == At(a)
  <1>1. /\ up /\ todo = <<>> /\ job'.kind = "idle" /\ att[a].status \in {"queued", "blocked"}
        /\ UNCHANGED <<up, ack, parent, phase, datt, cps, dusage, dack, dparent>>
        /\ att' = [att EXCEPT ![a] = r] /\ todo' = <<WAtt(a, r)>>
    BY DEF HostRegister, Idle, durable, runner
  <1>2. /\ att[a] \in AttemptRec /\ att[a].ver \in Nat
        /\ \A f \in cps : f.id[1] = a => Room(att[a], f.id[2])
    BY <1>1, RoomHere
  <1>3. /\ p \in Point /\ Sound(a, p) /\ p.rec = att[a] /\ p.files = cps
    BY <1>1, TrailHere
  <1>4. /\ r \in AttemptRec /\ r.status = att[a].status /\ r.ver \in {att[a].ver, att[a].ver + 1}
        /\ r.resumed = att[a].resumed /\ r.rcp = att[a].rcp
    BY <1>2, BoundType, StatusOf, VersionOf, OriginKept
  <1>5. ~InHands(a)' /\ \A b \in Attempt : InHands(b)' => InHands(b)
    BY <1>1 DEF InHands, HandsInv, RunnerInv, Started
  <1> HIDE DEF p, r
  <1>6. ASSUME NEW f \in p.files, f.id[1] = a
        PROVE  Room(r, f.id[2])
    <2>1. f.id[2] \in Nat /\ Room(att[a], f.id[2])
      BY <1>2, <1>3, <1>6, FileNames DEF TypeOK
    <2> QED
      BY <1>1, <1>2, <1>4, <2>1 DEF Room
  <1>7. Follows(p.rec.status, r.status) /\ r.status # "succeeded"
    BY <1>1, <1>3, <1>4 DEF Follows, L!Terminal
  <1>8. Traced(r, p.files)
    BY <1>3, <1>4 DEF Traced, Sound, Lineage
  <1>9. PICK q : /\ Carries(a, p, <<WAtt(a, r)>>, q)
                 /\ q.rec = r /\ q.acks = p.acks
    BY <1>3, <1>4, <1>6, <1>7, <1>8, OpenCarries
  <1>10. <<WAtt(a, r)>> \in Seq(Write)
    BY <1>4, WAttType
  <1> QED
    BY <1>1, <1>5, <1>9, <1>10, TrailUnattended DEF p

LEMMA ThreeWrites ==
  ASSUME NEW u \in Write, NEW v \in Write, NEW w \in Write
  PROVE  /\ <<u, v, w>> \in Seq(Write)
         /\ <<u>> \o <<v, w>> = <<u, v, w>>
  <1> DEFINE s == <<u>>
             t == <<v, w>>
             x == <<u, v, w>>
  <1>1. /\ s \in Seq(Write) /\ Len(s) = 1 /\ s[1] = u
    OBVIOUS
  <1>2. t \in Seq(Write) /\ Len(t) = 2 /\ t[1] = v /\ t[2] = w
    OBVIOUS
  <1>3. x \in Seq(Write) /\ Len(x) = 3 /\ x[1] = u /\ x[2] = v /\ x[3] = w
    OBVIOUS
  <1> HIDE DEF s, t, x
  <1>4. /\ s \o t \in Seq(Write) /\ Len(s \o t) = 3
        /\ (s \o t)[1] = u /\ (s \o t)[2] = v /\ (s \o t)[3] = w
    BY <1>1, <1>2, ConcatProperties
  <1>5. \A i \in 1..3 : i = 1 \/ i = 2 \/ i = 3
    OBVIOUS
  <1>6. \A i \in 1..Len(x) : (s \o t)[i] = x[i]
    BY <1>3, <1>4, <1>5
  <1>7. s \o t = x
    BY <1>3, <1>4, <1>6, SeqEqual
  <1> QED
    BY <1>3, <1>7 DEF s, t, x

\* Two records in a row.
LEMMA ThenDoes ==
  ASSUME NEW a \in Attempt, NEW p, NEW s \in Seq(Write), NEW r, Does(a, p, s, r),
         NEW t \in Seq(Write), NEW u,
         \A q \in Point : Sound(a, q) /\ q.rec = r /\ Clear(a, q.files, r.ver) => Does(a, q, t, u)
  PROVE  Does(a, p, s \o t, u)
  <1>1. PICK q \in Point :
           /\ Carries(a, p, s, q) /\ Sound(a, q)
           /\ q.rec = r /\ q.used = p.used /\ q.acks = p.acks
           /\ Clear(a, q.files, q.rec.ver)
    BY DoesPoint
  <1>2. Does(a, q, t, u)
    BY <1>1
  <1> QED
    BY <1>1, <1>2, DoesOn

LEMMA TrailRunOnce ==
  ASSUME TypeOK, TrailInv, NEW a \in Attempt, RunOnce(a)
  PROVE  TrailInv'
  <1> DEFINE c == Claimed(att[a])
             b == Bound(c)
             s == Moved(b, "running")
             k == Checkpointed(a, s, TRUE)
             cw == CheckpointWrites(a, s, TRUE)
             p == At(a)
  <1>1. /\ up /\ todo = <<>> /\ att[a].status = "queued"
        /\ UNCHANGED <<up, ack, parent, phase, datt, cps, dusage, dack, dparent>>
        /\ att' = [att EXCEPT ![a] = k]
        /\ todo' = <<WAtt(a, c), WAtt(a, b), WAtt(a, s)>> \o cw
        /\ job' = [kind |-> "call", next |-> a] /\ job.kind = "idle"
    BY DEF RunOnce, Idle, durable, FirstQueued
  <1>2. p \in Point /\ Sound(a, p) /\ p.rec = att[a] /\ p.files = cps
    BY <1>1, TrailHere
  <1>3. att[a] \in AttemptRec /\ att[a].ver \in Nat /\ Clear(a, cps, att[a].ver + 1)
    BY <1>1, RoomHere
  <1>4. /\ c \in AttemptRec /\ c.status = "claimed" /\ c.ver = att[a].ver + 1
        /\ c.resumed = att[a].resumed /\ c.rcp = att[a].rcp
    BY <1>3, ClaimedType, StatusOf, VersionOf, OriginKept
  <1> HIDE DEF c
  <1>5. /\ b \in AttemptRec /\ b.status = "claimed" /\ b.ver \in {c.ver, c.ver + 1}
        /\ b.resumed = c.resumed /\ b.rcp = c.rcp /\ c.ver \in Nat
    BY <1>4, BoundType, StatusOf, VersionOf, OriginKept
  <1> HIDE DEF b
  <1>6. /\ s \in AttemptRec /\ s.status = "running"
    BY <1>5, MovedType, StatusOf DEF L!Status, L!Live
  <1>7. cw \in Seq(Write) /\ TRUE \in BOOLEAN
    BY <1>6, CheckpointWritesType
  <1> HIDE DEF p
  <1>8. Does(a, p, <<WAtt(a, c)>>, c)
    <2>1. Clear(a, p.files, c.ver) /\ c.ver \in Nat /\ c.ver <= c.ver
      BY <1>2, <1>3, <1>4
    <2>2. Follows(p.rec.status, c.status) /\ c.status \notin {"absent", "blocked", "succeeded"}
      BY <1>1, <1>2, <1>4 DEF Follows, L!CanMove, L!Successors, L!Terminal
    <2> QED
      BY <1>2, <1>4, <2>1, <2>2, RecordDoes
  <1>9. ASSUME NEW q \in Point, Sound(a, q), q.rec = c, Clear(a, q.files, c.ver)
        PROVE  Does(a, q, <<WAtt(a, b)>>, b)
    <2>1. c.ver <= b.ver /\ c.ver \in Nat
      BY <1>5
    <2>2. Follows(q.rec.status, b.status) /\ b.status \notin {"absent", "blocked", "succeeded"}
      BY <1>4, <1>5, <1>9 DEF Follows, L!Terminal
    <2> QED
      BY <1>5, <1>9, <2>1, <2>2, RecordDoes
  <1>10. ASSUME NEW q \in Point, Sound(a, q), q.rec = b, Clear(a, q.files, b.ver)
         PROVE  Does(a, q, <<WAtt(a, s)>>, s)
    <2>1. Follows(q.rec.status, "running")
      BY <1>5, <1>10 DEF Follows, L!CanMove, L!Successors, L!Terminal
    <2>2. Does(a, q, <<WAtt(a, Moved(q.rec, "running"))>>, Moved(q.rec, "running"))
      BY <1>10, <2>1, MovedDoes DEF L!Status, L!Live
    <2> QED
      BY <1>10, <2>2
  <1> HIDE DEF s
  <1>11. ASSUME NEW q \in Point, Sound(a, q), q.rec = s, Clear(a, q.files, s.ver)
         PROVE  Does(a, q, cw, k)
    <2>1. q.rec.status \in Started
      BY <1>6, <1>11 DEF Started
    <2>2. Does(a, q, CheckpointWrites(a, q.rec, TRUE), Checkpointed(a, q.rec, TRUE))
      BY <1>7, <1>11, <2>1, CheckpointDoes
    <2> QED
      BY <1>11, <2>2
  <1> HIDE DEF cw, k
  <1> DEFINE x == WAtt(a, c)
             y == WAtt(a, b)
             z == WAtt(a, s)
  <1>12. x \in Write /\ y \in Write /\ z \in Write
    BY <1>4, <1>5, <1>6, WAttType
  <1> HIDE DEF x, y, z
  <1>13. /\ <<x>> \in Seq(Write) /\ <<y>> \in Seq(Write) /\ <<z>> \in Seq(Write)
         /\ <<y>> \o <<z>> = <<y, z>> /\ <<y, z>> \in Seq(Write)
         /\ <<x>> \o <<y, z>> = <<x, y, z>> /\ <<x, y, z>> \in Seq(Write)
    BY <1>12, TwoWrites, ThreeWrites
  <1>14. ASSUME NEW q \in Point, Sound(a, q), q.rec = c, Clear(a, q.files, c.ver)
         PROVE  Does(a, q, <<y, z>>, s)
    <2>1. Does(a, q, <<y>>, b)
      BY <1>9, <1>14 DEF y
    <2>2. Does(a, q, <<y>> \o <<z>>, s)
      BY <1>10, <1>13, <2>1, ThenDoes DEF z
    <2> QED
      BY <1>13, <2>2
  <1>15. Does(a, p, <<x, y, z>>, s)
    <2>1. Does(a, p, <<x>>, c)
      BY <1>8 DEF x
    <2>2. Does(a, p, <<x>> \o <<y, z>>, s)
      BY <1>13, <1>14, <2>1, ThenDoes
    <2> QED
      BY <1>13, <2>2
  <1>16. Does(a, p, <<x, y, z>> \o cw, k)
    BY <1>7, <1>11, <1>13, <1>15, ThenDoes
  <1>17. todo' = <<x, y, z>> \o cw /\ todo' \in Seq(Write)
    BY <1>1, <1>7, <1>13, ConcatProperties DEF x, y, z
  <1>18. \A d \in Attempt : d # a /\ InHands(d)' => InHands(d)
    BY <1>1 DEF InHands
  <1> QED
    BY <1>1, <1>16, <1>17, <1>18, TrailRecord DEF p

LEMMA TrailWait ==
  ASSUME TypeOK, TrailInv, NEW a \in Attempt,
         CallProvider \/ ProviderStops(a) \/ Wake(a) \/ Timeout(a) \/ HostPause(a) \/ HostCancel(a)
  PROVE  TrailInv'
  <1>1. /\ up /\ todo = <<>>
        /\ UNCHANGED <<up, todo, att, ack, parent, datt, cps, dusage, dack, dparent>>
    BY DEF CallProvider, ProviderStops, Wake, Timeout, HostPause, HostCancel, Idle, InJob,
           memory, durable
  <1>2. CASE CallProvider
    <2>1. /\ job.kind = "call" /\ job' = IdleJob
          /\ phase' = [phase EXCEPT ![job.next] = "provider"]
      BY <1>2 DEF CallProvider, InJob
    <2>2. /\ \A b \in Attempt : b # job.next => phase'[b] = phase[b]
          /\ \A b \in Attempt : b = job.next => phase'[b] = "provider"
      BY <2>1 DEF TypeOK
    <2>3. \A b \in Attempt : InHands(b)' => InHands(b)
      BY <2>1, <2>2 DEF InHands, IdleJob
    <2>4. \A b \in Attempt : phase'[b] = "finishing" => phase[b] = "finishing"
      BY <2>2
    <2> QED
      BY <1>1, <2>3, <2>4, TrailSame
  <1>3. CASE ~CallProvider
    <2>1. UNCHANGED job
      BY <1>3 DEF ProviderStops, Wake, Timeout, HostPause, HostCancel
    <2>2. \A b \in Attempt : \/ phase'[b] = phase[b]
                             \/ phase[b] # "none" /\ phase'[b] # "finishing"
      BY <1>3 DEF TypeOK, ProviderStops, Wake, Timeout, HostPause, HostCancel
    <2>3. /\ \A b \in Attempt : InHands(b)' => InHands(b)
          /\ \A b \in Attempt : phase'[b] = "finishing" => phase[b] = "finishing"
      BY <2>1, <2>2 DEF InHands
    <2> QED
      BY <1>1, <2>3, TrailSame
  <1> QED
    BY <1>2, <1>3

LEMMA TrailControl ==
  ASSUME TypeOK, TrailInv, Execute \/ Pause \/ Resume \/ Cancel \/ CancelPaused
  PROVE  TrailInv'
  <1>1. CASE Pause \/ Resume \/ Cancel
    <2>1. /\ up /\ todo = <<>> /\ job'.kind \in {"pause", "resume", "cancel"}
          /\ UNCHANGED <<up, todo, att, ack, parent, phase, datt, cps, dusage, dack, dparent>>
      BY <1>1 DEF Pause, Resume, Cancel, Control, Idle, memory, durable, runner
    <2>2. \A b \in Attempt : InHands(b)' => InHands(b)
      BY <2>1 DEF InHands
    <2> QED
      BY <2>1, <2>2, TrailSame
  <1>2. CASE Execute \/ CancelPaused
    <2>1. /\ up /\ todo = <<>> /\ job'.kind # "call"
          /\ UNCHANGED <<up, att, ack, phase, datt, cps, dusage, dack, dparent>>
      BY <1>2 DEF Execute, CancelPaused, CommitParent, Idle, durable, runner
    <2>2. PICK st \in ParentStatus : CommitParent(st)
      BY <1>2 DEF Execute, CancelPaused, ParentStatus
    <2>3. \A b \in Attempt : InHands(b)' => InHands(b)
      BY <2>1 DEF InHands
    <2> QED
      BY <2>1, <2>2, <2>3, TrailParent DEF CommitParent
  <1> QED
    BY <1>1, <1>2

LEMMA TrailNext == TypeOK /\ TrailInv /\ HandsInv /\ [Next]_vars => TrailInv'
  <1> SUFFICES ASSUME TypeOK, TrailInv, HandsInv, [Next]_vars PROVE TrailInv'
    OBVIOUS
  <1> USE AttemptIsThere
  <1>1. CASE Persist \/ Crash \/ Restart
    BY <1>1, TrailPersist, TrailCrash, TrailRestart
  <1>2. CASE JobStep
    <2>1. CASE PauseStep \/ CancelStep
      BY <2>1, TrailRequestStep DEF PauseStep, CancelStep, ParentStatus
    <2> QED
      BY <1>2, <2>1, TrailWait, TrailReclaimStep, TrailResumeStep, TrailEnqueueStep DEF JobStep
  <1>3. CASE Execute \/ Pause \/ Resume \/ Cancel \/ CancelPaused
    BY <1>3, TrailControl
  <1>4. ASSUME NEW a \in Attempt,
               RunOnce(a) \/ ProviderStops(a) \/ Timeout(a) \/ Heartbeat(a)
        PROVE  TrailInv'
    BY <1>4, TrailRunOnce, TrailWait, TrailHeartbeat
  <1>5. ASSUME NEW a \in Attempt, RunnerStep(a)
        PROVE  TrailInv'
    BY <1>5, TrailWait, TrailCancelling, TrailAfterResult, TrailAfterError, TrailFinish
       DEF RunnerStep
  <1>6. ASSUME NEW a \in Attempt,
               \/ HostPause(a) \/ HostCancel(a) \/ HostRegister(a)
               \/ \E p \in Attempt : HostRecover(p, a)
        PROVE  TrailInv'
    BY <1>6, TrailWait, TrailHostRecover, TrailHostRegister
  <1>7. CASE UNCHANGED vars
    <2>1. UNCHANGED <<up, todo, job, att, ack, parent, phase, datt, cps, dusage, dack, dparent>>
      BY <1>7 DEF vars
    <2>2. \A b \in Attempt : At(b)' = At(b)
      BY <2>1 DEF At
    <2>3. \A b \in Attempt : \A q \in Point : Reaches(b, q)' = Reaches(b, q)
      BY <2>1 DEF Reaches, InHands
    <2> QED
      BY <2>1, <2>2, <2>3 DEF TrailInv, OnTrail
  <1> QED
    BY <1>1, <1>2, <1>3, <1>4, <1>5, <1>6, <1>7 DEF Next

LEMMA TrailCorrect == Spec => []TrailInv
  <1>1. Init => TrailInv
    BY TrailInit
  <1>2. TypeOK /\ HandsInv /\ TrailInv /\ [Next]_vars => TrailInv'
    BY TrailNext
  <1>3. Spec => []TypeOK
    BY TypeCorrect
  <1>4. Spec => []HandsInv
    BY HandsCorrect
  <1> QED
    BY <1>1, <1>2, <1>3, <1>4, PTL DEF Spec
-----------------------------------------------------------------------------
(* What it gives *)

\* No step but Persist touches what is durable.
LEMMA DurableSteps == [Next]_vars => Persist \/ UNCHANGED durable
  <1> SUFFICES ASSUME [Next]_vars, ~Persist PROVE UNCHANGED durable
    OBVIOUS
  <1>1. CASE JobStep \/ Crash \/ Restart
    BY <1>1 DEF JobStep, CallProvider, ReclaimStep, PauseStep, CancelStep, RequestStep,
                ResumeStep, EnqueueStep, Crash, Restart
  <1>2. CASE Execute \/ Pause \/ Resume \/ Cancel \/ CancelPaused
    BY <1>2 DEF Execute, Pause, Resume, Cancel, CancelPaused, Control
  <1>3. ASSUME NEW a \in Attempt,
               RunOnce(a) \/ ProviderStops(a) \/ Timeout(a) \/ Heartbeat(a)
        PROVE  UNCHANGED durable
    BY <1>3 DEF RunOnce, ProviderStops, Timeout, Heartbeat
  <1>4. ASSUME NEW a \in Attempt, RunnerStep(a)
        PROVE  UNCHANGED durable
    BY <1>4 DEF RunnerStep, Wake, CancelConfirmed, CancelRefused, CancelRaises, AfterResult,
                AfterError, Finish
  <1>5. ASSUME NEW a \in Attempt,
               \/ HostPause(a) \/ HostCancel(a) \/ HostRegister(a)
               \/ \E p \in Attempt : HostRecover(p, a)
        PROVE  UNCHANGED durable
    BY <1>5 DEF HostPause, HostCancel, HostRecover, HostRegister
  <1>6. CASE UNCHANGED vars
    BY <1>6 DEF vars, durable
  <1> QED
    BY <1>1, <1>2, <1>3, <1>4, <1>5, <1>6 DEF Next

\* Between handlers the memory of the process is what a restart would replay:
\* whatever the queue, the runners and the control service change, they change
\* in the journal too, as an event the replay knows.
THEOREM MemoryIsReplayed == Spec => []ProjectionIsReplay
  <1>1. TypeOK /\ TrailInv => ProjectionIsReplay
    BY TrailRest DEF ProjectionIsReplay, Idle
  <1> QED
    BY <1>1, TypeCorrect, TrailCorrect, PTL

\* No checkpoint file is ever overwritten, however deaths, reclaims and new
\* runs of an attempt follow one another: the version in its name is fresh.
THEOREM NamesAlwaysFresh == Spec => []CheckpointNamesFresh
  <1>1. TypeOK /\ TrailInv /\ HandsInv => CheckpointNamesFresh
    <2> SUFFICES ASSUME TypeOK, TrailInv, HandsInv,
                        NEW i \in 1..Len(todo), todo[i].kind = "cp", NEW f \in cps
                 PROVE  f.id # todo[i].file.id
      BY DEF CheckpointNamesFresh
    <2>1. CASE up
      <3>1. PICK a \in Attempt, q \in Point : Leads(a, At(a), todo, q)
        BY <2>1 DEF TrailInv, OnTrail
      <3>2. f \in At(a).files /\ todo \in Seq(Write)
        BY DEF At, TypeOK
      <3> QED
        BY <3>1, <3>2, LeadsFresh
    <2>2. CASE ~up
      BY <2>2 DEF HandsInv, RunnerInv
    <2> QED
      BY <2>1, <2>2
  <1> QED
    BY <1>1, TypeCorrect, TrailCorrect, HandsCorrect, PTL

\* A success that is journalled was paid for and can be read back: its usage
\* is on record and its last checkpoint is a safe one that exists.
THEOREM SuccessAlwaysBacked == Spec => []SuccessIsBacked
  <1>1. TrailInv /\ CheckpointAgreement => SuccessIsBacked
    <2> SUFFICES ASSUME TrailInv, CheckpointAgreement,
                        NEW a \in Attempt, datt[a].status = "succeeded"
                 PROVE  a \in dusage /\ datt[a].cpSafe /\ SafeFile(datt[a].cp)
      BY DEF SuccessIsBacked
    <2>1. a \in dusage /\ datt[a].cpSafe = TRUE /\ datt[a].cp # NoCp
      BY DEF TrailInv, Sound, Earned, At
    <2>2. [id |-> datt[a].cp, safe |-> datt[a].cpSafe] \in cps
      BY <2>1 DEF CheckpointAgreement
    <2> QED
      BY <2>1, <2>2 DEF SafeFile
  <1> QED
    BY <1>1, TrailCorrect, CheckpointCorrect, PTL

\* A restart never blocks an attempt that a host recovered from a safe
\* checkpoint, whatever checkpoint of its own it has written since.
THEOREM RecoveredAlwaysResumes == Spec => []RecoveredNeverBlocked
  <1>1. TrailInv => RecoveredNeverBlocked
    BY DEF TrailInv, Sound, Lineage, At, RecoveredNeverBlocked
  <1> QED
    BY <1>1, TrailCorrect, PTL

\* Once the end of an attempt is acknowledged in the journal, nothing changes
\* its record again: no restart, no late request and no late result.
THEOREM AckedStaysFrozen == Spec => AckedIsFrozen
  <1>1. TypeOK /\ TrailInv /\ HandsInv /\ [Next]_vars
        => [\A a \in dack : a \in dack' /\ datt'[a] = datt[a]]_vars
    <2> SUFFICES ASSUME TypeOK, TrailInv, HandsInv, [Next]_vars, NEW b \in dack
                 PROVE  b \in dack' /\ datt'[b] = datt[b]
      OBVIOUS
    <2>1. CASE Persist
      <3>1. PICK a \in Attempt, q \in Point :
               /\ Legal(a, At(a), Head(todo))
               /\ At(a)' = After(At(a), Head(todo))
               /\ \A c \in Attempt : c # a => datt'[c] = datt[c]
               /\ Leads(a, After(At(a), Head(todo)), todo', q) /\ Reaches(a, q)
        BY <2>1, PersistOne
      <3>2. b \in dack' /\ b \in Attempt
        BY <2>1 DEF Persist, TypeOK
      <3>3. CASE b = a
        <4> DEFINE w == Head(todo)
        <4>1. datt[a].status \in {"succeeded", "failed"}
          BY <3>1, <3>3 DEF TrailInv, Sound, Closed, At
        <4>2. w.kind # "att"
          BY <3>1, <4>1 DEF Legal, Follows, At, L!Terminal
        <4>3. datt' = datt
          BY <2>1, <4>2 DEF Persist
        <4> QED
          BY <3>2, <4>3
      <3>4. CASE b # a
        BY <3>1, <3>2, <3>4
      <3> QED
        BY <3>3, <3>4
    <2>2. CASE UNCHANGED durable
      BY <2>2 DEF durable
    <2> QED
      BY <2>1, <2>2, DurableSteps
  <1> QED
    BY <1>1, TypeCorrect, TrailCorrect, HandsCorrect, PTL DEF Spec, AckedIsFrozen

-----------------------------------------------------------------------------
(* The refinement of Lifecycle *)

\* A step of the abstract attempt a.
LEMMA AbstractStep ==
  ASSUME datt \in [Attempt -> AttemptRec], NEW a \in Attempt, NEW r \in AttemptRec,
         Follows(datt[a].status, r.status),
         datt' = [datt EXCEPT ![a] = r]
  PROVE  L!Next \/ UNCHANGED [b \in Attempt |-> datt[b].status]
  <1> DEFINE s == [b \in Attempt |-> datt[b].status]
             t == [b \in Attempt |-> datt'[b].status]
  <1>1. t = [s EXCEPT ![a] = r.status] /\ s[a] = datt[a].status
    OBVIOUS
  <1>2. r.status \in L!Status
    BY DEF AttemptRec
  <1>3. CASE datt[a].status = r.status
    <2>1. t = s
      BY <1>1, <1>3
    <2> QED
      BY <2>1
  <1>4. CASE datt[a].status = "absent" /\ r.status = "queued"
    <2>1. L!Create(a)
      BY <1>1, <1>4 DEF L!Create
    <2> QED
      BY <2>1 DEF L!Next
  <1>5. CASE L!CanMove(datt[a].status, r.status)
    <2>1. L!Move(a)
      BY <1>1, <1>2, <1>5 DEF L!Move
    <2> QED
      BY <2>1 DEF L!Next
  <1>6. CASE L!Reclaimed(datt[a].status, r.status)
    <2>1. L!Reclaim(a)
      BY <1>1, <1>2, <1>6 DEF L!Reclaim
    <2> QED
      BY <2>1 DEF L!Next
  <1> QED
    BY <1>3, <1>4, <1>5, <1>6 DEF Follows

\* The journalled status of every attempt lives the life of Lifecycle: each
\* durable write is a move of the transition table, a reclaim or no move at
\* all, whatever handlers, deaths and restarts come between.
THEOREM LifecycleRefined == Spec => LifecycleSpec
  <1>1. Init => L!Init
    BY DEF Init, L!Init, Absent
  <1>2. TypeOK /\ TrailInv /\ HandsInv /\ [Next]_vars
        => [L!Next]_([a \in Attempt |-> datt[a].status])
    <2> SUFFICES ASSUME TypeOK, TrailInv, HandsInv, [Next]_vars
                 PROVE  L!Next \/ UNCHANGED [a \in Attempt |-> datt[a].status]
      OBVIOUS
    <2>1. CASE Persist
      <3>1. PICK a \in Attempt, q \in Point :
               /\ Legal(a, At(a), Head(todo))
               /\ At(a)' = After(At(a), Head(todo))
               /\ \A c \in Attempt : c # a => datt'[c] = datt[c]
               /\ Leads(a, After(At(a), Head(todo)), todo', q) /\ Reaches(a, q)
        BY <2>1, PersistOne
      <3> DEFINE w == Head(todo)
      <3>2. CASE w.kind = "att"
        <4>1. /\ w.a = a /\ Follows(datt[a].status, w.rec.status)
          BY <3>1, <3>2 DEF Legal, At
        <4>2. datt' = [datt EXCEPT ![a] = w.rec]
          BY <2>1, <3>2, <4>1 DEF Persist
        <4>3. w.rec \in AttemptRec /\ datt \in [Attempt -> AttemptRec]
          <5>1. w \in Write
            BY <2>1, HeadTailProperties DEF Persist, TypeOK
          <5> QED
            BY <3>2, <5>1 DEF Write, TypeOK
        <4> HIDE DEF w
        <4> QED
          BY <4>1, <4>2, <4>3, AbstractStep
      <3>3. CASE w.kind # "att"
        <4>1. datt' = datt
          BY <2>1, <3>3 DEF Persist
        <4> QED
          BY <4>1
      <3> QED
        BY <3>2, <3>3
    <2>2. CASE UNCHANGED durable
      BY <2>2 DEF durable
    <2> QED
      BY <2>1, <2>2, DurableSteps
  <1> QED
    BY <1>1, <1>2, TypeCorrect, TrailCorrect, HandsCorrect, PTL DEF Spec, LifecycleSpec, L!Spec
-----------------------------------------------------------------------------
(* The capacity of the session *)

\* The attempts that execute created and that have not ended.
LiveIn(f) == {a \in Attempt : f[a].status \in L!Live /\ f[a].resumed = 0}

\* The attempts that count against the limit now or would after a death: they
\* were created, and their end is not durable.
Held == {a \in Attempt : /\ att[a].status # "absent" /\ att[a].resumed = 0
                         /\ datt[a].status \notin L!Terminal}

\* The attempts that a running enqueue_plan has still to create.
Left == IF job.kind = "enqueue" THEN NChild + 1 - job.next ELSE 0

CapacityInv ==
    /\ up => Cardinality(Held) + Left <= MaxActive
    /\ ~up => Cardinality(LiveIn(att)) <= MaxActive /\ Cardinality(LiveIn(datt)) <= MaxActive
    /\ job.kind = "enqueue" => job.next \in 1..NChild + 1

LEMMA SubsetOfAttempts ==
  ASSUME NEW S \in SUBSET Attempt, NEW T \in SUBSET S
  PROVE  /\ Cardinality(S) \in Nat /\ Cardinality(T) \in Nat
         /\ Cardinality(T) <= Cardinality(S)
  <1>1. IsFiniteSet(Attempt)
    BY ExecutionAssumption, FS_Interval DEF Attempt
  <1>2. IsFiniteSet(S) /\ IsFiniteSet(T) /\ Cardinality(T) <= Cardinality(S)
    BY <1>1, FS_Subset
  <1> QED
    BY <1>2, FS_CardinalityType

LEMMA OneMoreAttempt ==
  ASSUME NEW S \in SUBSET Attempt, NEW a \in Attempt
  PROVE  Cardinality(S \cup {a}) <= Cardinality(S) + 1
  <1>1. IsFiniteSet(Attempt)
    BY ExecutionAssumption, FS_Interval DEF Attempt
  <1>2. IsFiniteSet(S)
    BY <1>1, FS_Subset
  <1>3. /\ Cardinality(S) \in Nat
        /\ Cardinality(S \cup {a}) = IF a \in S THEN Cardinality(S) ELSE Cardinality(S) + 1
    BY <1>2, FS_AddElement, FS_CardinalityType
  <1> QED
    BY <1>3

LEMMA HeldCovers ==
  ASSUME TypeOK, TrailInv, up
  PROVE  LiveIn(att) \subseteq Held /\ LiveIn(datt) \subseteq Held
  <1>1. PICK c \in Attempt, q \in Point : Leads(c, At(c), todo, q) /\ Reaches(c, q)
    BY DEF TrailInv, OnTrail
  <1>2. Further(c, At(c), q)
    BY <1>1, LeadsPoints DEF TypeOK
  <1>3. /\ datt[c].status # "absent" => att[c].status # "absent" /\ att[c].resumed = datt[c].resumed
        /\ datt[c].status \in L!Terminal => att[c].status \in L!Terminal
        /\ \A b \in Attempt : b # c => att[b] = datt[b]
    BY <1>1, <1>2 DEF Further, Reaches, At
  <1>4. "absent" \notin L!Live /\ \A s \in L!Live : s \notin L!Terminal
    BY DEF L!Live, L!Terminal
  <1> QED
    BY <1>3, <1>4 DEF LiveIn, Held

LEMMA LeftNat ==
  ASSUME TypeOK, CapacityInv
  PROVE  Left \in Nat
  BY ExecutionAssumption DEF CapacityInv, Left

\* Steps that create no attempt and do not go on with enqueue_plan.
LEMMA CapacityLess ==
  ASSUME TypeOK, CapacityInv, up, up', Held' \subseteq Held,
         job' = job \/ job'.kind # "enqueue"
  PROVE  CapacityInv'
  <1>1. Cardinality(Held) \in Nat /\ Cardinality(Held') \in Nat
        /\ Cardinality(Held') <= Cardinality(Held)
    BY SubsetOfAttempts DEF Held
  <1>2. Left \in Nat /\ (Left' = Left \/ Left' = 0)
    BY LeftNat DEF Left
  <1>3. job'.kind = "enqueue" => job'.next \in 1..NChild + 1
    BY DEF CapacityInv
  <1>4. Cardinality(Held) + Left <= MaxActive
    BY DEF CapacityInv
  <1>5. Cardinality(Held') + Left' <= MaxActive
    BY <1>1, <1>2, <1>4, ExecutionAssumption
  <1> QED
    BY <1>3, <1>5 DEF CapacityInv

\* What a handler leaves of an attempt there was says where it comes from.
LEMMA OriginStays ==
  ASSUME TypeOK, TrailInv, up, todo = <<>>, TypeOK', TrailInv', up', datt' = datt,
         NEW b \in Attempt, att[b].status # "absent"
  PROVE  att'[b].resumed = att[b].resumed
  <1>1. att = datt
    BY TrailRest
  <1>2. PICK c \in Attempt, q \in Point : (Leads(c, At(c), todo, q) /\ Reaches(c, q))'
    BY DEF TrailInv, OnTrail
  <1>3. Further(c, At(c)', q)
    BY <1>2, LeadsPoints DEF TypeOK
  <1>4. /\ datt'[c].status # "absent" => att'[c].resumed = datt'[c].resumed
        /\ \A d \in Attempt : d # c => att'[d] = datt'[d]
    BY <1>2, <1>3 DEF Further, Reaches, At
  <1> QED
    BY <1>1, <1>4

\* A handler that changes an attempt there is.
LEMMA HeldKept ==
  ASSUME TypeOK, TrailInv, up, todo = <<>>, TypeOK', TrailInv', up', datt' = datt,
         att' = att \/ \E a \in Attempt : /\ att[a].status # "absent"
                                          /\ \A b \in Attempt : b # a => att'[b] = att[b]
  PROVE  Held' \subseteq Held
  BY OriginStays DEF Held

LEMMA CapacityProcess ==
  ASSUME TypeOK, TrailInv, HandsInv, CapacityInv, Persist \/ Crash \/ Restart
  PROVE  CapacityInv'
  <1>1. CASE Persist
    <2>1. up /\ up' /\ UNCHANGED <<att, job>>
      BY <1>1 DEF Persist, memory
    <2>2. PICK a \in Attempt, q \in Point :
             /\ Legal(a, At(a), Head(todo))
             /\ At(a)' = After(At(a), Head(todo))
             /\ \A b \in Attempt : b # a => datt'[b] = datt[b]
      BY <1>1, PersistOne
    <2>3. Further(a, At(a), At(a)')
      BY <2>2, FurtherAfter
    <2>4. datt[a].status \in L!Terminal => datt'[a].status \in L!Terminal
      BY <2>3 DEF Further, At
    <2>5. Held' \subseteq Held
      BY <2>1, <2>2, <2>4 DEF Held
    <2> QED
      BY <2>1, <2>5, CapacityLess
  <1>2. CASE Crash
    <2>1. up /\ ~up' /\ UNCHANGED <<att, datt>> /\ job'.kind = "idle"
      BY <1>2 DEF Crash, durable, IdleJob
    <2>2. /\ Cardinality(Held) \in Nat
          /\ Cardinality(LiveIn(att)) \in Nat /\ Cardinality(LiveIn(att)) <= Cardinality(Held)
          /\ Cardinality(LiveIn(datt)) \in Nat /\ Cardinality(LiveIn(datt)) <= Cardinality(Held)
      <3>1. Held \in SUBSET Attempt
        BY DEF Held
      <3> QED
        BY <2>1, <3>1, HeldCovers, SubsetOfAttempts
    <2>3. Left \in Nat /\ Cardinality(Held) + Left <= MaxActive
      BY <2>1, LeftNat DEF CapacityInv
    <2>4. Cardinality(LiveIn(att)) <= MaxActive /\ Cardinality(LiveIn(datt)) <= MaxActive
      BY <2>2, <2>3, ExecutionAssumption
    <2>5. LiveIn(att)' = LiveIn(att) /\ LiveIn(datt)' = LiveIn(datt)
      BY <2>1 DEF LiveIn
    <2> QED
      BY <2>1, <2>4, <2>5 DEF CapacityInv
  <1>3. CASE Restart
    <2>1. ~up /\ up' /\ att' = datt /\ datt' = datt /\ job'.kind = "reclaim"
      BY <1>3 DEF Restart, durable
    <2>2. Held' = LiveIn(datt)
      <3>1. \A a \in Attempt : datt[a].status \in L!Status
        BY DEF TypeOK, AttemptRec
      <3>2. \A s \in L!Status : s # "absent" /\ s \notin L!Terminal <=> s \in L!Live
        BY DEF L!Status, L!Live, L!Terminal
      <3> QED
        BY <2>1, <3>1, <3>2 DEF Held, LiveIn
    <2>3. Cardinality(LiveIn(datt)) \in Nat
      BY SubsetOfAttempts DEF LiveIn
    <2>4. Cardinality(Held') + Left' <= MaxActive
      <3>1. Left' = 0
        BY <2>1 DEF Left
      <3> QED
        BY <2>1, <2>2, <2>3, <3>1, ExecutionAssumption DEF CapacityInv
    <2> QED
      BY <2>1, <2>4 DEF CapacityInv
  <1> QED
    BY <1>1, <1>2, <1>3

LEMMA CapacityRunner ==
  ASSUME TypeOK, TrailInv, HandsInv, CapacityInv, TypeOK', TrailInv', NEW a \in Attempt,
         RunOnce(a) \/ Heartbeat(a) \/ RunnerStep(a) \/ HostRegister(a)
  PROVE  CapacityInv'
  <1>1. /\ up /\ up' /\ todo = <<>> /\ datt' = datt /\ (job' = job \/ job'.kind = "call")
    <2>1. CASE RunOnce(a)
      BY <2>1 DEF RunOnce, Idle, durable
    <2>2. CASE Heartbeat(a) \/ HostRegister(a)
      BY <2>2 DEF Heartbeat, HostRegister, Idle, durable
    <2>3. CASE RunnerStep(a)
      <3>1. Idle /\ UNCHANGED <<up, job, durable>>
        BY <2>3 DEF RunnerStep, Wake, CancelConfirmed, CancelRefused, CancelRaises,
                    AfterResult, AfterError, Finish
      <3> QED
        BY <3>1 DEF Idle, durable
    <2> QED
      BY <2>1, <2>2, <2>3
  <1>2. \/ att' = att
        \/ att[a].status # "absent" /\ \A b \in Attempt : b # a => att'[b] = att[b]
    <2>1. CASE RunOnce(a) \/ Heartbeat(a) \/ HostRegister(a)
      BY <2>1 DEF TypeOK, RunOnce, FirstQueued, Heartbeat, HostRegister
    <2>2. CASE RunnerStep(a)
      <3>1. phase[a] # "none"
        BY <2>2 DEF RunnerStep, Wake, CancelConfirmed, CancelRefused, CancelRaises,
                    AfterResult, AfterError, Finish
      <3>2. att[a].status # "absent"
        BY <3>1 DEF HandsInv, RunnerInv, Started
      <3>3. UNCHANGED att \/ \E e : Return(a, e)
        BY <2>2 DEF RunnerStep, Wake, CancelConfirmed, CancelRefused, CancelRaises,
                    AfterResult, AfterError, Finish, memory
      <3> QED
        BY <3>2, <3>3 DEF TypeOK, Return
    <2> QED
      BY <2>1, <2>2
  <1>3. Held' \subseteq Held
    BY <1>1, <1>2, HeldKept
  <1> QED
    BY <1>1, <1>3, CapacityLess

LEMMA CapacityJob ==
  ASSUME TypeOK, TrailInv, HandsInv, CapacityInv, TypeOK', TrailInv', JobStep, ~EnqueueStep
  PROVE  CapacityInv'
  <1>1. up /\ up' /\ todo = <<>> /\ datt' = datt /\ job.kind # "enqueue"
    BY DEF JobStep, CallProvider, ReclaimStep, PauseStep, CancelStep, RequestStep, ResumeStep,
           InJob, durable
  <1>2. job'.kind # "enqueue"
    BY <1>1 DEF JobStep, CallProvider, ReclaimStep, PauseStep, CancelStep, RequestStep,
                ResumeStep, IdleJob, TypeOK
  <1>3. att' = att \/ \E a \in Attempt : /\ att[a].status # "absent"
                                         /\ \A b \in Attempt : b # a => att'[b] = att[b]
    <2>1. CASE CallProvider
      BY <2>1 DEF CallProvider, memory
    <2>2. CASE ReclaimStep
      BY <2>2 DEF ReclaimStep, Stale, TypeOK
    <2>3. CASE PauseStep \/ CancelStep
      BY <2>3 DEF PauseStep, CancelStep, RequestStep, Askable, CommitParent, TypeOK
    <2>4. CASE ResumeStep
      BY <2>4 DEF ResumeStep, CommitParent, TypeOK
    <2> QED
      BY <2>1, <2>2, <2>3, <2>4 DEF JobStep
  <1>4. Held' \subseteq Held
    BY <1>1, <1>3, HeldKept
  <1> QED
    BY <1>1, <1>2, <1>4, CapacityLess

LEMMA CapacityEnqueue ==
  ASSUME TypeOK, TrailInv, CapacityInv, TypeOK', TrailInv', EnqueueStep
  PROVE  CapacityInv'
  <1>1. up /\ up' /\ todo = <<>> /\ datt' = datt /\ job.kind = "enqueue" /\ job.next \in 1..NChild + 1
    BY DEF EnqueueStep, InJob, durable, CapacityInv
  <1>2. CASE job.next \in 1..NChild
    <2>1. PICK a \in Attempt : /\ att' = [att EXCEPT ![a] = Fresh(job.next, ~refs)]
                               /\ job' = [job EXCEPT !.next = @ + 1]
      BY <1>2 DEF EnqueueStep
    <2>2. job'.kind = "enqueue" /\ job'.next = job.next + 1
      BY <1>1, <2>1 DEF TypeOK
    <2>3. Held' \subseteq Held \cup {a}
      BY <1>1, <2>1 DEF TypeOK, Held
    <2>4. /\ Cardinality(Held) \in Nat /\ Cardinality(Held') \in Nat
          /\ Cardinality(Held') <= Cardinality(Held) + 1
      <3>1. Held \in SUBSET Attempt /\ Held \cup {a} \in SUBSET Attempt
        BY DEF Held
      <3>2. Held' \in SUBSET (Held \cup {a})
        BY <2>3
      <3> DEFINE H == Held
                 G == Held'
      <3>3. H \in SUBSET Attempt /\ H \cup {a} \in SUBSET Attempt /\ G \in SUBSET (H \cup {a})
        BY <3>1, <3>2
      <3> HIDE DEF H, G
      <3>4. Cardinality(H \cup {a}) <= Cardinality(H) + 1
        BY <3>3, OneMoreAttempt
      <3>5. /\ Cardinality(H \cup {a}) \in Nat /\ Cardinality(G) \in Nat
            /\ Cardinality(G) <= Cardinality(H \cup {a})
        BY <3>3, SubsetOfAttempts
      <3>6. Cardinality(H) \in Nat
        BY <3>3, SubsetOfAttempts
      <3>7. Cardinality(G) <= Cardinality(H) + 1
        BY <3>4, <3>5, <3>6
      <3> QED
        BY <3>5, <3>6, <3>7 DEF H, G
    <2>5. Left = NChild + 1 - job.next /\ Left' = NChild - job.next
      BY <1>1, <2>2, ExecutionAssumption DEF Left
    <2>6. Cardinality(Held) + Left <= MaxActive
      BY <1>1 DEF CapacityInv
    <2>7. Cardinality(Held') + Left' <= MaxActive
      BY <1>1, <2>4, <2>5, <2>6, ExecutionAssumption
    <2>8. job'.next \in 1..NChild + 1
      BY <1>2, <2>2, ExecutionAssumption
    <2> QED
      BY <1>1, <2>7, <2>8 DEF CapacityInv
  <1>3. CASE job.next \notin 1..NChild
    <2>1. UNCHANGED att /\ job' = IdleJob
      BY <1>3 DEF EnqueueStep
    <2>2. Held' \subseteq Held /\ job'.kind # "enqueue"
      BY <1>1, <2>1, HeldKept DEF IdleJob
    <2> QED
      BY <1>1, <2>2, CapacityLess
  <1> QED
    BY <1>2, <1>3

LEMMA CapacityRequests ==
  ASSUME TypeOK, TrailInv, CapacityInv, Execute \/ Pause \/ Resume \/ Cancel \/ CancelPaused
  PROVE  CapacityInv'
  <1>1. /\ up /\ up' /\ todo = <<>> /\ UNCHANGED <<att, datt>>
    BY DEF Execute, Pause, Resume, Cancel, CancelPaused, Control, CommitParent, Idle,
           memory, durable
  <1>2. Held' = Held
    BY <1>1 DEF Held
  <1>3. CASE Execute
    <2>1. job'.kind = "enqueue" /\ job'.next = 1 /\ Cardinality(ActiveAttempts) + NChild <= MaxActive
      BY <1>3 DEF Execute
    <2>2. Held \in SUBSET ActiveAttempts /\ ActiveAttempts \in SUBSET Attempt
      BY <1>1, TrailRest DEF Held, ActiveAttempts, Born
    <2>3. /\ Cardinality(Held) \in Nat /\ Cardinality(ActiveAttempts) \in Nat
          /\ Cardinality(Held) <= Cardinality(ActiveAttempts)
      BY <2>2, SubsetOfAttempts
    <2>4. Cardinality(Held') + Left' <= MaxActive
      <3>1. Left' = NChild
        BY <2>1, ExecutionAssumption DEF Left
      <3> QED
        BY <1>2, <2>1, <2>3, <3>1, ExecutionAssumption
    <2>5. job'.next \in 1..NChild + 1
      BY <2>1, ExecutionAssumption
    <2> QED
      BY <1>1, <2>4, <2>5 DEF CapacityInv
  <1>4. CASE ~Execute
    <2>1. job' = job \/ job'.kind # "enqueue"
      BY <1>4 DEF Pause, Resume, Cancel, CancelPaused, Control
    <2> QED
      BY <1>1, <1>2, <2>1, CapacityLess
  <1> QED
    BY <1>3, <1>4

LEMMA CapacityNext ==
  TypeOK /\ TrailInv /\ HandsInv /\ CapacityInv /\ TypeOK' /\ [Next]_vars => CapacityInv'
  <1> SUFFICES ASSUME TypeOK, TrailInv, HandsInv, CapacityInv, TypeOK', [Next]_vars
               PROVE  CapacityInv'
    OBVIOUS
  <1>0. TrailInv'
    BY TrailNext
  <1>1. CASE Persist \/ Crash \/ Restart
    BY <1>1, CapacityProcess
  <1>2. CASE JobStep
    BY <1>0, <1>2, CapacityJob, CapacityEnqueue
  <1>3. CASE Execute \/ Pause \/ Resume \/ Cancel \/ CancelPaused
    BY <1>3, CapacityRequests
  <1>4. ASSUME NEW a \in Attempt,
               RunOnce(a) \/ Heartbeat(a) \/ RunnerStep(a) \/ HostRegister(a)
        PROVE  CapacityInv'
    BY <1>0, <1>4, CapacityRunner
  <1>5. ASSUME NEW a \in Attempt,
               ProviderStops(a) \/ Timeout(a) \/ HostPause(a) \/ HostCancel(a)
        PROVE  CapacityInv'
    <2>1. up /\ up' /\ UNCHANGED <<att, datt, job>>
      BY <1>5 DEF ProviderStops, Timeout, HostPause, HostCancel, Idle, memory, durable
    <2>2. Held' = Held
      BY <2>1 DEF Held
    <2> QED
      BY <2>1, <2>2, CapacityLess
  <1>6. ASSUME NEW a \in Attempt, NEW p \in Attempt, HostRecover(p, a)
        PROVE  CapacityInv'
    <2>1. /\ up /\ up' /\ UNCHANGED <<datt, job>>
          /\ att' = [att EXCEPT ![a] = Recovery(p)]
      BY <1>6 DEF HostRecover, Idle, durable
    <2>2. att'[a] = Recovery(p) /\ \A b \in Attempt : b # a => att'[b] = att[b]
      BY <2>1 DEF TypeOK
    <2>3. Recovery(p).resumed # 0
      BY AttemptNat DEF Recovery, Fresh, Absent
    <2>4. Held' \subseteq Held
      BY <2>1, <2>2, <2>3 DEF Held
    <2> QED
      BY <2>1, <2>4, CapacityLess
  <1>7. CASE UNCHANGED vars
    <2>1. UNCHANGED <<up, att, datt, job>>
      BY <1>7 DEF vars
    <2>2. Held' = Held /\ Left' = Left /\ LiveIn(att)' = LiveIn(att) /\ LiveIn(datt)' = LiveIn(datt)
      BY <2>1 DEF Held, Left, LiveIn
    <2> QED
      BY <2>1, <2>2 DEF CapacityInv
  <1> QED
    BY <1>1, <1>2, <1>3, <1>4, <1>5, <1>6, <1>7 DEF Next

\* The session never has more than max_active_workers attempts that execute
\* created and that have not ended, however pauses, resumes, repeated execute
\* requests, restarts and the recoveries of a host follow one another.
THEOREM CapacityAlwaysRespected == Spec => []CapacityRespected
  <1>1. Init => CapacityInv
    <2> SUFFICES ASSUME Init PROVE CapacityInv
      OBVIOUS
    <2>1. Held = {} /\ up /\ job.kind = "idle"
      BY DEF Init, Held, IdleJob, Absent
    <2>2. Cardinality(Held) = 0 /\ Left = 0
      BY <2>1, FS_EmptySet DEF Left
    <2> QED
      BY <2>1, <2>2, ExecutionAssumption DEF CapacityInv
  <1>2. TypeOK /\ TrailInv /\ HandsInv /\ CapacityInv /\ TypeOK' /\ [Next]_vars => CapacityInv'
    BY CapacityNext
  <1>3. TypeOK /\ TrailInv /\ CapacityInv => CapacityRespected
    <2> SUFFICES ASSUME TypeOK, TrailInv, CapacityInv
                 PROVE  Cardinality(LiveIn(att)) <= MaxActive
      BY DEF CapacityRespected, LiveIn
    <2>1. CASE up
      <3>1. Held \in SUBSET Attempt /\ LiveIn(att) \in SUBSET Held
        BY <2>1, HeldCovers DEF Held
      <3>2. /\ Cardinality(Held) \in Nat /\ Cardinality(LiveIn(att)) \in Nat
            /\ Cardinality(LiveIn(att)) <= Cardinality(Held)
        BY <3>1, SubsetOfAttempts
      <3> QED
        BY <2>1, <3>2, LeftNat, ExecutionAssumption DEF CapacityInv
    <2>2. CASE ~up
      BY <2>2 DEF CapacityInv
    <2> QED
      BY <2>1, <2>2
  <1> QED
    BY <1>1, <1>2, <1>3, TypeCorrect, TrailCorrect, HandsCorrect, PTL DEF Spec
=============================================================================
