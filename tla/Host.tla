-------------------------------- MODULE Host --------------------------------
(***************************************************************************)
(* A host that drives its task through the API: AgentScopeHost of            *)
(* frameworks/agentscope/adapter.py, composed with the handlers of Tasks.     *)
(*                                                                         *)
(* create posts the session, the epoch, the task, the plan and the execute,   *)
(* each under a key made of the host session's id, and gives a handle with    *)
(* the task's version; pause, resume and cancel send that version and take    *)
(* the next one from the answer.  An answer may be lost, a post may reach the *)
(* server after its client has given up, and other clients change the task.   *)
(* Behaviours begin when the session and the task have been created: a        *)
(* repeated creation is answered as the first one was.                        *)
(***************************************************************************)
EXTENDS Tasks

CONSTANTS
    EpochKey, PlanKey, ExecuteKey,  \* the keys of start_task
    ControlKeys,    \* action -> the keys its callers use; a key counts by path
    Others,         \* the requests of other clients
    MaxLost         \* bound on answers and posts lost without a death

Action == {"pause", "resume", "cancel"}
OwnKeys == {EpochKey, PlanKey, ExecuteKey} \cup UNION {ControlKeys[a] : a \in Action}

ASSUME HostAssumption ==
    /\ ControlKeys \in [Action -> SUBSET Request]
    /\ OwnKeys \subseteq Request /\ Others \subseteq Request \ OwnKeys
    /\ MaxLost \in Nat

VARIABLES
    planned,    \* the host has a plan
    post,       \* the post the host awaits: [key, ask]
    conn,       \* its connection: "none", "sent", or "serving"
    strays,     \* posts on their way that nobody awaits
    result,     \* key -> the event its result was recorded with
    handle,     \* AgentScopeTaskHandle.version; 0 while there is none
    lost

host == <<planned, post, conn, strays, result, handle, lost>>
allVars == <<vars, host>>

NoHandle == 0
Ask(op, v) == [op |-> op, version |-> v, arg |-> "none"]
\* what create_session and create_task answer, however late
CreatedVersion == 1

-----------------------------------------------------------------------------
(* The host *)

Posts(k, ask) == post' = [key |-> k, ask |-> ask] /\ conn' = "sent"
Fails == conn' = "none" /\ UNCHANGED <<post, handle>>

Starts ==
    /\ conn = "none" /\ handle = NoHandle
    /\ Posts(EpochKey, Ask("register", CreatedVersion))
    /\ UNCHANGED <<vars, planned, strays, result, handle, lost>>

Controls(a, k) ==
    /\ conn = "none" /\ handle # NoHandle
    /\ Posts(k, Ask(a, handle))
    /\ UNCHANGED <<vars, planned, strays, result, handle, lost>>

ExpectedStatus == [pause |-> "paused", resume |-> "running", cancel |-> "cancelled"]

\* The answer to execute or to a control request: the task as it was recorded.
\* create takes it as it is; a control request must have reached its status.
Expected(t) == post.ask.op \in Action => t.status = ExpectedStatus[post.ask.op]
TakesAsSent(t) ==
    IF Expected(t)
    THEN handle' = post.ask.version + 1 /\ conn' = "none" /\ UNCHANGED post
    ELSE Fails
Takes(t) ==
    IF Expected(t)
    THEN handle' = t.version /\ conn' = "none" /\ UNCHANGED post
    ELSE Fails

\* start_task goes on with the next post; anything but success raises.  The
\* answer to a plan names the version the task has now.
Proceeds ==
    CASE reply # "done" -> Fails
      [] reply = "done" /\ post.ask.op = "register" ->
            /\ IF planned THEN Posts(PlanKey, Ask("plan", CreatedVersion))
                          ELSE Posts(ExecuteKey, Ask("execute", CreatedVersion))
            /\ UNCHANGED handle
      [] reply = "done" /\ post.ask.op = "plan" ->
            Posts(ExecuteKey, Ask("execute", mem.task.version)) /\ UNCHANGED handle
      [] OTHER -> Takes(result[current].task)

\* The connection is lost before the server reads the post, after it has, or
\* while the server is serving it: the host's call raises.
GivesUp ==
    /\ conn # "none"
    /\ lost < MaxLost
    /\ lost' = lost + 1
    /\ Fails
    /\ \/ conn = "sent" /\ strays' \in {strays, strays \cup {post}}
       \/ conn = "serving" /\ UNCHANGED strays
    /\ UNCHANGED <<vars, planned, result>>

-----------------------------------------------------------------------------
(* The server *)

\* idempotent_result: the same key with another payload raises.
ConflictsNever(p) == FALSE
Conflicts(p) == p.key \in recorded /\ sent[p.key] # p.ask

Receive(p) ==
    IF Conflicts(p)
    THEN Idle /\ Refuse(p.key) /\ UNCHANGED <<scenario, sent>>
    ELSE Handle(p.key, p.ask)

ReceivePost ==
    /\ conn = "sent"
    /\ Receive(post)
    /\ conn' = "serving"
    /\ UNCHANGED <<planned, post, strays, result, handle, lost>>

ReceiveStray(p) ==
    /\ Receive(p)
    /\ strays' = strays \ {p}
    /\ UNCHANGED <<planned, post, conn, result, handle, lost>>

\* Other clients are those of Tasks.
ReceiveOther(r) ==
    /\ \E q \in Asks(r) : Handle(r, q)
    /\ UNCHANGED host

AppendsFrame ==
    /\ Persist
    /\ result' = IF Head(todo).keyed THEN (current :> Head(todo).event) @@ result ELSE result
    /\ UNCHANGED <<scenario, sent, planned, post, conn, strays, handle, lost>>

RefusesAppend ==
    /\ RefusedByCapacity
    /\ UNCHANGED <<scenario, sent, host>>

Answers ==
    /\ Answer
    /\ IF conn = "serving" THEN Proceeds ELSE UNCHANGED <<post, conn, handle>>
    /\ UNCHANGED <<scenario, sent, planned, strays, result, lost>>

\* Every connection is lost with the process.
Dies ==
    /\ Crash
    /\ Fails
    /\ strays' = {}
    /\ UNCHANGED <<scenario, sent, planned, result, lost>>

HostInit ==
    /\ Init
    /\ planned \in BOOLEAN
    /\ post = [key |-> EpochKey, ask |-> NotSent]
    /\ conn = "none"
    /\ strays = {}
    /\ result = <<>>
    /\ handle = NoHandle
    /\ lost = 0

HostNext ==
    \/ Starts
    \/ \E a \in Action : \E k \in ControlKeys[a] : Controls(a, k)
    \/ GivesUp
    \/ ReceivePost
    \/ \E p \in strays : ReceiveStray(p)
    \/ \E r \in Others : ReceiveOther(r)
    \/ AppendsFrame
    \/ RefusesAppend
    \/ Answers
    \/ Dies

HostSpec == HostInit /\ [][HostNext]_allVars

-----------------------------------------------------------------------------
(* Properties *)

\* Every answer the host takes leads forward, to a version the journal has
\* reached; when it is the latest, the journal agrees with the host on the status.
Advances ==
    handle' # handle =>
        /\ handle' > handle
        /\ handle' <= dur.task.version
        /\ handle' = dur.task.version =>
              dur.task.status = IF post.ask.op \in Action THEN ExpectedStatus[post.ask.op]
                                                          ELSE "running"

\* While nobody else changes the task and no append is refused, a handle that is
\* behind can catch up: one of the host's own keys holds the result of the request
\* that moved the task from the handle's version to the journal's.
Behind == handle # NoHandle /\ handle # dur.task.version
CatchesUp ==
    (Behind /\ Idle /\ refusals = 0 /\ \A r \in Others : sent[r] = NotSent) =>
        \E r \in recorded \cap OwnKeys :
            sent[r].version = handle /\ result[r].task.version = dur.task.version

\* AgentScopeTaskHandle: a "cursor used to send expected-version controls safely".
\* Over lost answers, late posts, repeated and reused keys, deaths and other
\* clients, the handle only advances, never past what is durable, and its host
\* can bring it in step by asking again under the key it has used.
HandleInStep == []CatchesUp /\ [][Advances]_allVars
=============================================================================
