------------------------------- MODULE Frames -------------------------------
(***************************************************************************)
(* How a write handler of the API meets the journal (storage/store.py,      *)
(* storage/journal.py, api/app.py).                                         *)
(*                                                                         *)
(* The write handlers contain no await, so they never interleave.  But a    *)
(* handler changes the projection in memory and appends several frames, one  *)
(* after the other, and between any two of them the process may die or the   *)
(* next append may be refused.  So serving a request is                      *)
(*   - one step that changes memory and leaves the appends in todo,          *)
(*   - one Persist step per append,                                          *)
(*   - one Answer step, which a death may forestall.                         *)
(* A client that got no answer asks again with the same idempotency key.     *)
(*                                                                         *)
(* dur is the projection that replaying the journal gives: the projection a  *)
(* restart begins with.  What an event does to it is the parameter Replay.   *)
(***************************************************************************)
EXTENDS Integers, Sequences

CONSTANTS
    Request,        \* the operations of the clients, each with its own idempotency key
    Nobody,         \* not a request
    MaxCrash,       \* bound on process deaths
    MaxRefuse,      \* bound on refused appends
    Replay(_, _),   \* Replay(p, e): the projection p after event e
    Loads(_)        \* does the application start with projection p?

VARIABLES
    mem,        \* the projection in memory: Store and services
    dur,        \* the projection a restart rebuilds
    todo,       \* the appends the handler has still to make
    current,    \* the request being served, or Nobody
    reply,      \* what its client will be told ("done" while there is none)
    recorded,   \* requests whose idempotency result is in the journal
    answered,   \* requests whose client was told they are done
    up,         \* FALSE when the application does not start any more
    crashes, refusals   \* counters for the bounds

frameVars == <<mem, dur, todo, current, reply, recorded, answered, up, crashes, refusals>>

Idle == up /\ current = Nobody

\* One append: its event, whether its frame holds the idempotency result, and
\* the memory the handler goes on with.
Write(e, keyed, m) == [event |-> e, keyed |-> keyed, mem |-> m]

\* The handler changes memory to m, and will append ws and then reply.
Serve(r, m, ws, told) ==
    /\ current' = r
    /\ reply' = told
    /\ mem' = m
    /\ todo' = ws
    /\ UNCHANGED <<dur, recorded, answered, up, crashes, refusals>>

\* check_idempotency finds the request's result: it is returned.
Repeat(r) == r \in recorded /\ Serve(r, mem, <<>>, "done")

Refuse(r) == Serve(r, mem, <<>>, "refused")

\* A frame is appended: its events will be replayed, its result found.
Persist ==
    /\ todo # <<>>
    /\ dur' = Replay(dur, Head(todo).event)
    /\ recorded' = IF Head(todo).keyed THEN recorded \cup {current} ELSE recorded
    /\ mem' = Head(todo).mem
    /\ todo' = Tail(todo)
    /\ UNCHANGED <<current, reply, answered, up, crashes, refusals>>

\* ensure_storage_capacity raises RuntimeProtectionError: the handler ends
\* there, and memory stays as it is.
RefusedByCapacity ==
    /\ todo # <<>>
    /\ refusals < MaxRefuse
    /\ refusals' = refusals + 1
    /\ todo' = <<>>
    /\ reply' = "failed"
    /\ UNCHANGED <<mem, dur, current, recorded, answered, up, crashes>>

AnswerEarly ==
    /\ current # Nobody
    /\ current' = Nobody
    /\ answered' = IF reply = "done" THEN answered \cup {current} ELSE answered
    /\ reply' = "done"
    /\ UNCHANGED <<mem, dur, todo, recorded, up, crashes, refusals>>
Answer ==
    /\ current # Nobody
    /\ todo = <<>>
    /\ current' = Nobody
    /\ answered' = IF reply = "done" THEN answered \cup {current} ELSE answered
    /\ reply' = "done"
    /\ UNCHANGED <<mem, dur, todo, recorded, up, crashes, refusals>>

\* Something other than a request appends a single event.
Append1(e) ==
    /\ Idle
    /\ mem' = Replay(mem, e)
    /\ dur' = Replay(dur, e)
    /\ UNCHANGED <<todo, current, reply, recorded, answered, up, crashes, refusals>>

\* The process dies and is started again: create_app replays the journal, or
\* raises while it does.
Crash ==
    /\ up
    /\ crashes < MaxCrash
    /\ crashes' = crashes + 1
    /\ up' = Loads(dur)
    /\ mem' = dur
    /\ todo' = <<>>
    /\ current' = Nobody
    /\ reply' = "done"
    /\ UNCHANGED <<dur, recorded, answered, refusals>>

Began(p) ==
    /\ mem = p
    /\ dur = p
    /\ todo = <<>>
    /\ current = Nobody
    /\ reply = "done"
    /\ recorded = {}
    /\ answered = {}
    /\ up = TRUE
    /\ crashes = 0
    /\ refusals = 0
=============================================================================
