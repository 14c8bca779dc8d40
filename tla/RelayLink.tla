------------------------------ MODULE RelayLink ------------------------------
(***************************************************************************)
(* The relay between the gateway and one device (vor-relay's RelayHub and  *)
(* handle_device, vor-remote's dispatch_loop): callers wait for an answer  *)
(* in a slot named by the request id; a task per WebSocket reads frames of *)
(* the device, acknowledges each on the socket itself and delivers what    *)
(* callers queue for it; the device works on one frame at a time and       *)
(* remembers what it has sent until it is acknowledged.  A call is one use *)
(* of dispatch_action or dispatch_approved_action; its frame has a message *)
(* id and a nonce of its own and is named by its call.                     *)
(***************************************************************************)
EXTENDS Naturals, SequencesExt

CONSTANTS
    Call,
    Id,         \* request ids
    IdOf,       \* [Call -> Id]; a commit and its retry share an id
    Session,    \* bound: the sockets that the device opens
    None,
    OutCap,     \* room in the channel from the callers to a task, 32
    WireCap,    \* room in a socket, in each direction
    MaxAcks,    \* MAX_PENDING_ACKS
    MaxBeats    \* bound: heartbeats

\* None is neither a call nor a session.
ASSUME LinkAssumption == IdOf \in [Call -> Id] /\ None \notin Call \cup Session

VARIABLES
    \* RelayHub.
    devices,    \* the session that is registered for the device
    pending,    \* [Id -> the call whose oneshot sender is in the map]
    \* Callers.
    at,         \* where a call stands
    session,    \* the session whose sender it has cloned
    got,        \* the call whose result is in its oneshot channel
    result,     \* what it returned
    expired,    \* calls whose request has expired
    \* The relay's tasks and the sockets.
    task,       \* where the task of a session stands
    bound,      \* sessions whose hello was taken
    hand,       \* the frame that the task works on
    out,        \* the channel from the callers
    down, up,   \* the socket, towards the device and from it
    cut,        \* sockets that are closed or broken
    \* The device.
    dev,        \* [session, at, job]
    acks,       \* frames it has sent that are not acknowledged, in order
    beats,      \* counter of the bound
    ran         \* how often the dispatcher was given the frame of a call

hub == <<devices, pending>>
calls == <<at, session, got, result>>
tasks == <<task, bound, hand, out>>
device == <<dev, acks, beats, ran>>
vars == <<hub, calls, expired, tasks, down, up, cut, device>>

Frame(kind, of) == [kind |-> kind, of |-> of]
Hello == Frame("hello", None)
Beat == Frame("beat", None)
Offline == [session |-> None, at |-> "down", job |-> None]

Init ==
    /\ devices = None
    /\ pending = [i \in Id |-> None]
    /\ at = [c \in Call |-> "idle"]
    /\ session = [c \in Call |-> None]
    /\ got = [c \in Call |-> None]
    /\ result = [c \in Call |-> "none"]
    /\ expired = {}
    /\ task = [s \in Session |-> "new"]
    /\ bound = {}
    /\ hand = [s \in Session |-> None]
    /\ out = [s \in Session |-> << >>]
    /\ down = [s \in Session |-> << >>]
    /\ up = [s \in Session |-> << >>]
    /\ cut = {}
    /\ dev = Offline /\ acks = << >> /\ beats = 0
    /\ ran = [c \in Call |-> 0]

-----------------------------------------------------------------------------
(* dispatch_action, dispatch_approved_action.                              *)

Goto(c, step) == at' = [at EXCEPT ![c] = step]
Finish(c, r) == Goto(c, "done") /\ result' = [result EXCEPT ![c] = r]
Fail(c, r) == Goto(c, "remove") /\ result' = [result EXCEPT ![c] = r]

\* The session's sender is cloned out of the map; the expiry is not looked at.
Begin(c) ==
    /\ at[c] = "idle"
    /\ \/ devices = None /\ Finish(c, "offline") /\ UNCHANGED session
       \/ /\ devices # None
          /\ session' = [session EXCEPT ![c] = devices]
          /\ Goto(c, "insert")
          /\ UNCHANGED result
    /\ UNCHANGED <<hub, got, expired, tasks, down, up, cut, device>>

Insert(c) ==
    /\ at[c] = "insert"
    /\ \/ pending[IdOf[c]] # None /\ Finish(c, "duplicate") /\ UNCHANGED pending
       \/ /\ pending[IdOf[c]] = None
          /\ pending' = [pending EXCEPT ![IdOf[c]] = c]
          /\ Goto(c, "send")
          /\ UNCHANGED result
    /\ UNCHANGED <<devices, session, got, expired, tasks, down, up, cut, device>>

\* No timeout bounds the wait for room in the channel, which closes with its task.
Send(c) ==
    LET s == session[c] IN
    /\ at[c] = "send"
    /\ \/ /\ task[s] # "ended" /\ Len(out[s]) < OutCap
          /\ out' = [out EXCEPT ![s] = Append(@, c)]
          /\ Goto(c, "wait")
          /\ UNCHANGED result
       \/ task[s] = "ended" /\ Fail(c, "offline") /\ UNCHANGED out
    /\ UNCHANGED <<hub, session, got, expired, task, bound, hand, down, up, cut, device>>

TakeResult(c) ==
    /\ at[c] = "wait" /\ got[c] # None
    /\ Finish(c, "answered")
    /\ UNCHANGED <<hub, session, got, expired, tasks, down, up, cut, device>>

\* The sender was dropped with its slot, by another call of the same id.
SlotGone(c) ==
    /\ at[c] = "wait" /\ got[c] = None /\ pending[IdOf[c]] # c
    /\ Fail(c, "offline")
    /\ UNCHANGED <<hub, session, got, expired, tasks, down, up, cut, device>>

\* Mutant of Timeout: the timer starts anew.
WaitAgain(c) ==
    at[c] = "wait" /\ got[c] = None /\ UNCHANGED vars

Timeout(c) ==
    /\ at[c] = "wait" /\ got[c] = None
    /\ Fail(c, "timeout")
    /\ UNCHANGED <<hub, session, got, expired, tasks, down, up, cut, device>>

\* pending.remove(&key), whoever's slot it is by now.
TakeOut(c) ==
    /\ at[c] = "remove" /\ Goto(c, "done")
    /\ pending' = [pending EXCEPT ![IdOf[c]] = None]
    /\ UNCHANGED <<devices, session, got, result, expired, tasks, down, up, cut, device>>

\* A request expires; this shows where it is looked at, when the device reads it.
Expire(c) ==
    /\ c \notin expired
    /\ \E s \in Session : Contains(down[s], Frame("call", c))
    /\ expired' = expired \cup {c}
    /\ UNCHANGED <<hub, calls, tasks, down, up, cut, device>>

-----------------------------------------------------------------------------
(* handle_device and process_device_frame.                                 *)

TaskTo(s, step) == task' = [task EXCEPT ![s] = step]
Hold(s, f, step) == hand' = [hand EXCEPT ![s] = f] /\ TaskTo(s, step)
Drop(s, step) == Hold(s, None, step)

\* The socket is closed and the loop is left.
Close(s) == Drop(s, "unregister") /\ cut' = cut \cup {s}

\* One frame of the channel, once the hello was taken.
Deliver(s) ==
    /\ task[s] = "read" /\ s \in bound /\ out[s] # << >>
    /\ Hold(s, Frame("call", Head(out[s])), "deliver")
    /\ out' = [out EXCEPT ![s] = Tail(@)]
    /\ UNCHANGED <<hub, calls, expired, bound, down, up, cut, device>>

\* One frame of the device.  What does not get past decode_frame or the replay guard,
\* because it has expired or the window is full, ends the session.
Read(s) ==
    LET f == Head(up[s]) IN
    /\ task[s] = "read" /\ up[s] # << >>
    /\ up' = [up EXCEPT ![s] = Tail(@)]
    /\ \/ /\ s \notin bound /\ f = Hello
          /\ Hold(s, f, "register")
          /\ UNCHANGED cut
       \/ s \in bound /\ f.kind = "beat" /\ Hold(s, f, "ack") /\ UNCHANGED cut
       \/ s \in bound /\ f.kind = "result" /\ Hold(s, f, "complete") /\ UNCHANGED cut
       \/ Close(s)
    /\ UNCHANGED <<hub, calls, expired, bound, out, down, device>>

Register(s) ==
    /\ task[s] = "register"
    /\ devices' = s /\ bound' = bound \cup {s}
    /\ TaskTo(s, "ack")
    /\ UNCHANGED <<pending, calls, expired, hand, out, down, up, cut, device>>

\* Mutant of Complete: the slot is read and not removed.
CompleteKeepingSlot(s) ==
    LET c == pending[IdOf[hand[s].of]]
        waits == c # None /\ at[c] \in {"send", "wait"} IN
    /\ task[s] = "complete"
    /\ got' = IF waits THEN [got EXCEPT ![c] = hand[s].of] ELSE got
    /\ IF waits THEN TaskTo(s, "ack") /\ UNCHANGED <<hand, cut>> ELSE Close(s)
    /\ UNCHANGED <<hub, at, session, result, expired, bound, out, down, up, device>>

\* complete_result, under the lock of the map: the result goes to the call that has
\* the slot, if it still waits; a result that nobody waits for ends the session.
Complete(s) ==
    LET i == IdOf[hand[s].of]
        c == pending[i]
        waits == c # None /\ at[c] \in {"send", "wait"} IN
    /\ task[s] = "complete"
    /\ pending' = [pending EXCEPT ![i] = None]
    /\ got' = IF waits THEN [got EXCEPT ![c] = hand[s].of] ELSE got
    /\ IF waits THEN TaskTo(s, "ack") /\ UNCHANGED <<hand, cut>> ELSE Close(s)
    /\ UNCHANGED <<devices, at, session, result, expired, bound, out, down, up, device>>

\* send_frame: a frame of a caller, or the ack of a frame of the device; nothing else
\* is done while the socket has no room.
Put(s) ==
    /\ task[s] \in {"deliver", "ack"}
    /\ \/ /\ s \notin cut /\ Len(down[s]) < WireCap
          /\ down' = [down EXCEPT ![s] = Append(@,
                        IF task[s] = "ack" THEN Frame("ack", hand[s]) ELSE hand[s])]
          /\ Drop(s, "read")
       \/ s \in cut /\ Drop(s, "unregister") /\ UNCHANGED down
    /\ UNCHANGED <<hub, calls, expired, bound, out, up, cut, device>>

TaskEnds(s) ==
    /\ task[s] = "read" /\ s \in cut
    /\ TaskTo(s, "unregister")
    /\ UNCHANGED <<hub, calls, expired, bound, hand, out, down, up, cut, device>>

\* ... unless a newer session has taken its place; the channel goes with the task.
Unregister(s) ==
    /\ task[s] = "unregister" /\ TaskTo(s, "ended")
    /\ devices' = IF s \in bound /\ devices = s THEN None ELSE devices
    /\ out' = [out EXCEPT ![s] = << >>]
    /\ up' = [up EXCEPT ![s] = << >>]
    /\ UNCHANGED <<pending, calls, expired, bound, hand, down, cut, device>>

Break(s) ==
    /\ task[s] \notin {"new", "ended"} /\ s \notin cut
    /\ cut' = cut \cup {s}
    /\ UNCHANGED <<hub, calls, expired, tasks, down, up, device>>

-----------------------------------------------------------------------------
(* run_dispatch_until_cancelled.                                           *)

\* connect_and_hello, after the pause of wait_reconnect.
Connect(s) ==
    /\ dev.at = "down" /\ task[s] = "new"
    /\ s = CHOOSE t \in Session : task[t] = "new"      \* a fresh one; which does not matter
    /\ TaskTo(s, "read")
    /\ up' = [up EXCEPT ![s] = <<Hello>>]
    /\ dev' = [session |-> s, at |-> "greet", job |-> None]
    /\ acks' = << >>
    /\ UNCHANGED <<hub, calls, expired, bound, hand, out, down, cut, beats, ran>>

\* The socket is dropped, with what has come in and was not read.
HangUp ==
    /\ dev' = Offline /\ acks' = << >>
    /\ cut' = cut \cup {dev.session}
    /\ down' = [down EXCEPT ![dev.session] = << >>]
Die ==
    /\ dev.at # "down" /\ HangUp
    /\ UNCHANGED <<hub, calls, expired, tasks, up, beats, ran>>

Incoming == down[dev.session]
Take == down' = [down EXCEPT ![dev.session] = Tail(@)]

\* send_expect_ack: the first frame is the ack of the hello.
ReadFirst ==
    /\ dev.at = "greet" /\ Incoming # << >>
    /\ IF Head(Incoming) = Frame("ack", Hello)
       THEN Take /\ dev' = [dev EXCEPT !.at = "serve"] /\ UNCHANGED <<acks, cut>>
       ELSE HangUp
    /\ UNCHANGED <<hub, calls, expired, tasks, up, beats, ran>>

\* A frame that has expired, or an ack for nothing, ends the session.
ReadFrame ==
    LET f == Head(Incoming) IN
    /\ dev.at = "serve" /\ Incoming # << >>
    /\ \/ /\ f.kind = "ack" /\ Contains(acks, f.of) /\ Take
          /\ acks' = RemoveFirst(acks, f.of)
          /\ UNCHANGED <<dev, cut>>
       \/ /\ f.kind = "call" /\ f.of \notin expired /\ Take
          /\ dev' = [dev EXCEPT !.at = "work", !.job = f]
          /\ UNCHANGED <<acks, cut>>
       \/ f.of \notin (IF f.kind = "ack" THEN Range(acks) ELSE Call \ expired) /\ HangUp
    /\ UNCHANGED <<hub, calls, expired, tasks, up, beats, ran>>

\* spawn_blocking runs the dispatcher; an error or a panic ends the session.
Work ==
    LET c == dev.job.of IN
    /\ dev.at = "work"
    /\ ran' = [ran EXCEPT ![c] = @ + 1]
    /\ \/ dev' = [dev EXCEPT !.at = "send", !.job = Frame("result", c)]
          /\ UNCHANGED <<acks, cut, down>>
       \/ HangUp
    /\ UNCHANGED <<hub, calls, expired, tasks, up, beats>>

Pulse ==
    /\ dev.at = "serve" /\ beats < MaxBeats /\ beats' = beats + 1
    /\ dev' = [dev EXCEPT !.at = "send", !.job = Beat]
    /\ UNCHANGED <<hub, calls, expired, tasks, down, up, cut, acks, ran>>

\* send_tracked: what is sent is remembered, up to a limit.
SendTracked ==
    LET s == dev.session IN
    /\ dev.at = "send"
    /\ \/ /\ Len(acks) < MaxAcks /\ s \notin cut /\ Len(up[s]) < WireCap
          /\ up' = [up EXCEPT ![s] = Append(@, dev.job)]
          /\ acks' = Append(acks, dev.job)
          /\ dev' = [dev EXCEPT !.at = "serve", !.job = None]
          /\ UNCHANGED <<cut, down>>
       \/ (Len(acks) >= MaxAcks \/ s \in cut) /\ HangUp /\ UNCHANGED up
    /\ UNCHANGED <<hub, calls, expired, tasks, beats, ran>>

-----------------------------------------------------------------------------
Proceed(c) ==
    Insert(c) \/ Send(c) \/ TakeResult(c) \/ SlotGone(c) \/ Timeout(c) \/ TakeOut(c)

Serve(s) ==
    \/ Deliver(s) \/ Read(s) \/ Register(s) \/ Complete(s)
    \/ Put(s) \/ TaskEnds(s) \/ Unregister(s)

\* Every call has returned and every socket is used up: the bounds of the instance.
Rest ==
    /\ \A c \in Call : at[c] = "done"
    /\ \A s \in Session : task[s] = "ended"
    /\ UNCHANGED vars

Next ==
    \/ \E c \in Call : Begin(c) \/ Proceed(c) \/ Expire(c)
    \/ \E s \in Session : Serve(s) \/ Break(s) \/ Connect(s)
    \/ Die \/ ReadFirst \/ ReadFrame \/ Work \/ Pulse \/ SendTracked
    \/ Rest

\* A socket that has had no room for long is given up by TCP.
GiveUp(s) == task[s] \in {"deliver", "ack"} /\ Len(down[s]) >= WireCap /\ Break(s)

\* The relay's tasks run, a call's timer fires, and a socket without room is emptied or
\* given up at some point; of the device nothing else is asked.
Fairness ==
    /\ \A c \in Call : WF_vars(Proceed(c))
    /\ \A s \in Session : WF_vars(Serve(s)) /\ WF_vars(GiveUp(s))

Spec == Init /\ [][Next]_vars /\ Fairness

-----------------------------------------------------------------------------
(* Properties.                                                             *)

\* What a caller is handed was computed by the device for its request id, from a frame
\* that was run once, and no other caller is handed the same, whatever arrives late or
\* over a socket that the device has left; and a slot belongs to a call that will take
\* it out (dispatch_action, complete_result).
RelayAnswerFits ==
    /\ \A c \in Call : got[c] # None =>
          /\ IdOf[got[c]] = IdOf[c]
          /\ ran[got[c]] = 1
          /\ \A b \in Call \ {c} : got[b] # got[c]
    /\ \A i \in Id : pending[i] # None =>
          IdOf[pending[i]] = i /\ at[pending[i]] \in {"send", "wait", "remove"}

\* Which of the acks on the way the j-th frame is.
AckNumber(q, j) == Cardinality({i \in 1 .. j : q[i].kind = "ack"})

\* The device is never put off by the relay's order: the ack of the hello comes before
\* any call, and the n-th ack on the way is for the n-th of the frames that wait for one
\* (process_device_frame acknowledges on the socket before the channel is read).
AcksAreInOrder ==
    LET q == down[dev.session] IN
    /\ dev.at = "greet" /\ q # << >> => Head(q) = Frame("ack", Hello)
    /\ dev.at \in {"serve", "work", "send"} =>
          \A j \in DOMAIN q : q[j].kind = "ack" =>
              AckNumber(q, j) <= Len(acks) /\ q[j].of = acks[AckNumber(q, j)]

\* Every call comes back, although no timeout bounds its wait for the channel.
RelayCallReturns == \A c \in Call : at[c] = "insert" ~> at[c] = "done"
=============================================================================
