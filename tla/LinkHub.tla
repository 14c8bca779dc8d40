------------------------------ MODULE LinkHub ------------------------------
(***************************************************************************)
(* The private link between the gateway and one device                     *)
(* (vor-private-grpc): PrivateLinkHub on the gateway's side, whose callers *)
(* wait for an answer in a slot named by the request id; one task per      *)
(* stream that reads what the device sends; and the device's own loop,     *)
(* which works on one frame at a time.  The connection may break, the      *)
(* device may die and come back on a new stream, callers give up, and a    *)
(* request may expire wherever it is.                                      *)
(*                                                                         *)
(* A call is one use of send_and_wait.  Its frame has a message id and a   *)
(* nonce of its own, so a frame is named by its call; so is the result     *)
(* the device computes from it.                                            *)
(***************************************************************************)
EXTENDS Naturals, Sequences, FiniteSets

CONSTANTS
    Call,       \* calls of dispatch_action and dispatch_approved_action, numbered in the
                \* order in which they begin
    Id,         \* request ids
    IdOf,       \* [Call -> Id]; a commit and its retry share an id
    Session,    \* bound: the streams the device opens, numbered in their order
    NoCall,
    NoSession,
    Hello, Beat, Ack, Refusal,  \* frames without a request
    Cap,        \* MAX_PENDING_ACTIONS_PER_DEVICE
    OutCap,     \* room in the channel towards the device (32)
    InCap,      \* room in the channel from the device (32)
    MaxBeats,   \* bound: heartbeats the device sends
    MaxExpired  \* bound: requests that expire

ASSUME ConstantsAssumption ==
    /\ Call \subseteq Nat
    /\ IdOf \in [Call -> Id]
    /\ NoCall \notin Call
    /\ Session \subseteq Nat
    /\ NoSession \notin Session
    /\ {Hello, Beat, Ack, Refusal} \cap Call = {}
    /\ NoCall # Beat
    /\ Cap \in Nat /\ OutCap \in Nat \ {0} /\ InCap \in Nat \ {0}
    /\ MaxBeats \in Nat /\ MaxExpired \in Nat
    /\ IsFiniteSet(Id)

VARIABLES
    \* PrivateLinkHub.
    devices,    \* the session registered for the device
    pending,    \* [Id -> the call whose oneshot sender is in the map]
    \* Callers.
    at,         \* where a call stands
    session,    \* the session whose sender it has cloned
    got,        \* the result in its oneshot channel
    result,     \* what it returned
    expired,    \* calls whose request has expired
    \* Streams.
    stream,     \* where the server's task for a stream stands
    hand,       \* the call whose result the task has read
    out, in,    \* frames on their way to the device, and from it
    cut,        \* streams whose connection is gone
    \* The device.
    dev,        \* [session, at, job]
    ran,        \* how often the dispatcher was given the frame of a call
    beats       \* heartbeats so far

hub == <<devices, pending>>
calls == <<at, session, got, result>>
streams == <<stream, hand, out, in, cut>>
device == <<dev, ran, beats>>
vars == <<hub, calls, expired, streams, device>>

Offline == [session |-> NoSession, at |-> "down", job |-> NoCall]

Init ==
    /\ devices = NoSession
    /\ pending = [i \in Id |-> NoCall]
    /\ at = [c \in Call |-> "idle"]
    /\ session = [c \in Call |-> NoSession]
    /\ got = [c \in Call |-> NoCall]
    /\ result = [c \in Call |-> "none"]
    /\ expired = {}
    /\ stream = [s \in Session |-> "new"]
    /\ hand = [s \in Session |-> NoCall]
    /\ out = [s \in Session |-> <<>>]
    /\ in = [s \in Session |-> <<>>]
    /\ cut = {}
    /\ dev = Offline
    /\ ran = [c \in Call |-> 0]
    /\ beats = 0

-----------------------------------------------------------------------------
(* send_and_wait.                                                          *)

Goto(c, step) == at' = [at EXCEPT ![c] = step]

Finish(c, r) == Goto(c, "done") /\ result' = [result EXCEPT ![c] = r]

\* The expiry is checked here and, on this side of the link, nowhere else; then the
\* session's sender is cloned out of the map.
Begin(c) ==
    /\ at[c] = "idle"
    /\ \A b \in Call : at[b] = "idle" => c <= b
    /\ \/ c \in expired /\ Finish(c, "expired") /\ UNCHANGED session
       \/ c \notin expired /\ devices = NoSession /\ Finish(c, "offline") /\ UNCHANGED session
       \/ /\ c \notin expired
          /\ devices # NoSession
          /\ session' = [session EXCEPT ![c] = devices]
          /\ Goto(c, "insert")
          /\ UNCHANGED result
    /\ UNCHANGED <<hub, got, expired, streams, device>>

InFlight == {i \in Id : pending[i] # NoCall}

\* Under the write lock of the pending map.
Insert(c) ==
    LET i == IdOf[c] IN
    /\ at[c] = "insert"
    /\ \/ pending[i] # NoCall /\ Finish(c, "duplicate") /\ UNCHANGED pending
       \/ /\ pending[i] = NoCall
          /\ Cardinality(InFlight) >= Cap
          /\ Finish(c, "too_many")
          /\ UNCHANGED pending
       \/ /\ pending[i] = NoCall
          /\ Cardinality(InFlight) < Cap
          /\ pending' = [pending EXCEPT ![i] = c]
          /\ Goto(c, "send")
          /\ UNCHANGED result
    /\ UNCHANGED <<devices, session, got, expired, streams, device>>

\* The call waits for room in the channel; the channel of a lost stream is closed at
\* some point, and from then on the call fails.
Send(c) ==
    LET s == session[c] IN
    /\ at[c] = "send"
    /\ \/ /\ Len(out[s]) < OutCap
          /\ out' = [out EXCEPT ![s] = Append(@, c)]
          /\ Goto(c, "wait")
          /\ UNCHANGED result
       \/ /\ s \in cut
          /\ Goto(c, "remove")
          /\ result' = [result EXCEPT ![c] = "offline"]
          /\ UNCHANGED out
    /\ UNCHANGED <<hub, session, got, expired, stream, hand, in, cut, device>>

TakeResult(c) ==
    /\ at[c] = "wait"
    /\ got[c] # NoCall
    /\ Finish(c, "answered")
    /\ UNCHANGED <<hub, session, got, expired, streams, device>>

\* The sender was dropped with its slot, and nothing was sent.
SlotGone(c) ==
    /\ at[c] = "wait"
    /\ got[c] = NoCall
    /\ pending[IdOf[c]] # c
    /\ Goto(c, "remove")
    /\ result' = [result EXCEPT ![c] = "offline"]
    /\ UNCHANGED <<hub, session, got, expired, streams, device>>

\* Mutant of Timeout: only the wait is bounded.
TimeoutOfWait(c) ==
    /\ at[c] = "wait"
    /\ got[c] = NoCall
    /\ Goto(c, "remove")
    /\ result' = [result EXCEPT ![c] = "timeout"]
    /\ UNCHANGED <<hub, session, got, expired, streams, device>>

\* The timeout bounds the send and the wait; a result that is there is taken first.
Timeout(c) ==
    /\ at[c] \in {"send", "wait"}
    /\ at[c] = "wait" => got[c] = NoCall
    /\ Goto(c, "remove")
    /\ result' = [result EXCEPT ![c] = "timeout"]
    /\ UNCHANGED <<hub, session, got, expired, streams, device>>

\* pending.remove(&key) on the way out of an error, whoever's slot it is by now.
Remove(c) ==
    /\ at[c] = "remove"
    /\ pending' = [pending EXCEPT ![IdOf[c]] = NoCall]
    /\ Goto(c, "done")
    /\ UNCHANGED <<devices, session, got, result, expired, streams, device>>

\* A request expires; this shows where it is looked at, before it is sent and when it
\* is read.
Expire(c) ==
    /\ c \notin expired
    /\ Cardinality(expired) < MaxExpired
    /\ \/ at[c] = "idle"
       \/ \E t \in Session : \E k \in DOMAIN out[t] : out[t][k] = c
    /\ expired' = expired \cup {c}
    /\ UNCHANGED <<hub, calls, streams, device>>

-----------------------------------------------------------------------------
(* The server's task for a stream.                                         *)

StreamTo(s, step) == stream' = [stream EXCEPT ![s] = step]

\* process_private_frame accepts the first frame and binds the device.
ReadHello(s) ==
    /\ stream[s] = "read"
    /\ in[s] # <<>> /\ Head(in[s]) = Hello
    /\ in' = [in EXCEPT ![s] = Tail(@)]
    /\ StreamTo(s, "register")
    /\ UNCHANGED <<hub, calls, expired, hand, out, cut, device>>

\* The newest registration wins; it is made before the hello is acknowledged.
Register(s) ==
    /\ stream[s] = "register"
    /\ devices' = s
    /\ StreamTo(s, "ack")
    /\ UNCHANGED <<pending, calls, expired, hand, out, in, cut, device>>

ReadResult(s) ==
    /\ stream[s] = "read"
    /\ in[s] # <<>> /\ Head(in[s]) \in Call
    /\ in' = [in EXCEPT ![s] = Tail(@)]
    /\ hand' = [hand EXCEPT ![s] = Head(in[s])]
    /\ StreamTo(s, "complete")
    /\ UNCHANGED <<hub, calls, expired, out, cut, device>>

\* A heartbeat is acknowledged, and that is all.
ReadBeat(s) ==
    /\ stream[s] = "read"
    /\ in[s] # <<>> /\ Head(in[s]) = Beat
    /\ in' = [in EXCEPT ![s] = Tail(@)]
    /\ StreamTo(s, "ack")
    /\ UNCHANGED <<hub, calls, expired, hand, out, cut, device>>

\* Mutant of Complete: the slot is read and left in the map.
CompleteKeepingSlot(s) ==
    LET c == pending[IdOf[hand[s]]] IN
    /\ stream[s] = "complete"
    /\ got' = IF c # NoCall /\ at[c] \in {"send", "wait"}
              THEN [got EXCEPT ![c] = hand[s]] ELSE got
    /\ hand' = [hand EXCEPT ![s] = NoCall]
    /\ StreamTo(s, "ack")
    /\ UNCHANGED <<hub, at, session, result, expired, out, in, cut, device>>

\* complete_result: the slot goes to whoever has it; a call that has stopped waiting
\* has dropped its receiver, and without a slot the result is dropped.
Complete(s) ==
    LET i == IdOf[hand[s]]
        c == pending[i] IN
    /\ stream[s] = "complete"
    /\ pending' = [pending EXCEPT ![i] = NoCall]
    /\ got' = IF c # NoCall /\ at[c] \in {"send", "wait"}
              THEN [got EXCEPT ![c] = hand[s]] ELSE got
    /\ hand' = [hand EXCEPT ![s] = NoCall]
    /\ StreamTo(s, "ack")
    /\ UNCHANGED <<devices, at, session, result, expired, out, in, cut, device>>

\* The frame is expired, or the replay window is full: the device is told.
RefuseFrame(s) ==
    /\ stream[s] = "read"
    /\ in[s] # <<>>
    /\ in' = [in EXCEPT ![s] = Tail(@)]
    /\ StreamTo(s, "refuse")
    /\ UNCHANGED <<hub, calls, expired, hand, out, cut, device>>

\* The task waits for room like the callers do, in the same channel.
Reply(s) ==
    /\ stream[s] \in {"ack", "refuse"}
    /\ \/ /\ Len(out[s]) < OutCap
          /\ out' = [out EXCEPT ![s] = Append(@, IF stream[s] = "ack" THEN Ack ELSE Refusal)]
          /\ StreamTo(s, IF stream[s] = "ack" THEN "read" ELSE "unregister")
       \/ s \in cut /\ StreamTo(s, "unregister") /\ UNCHANGED out
    /\ UNCHANGED <<hub, calls, expired, hand, in, cut, device>>

StreamEnds(s) ==
    /\ stream[s] = "read"
    /\ s \in cut
    /\ StreamTo(s, "unregister")
    /\ UNCHANGED <<hub, calls, expired, hand, out, in, cut, device>>

\* ... unless a newer session has taken its place.
Unregister(s) ==
    /\ stream[s] = "unregister"
    /\ devices' = IF devices = s THEN NoSession ELSE devices
    /\ StreamTo(s, "ended")
    /\ UNCHANGED <<pending, calls, expired, hand, out, in, cut, device>>

Break(s) ==
    /\ stream[s] \notin {"new", "ended"}
    /\ s \notin cut
    /\ cut' = cut \cup {s}
    /\ UNCHANGED <<hub, calls, expired, stream, hand, out, in, device>>

-----------------------------------------------------------------------------
(* run_device_dispatch_until_cancelled.                                    *)

Connect(s) ==
    /\ dev.at = "down"
    /\ stream[s] = "new"
    /\ \A t \in Session : stream[t] = "new" => s <= t
    /\ StreamTo(s, "read")
    /\ in' = [in EXCEPT ![s] = <<Hello>>]
    /\ dev' = [session |-> s, at |-> "greet", job |-> NoCall]
    /\ UNCHANGED <<hub, calls, expired, hand, out, cut, ran, beats>>

\* The stream is dropped: the loop returned an error, or the process died.
HangUp ==
    /\ dev' = Offline
    /\ cut' = cut \cup {dev.session}

Die ==
    /\ dev.at # "down"
    /\ HangUp
    /\ UNCHANGED <<hub, calls, expired, stream, hand, out, in, ran, beats>>

Incoming == out[dev.session]

\* The first frame must be the ack of the hello.
ReadFirst ==
    /\ dev.at = "greet"
    /\ Incoming # <<>>
    /\ out' = [out EXCEPT ![dev.session] = Tail(@)]
    /\ IF Head(Incoming) = Ack
       THEN dev' = [dev EXCEPT !.at = "serve"] /\ UNCHANGED cut
       ELSE HangUp
    /\ UNCHANGED <<hub, calls, expired, stream, hand, in, ran, beats>>

\* A frame that has expired ends the session, as does a full replay window.
ReadFrame ==
    LET f == Head(Incoming) IN
    /\ dev.at = "serve"
    /\ Incoming # <<>>
    /\ out' = [out EXCEPT ![dev.session] = Tail(@)]
    /\ \/ f = Ack /\ UNCHANGED <<dev, cut>>
       \/ /\ f \in Call \ expired
          /\ dev' = [dev EXCEPT !.at = "work", !.job = f]
          /\ UNCHANGED cut
       \/ HangUp
    /\ UNCHANGED <<hub, calls, expired, stream, hand, in, ran, beats>>

\* spawn_blocking runs the dispatcher; an error or a panic ends the session.
Work ==
    /\ dev.at = "work"
    /\ ran' = [ran EXCEPT ![dev.job] = @ + 1]
    /\ \/ dev' = [dev EXCEPT !.at = "answer"] /\ UNCHANGED cut
       \/ HangUp
    /\ UNCHANGED <<hub, calls, expired, stream, hand, out, in, beats>>

\* The heartbeat is due; while it waits for room, nothing is read.
Pulse ==
    /\ dev.at = "serve"
    /\ beats < MaxBeats
    /\ beats' = beats + 1
    /\ dev' = [dev EXCEPT !.at = "answer", !.job = Beat]
    /\ UNCHANGED <<hub, calls, expired, streams, ran>>

Answer ==
    LET s == dev.session IN
    /\ dev.at = "answer"
    /\ \/ /\ Len(in[s]) < InCap
          /\ in' = [in EXCEPT ![s] = Append(@, dev.job)]
          /\ dev' = [dev EXCEPT !.at = "serve", !.job = NoCall]
          /\ UNCHANGED cut
       \/ s \in cut /\ HangUp /\ UNCHANGED in
    /\ UNCHANGED <<hub, calls, expired, stream, hand, out, ran, beats>>

-----------------------------------------------------------------------------
\* What a call does once it has begun.
Proceed(c) ==
    Insert(c) \/ Send(c) \/ TakeResult(c) \/ SlotGone(c) \/ Timeout(c) \/ Remove(c)

Serve(s) ==
    \/ ReadHello(s) \/ Register(s) \/ ReadResult(s) \/ ReadBeat(s) \/ Complete(s)
    \/ RefuseFrame(s) \/ Reply(s) \/ StreamEnds(s) \/ Unregister(s)

\* Every call is answered and every stream used up: the bounds of the instance.
Rest ==
    /\ \A c \in Call : at[c] = "done"
    /\ \A s \in Session : stream[s] = "ended"
    /\ UNCHANGED vars

Next ==
    \/ \E c \in Call : Begin(c) \/ Proceed(c) \/ Expire(c)
    \/ \E s \in Session : Serve(s) \/ Break(s) \/ Connect(s)
    \/ Die \/ ReadFirst \/ ReadFrame \/ Work \/ Pulse \/ Answer
    \/ Rest

\* A call's task runs and its timer fires; of the link and the device nothing is
\* asked.
Fairness == \A c \in Call : WF_vars(Proceed(c))

Spec == Init /\ [][Next]_vars /\ Fairness

-----------------------------------------------------------------------------
(* Properties.                                                             *)

Frame == Call \cup {Hello, Beat, Ack, Refusal}

\* Type correctness; a call has a session once it has been given a slot.
TypeOK ==
    /\ devices \in Session \cup {NoSession}
    /\ pending \in [Id -> Call \cup {NoCall}]
    /\ at \in [Call -> {"idle", "insert", "send", "wait", "remove", "done"}]
    /\ session \in [Call -> Session \cup {NoSession}]
    /\ got \in [Call -> Call \cup {NoCall}]
    /\ result \in [Call -> {"none", "expired", "offline", "duplicate", "too_many",
                            "timeout", "answered"}]
    /\ expired \subseteq Call
    /\ stream \in [Session -> {"new", "read", "register", "complete", "ack", "refuse",
                               "unregister", "ended"}]
    /\ hand \in [Session -> Call \cup {NoCall}]
    /\ out \in [Session -> Seq(Frame)]
    /\ in \in [Session -> Seq(Frame)]
    /\ cut \subseteq Session
    /\ dev \in [session : Session \cup {NoSession},
                at : {"down", "greet", "serve", "work", "answer"},
                job : Call \cup {Beat, NoCall}]
    /\ ran \in [Call -> Nat]
    /\ beats \in Nat
    /\ \A c \in Call : at[c] \in {"insert", "send", "wait", "remove"} => session[c] # NoSession
    /\ \A s \in Session : stream[s] = "complete" => hand[s] \in Call
    /\ dev.at = "down" <=> dev.session = NoSession
    /\ dev.at \in {"work", "answer"} <=> dev.job # NoCall
    /\ dev.at = "work" => dev.job \in Call

\* What a caller is handed was computed by the device for its request id, from a frame
\* that was run, and no other caller is handed the same: whatever arrives late, after a
\* timeout, or from a stream the device has left.
AnswerFits ==
    \A c \in Call : got[c] # NoCall =>
        /\ IdOf[got[c]] = IdOf[c]
        /\ ran[got[c]] = 1
        /\ \A b \in Call \ {c} : got[b] # got[c]

\* No frame is run twice, however the link breaks and comes back, and a call that was
\* turned away at the gateway was not run at all (PROTOCOL: a transport reconnect never
\* replays a side effect).
NothingIsReplayed ==
    \A c \in Call :
        /\ ran[c] <= 1
        /\ result[c] \in {"expired", "duplicate", "too_many"} => ran[c] = 0

\* A slot belongs to a call that is still going to take it out, and there are no more
\* slots than the cap allows: nothing is left behind that would block its request id or
\* eat up the cap.
SlotsAreLive ==
    /\ \A i \in Id : pending[i] # NoCall =>
          /\ IdOf[pending[i]] = i
          /\ at[pending[i]] \in {"send", "wait", "remove"}
    /\ Cardinality(InFlight) <= Cap

\* Calls are kept apart: what was computed for one is handed to no other, no frame is run
\* twice, and no slot is left to a call that will not take it out, so that late answers,
\* timeouts and retries neither cross over nor use up the cap (send_and_wait,
\* complete_result).
CallsKeepApart == AnswerFits /\ NothingIsReplayed /\ SlotsAreLive

\* The session that calls are sent to has a task that will take it out of the map when
\* its stream ends.
RegisteredIsServed == devices # NoSession => stream[devices] \notin {"new", "ended"}

\* Every call comes back, on a link that is full, broken or silent.
CallReturns == \A c \in Call : at[c] = "insert" ~> at[c] = "done"

\* A request that has expired does not reach a device at work, which would end its
\* session over it (send_and_wait: they never leave the hub).  It does not hold: a request
\* may expire in the channel.
ExpiredNeverLeave ==
    [][dev.at = "serve" /\ Incoming # <<>> /\ out'[dev.session] = Tail(Incoming)
        => Head(Incoming) \notin expired]_vars

\* A device that the hub lists as connected answers a call: its session does not end
\* because of the order in which the call and the ack of the hello are sent.  It does not
\* hold: a call may come between Register and Reply.
AckComesFirst == \A s \in Session : dev.session = s /\ dev.at = "greet" /\ out[s] # <<>> =>
                     Head(out[s]) \notin Call

\* A call that is told that the device is offline was not run by it.  It does not hold with
\* room for two frames: Remove may take the slot of a retry.
OfflineIsNotRun == \A c \in Call : at[c] = "done" /\ result[c] = "offline" => ran[c] = 0
=============================================================================
