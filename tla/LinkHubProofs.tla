---------------------------- MODULE LinkHubProofs ----------------------------
(* What LinkHub guarantees for any number of calls, request ids and streams, *)
(* and for channels and a cap of any size.                                   *)
EXTENDS LinkHub, FiniteSetTheorems, TLAPS

-----------------------------------------------------------------------------
(* Channels.                                                               *)

\* What is in a channel, and that no call's frame is twice in the channels.
Has(q, c) == \E s \in Session : \E k \in DOMAIN q[s] : q[s][k] = c
Once(q) ==
    \A s, t \in Session : \A j \in DOMAIN q[s], k \in DOMAIN q[t] :
        q[s][j] = q[t][k] /\ q[s][j] \in Call => s = t /\ j = k

Put(q, s, f) == [q EXCEPT ![s] = Append(@, f)]
Taken(q, s) == [q EXCEPT ![s] = Tail(@)]
Opened(q, s, f) == [q EXCEPT ![s] = <<f>>]

\* A frame that is put into a channel.
LEMMA PutIn ==
    ASSUME NEW q \in [Session -> Seq(Frame)], NEW s \in Session, NEW f \in Frame,
           Once(q), f \in Call => ~Has(q, f)
    PROVE  Once(Put(q, s, f)) /\ \A c \in Call : Has(Put(q, s, f), c) <=> Has(q, c) \/ c = f
<1> DEFINE r == Put(q, s, f)
<1>0. r = [q EXCEPT ![s] = Append(@, f)]
  BY DEF Put
<1> HIDE DEF r
<1>1. /\ DOMAIN r[s] = 1 .. Len(q[s]) + 1 /\ DOMAIN q[s] = 1 .. Len(q[s])
      /\ r[s][Len(q[s]) + 1] = f
      /\ \A k \in DOMAIN q[s] : k \in DOMAIN r[s] /\ r[s][k] = q[s][k]
      /\ \A k \in DOMAIN r[s] : k \notin DOMAIN q[s] => k = Len(q[s]) + 1
  BY <1>0
<1>2. \A t \in Session \ {s} : r[t] = q[t]
  BY <1>0
<1>3. ASSUME NEW t \in Session, NEW k \in DOMAIN r[t]
      PROVE  (k \in DOMAIN q[t] /\ r[t][k] = q[t][k]) \/ (t = s /\ k = Len(q[s]) + 1 /\ r[t][k] = f)
  BY <1>1, <1>2
<1>4. ASSUME NEW c \in Call PROVE Has(r, c) <=> Has(q, c) \/ c = f
  <2>1. ASSUME NEW t \in Session, NEW k \in DOMAIN r[t], r[t][k] = c PROVE Has(q, c) \/ c = f
    BY <1>3, <2>1 DEF Has
  <2>2. ASSUME NEW t \in Session, NEW k \in DOMAIN q[t], q[t][k] = c
        PROVE  k \in DOMAIN r[t] /\ r[t][k] = c
    BY <1>1, <1>2, <2>2
  <2>3. Has(q, c) => Has(r, c)
    BY <2>2 DEF Has
  <2>4. c = f => Has(r, c)
    <3>1. Len(q[s]) + 1 \in DOMAIN r[s]
      BY <1>1
    <3>2. r[s][Len(q[s]) + 1] = f
      BY <1>1
    <3> QED BY <3>1, <3>2 DEF Has
  <2>5. Has(r, c) => Has(q, c) \/ c = f
    BY <2>1 DEF Has
  <2> QED BY <2>3, <2>4, <2>5
<1>5. Once(r)
  <2> SUFFICES ASSUME NEW t \in Session, NEW u \in Session, NEW j \in DOMAIN r[t], NEW k \in DOMAIN r[u],
                      r[t][j] = r[u][k], r[t][j] \in Call
               PROVE  t = u /\ j = k
    BY DEF Once
  <2> DEFINE Old(v, i) == i \in DOMAIN q[v] /\ r[v][i] = q[v][i]
             New(v, i) == v = s /\ i = Len(q[s]) + 1 /\ r[v][i] = f
  <2>1. (Old(t, j) \/ New(t, j)) /\ (Old(u, k) \/ New(u, k))
    BY <1>3
  <2>2. CASE Old(t, j) /\ Old(u, k)
    <3>1. j \in DOMAIN q[t] /\ k \in DOMAIN q[u] /\ q[t][j] = q[u][k] /\ q[t][j] \in Call
      BY <2>2
    <3> HIDE DEF Old, New
    <3> QED BY <3>1 DEF Once
  <2>3. CASE New(t, j) /\ New(u, k)
    BY <2>3
  <2>4. CASE Old(t, j) /\ New(u, k)
    BY <2>4 DEF Has
  <2>5. CASE New(t, j) /\ Old(u, k)
    BY <2>5 DEF Has
  <2> QED BY <2>1, <2>2, <2>3, <2>4, <2>5
<1> QED BY <1>4, <1>5 DEF r

\* The first frame is taken out of a channel.
LEMMA TakeOut ==
    ASSUME NEW q \in [Session -> Seq(Frame)], NEW s \in Session, q[s] # << >>, Once(q)
    PROVE  /\ Once(Taken(q, s)) /\ Head(q[s]) \in Frame
           /\ \A c \in Call : Has(Taken(q, s), c) <=> Has(q, c) /\ c # Head(q[s])
           /\ Head(q[s]) \in Call => Has(q, Head(q[s]))
<1> DEFINE r == Taken(q, s)
<1>0. r = [q EXCEPT ![s] = Tail(@)]
  BY DEF Taken
<1> HIDE DEF r
<1>1. /\ DOMAIN q[s] = 1 .. Len(q[s]) /\ Len(q[s]) \in Nat \ {0}
      /\ DOMAIN r[s] = 1 .. Len(q[s]) - 1
      /\ \A k \in DOMAIN r[s] : r[s][k] = q[s][k + 1] /\ k + 1 \in DOMAIN q[s]
      /\ 1 \in DOMAIN q[s] /\ Head(q[s]) = q[s][1]
      /\ \A k \in DOMAIN q[s] : k # 1 => k - 1 \in DOMAIN r[s] /\ r[s][k - 1] = q[s][k]
      /\ \A k \in DOMAIN r[s] : k + 1 # 1
  BY <1>0
<1>2. \A t \in Session \ {s} : r[t] = q[t]
  BY <1>0
<1> DEFINE was(t, k) == IF t = s THEN k + 1 ELSE k
<1>3. ASSUME NEW t \in Session, NEW k \in DOMAIN r[t]
      PROVE  /\ was(t, k) \in DOMAIN q[t] /\ r[t][k] = q[t][was(t, k)]
             /\ t = s => was(t, k) # 1 /\ k \in Nat
  <2>1. CASE t = s
    <3>1. k \in Nat /\ k + 1 \in DOMAIN q[s] /\ r[s][k] = q[s][k + 1] /\ k + 1 # 1
      BY <1>1, <2>1
    <3> QED BY <2>1, <3>1
  <2>2. CASE t # s
    BY <1>2, <2>2
  <2> QED BY <2>1, <2>2
<1>4. Once(r)
  <2> SUFFICES ASSUME NEW t \in Session, NEW u \in Session, NEW j \in DOMAIN r[t], NEW k \in DOMAIN r[u],
                      r[t][j] = r[u][k], r[t][j] \in Call
               PROVE  t = u /\ j = k
    BY DEF Once
  <2>1. t = u /\ was(t, j) = was(u, k)
    BY <1>3 DEF Once
  <2>2. CASE t = s
    BY <1>3, <2>1, <2>2
  <2> QED BY <2>1, <2>2
<1>5. ASSUME NEW c \in Call PROVE Has(r, c) <=> Has(q, c) /\ c # Head(q[s])
  <2>1. Has(r, c) => Has(q, c)
    BY <1>3 DEF Has
  <2>2. ASSUME Has(q, c), c # Head(q[s]) PROVE Has(r, c)
    <3>1. PICK t \in Session : \E k \in DOMAIN q[t] : q[t][k] = c
      BY <2>2 DEF Has
    <3>2. PICK k \in DOMAIN q[t] : q[t][k] = c
      BY <3>1
    <3>3. CASE t = s
      <4>1. k - 1 \in DOMAIN r[s] /\ r[s][k - 1] = c
        BY <1>1, <2>2, <3>2, <3>3
      <4> QED BY <4>1 DEF Has
    <3>4. CASE t # s
      <4>1. k \in DOMAIN r[t] /\ r[t][k] = c
        BY <1>2, <3>2, <3>4
      <4> QED BY <4>1 DEF Has
    <3> QED BY <3>3, <3>4
  <2>3. ASSUME c = Head(q[s]), NEW t \in Session, NEW k \in DOMAIN r[t], r[t][k] = c PROVE FALSE
    <3>1. q[t][was(t, k)] = q[s][1] /\ was(t, k) \in DOMAIN q[t] /\ 1 \in DOMAIN q[s]
      BY <1>1, <1>3, <2>3
    <3>2. t = s /\ was(t, k) = 1
      BY <1>1, <2>3, <3>1 DEF Once
    <3> QED BY <1>3, <3>2
  <2> QED BY <2>1, <2>2, <2>3 DEF Has
<1>6. Head(q[s]) \in Frame /\ (Head(q[s]) \in Call => Has(q, Head(q[s])))
  BY <1>1 DEF Has
<1> QED BY <1>4, <1>5, <1>6 DEF r

\* A channel is opened with a frame that is no call's.
LEMMA OpenWith ==
    ASSUME NEW q \in [Session -> Seq(Frame)], NEW s \in Session, NEW f, f \notin Call, Once(q)
    PROVE  Once(Opened(q, s, f)) /\ \A c \in Call : Has(Opened(q, s, f), c) => Has(q, c)
<1> DEFINE r == Opened(q, s, f)
<1>1. \A t \in Session : \A k \in DOMAIN r[t] : r[t][k] \in Call =>
          t # s /\ k \in DOMAIN q[t] /\ r[t][k] = q[t][k]
  BY DEF Opened
<1> QED BY <1>1 DEF Once, Has

-----------------------------------------------------------------------------
(* Type correctness.                                                       *)

\* A queue keeps its type.
LEMMA QueueType ==
    ASSUME NEW q \in [Session -> Seq(Frame)], NEW s \in Session, NEW f \in Frame
    PROVE  /\ Put(q, s, f) \in [Session -> Seq(Frame)]
           /\ Opened(q, s, f) \in [Session -> Seq(Frame)]
           /\ q[s] # << >> => Taken(q, s) \in [Session -> Seq(Frame)]
BY DEF Put, Opened, Taken

\* A device that is connected is on a stream.
LEMMA OnStream == ASSUME TypeOK, dev.at # "down" PROVE dev.session \in Session
BY DEF TypeOK

\* The parts of TypeOK.
HubType ==
    /\ devices \in Session \cup {NoSession}
    /\ pending \in [Id -> Call \cup {NoCall}]
Steps == {"idle", "insert", "send", "wait", "remove", "done"}
CallsType ==
    /\ at \in [Call -> Steps]
    /\ session \in [Call -> Session \cup {NoSession}]
    /\ got \in [Call -> Call \cup {NoCall}]
    /\ result \in [Call -> {"none", "expired", "offline", "duplicate", "too_many",
                            "timeout", "answered"}]
    /\ expired \subseteq Call
    /\ \A c \in Call : at[c] \in {"insert", "send", "wait", "remove"} => session[c] # NoSession
StreamSteps == {"new", "read", "register", "complete", "ack", "refuse", "unregister", "ended"}
TasksType ==
    /\ stream \in [Session -> StreamSteps]
    /\ hand \in [Session -> Call \cup {NoCall}]
    /\ cut \subseteq Session
    /\ \A s \in Session : stream[s] = "complete" => hand[s] \in Call
QueuesType == out \in [Session -> Seq(Frame)] /\ in \in [Session -> Seq(Frame)]
DeviceType ==
    /\ dev \in [session : Session \cup {NoSession},
                at : {"down", "greet", "serve", "work", "answer"},
                job : Call \cup {Beat, NoCall}]
    /\ ran \in [Call -> Nat]
    /\ beats \in Nat
    /\ dev.at = "down" <=> dev.session = NoSession
    /\ dev.at \in {"work", "answer"} <=> dev.job # NoCall
    /\ dev.at = "work" => dev.job \in Call

LEMMA TypeParts == TypeOK <=> HubType /\ CallsType /\ TasksType /\ QueuesType /\ DeviceType
BY DEF TypeOK, HubType, CallsType, TasksType, QueuesType, DeviceType, Steps, StreamSteps

LEMMA TypePartsNext ==
    TypeOK' <=> HubType' /\ CallsType' /\ TasksType' /\ QueuesType' /\ DeviceType'
BY DEF TypeOK, HubType, CallsType, TasksType, QueuesType, DeviceType, Steps, StreamSteps

\* What is left alone keeps its type.
LEMMA TypeKept ==
    /\ HubType /\ UNCHANGED hub => HubType'
    /\ CallsType /\ UNCHANGED <<calls, expired>> => CallsType'
    /\ TasksType /\ UNCHANGED <<stream, hand, cut>> => TasksType'
    /\ QueuesType /\ UNCHANGED <<out, in>> => QueuesType'
    /\ DeviceType /\ UNCHANGED device => DeviceType'
BY DEF HubType, CallsType, TasksType, QueuesType, DeviceType, hub, calls, device

LEMMA HubTypeStep == TypeOK /\ [Next]_vars => HubType'
<1> SUFFICES ASSUME HubType, CallsType, [Next]_vars PROVE HubType'
  BY TypeParts
<1>1. ASSUME NEW c \in Call, Insert(c) \/ Remove(c) PROVE HubType'
  <2>1. devices' = devices
    BY <1>1 DEF Insert, Remove
  <2>2. \/ pending' = pending \/ pending' = [pending EXCEPT ![IdOf[c]] = c]
        \/ pending' = [pending EXCEPT ![IdOf[c]] = NoCall]
    BY <1>1 DEF Insert, Remove
  <2> QED BY <2>1, <2>2 DEF HubType
<1>2. ASSUME NEW s \in Session, Register(s) \/ Unregister(s) PROVE HubType'
  BY <1>2 DEF HubType, Register, Unregister
<1>3. ASSUME NEW s \in Session, Complete(s) PROVE HubType'
  BY <1>3 DEF HubType, Complete
<1>4. ASSUME NEW c \in Call,
             Begin(c) \/ Send(c) \/ TakeResult(c) \/ SlotGone(c) \/ Timeout(c) \/ Expire(c)
      PROVE  UNCHANGED hub
  BY <1>4 DEF Begin, Send, TakeResult, SlotGone, Timeout, Expire
<1>5. ASSUME NEW s \in Session,
             \/ ReadHello(s) \/ ReadResult(s) \/ ReadBeat(s) \/ RefuseFrame(s) \/ Reply(s)
             \/ StreamEnds(s) \/ Break(s) \/ Connect(s)
      PROVE  UNCHANGED hub
  BY <1>5 DEF ReadHello, ReadResult, ReadBeat, RefuseFrame, Reply, StreamEnds, Break, Connect
<1>6. Die \/ ReadFirst \/ ReadFrame \/ Work \/ Pulse \/ Answer \/ UNCHANGED vars => UNCHANGED hub
  BY DEF Die, ReadFirst, ReadFrame, Work, Pulse, Answer, vars
<1> QED BY <1>1, <1>2, <1>3, <1>4, <1>5, <1>6, TypeKept DEF Next, Proceed, Serve, Rest

LEMMA CallsTypeStep == TypeOK /\ [Next]_vars => CallsType'
<1> SUFFICES ASSUME HubType, CallsType, TasksType, [Next]_vars PROVE CallsType'
  BY TypeParts
<1> USE ConstantsAssumption
<1>1. ASSUME NEW c \in Call, Begin(c) PROVE CallsType'
  <2>1. UNCHANGED <<got, expired>> /\ at[c] = "idle"
    BY <1>1 DEF Begin
  <2>2. CASE at' = [at EXCEPT ![c] = "done"] /\ session' = session /\ \E r \in {"expired", "offline"} :
              result' = [result EXCEPT ![c] = r]
    BY <2>1, <2>2 DEF CallsType, Steps
  <2>3. CASE at' = [at EXCEPT ![c] = "insert"] /\ session' = [session EXCEPT ![c] = devices]
              /\ devices # NoSession /\ result' = result
    BY <2>1, <2>3 DEF CallsType, HubType, Steps
  <2> QED BY <1>1, <2>2, <2>3 DEF Begin, Goto, Finish
<1>2. ASSUME NEW c \in Call, at[c] \notin {"idle"}, NEW step \in {"send", "wait", "remove", "done"},
             at' = [at EXCEPT ![c] = step],
             step # "done" => at[c] \in {"insert", "send", "wait", "remove"},
             NEW r \in {"duplicate", "too_many", "offline", "timeout", "answered"},
             result' \in {result, [result EXCEPT ![c] = r]}, UNCHANGED <<session, got, expired>>
      PROVE  CallsType'
  BY <1>2 DEF CallsType, Steps
<1>3. ASSUME NEW c \in Call, Proceed(c) PROVE CallsType'
  <2>1. UNCHANGED <<session, got, expired>>
    BY <1>3 DEF Proceed, Insert, Send, TakeResult, SlotGone, Timeout, Remove
  <2>2. PICK step \in {"send", "wait", "remove", "done"} :
           at' = [at EXCEPT ![c] = step] /\ at[c] \in {"insert", "send", "wait", "remove"}
    BY <1>3 DEF Proceed, Insert, Send, TakeResult, SlotGone, Timeout, Remove, Goto, Finish
  <2>3. PICK r \in {"duplicate", "too_many", "offline", "timeout", "answered"} :
           result' \in {result, [result EXCEPT ![c] = r]}
    BY <1>3 DEF Proceed, Insert, Send, TakeResult, SlotGone, Timeout, Remove, Goto, Finish
  <2> QED BY <1>2, <2>1, <2>2, <2>3
<1>4. ASSUME NEW c \in Call, Expire(c) PROVE CallsType'
  BY <1>4 DEF CallsType, Expire, calls
<1>5. ASSUME NEW s \in Session, Complete(s) PROVE CallsType'
  <2>1. hand[s] \in Call /\ UNCHANGED <<at, session, result, expired>>
    BY <1>5 DEF TasksType, Complete
  <2>2. got' = got \/ got' = [got EXCEPT ![pending[IdOf[hand[s]]]] = hand[s]]
    BY <1>5 DEF Complete
  <2> QED BY <2>1, <2>2 DEF CallsType
<1>6. ASSUME NEW s \in Session,
             \/ ReadHello(s) \/ Register(s) \/ ReadResult(s) \/ ReadBeat(s) \/ RefuseFrame(s)
             \/ Reply(s) \/ StreamEnds(s) \/ Unregister(s) \/ Break(s) \/ Connect(s)
      PROVE  UNCHANGED <<calls, expired>>
  BY <1>6 DEF ReadHello, Register, ReadResult, ReadBeat, RefuseFrame, Reply, StreamEnds,
              Unregister, Break, Connect
<1>7. Die \/ ReadFirst \/ ReadFrame \/ Work \/ Pulse \/ Answer \/ UNCHANGED vars
          => UNCHANGED <<calls, expired>>
  BY DEF Die, ReadFirst, ReadFrame, Work, Pulse, Answer, vars
<1> QED BY <1>1, <1>3, <1>4, <1>5, <1>6, <1>7, TypeKept DEF Next, Serve, Rest

LEMMA TasksTypeStep == TypeOK /\ [Next]_vars => TasksType'
<1> SUFFICES ASSUME TasksType, QueuesType, DeviceType, TypeOK, [Next]_vars PROVE TasksType'
  BY TypeParts
<1> USE ConstantsAssumption
<1>1. ASSUME NEW s \in Session, NEW step \in StreamSteps \ {"complete"},
             stream' = [stream EXCEPT ![s] = step],
             hand' \in {hand, [hand EXCEPT ![s] = NoCall]}, UNCHANGED cut
      PROVE  TasksType'
  BY <1>1 DEF TasksType, StreamSteps
<1>2. ASSUME NEW s \in Session, ReadResult(s) PROVE TasksType'
  <2>1. /\ Head(in[s]) \in Call /\ hand' = [hand EXCEPT ![s] = Head(in[s])]
        /\ stream' = [stream EXCEPT ![s] = "complete"] /\ cut' = cut
    BY <1>2 DEF ReadResult, StreamTo
  <2> QED BY <2>1 DEF TasksType, StreamSteps
<1>3. ASSUME NEW s \in Session,
             \/ ReadHello(s) \/ Register(s) \/ ReadBeat(s) \/ Complete(s) \/ RefuseFrame(s)
             \/ Reply(s) \/ StreamEnds(s) \/ Unregister(s) \/ Connect(s)
      PROVE  TasksType'
  <2>1. UNCHANGED cut /\ hand' \in {hand, [hand EXCEPT ![s] = NoCall]}
    BY <1>3 DEF ReadHello, Register, ReadBeat, Complete, RefuseFrame, Reply, StreamEnds,
                Unregister, Connect
  <2>2. PICK step \in StreamSteps \ {"complete"} : stream' = [stream EXCEPT ![s] = step]
    BY <1>3 DEF ReadHello, Register, ReadBeat, Complete, RefuseFrame, Reply, StreamEnds,
                Unregister, Connect, StreamTo, StreamSteps
  <2> QED BY <1>1, <2>1, <2>2
<1>4. ASSUME UNCHANGED <<stream, hand>>, cut' \subseteq Session PROVE TasksType'
  BY <1>4 DEF TasksType
<1>5. ASSUME NEW s \in Session, Break(s) PROVE TasksType'
  BY <1>4, <1>5 DEF Break, TasksType
<1>6. ASSUME Die \/ ReadFirst \/ ReadFrame \/ Work \/ Pulse \/ Answer PROVE TasksType'
  <2>1. dev.session \in Session /\ cut \subseteq Session
    BY <1>6, OnStream DEF Die, ReadFirst, ReadFrame, Work, Pulse, Answer, TasksType
  <2>2. UNCHANGED <<stream, hand>> /\ cut' \in {cut, cut \cup {dev.session}}
    BY <1>6 DEF Die, ReadFirst, ReadFrame, Work, Pulse, Answer, HangUp, streams
  <2> QED BY <1>4, <2>1, <2>2
<1>7. ASSUME NEW c \in Call, Begin(c) \/ Proceed(c) \/ Expire(c)
      PROVE  UNCHANGED <<stream, hand, cut>>
  BY <1>7 DEF Begin, Proceed, Insert, Send, TakeResult, SlotGone, Timeout, Remove, Expire, streams
<1>8. UNCHANGED vars => UNCHANGED <<stream, hand, cut>>
  BY DEF vars, streams
<1> QED BY <1>2, <1>3, <1>5, <1>6, <1>7, <1>8, TypeKept DEF Next, Serve, Rest

LEMMA QueuesTypeStep == TypeOK /\ [Next]_vars => QueuesType'
<1> SUFFICES ASSUME CallsType, TasksType, QueuesType, DeviceType, TypeOK, [Next]_vars PROVE QueuesType'
  BY TypeParts
<1>1. out \in [Session -> Seq(Frame)] /\ in \in [Session -> Seq(Frame)]
  BY DEF QueuesType
<1>3. ASSUME NEW c \in Call, Send(c) PROVE QueuesType'
  <2>1. c \in Frame /\ session[c] \in Session
    BY <1>3 DEF Frame, Send, CallsType
  <2>2. in' = in /\ (out' = out \/ out' = Put(out, session[c], c))
    BY <1>3 DEF Send, Put
  <2>3. out' \in [Session -> Seq(Frame)]
    BY <1>1, <2>1, <2>2, QueueType
  <2> QED BY <2>2, <2>3 DEF QueuesType
<1>4. ASSUME NEW s \in Session,
             ReadHello(s) \/ ReadResult(s) \/ ReadBeat(s) \/ RefuseFrame(s) \/ Connect(s)
      PROVE  QueuesType'
  <2>1. Hello \in Frame
    BY DEF Frame
  <2>2. CASE Connect(s)
    <3>1. out' = out /\ in' = Opened(in, s, Hello)
      BY <2>2 DEF Connect, Opened
    <3>2. in' \in [Session -> Seq(Frame)]
      BY <1>1, <2>1, <3>1, QueueType
    <3> QED BY <3>1, <3>2 DEF QueuesType
  <2>3. CASE ReadHello(s) \/ ReadResult(s) \/ ReadBeat(s) \/ RefuseFrame(s)
    <3>1. out' = out /\ in[s] # << >> /\ in' = Taken(in, s)
      BY <2>3 DEF ReadHello, ReadResult, ReadBeat, RefuseFrame, Taken
    <3>2. in' \in [Session -> Seq(Frame)]
      BY <1>1, <2>1, <3>1, QueueType
    <3> QED BY <3>1, <3>2 DEF QueuesType
  <2> QED BY <1>4, <2>2, <2>3
<1>5. ASSUME NEW s \in Session, Reply(s) PROVE QueuesType'
  <2>1. PICK f \in {Ack, Refusal} : out' = out \/ out' = Put(out, s, f)
    BY <1>5 DEF Reply, Put
  <2>2. f \in Frame /\ in' = in
    BY <1>5 DEF Reply, Frame
  <2>3. Put(out, s, f) \in [Session -> Seq(Frame)]
    BY <1>1, <2>2, QueueType
  <2> QED BY <1>1, <2>1, <2>2, <2>3 DEF QueuesType
<1>6. ASSUME ReadFirst \/ ReadFrame PROVE QueuesType'
  <2>1. /\ dev.session \in Session /\ Ack \in Frame /\ in' = in
        /\ out[dev.session] # << >> /\ out' = Taken(out, dev.session)
    BY <1>6, OnStream DEF ReadFirst, ReadFrame, Incoming, Frame, Taken
  <2>2. out' \in [Session -> Seq(Frame)]
    BY <1>1, <2>1, QueueType
  <2> QED BY <2>1, <2>2 DEF QueuesType
<1>7. ASSUME Answer PROVE QueuesType'
  <2>1. dev.session \in Session /\ dev.job \in Frame
    BY <1>7, OnStream DEF Answer, DeviceType, Frame
  <2>2. out' = out /\ (in' = in \/ in' = Put(in, dev.session, dev.job))
    BY <1>7 DEF Answer, Put
  <2>3. in' \in [Session -> Seq(Frame)]
    BY <1>1, <2>1, <2>2, QueueType
  <2> QED BY <2>2, <2>3 DEF QueuesType
<1>8. ASSUME NEW c \in Call,
             \/ Begin(c) \/ Insert(c) \/ TakeResult(c) \/ SlotGone(c) \/ Timeout(c)
             \/ Remove(c) \/ Expire(c)
      PROVE  UNCHANGED <<out, in>>
  BY <1>8 DEF Begin, Insert, TakeResult, SlotGone, Timeout, Remove, Expire, streams
<1>9. ASSUME NEW s \in Session, Register(s) \/ Complete(s) \/ StreamEnds(s) \/ Unregister(s) \/ Break(s)
      PROVE  UNCHANGED <<out, in>>
  BY <1>9 DEF Register, Complete, StreamEnds, Unregister, Break
<1>10. Die \/ Work \/ Pulse \/ UNCHANGED vars => UNCHANGED <<out, in>>
  BY DEF Die, Work, Pulse, vars, streams
<1> QED BY <1>3, <1>4, <1>5, <1>6, <1>7, <1>8, <1>9, <1>10, TypeKept DEF Next, Proceed, Serve, Rest

LEMMA DeviceTypeStep == TypeOK /\ [Next]_vars => DeviceType'
<1> SUFFICES ASSUME DeviceType, [Next]_vars PROVE DeviceType'
  BY TypeParts
<1> USE ConstantsAssumption
<1>1. ASSUME UNCHANGED <<ran, beats>>,
             \/ dev' = dev \/ dev' = Offline
             \/ \E s \in Session : dev' = [session |-> s, at |-> "greet", job |-> NoCall]
             \/ dev.at \notin {"down", "work", "answer"} /\ dev' = [dev EXCEPT !.at = "serve"]
             \/ dev.at # "down" /\ dev' = [dev EXCEPT !.at = "serve", !.job = NoCall]
             \/ dev.at # "down" /\ \E f \in Call : dev' = [dev EXCEPT !.at = "work", !.job = f]
      PROVE  DeviceType'
  <2>1. CASE dev' = dev
    BY <1>1, <2>1 DEF DeviceType
  <2>2. CASE dev' = Offline
    BY <1>1, <2>2 DEF DeviceType, Offline
  <2>3. ASSUME NEW s \in Session, dev' = [session |-> s, at |-> "greet", job |-> NoCall]
        PROVE  DeviceType'
    BY <1>1, <2>3 DEF DeviceType
  <2>4. CASE dev.at \notin {"down", "work", "answer"} /\ dev' = [dev EXCEPT !.at = "serve"]
    BY <1>1, <2>4 DEF DeviceType
  <2>5. CASE dev.at # "down" /\ dev' = [dev EXCEPT !.at = "serve", !.job = NoCall]
    BY <1>1, <2>5 DEF DeviceType
  <2>6. ASSUME NEW f \in Call, dev.at # "down", dev' = [dev EXCEPT !.at = "work", !.job = f]
        PROVE  DeviceType'
    BY <1>1, <2>6 DEF DeviceType
  <2> QED BY <1>1, <2>1, <2>2, <2>3, <2>4, <2>5, <2>6
<1>2. ASSUME NEW s \in Session, Connect(s) PROVE DeviceType'
  BY <1>1, <1>2 DEF Connect
<1>3. ASSUME Die \/ ReadFirst \/ Answer PROVE DeviceType'
  BY <1>1, <1>3 DEF Die, ReadFirst, Answer, HangUp
<1>4. ASSUME ReadFrame PROVE DeviceType'
  <2>1. UNCHANGED <<ran, beats>> /\ dev.at = "serve"
    BY <1>4 DEF ReadFrame
  <2>2. \/ dev' = dev \/ dev' = Offline
        \/ \E f \in Call : dev' = [dev EXCEPT !.at = "work", !.job = f]
    BY <1>4 DEF ReadFrame, HangUp
  <2> QED BY <1>1, <2>1, <2>2
<1>5. ASSUME Pulse PROVE DeviceType'
  <2>1. /\ dev.at = "serve" /\ dev' = [dev EXCEPT !.at = "answer", !.job = Beat]
        /\ beats' = beats + 1 /\ ran' = ran
    BY <1>5 DEF Pulse
  <2>2. Beat # NoCall /\ beats \in Nat
    BY DEF DeviceType
  <2>3. beats' \in Nat
    BY <2>1, <2>2
  <2> QED BY <2>1, <2>2, <2>3 DEF DeviceType
<1>6. ASSUME Work PROVE DeviceType'
  <2>1. dev.job \in Call /\ ran' = [ran EXCEPT ![dev.job] = @ + 1] /\ beats' = beats
    BY <1>6 DEF DeviceType, Work
  <2>2. ran' \in [Call -> Nat]
    <3>1. ran \in [Call -> Nat]
      BY DEF DeviceType
    <3>2. dev.job \in Call
      BY <2>1
    <3>3. ran[dev.job] \in Nat
      BY <3>1, <3>2, Zenon
    <3>4. ran[dev.job] + 1 \in Nat
      BY <3>3
    <3> QED BY <2>1, <3>1, <3>4
  <2>3. dev' = [dev EXCEPT !.at = "answer"] \/ dev' = Offline
    BY <1>6 DEF Work, HangUp
  <2> QED BY <1>6, <2>1, <2>2, <2>3 DEF DeviceType, Offline, Work
<1>7. ASSUME NEW c \in Call, Begin(c) \/ Proceed(c) \/ Expire(c) PROVE UNCHANGED device
  BY <1>7 DEF Begin, Proceed, Insert, Send, TakeResult, SlotGone, Timeout, Remove, Expire
<1>8. ASSUME NEW s \in Session, Serve(s) \/ Break(s) PROVE UNCHANGED device
  BY <1>8 DEF Serve, ReadHello, Register, ReadResult, ReadBeat, Complete, RefuseFrame, Reply,
              StreamEnds, Unregister, Break
<1>9. UNCHANGED vars => UNCHANGED device
  BY DEF vars
<1> QED BY <1>2, <1>3, <1>4, <1>5, <1>6, <1>7, <1>8, <1>9, TypeKept DEF Next, Rest

LEMMA TypeStep == TypeOK /\ [Next]_vars => TypeOK'
BY HubTypeStep, CallsTypeStep, TasksTypeStep, QueuesTypeStep, DeviceTypeStep, TypePartsNext

-----------------------------------------------------------------------------
(* Where a frame and its result are.                                       *)

InHand(c) == \E s \in Session : stream[s] = "complete" /\ hand[s] = c
Given(c) == \E b \in Call : got[b] = c
Busy(step, c) == dev.at = step /\ dev.job = c
FrameOnWay(c) == Has(out, c) \/ Busy("work", c)
ResultOnWay(c) == Busy("answer", c) \/ Has(in, c) \/ InHand(c) \/ Given(c)
\* The call has sent its frame, or could have.
Left(c) == /\ at[c] \in {"wait", "remove", "done"}
           /\ result[c] \notin {"expired", "duplicate", "too_many"}

\* A frame, and then its result, is at one place.
OnePlace ==
    /\ Once(out) /\ Once(in)
    /\ \A s, t \in Session : stream[s] = "complete" /\ stream[t] = "complete" /\ hand[s] = hand[t] => s = t
    /\ \A b, c \in Call : got[b] = got[c] /\ got[b] # NoCall => b = c
    /\ \A c \in Call :
          /\ ~(Has(out, c) /\ Busy("work", c))
          /\ ~(Busy("answer", c) /\ (Has(in, c) \/ InHand(c) \/ Given(c)))
          /\ ~(Has(in, c) /\ (InHand(c) \/ Given(c)))
          /\ ~(InHand(c) /\ Given(c))

\* A frame that is on the way has not been run, a result has, and neither is there before
\* its call has come to the channel.
RunsMatch ==
    \A c \in Call :
        /\ ran[c] <= 1
        /\ FrameOnWay(c) => ran[c] = 0
        /\ ResultOnWay(c) => ran[c] = 1
        /\ FrameOnWay(c) \/ ran[c] = 1 => Left(c)
        /\ at[c] \in {"idle", "insert", "send", "wait"} => result[c] = "none"

PlaceInv == TypeOK /\ OnePlace /\ RunsMatch

\* What a step of a caller that puts nothing into a channel leaves alone.
Elsewhere == UNCHANGED <<got, stream, hand, out, in, dev, ran>>

\* A caller goes on; what it has sent stays sent.
LEMMA CallerStep ==
    ASSUME PlaceInv, TypeOK', Elsewhere,
           \A c \in Call : Left(c) => Left(c)',
           \A c \in Call : at[c]' \in {"idle", "insert", "send", "wait"} => result[c]' = "none"
    PROVE  (OnePlace /\ RunsMatch)'
BY DEF PlaceInv, Elsewhere, OnePlace, RunsMatch, FrameOnWay, ResultOnWay, Busy, InHand, Given, Has, Once

LEMMA CallsKeepPlaces ==
    ASSUME PlaceInv, TypeOK', NEW c \in Call,
           Begin(c) \/ Insert(c) \/ TakeResult(c) \/ SlotGone(c) \/ Timeout(c) \/ Remove(c) \/ Expire(c)
    PROVE  (OnePlace /\ RunsMatch)'
<1> USE DEF hub, calls, streams, device
<1>1. Elsewhere
  BY DEF Elsewhere, Begin, Insert, TakeResult, SlotGone, Timeout, Remove, Expire
<1>2. \A b \in Call : at[b] \in {"idle", "insert", "send", "wait"} => result[b] = "none"
  BY DEF PlaceInv, RunsMatch
<1>3. at \in [Call -> Steps] /\ result \in [Call -> {"none", "expired", "offline", "duplicate",
                                                   "too_many", "timeout", "answered"}]
  BY DEF PlaceInv, TypeOK, Steps
<1>4. \A b \in Call \ {c} : at'[b] = at[b] /\ result'[b] = result[b]
  <2>1. at' = at \/ \E step \in Steps : at' = [at EXCEPT ![c] = step]
    BY DEF Begin, Insert, TakeResult, SlotGone, Timeout, Remove, Expire, Goto, Finish, Steps
  <2>2. result' = result \/ \E r : result' = [result EXCEPT ![c] = r]
    BY DEF Begin, Insert, TakeResult, SlotGone, Timeout, Remove, Expire, Finish
  <2> QED BY <1>3, <2>1, <2>2
<1>5. (Left(c) => Left(c)') /\ (at'[c] \in {"idle", "insert", "send", "wait"} => result'[c] = "none")
  <2>1. CASE Begin(c) \/ Insert(c)
    <3>1. /\ at[c] \in {"idle", "insert"}
          /\ at'[c] \in {"idle", "insert", "send", "wait"} => result' = result
      BY <1>3, <2>1 DEF Begin, Insert, Goto, Finish
    <3> QED BY <1>2, <3>1 DEF Left
  <2>2. CASE TakeResult(c) \/ SlotGone(c) \/ Timeout(c)
    <3>1. at'[c] \in {"remove", "done"} /\ result'[c] \in {"answered", "offline", "timeout"}
      BY <1>3, <2>2 DEF TakeResult, SlotGone, Timeout, Goto, Finish
    <3> QED BY <3>1 DEF Left
  <2>3. CASE Remove(c)
    <3>1. at'[c] = "done" /\ result' = result
      BY <1>3, <2>3 DEF Remove, Goto
    <3> QED BY <3>1 DEF Left
  <2>4. CASE Expire(c)
    <3>1. at' = at /\ result' = result
      BY <2>4 DEF Expire
    <3> QED BY <1>2, <3>1 DEF Left
  <2> QED BY <2>1, <2>2, <2>3, <2>4
<1>6. \A b \in Call : Left(b) => Left(b)'
  BY <1>4, <1>5 DEF Left
<1>7. \A b \in Call : at[b]' \in {"idle", "insert", "send", "wait"} => result[b]' = "none"
  BY <1>2, <1>4, <1>5
<1> QED BY <1>1, <1>6, <1>7, CallerStep

\* The frame of a call that comes to the channel is nowhere yet.
LEMMA SendKeepsPlaces ==
    ASSUME PlaceInv, TypeOK', NEW c \in Call, Send(c)
    PROVE  (OnePlace /\ RunsMatch)'
<1> DEFINE s == session[c]
<1>1. at[c] = "send" /\ result[c] = "none" /\ s \in Session /\ c \in Frame /\ ~Left(c)
  BY DEF PlaceInv, TypeOK, RunsMatch, Send, Left, Frame
<1>2. ~FrameOnWay(c) /\ ran[c] = 0 /\ ~ResultOnWay(c)
  <2>1. ran[c] \in Nat
    BY DEF PlaceInv, TypeOK
  <2>2. ran[c] <= 1 /\ ran[c] # 1 /\ ~FrameOnWay(c)
    BY <1>1 DEF PlaceInv, RunsMatch
  <2>3. ran[c] = 0
    BY <2>1, <2>2
  <2> QED BY <2>2, <2>3 DEF PlaceInv, RunsMatch
<1>5. out \in [Session -> Seq(Frame)] /\ Once(out)
  BY DEF PlaceInv, TypeOK, OnePlace
<1>6. at \in [Call -> Steps] /\ result \in [Call -> {"none", "expired", "offline", "duplicate",
                                                   "too_many", "timeout", "answered"}]
      /\ \A b \in Call : at[b] \in {"idle", "insert", "send", "wait"} => result[b] = "none"
  BY DEF PlaceInv, TypeOK, RunsMatch, Steps
<1>3. CASE out' = Put(out, s, c) /\ Goto(c, "wait") /\ UNCHANGED result
  <2>1. Once(out') /\ \A b \in Call : Has(out', b) <=> Has(out, b) \/ b = c
    <3>1. ~Has(out, c)
      BY <1>2 DEF FrameOnWay
    <3> QED BY <1>1, <1>5, <1>3, <3>1, PutIn
  <2>2. UNCHANGED <<got, stream, hand, in, dev, ran>>
    BY DEF Send, device
  <2>3. /\ Left(c)'
        /\ \A b \in Call : Left(b) => Left(b)'
        /\ \A b \in Call : at[b]' \in {"idle", "insert", "send", "wait"} => result[b]' = "none"
    <3>1. at'[c] = "wait" /\ \A b \in Call \ {c} : at'[b] = at[b]
      BY <1>3, <1>6 DEF Goto
    <3> QED BY <1>1, <1>3, <1>6, <3>1 DEF Left
  <2>4. \A b \in Call : /\ Busy("work", b)' = Busy("work", b) /\ Busy("answer", b)' = Busy("answer", b)
                        /\ InHand(b)' = InHand(b) /\ Given(b)' = Given(b) /\ Has(in, b)' = Has(in, b)
    BY <2>2 DEF Busy, InHand, Given, Has
  <2>5. OnePlace'
    BY <1>2, <2>1, <2>2, <2>4 DEF PlaceInv, OnePlace, FrameOnWay, Once
  <2>6. RunsMatch'
    BY <1>2, <2>1, <2>2, <2>3, <2>4 DEF PlaceInv, RunsMatch, FrameOnWay, ResultOnWay
  <2> QED BY <2>5, <2>6
<1>4. CASE Goto(c, "remove") /\ result' = [result EXCEPT ![c] = "offline"] /\ UNCHANGED out
  <2>1. Elsewhere
    BY <1>4 DEF Elsewhere, Send, device
  <2>2. /\ \A b \in Call : Left(b) => Left(b)'
        /\ \A b \in Call : at[b]' \in {"idle", "insert", "send", "wait"} => result[b]' = "none"
    <3>1. at'[c] = "remove" /\ \A b \in Call \ {c} : at'[b] = at[b] /\ result'[b] = result[b]
      BY <1>4, <1>6 DEF Goto
    <3> QED BY <1>1, <1>6, <3>1 DEF Left
  <2> QED BY <2>1, <2>2, CallerStep
<1> QED BY <1>3, <1>4 DEF Send, Put

\* A step that brings no frame or result anywhere, but may lose some.
LEMMA LessStep ==
    ASSUME PlaceInv, UNCHANGED <<at, result, got, ran, hand>>,
           Once(out)', Once(in)',
           \A c \in Call : Has(out, c)' => Has(out, c),
           \A c \in Call : Has(in, c)' => Has(in, c),
           \A c \in Call : Busy("work", c)' => Busy("work", c),
           \A c \in Call : Busy("answer", c)' => Busy("answer", c),
           \A s \in Session : stream[s]' = "complete" => stream[s] = "complete"
    PROVE  (OnePlace /\ RunsMatch)'
<1>1. \A c \in Call : (InHand(c)' => InHand(c)) /\ Given(c)' = Given(c) /\ Left(c)' = Left(c)
  BY DEF InHand, Given, Left
<1>2. OnePlace'
  BY <1>1 DEF PlaceInv, OnePlace
<1>3. RunsMatch'
  BY <1>1 DEF PlaceInv, RunsMatch, FrameOnWay, ResultOnWay
<1> QED BY <1>2, <1>3

\* The server's tasks, results apart: they take frames out and put acks in.
LEMMA TasksKeepPlaces ==
    ASSUME PlaceInv, TypeOK', NEW s \in Session,
           \/ ReadHello(s) \/ Register(s) \/ ReadBeat(s) \/ RefuseFrame(s) \/ Reply(s)
           \/ StreamEnds(s) \/ Unregister(s) \/ Break(s) \/ Connect(s)
    PROVE  (OnePlace /\ RunsMatch)'
<1> USE DEF hub, calls, streams, device
<1>1. /\ in \in [Session -> Seq(Frame)] /\ out \in [Session -> Seq(Frame)]
      /\ stream \in [Session -> {"new", "read", "register", "complete", "ack", "refuse",
                                 "unregister", "ended"}]
      /\ Once(in) /\ Once(out)
      /\ {Hello, Ack, Refusal} \subseteq Frame /\ {Hello, Ack, Refusal} \cap Call = {}
  BY ConstantsAssumption DEF PlaceInv, TypeOK, OnePlace, Frame
<1>2. UNCHANGED <<at, result, got, ran, hand>>
  BY DEF ReadHello, Register, ReadBeat, RefuseFrame, Reply, StreamEnds, Unregister, Break, Connect
<1>3. \A t \in Session : stream[t]' = "complete" => stream[t] = "complete"
  BY <1>1 DEF ReadHello, Register, ReadBeat, RefuseFrame, Reply, StreamEnds, Unregister, Break, Connect, StreamTo
<1>4. Once(out)' /\ \A c \in Call : Has(out, c)' => Has(out, c)
  <2>1. CASE out' = out
    BY <1>1, <2>1 DEF Has, Once
  <2>2. CASE out' # out
    <3>1. PICK f \in {Ack, Refusal} : out' = Put(out, s, f)
      BY <2>2 DEF ReadHello, Register, ReadBeat, RefuseFrame, Reply, StreamEnds, Unregister, Break, Connect, Put
    <3>2. f \in Frame /\ f \notin Call
      BY <1>1
    <3>3. Once(out') /\ \A c \in Call : Has(out', c) <=> Has(out, c) \/ c = f
      BY <1>1, <3>1, <3>2, PutIn
    <3> QED BY <3>2, <3>3 DEF Once, Has
  <2> QED BY <2>1, <2>2
<1>5. Once(in)' /\ \A c \in Call : Has(in, c)' => Has(in, c)
  <2>1. CASE in' = in
    BY <1>1, <2>1 DEF Has, Once
  <2>2. CASE in[s] # << >> /\ in' = Taken(in, s)
    <3>1. Once(in') /\ \A c \in Call : Has(in', c) => Has(in, c)
      BY <1>1, <2>2, TakeOut
    <3> QED BY <3>1 DEF Once, Has
  <2>3. CASE in' = Opened(in, s, Hello)
    <3>1. Once(in') /\ \A c \in Call : Has(in', c) => Has(in, c)
      BY <1>1, <2>3, OpenWith
    <3> QED BY <3>1 DEF Once, Has
  <2> QED BY <2>1, <2>2, <2>3
          DEF ReadHello, Register, ReadBeat, RefuseFrame, Reply, StreamEnds, Unregister, Break, Connect,
              Taken, Opened
<1>6. \A c \in Call : ~Busy("work", c)' \/ Busy("work", c)
  BY DEF Busy, ReadHello, Register, ReadBeat, RefuseFrame, Reply, StreamEnds, Unregister, Break, Connect
<1>7. \A c \in Call : ~Busy("answer", c)' \/ Busy("answer", c)
  BY DEF Busy, ReadHello, Register, ReadBeat, RefuseFrame, Reply, StreamEnds, Unregister, Break, Connect
<1> QED BY <1>2, <1>3, <1>4, <1>5, <1>6, <1>7, LessStep

\* A result goes from the channel to the task.
LEMMA ReadResultKeepsPlaces ==
    ASSUME PlaceInv, TypeOK', NEW s \in Session, ReadResult(s)
    PROVE  (OnePlace /\ RunsMatch)'
<1> DEFINE c == Head(in[s])
<1>1. /\ in \in [Session -> Seq(Frame)] /\ Once(in) /\ in[s] # << >> /\ c \in Call
      /\ in' = [in EXCEPT ![s] = Tail(@)] /\ stream[s] = "read"
      /\ stream' = [stream EXCEPT ![s] = "complete"] /\ hand' = [hand EXCEPT ![s] = c]
      /\ stream \in [Session -> {"new", "read", "register", "complete", "ack", "refuse",
                                 "unregister", "ended"}]
      /\ hand \in [Session -> Call \cup {NoCall}]
  BY DEF PlaceInv, TypeOK, OnePlace, ReadResult, StreamTo
<1>2. UNCHANGED <<at, result, got, ran, out, dev>>
  BY DEF ReadResult, calls, device
<1>3. Once(in') /\ Has(in, c) /\ \A b \in Call : Has(in', b) <=> Has(in, b) /\ b # c
  <2>1. in' = Taken(in, s)
    BY <1>1 DEF Taken
  <2>2. \A b \in Call : Has(Taken(in, s), b) <=> Has(in, b) /\ b # c
    BY <1>1, TakeOut
  <2>3. Once(Taken(in, s)) /\ Has(in, c)
    BY <1>1, TakeOut
  <2> QED BY <2>1, <2>2, <2>3
<1>4. \A b \in Call : InHand(b)' <=> InHand(b) \/ b = c
  BY <1>1 DEF InHand
<1>5. ~Busy("answer", c) /\ ~InHand(c) /\ ~Given(c) /\ ran[c] = 1
  BY <1>1, <1>3 DEF PlaceInv, OnePlace, RunsMatch, ResultOnWay
<1>6. \A b \in Call : /\ Busy("work", b)' = Busy("work", b) /\ Busy("answer", b)' = Busy("answer", b)
                      /\ Given(b)' = Given(b) /\ Has(out, b)' = Has(out, b)
                      /\ Left(b)' = Left(b)
  BY <1>2 DEF Busy, Given, Has, Left
<1>7. \A t, u \in Session : stream'[t] = "complete" /\ stream'[u] = "complete" /\ hand'[t] = hand'[u] => t = u
  <2>1. \A t \in Session : stream[t] = "complete" => hand[t] # c
    BY <1>5 DEF InHand
  <2> QED BY <1>1, <2>1 DEF PlaceInv, OnePlace
<1>8. OnePlace'
  <2>1. Once(in)' /\ Once(out)'
    BY <1>2, <1>3 DEF PlaceInv, OnePlace, Once
  <2>2. \A b \in Call : Has(in, b)' <=> Has(in, b) /\ b # c
    BY <1>3 DEF Has
  <2> QED BY <1>2, <1>4, <1>5, <1>6, <1>7, <2>1, <2>2 DEF PlaceInv, OnePlace
<1>9. RunsMatch'
  <2>1. \A b \in Call : ResultOnWay(b)' => ResultOnWay(b)
    BY <1>3, <1>4, <1>6 DEF ResultOnWay, Has
  <2> QED BY <1>2, <1>6, <2>1 DEF PlaceInv, RunsMatch, FrameOnWay
<1> QED BY <1>8, <1>9

\* A result is handed to the call that has the slot, or is dropped.
LEMMA CompleteKeepsPlaces ==
    ASSUME PlaceInv, TypeOK', NEW s \in Session, Complete(s)
    PROVE  (OnePlace /\ RunsMatch)'
<1> DEFINE r == hand[s]
           c == pending[IdOf[r]]
<1>1. /\ stream[s] = "complete" /\ r \in Call /\ NoCall \notin Call /\ c \in Call \cup {NoCall}
      /\ hand' = [hand EXCEPT ![s] = NoCall] /\ stream' = [stream EXCEPT ![s] = "ack"]
      /\ got' = got \/ (c \in Call /\ got' = [got EXCEPT ![c] = r])
      /\ stream \in [Session -> {"new", "read", "register", "complete", "ack", "refuse",
                                 "unregister", "ended"}]
      /\ hand \in [Session -> Call \cup {NoCall}] /\ got \in [Call -> Call \cup {NoCall}]
  BY ConstantsAssumption DEF PlaceInv, TypeOK, Complete, StreamTo
<1>2. UNCHANGED <<at, result, ran, out, in, dev>>
  BY DEF Complete, device
<1>3. InHand(r)
  BY <1>1 DEF InHand
<1>4. ~Busy("answer", r) /\ ~Has(in, r) /\ ~Given(r) /\ ran[r] = 1
  BY <1>1, <1>3 DEF PlaceInv, OnePlace, RunsMatch, ResultOnWay
<1>5. \A b \in Call : InHand(b)' <=> InHand(b) /\ b # r
  BY <1>1 DEF InHand, PlaceInv, OnePlace
<1>6. \A b \in Call : Given(b)' => Given(b) \/ b = r
  BY <1>1 DEF Given
<1>7. \A a, b \in Call : got'[a] = got'[b] /\ got'[a] # NoCall => a = b
  BY <1>1, <1>4 DEF Given, PlaceInv, OnePlace
<1>8. \A b \in Call : /\ Busy("work", b)' = Busy("work", b) /\ Busy("answer", b)' = Busy("answer", b)
                      /\ Has(in, b)' = Has(in, b) /\ Has(out, b)' = Has(out, b)
                      /\ Left(b)' = Left(b)
  BY <1>2 DEF Busy, Has, Left
<1>9. \A t, u \in Session : stream'[t] = "complete" /\ stream'[u] = "complete" /\ hand'[t] = hand'[u] => t = u
  BY <1>1 DEF PlaceInv, OnePlace
<1>10. OnePlace'
  <2>1. Once(in)' /\ Once(out)'
    BY <1>2 DEF PlaceInv, OnePlace, Once
  <2> QED BY <1>4, <1>5, <1>6, <1>7, <1>8, <1>9, <2>1 DEF PlaceInv, OnePlace
<1>11. RunsMatch'
  <2>1. \A b \in Call : ResultOnWay(b)' => ResultOnWay(b)
    BY <1>3, <1>5, <1>6, <1>8 DEF ResultOnWay
  <2> QED BY <1>2, <1>8, <2>1 DEF PlaceInv, RunsMatch, FrameOnWay
<1> QED BY <1>10, <1>11

\* The device reads acks and heartbeats come and go; what it loses when its session ends
\* is lost.
LEMMA DeviceKeepsPlaces ==
    ASSUME PlaceInv, TypeOK',
           \/ Die \/ Pulse \/ ReadFirst
           \/ ReadFrame /\ dev'.at # "work"
           \/ Answer /\ dev.job \notin Call
           \/ Answer /\ in' = in
    PROVE  (OnePlace /\ RunsMatch)'
<1> USE DEF hub, calls, streams, device
<1>1. /\ in \in [Session -> Seq(Frame)] /\ out \in [Session -> Seq(Frame)]
      /\ Once(in) /\ Once(out) /\ dev.session \in Session /\ NoCall \notin Call /\ Beat \notin Call
  BY ConstantsAssumption, OnStream
     DEF PlaceInv, TypeOK, OnePlace, Die, Pulse, ReadFirst, ReadFrame, Answer
<1>2. UNCHANGED <<at, result, got, ran, hand, stream>>
  BY DEF Die, Pulse, ReadFirst, ReadFrame, Answer
<1>3. Once(out)' /\ \A c \in Call : Has(out, c)' => Has(out, c)
  <2>1. CASE out' = out
    BY <1>1, <2>1 DEF Has, Once
  <2>2. CASE out' = Taken(out, dev.session) /\ out[dev.session] # << >>
    <3>1. Once(out') /\ \A c \in Call : Has(out', c) => Has(out, c)
      BY <1>1, <2>2, TakeOut
    <3> QED BY <3>1 DEF Once, Has
  <2> QED BY <2>1, <2>2 DEF Die, Pulse, ReadFirst, ReadFrame, Answer, Incoming, Taken
<1>4. Once(in)' /\ \A c \in Call : Has(in, c)' => Has(in, c)
  <2>1. CASE in' = in
    BY <1>1, <2>1 DEF Has, Once
  <2>2. CASE in' # in
    <3>1. in' = Put(in, dev.session, dev.job) /\ dev.job \in Frame \ Call
      BY <2>2 DEF PlaceInv, TypeOK, Frame, Die, Pulse, ReadFirst, ReadFrame, Answer, Put
    <3>2. Once(in') /\ \A c \in Call : Has(in', c) => Has(in, c)
      BY <1>1, <3>1, PutIn
    <3> QED BY <3>2 DEF Once, Has
  <2> QED BY <2>1, <2>2
<1>5. \A c \in Call : (Busy("work", c)' => Busy("work", c)) /\ (Busy("answer", c)' => Busy("answer", c))
  <2>1. \/ dev' = dev \/ dev' = Offline \/ dev' = [dev EXCEPT !.at = "serve"]
        \/ dev' = [dev EXCEPT !.at = "serve", !.job = NoCall]
        \/ dev' = [dev EXCEPT !.at = "answer", !.job = Beat]
    <3>1. CASE Die \/ ReadFirst \/ Answer
      BY <3>1 DEF Die, ReadFirst, Answer, HangUp
    <3>2. CASE Pulse
      BY <3>2 DEF Pulse
    <3>3. CASE ReadFrame /\ dev'.at # "work"
      <4>1. dev' = dev \/ dev' = Offline \/ \E f \in Call : dev' = [dev EXCEPT !.at = "work", !.job = f]
        BY <3>3 DEF ReadFrame, HangUp
      <4>2. \A f : [dev EXCEPT !.at = "work", !.job = f].at = "work"
        BY DEF PlaceInv, TypeOK
      <4> QED BY <3>3, <4>1, <4>2
    <3> QED BY <3>1, <3>2, <3>3
  <2>2. dev' # dev => dev'.at \notin {"work", "answer"} \/ dev'.job \notin Call
    <3>1. dev \in [session : Session \cup {NoSession},
                   at : {"down", "greet", "serve", "work", "answer"},
                   job : Call \cup {Beat, NoCall}]
      BY DEF PlaceInv, TypeOK
    <3>2. CASE dev' = Offline
      BY <3>2 DEF Offline
    <3>3. CASE dev' = [dev EXCEPT !.at = "serve"]
      BY <3>1, <3>3
    <3>4. CASE dev' = [dev EXCEPT !.at = "serve", !.job = NoCall]
      BY <3>1, <3>4
    <3>5. CASE dev' = [dev EXCEPT !.at = "answer", !.job = Beat]
      <4>1. dev'.job = Beat
        BY <3>1, <3>5
      <4> QED BY <1>1, <4>1
    <3> QED BY <2>1, <3>2, <3>3, <3>4, <3>5
  <2> QED BY <2>2 DEF Busy
<1> QED BY <1>2, <1>3, <1>4, <1>5, LessStep

\* A frame comes to the dispatcher: it was in the channel and is there no more.
LEMMA ReadFrameKeepsPlaces ==
    ASSUME PlaceInv, TypeOK', ReadFrame, dev'.at = "work"
    PROVE  (OnePlace /\ RunsMatch)'
<1> DEFINE s == dev.session
           c == Head(out[s])
<1>1. /\ s \in Session /\ out \in [Session -> Seq(Frame)] /\ Once(out) /\ out[s] # << >>
      /\ out' = [out EXCEPT ![s] = Tail(@)] /\ dev.at = "serve"
  BY OnStream DEF PlaceInv, TypeOK, OnePlace, ReadFrame, Incoming
<1>2. c \in Call /\ dev' = [dev EXCEPT !.at = "work", !.job = c] /\ dev'.job = c
  <2>1. \/ dev' = dev \/ dev' = Offline
        \/ c \in Call /\ dev' = [dev EXCEPT !.at = "work", !.job = c]
    BY DEF ReadFrame, Incoming, HangUp
  <2>2. dev' # dev /\ dev' # Offline
    BY <1>1 DEF Offline
  <2>3. [dev EXCEPT !.at = "work", !.job = c].job = c
    BY DEF PlaceInv, TypeOK
  <2> QED BY <2>1, <2>2, <2>3
<1>3. UNCHANGED <<at, result, got, ran, hand, stream, in>>
  BY DEF ReadFrame, calls
<1>4. Once(out') /\ Has(out, c) /\ \A b \in Call : Has(out', b) <=> Has(out, b) /\ b # c
  <2>1. out' = Taken(out, s)
    BY <1>1 DEF Taken
  <2>2. out[s] # << >> /\ c \in Call /\ s \in Session /\ out \in [Session -> Seq(Frame)] /\ Once(out)
    BY <1>1, <1>2
  <2> QED BY <2>1, <2>2, TakeOut
<1>5. \A b \in Call : /\ Busy("work", b)' <=> b = c
                      /\ ~Busy("work", b) /\ ~Busy("answer", b) /\ ~Busy("answer", b)'
                      /\ Has(in, b)' = Has(in, b) /\ InHand(b)' = InHand(b) /\ Given(b)' = Given(b)
                      /\ Left(b)' = Left(b)
  BY <1>1, <1>2, <1>3 DEF Busy, Has, InHand, Given, Left
<1>6. OnePlace'
  <2>1. Once(in)' /\ Once(out)' /\ \A b \in Call : Has(out, b)' <=> Has(out, b) /\ b # c
    BY <1>3, <1>4 DEF PlaceInv, OnePlace, Once, Has
  <2> QED BY <1>3, <1>5, <2>1 DEF PlaceInv, OnePlace
<1>7. RunsMatch'
  <2>1. \A b \in Call : (FrameOnWay(b)' => FrameOnWay(b)) /\ (ResultOnWay(b)' => ResultOnWay(b))
    BY <1>4, <1>5 DEF FrameOnWay, ResultOnWay, Has
  <2> QED BY <1>3, <1>5, <2>1 DEF PlaceInv, RunsMatch
<1> QED BY <1>6, <1>7

\* A frame is run: it was on the way, so not before.
LEMMA WorkKeepsPlaces ==
    ASSUME PlaceInv, TypeOK', Work
    PROVE  (OnePlace /\ RunsMatch)'
<1> DEFINE c == dev.job
<1>1. c \in Call /\ Busy("work", c) /\ dev.at = "work" /\ FrameOnWay(c)
  BY DEF PlaceInv, TypeOK, Work, Busy, FrameOnWay
<1>2. ran[c] = 0 /\ Left(c) /\ ~ResultOnWay(c) /\ ~Has(out, c)
  BY <1>1 DEF PlaceInv, OnePlace, RunsMatch
<1>3. UNCHANGED <<at, result, got, hand, stream, in, out>> /\ ran' = [ran EXCEPT ![c] = 1]
  BY <1>2 DEF Work, calls
<1>4. dev' = [dev EXCEPT !.at = "answer"] \/ dev'.at = "down"
  BY DEF PlaceInv, TypeOK, Work, HangUp, Offline
<1>5. \A b \in Call : /\ ~Busy("work", b)' /\ (Busy("answer", b)' => b = c)
                      /\ Has(in, b)' = Has(in, b) /\ Has(out, b)' = Has(out, b)
                      /\ InHand(b)' = InHand(b) /\ Given(b)' = Given(b)
                      /\ Left(b)' = Left(b)
  BY <1>1, <1>3, <1>4 DEF PlaceInv, TypeOK, Busy, Has, InHand, Given, Left
<1>6. OnePlace'
  <2>1. Once(in)' /\ Once(out)'
    BY <1>3 DEF PlaceInv, OnePlace, Once
  <2> QED BY <1>2, <1>3, <1>5, <2>1 DEF PlaceInv, OnePlace, ResultOnWay
<1>7. RunsMatch'
  <2>1. \A b \in Call : ran'[b] = IF b = c THEN 1 ELSE ran[b]
    BY <1>3 DEF PlaceInv, TypeOK
  <2> QED BY <1>2, <1>3, <1>5, <2>1 DEF PlaceInv, RunsMatch, FrameOnWay, ResultOnWay
<1> QED BY <1>6, <1>7

\* A result goes into the channel.
LEMMA AnswerKeepsPlaces ==
    ASSUME PlaceInv, TypeOK', Answer, dev.job \in Call, in' # in
    PROVE  (OnePlace /\ RunsMatch)'
<1> DEFINE s == dev.session
           c == dev.job
<1>1. /\ s \in Session /\ in \in [Session -> Seq(Frame)] /\ Once(in) /\ c \in Frame
      /\ Busy("answer", c) /\ in' = [in EXCEPT ![s] = Append(@, c)]
      /\ dev' = [dev EXCEPT !.at = "serve", !.job = NoCall] /\ dev'.at = "serve"
  <2>1. /\ dev.at = "answer" /\ in' = [in EXCEPT ![s] = Append(@, c)]
        /\ dev' = [dev EXCEPT !.at = "serve", !.job = NoCall]
    BY DEF Answer
  <2>2. s \in Session
    BY <2>1, OnStream DEF PlaceInv
  <2>3. in \in [Session -> Seq(Frame)] /\ Once(in) /\ c \in Frame
    BY DEF PlaceInv, TypeOK, OnePlace, Frame
  <2>4. dev'.at = "serve"
    BY <2>1 DEF PlaceInv, TypeOK
  <2>5. Busy("answer", c)
    BY <2>1 DEF Busy
  <2> QED BY <2>1, <2>2, <2>3, <2>4, <2>5
<1>2. UNCHANGED <<at, result, got, hand, stream, out, ran>>
  BY DEF Answer, calls
<1>3. ~Has(in, c) /\ ~InHand(c) /\ ~Given(c) /\ ran[c] = 1
  BY <1>1 DEF PlaceInv, OnePlace, RunsMatch, ResultOnWay
<1>4. Once(in') /\ \A b \in Call : Has(in', b) <=> Has(in, b) \/ b = c
  <2>1. in' = Put(in, s, c)
    BY <1>1 DEF Put
  <2>2. s \in Session /\ c \in Frame /\ in \in [Session -> Seq(Frame)] /\ Once(in) /\ ~Has(in, c)
    BY <1>1, <1>3
  <2> QED BY <2>1, <2>2, PutIn
<1>5. \A b \in Call : /\ ~Busy("work", b)' /\ ~Busy("answer", b)'
                      /\ Has(out, b)' = Has(out, b)
                      /\ InHand(b)' = InHand(b) /\ Given(b)' = Given(b)
                      /\ Left(b)' = Left(b)
  BY <1>1, <1>2 DEF Busy, Has, InHand, Given, Left
<1>6. OnePlace'
  <2>1. Once(in)' /\ Once(out)' /\ \A b \in Call : Has(in, b)' <=> Has(in, b) \/ b = c
    BY <1>2, <1>4 DEF PlaceInv, OnePlace, Once, Has
  <2> QED BY <1>2, <1>3, <1>5, <2>1 DEF PlaceInv, OnePlace
<1>7. RunsMatch'
  <2>1. \A b \in Call : (FrameOnWay(b)' => FrameOnWay(b)) /\ (ResultOnWay(b)' => ResultOnWay(b))
    BY <1>1, <1>4, <1>5 DEF FrameOnWay, ResultOnWay, Has
  <2> QED BY <1>2, <1>5, <2>1 DEF PlaceInv, RunsMatch
<1> QED BY <1>6, <1>7

LEMMA PlaceStep == PlaceInv /\ [Next]_vars => PlaceInv'
<1> SUFFICES ASSUME PlaceInv, [Next]_vars PROVE PlaceInv'
  OBVIOUS
<1>1. TypeOK'
  BY TypeStep DEF PlaceInv
<1>2. ASSUME NEW c \in Call, Begin(c) \/ Proceed(c) \/ Expire(c) PROVE (OnePlace /\ RunsMatch)'
  BY <1>1, <1>2, CallsKeepPlaces, SendKeepsPlaces DEF Proceed
<1>3. ASSUME NEW s \in Session, Serve(s) \/ Break(s) \/ Connect(s) PROVE (OnePlace /\ RunsMatch)'
  BY <1>1, <1>3, TasksKeepPlaces, ReadResultKeepsPlaces, CompleteKeepsPlaces DEF Serve
<1>4. ASSUME Die \/ ReadFirst \/ ReadFrame \/ Work \/ Pulse \/ Answer
      PROVE  (OnePlace /\ RunsMatch)'
  <2>1. CASE Die \/ ReadFirst \/ Pulse
    BY <1>1, <2>1, DeviceKeepsPlaces
  <2>2. CASE ReadFrame
    BY <1>1, <2>2, DeviceKeepsPlaces, ReadFrameKeepsPlaces
  <2>3. CASE Work
    BY <1>1, <2>3, WorkKeepsPlaces
  <2>4. CASE Answer
    BY <1>1, <2>4, DeviceKeepsPlaces, AnswerKeepsPlaces
  <2> QED BY <1>4, <2>1, <2>2, <2>3, <2>4
<1>5. CASE UNCHANGED vars
  <2>1. Elsewhere /\ UNCHANGED <<at, result>>
    BY <1>5 DEF Elsewhere, vars, calls, streams, device
  <2>2. \A c \in Call : Left(c)' = Left(c)
    BY <2>1 DEF Left
  <2> QED BY <1>1, <2>1, <2>2, CallerStep DEF PlaceInv, RunsMatch
<1> QED BY <1>1, <1>2, <1>3, <1>4, <1>5 DEF Next, Rest, PlaceInv
-----------------------------------------------------------------------------
(* Slots.                                                                  *)

\* A slot is its call's own, and a call that has been given a result has none.
Owned ==
    /\ \A i \in Id : pending[i] # NoCall =>
          IdOf[pending[i]] = i /\ at[pending[i]] \in {"send", "wait", "remove"}
    /\ \A c \in Call : got[c] # NoCall =>
          /\ IdOf[got[c]] = IdOf[c]
          /\ pending[IdOf[c]] # c
          /\ at[c] \notin {"idle", "insert"}

\* A step that touches neither slots nor calls.
LEMMA OwnedApart ==
    ASSUME Owned, UNCHANGED <<pending, at, got>> PROVE Owned'
BY DEF Owned

\* A call that waits, and goes on without its slot being touched.
LEMMA OwnedCaller ==
    ASSUME TypeOK, Owned, NEW c \in Call, NEW step, Goto(c, step), UNCHANGED <<pending, got>>,
           step \notin {"idle", "insert"},
           step \in {"send", "wait", "remove"} \/ pending[IdOf[c]] # c
    PROVE  Owned'
<1>1. at' = [at EXCEPT ![c] = step] /\ at \in [Call -> {"idle", "insert", "send", "wait", "remove", "done"}]
      /\ pending \in [Id -> Call \cup {NoCall}]
  BY DEF TypeOK, Goto
<1>2. ASSUME NEW i \in Id, pending[i] # NoCall
      PROVE  IdOf[pending[i]] = i /\ at'[pending[i]] \in {"send", "wait", "remove"}
  BY <1>1, <1>2 DEF Owned
<1>3. \A b \in Call : at[b] \notin {"idle", "insert"} => at'[b] \notin {"idle", "insert"}
  BY <1>1
<1> QED BY <1>1, <1>2, <1>3 DEF Owned

LEMMA OwnedStep == TypeOK /\ Owned /\ [Next]_vars => Owned'
<1> SUFFICES ASSUME TypeOK, Owned, [Next]_vars PROVE Owned'
  OBVIOUS
<1> USE DEF hub, calls, streams, device
<1>1. /\ pending \in [Id -> Call \cup {NoCall}] /\ got \in [Call -> Call \cup {NoCall}]
      /\ at \in [Call -> {"idle", "insert", "send", "wait", "remove", "done"}]
      /\ IdOf \in [Call -> Id] /\ NoCall \notin Call
  BY ConstantsAssumption DEF TypeOK
<1>2. ASSUME NEW c \in Call, Begin(c) PROVE Owned'
  <2>1. pending[IdOf[c]] # c /\ got[c] = NoCall
    BY <1>1, <1>2 DEF Owned, Begin
  <2>2. PICK step \in {"insert", "done"} : at' = [at EXCEPT ![c] = step]
    BY <1>2 DEF Begin, Goto, Finish
  <2>3. UNCHANGED <<pending, got>>
    BY <1>2 DEF Begin
  <2>4. \A i \in Id : pending[i] # NoCall => pending[i] # c
    BY <1>1, <2>1 DEF Owned
  <2>5. \A b \in Call \ {c} : at'[b] = at[b]
    BY <1>1, <2>2
  <2>6. \A i \in Id : pending[i] # NoCall => pending[i] \in Call \ {c}
    BY <1>1, <2>4
  <2>7. \A b \in Call : got[b] # NoCall => b \in Call \ {c}
    BY <2>1
  <2> QED BY <2>3, <2>5, <2>6, <2>7 DEF Owned
<1>3. ASSUME NEW c \in Call, Insert(c) PROVE Owned'
  <2>1. pending[IdOf[c]] # c /\ got[c] = NoCall /\ at[c] = "insert" /\ got' = got
    BY <1>1, <1>3 DEF Owned, Insert
  <2>2. CASE pending' = pending /\ Goto(c, "done")
    BY <2>1, <2>2, OwnedCaller
  <2>3. CASE /\ pending' = [pending EXCEPT ![IdOf[c]] = c]
             /\ at' = [at EXCEPT ![c] = "send"]
    <3>1. \A i \in Id : pending'[i] # NoCall =>
             IdOf[pending'[i]] = i /\ at'[pending'[i]] \in {"send", "wait", "remove"}
      BY <1>1, <2>1, <2>3 DEF Owned
    <3>2. \A b \in Call : got[b] # NoCall => pending'[IdOf[b]] # b /\ at'[b] \notin {"idle", "insert"}
      BY <1>1, <2>1, <2>3 DEF Owned
    <3> QED BY <2>1, <3>1, <3>2 DEF Owned
  <2> QED BY <1>3, <2>2, <2>3 DEF Insert, Finish, Goto
<1>4. ASSUME NEW c \in Call, Send(c) \/ SlotGone(c) \/ Timeout(c) PROVE Owned'
  <2>1. PICK step \in {"wait", "remove"} : Goto(c, step)
    BY <1>4 DEF Send, SlotGone, Timeout
  <2>2. UNCHANGED <<pending, got>>
    BY <1>4 DEF Send, SlotGone, Timeout
  <2> QED BY <2>1, <2>2, OwnedCaller
<1>5. ASSUME NEW c \in Call, TakeResult(c) PROVE Owned'
  <2>1. pending[IdOf[c]] # c /\ Goto(c, "done") /\ UNCHANGED <<pending, got>>
    BY <1>5 DEF Owned, TakeResult, Finish
  <2> QED BY <2>1, OwnedCaller
<1>6. ASSUME NEW c \in Call, Remove(c) PROVE Owned'
  <2>1. /\ pending' = [pending EXCEPT ![IdOf[c]] = NoCall] /\ at' = [at EXCEPT ![c] = "done"]
        /\ got' = got
    BY <1>6 DEF Remove, Goto
  <2>2. \A i \in Id : pending'[i] # NoCall =>
           pending'[i] = pending[i] /\ pending[i] # c
    BY <1>1, <2>1 DEF Owned
  <2> QED BY <1>1, <2>1, <2>2 DEF Owned
<1>7. ASSUME NEW s \in Session, Complete(s) PROVE Owned'
  <2> DEFINE r == hand[s]
             c == pending[IdOf[r]]
  <2>1. /\ r \in Call /\ pending' = [pending EXCEPT ![IdOf[r]] = NoCall] /\ at' = at
        /\ \/ got' = got
           \/ c \in Call /\ at[c] \in {"send", "wait"} /\ got' = [got EXCEPT ![c] = r]
    BY <1>1, <1>7 DEF TypeOK, Complete
  <2>2. \A i \in Id : pending'[i] # NoCall => pending'[i] = pending[i]
    BY <1>1, <2>1
  <2>3. c \in Call => IdOf[c] = IdOf[r]
    BY <1>1, <2>1 DEF Owned
  <2>4. \A b \in Call : pending'[IdOf[b]] = b => pending[IdOf[b]] = b
    BY <1>1, <2>1
  <2>5. c \in Call => pending'[IdOf[c]] # c
    BY <1>1, <2>1, <2>3
  <2> QED BY <1>1, <2>1, <2>2, <2>3, <2>4, <2>5 DEF Owned
<1>8. ASSUME NEW s \in Session,
             \/ ReadHello(s) \/ Register(s) \/ ReadResult(s) \/ ReadBeat(s) \/ RefuseFrame(s)
             \/ Reply(s) \/ StreamEnds(s) \/ Unregister(s) \/ Break(s) \/ Connect(s)
      PROVE  Owned'
  <2>1. UNCHANGED <<pending, at, got>>
    BY <1>8 DEF ReadHello, Register, ReadResult, ReadBeat, RefuseFrame, Reply, StreamEnds,
                Unregister, Break, Connect
  <2> QED BY <2>1, OwnedApart
<1>9. CASE \/ Die \/ ReadFirst \/ ReadFrame \/ Work \/ Pulse \/ Answer \/ UNCHANGED vars
           \/ \E c \in Call : Expire(c)
  <2>1. UNCHANGED <<pending, at, got>>
    BY <1>9 DEF Die, ReadFirst, ReadFrame, Work, Pulse, Answer, Expire, vars
  <2> QED BY <2>1, OwnedApart
<1> QED BY <1>2, <1>3, <1>4, <1>5, <1>6, <1>7, <1>8, <1>9 DEF Next, Proceed, Serve, Rest

\* The cap is looked at when a slot is taken, and nothing else takes one.
LEMMA CapStep ==
    ASSUME TypeOK, Cardinality(InFlight) <= Cap, [Next]_vars
    PROVE  Cardinality(InFlight)' <= Cap
<1> USE DEF hub, calls, streams, device
<1>1. IsFiniteSet(Id) /\ Cap \in Nat /\ pending \in [Id -> Call \cup {NoCall}] /\ InFlight \subseteq Id
      /\ IdOf \in [Call -> Id]
  BY ConstantsAssumption DEF TypeOK, InFlight
<1>2. IsFiniteSet(InFlight) /\ Cardinality(InFlight) \in Nat
  BY <1>1, FS_Subset, FS_CardinalityType
<1>3. CASE InFlight' \subseteq InFlight
  <2>1. Cardinality(InFlight') <= Cardinality(InFlight) /\ Cardinality(InFlight') \in Nat
    BY <1>2, <1>3, FS_Subset, FS_CardinalityType
  <2> QED BY <1>1, <1>2, <2>1
<1>4. ASSUME NEW c \in Call, Insert(c), pending' # pending PROVE Cardinality(InFlight)' <= Cap
  <2>1. pending' = [pending EXCEPT ![IdOf[c]] = c] /\ Cardinality(InFlight) < Cap
    BY <1>4 DEF Insert
  <2>2. InFlight' \subseteq InFlight \cup {IdOf[c]}
    BY <1>1, <2>1 DEF InFlight
  <2>3. IsFiniteSet(InFlight \cup {IdOf[c]}) /\ Cardinality(InFlight \cup {IdOf[c]}) <= Cardinality(InFlight) + 1
        /\ Cardinality(InFlight \cup {IdOf[c]}) \in Nat
    <3>1. IsFiniteSet(InFlight \cup {IdOf[c]})
      BY <1>2, FS_AddElement
    <3>2. Cardinality(InFlight \cup {IdOf[c]}) =
              IF IdOf[c] \in InFlight THEN Cardinality(InFlight) ELSE Cardinality(InFlight) + 1
      BY <1>2, FS_AddElement
    <3> QED BY <1>2, <3>1, <3>2
  <2>4. Cardinality(InFlight') <= Cardinality(InFlight \cup {IdOf[c]}) /\ Cardinality(InFlight') \in Nat
    BY <2>2, <2>3, FS_Subset, FS_CardinalityType
  <2> QED BY <1>1, <1>2, <2>1, <2>3, <2>4
<1>5. pending' = pending => InFlight' \subseteq InFlight
  BY DEF InFlight
<1>6. ASSUME NEW c \in Call, Remove(c) PROVE InFlight' \subseteq InFlight
  BY <1>1, <1>6 DEF InFlight, Remove
<1>7. ASSUME NEW s \in Session, Complete(s) PROVE InFlight' \subseteq InFlight
  BY <1>1, <1>7 DEF InFlight, Complete
<1>8. ASSUME NEW c \in Call, Begin(c) \/ Send(c) \/ TakeResult(c) \/ SlotGone(c) \/ Timeout(c) \/ Expire(c)
      PROVE  pending' = pending
  BY <1>8 DEF Begin, Send, TakeResult, SlotGone, Timeout, Expire
<1>9. ASSUME NEW s \in Session,
             \/ ReadHello(s) \/ Register(s) \/ ReadResult(s) \/ ReadBeat(s) \/ RefuseFrame(s)
             \/ Reply(s) \/ StreamEnds(s) \/ Unregister(s) \/ Break(s) \/ Connect(s)
      PROVE  pending' = pending
  BY <1>9 DEF ReadHello, Register, ReadResult, ReadBeat, RefuseFrame, Reply, StreamEnds,
              Unregister, Break, Connect
<1>10. Die \/ ReadFirst \/ ReadFrame \/ Work \/ Pulse \/ Answer \/ UNCHANGED vars => pending' = pending
  BY DEF Die, ReadFirst, ReadFrame, Work, Pulse, Answer, vars
<1> QED BY <1>3, <1>4, <1>5, <1>6, <1>7, <1>8, <1>9, <1>10 DEF Next, Proceed, Serve, Rest

-----------------------------------------------------------------------------
\* The inductive invariant: where frames and results are, whose the slots are, how many.
HubInv == PlaceInv /\ Owned /\ Cardinality(InFlight) <= Cap

LEMMA HubInit == Init => HubInv
<1> SUFFICES ASSUME Init PROVE HubInv
  OBVIOUS
<1>1. TypeOK
  BY ConstantsAssumption DEF Init, TypeOK, Offline
<1>2. \A c \in Call : ~Has(out, c) /\ ~Has(in, c) /\ ~InHand(c) /\ ~Given(c) /\ ~Left(c)
  BY ConstantsAssumption DEF Init, Has, InHand, Given, Left
<1>3. OnePlace
  BY <1>2 DEF Init, OnePlace, Once
<1>4. RunsMatch
  BY <1>2 DEF Init, RunsMatch, FrameOnWay, ResultOnWay, Busy, Offline
<1>5. Owned
  BY DEF Init, Owned
<1>6. InFlight = {}
  BY DEF Init, InFlight
<1> QED BY <1>1, <1>3, <1>4, <1>5, <1>6, FS_EmptySet, ConstantsAssumption DEF HubInv, PlaceInv

LEMMA HubStep == HubInv /\ [Next]_vars => HubInv'
<1> SUFFICES ASSUME HubInv, [Next]_vars PROVE HubInv'
  OBVIOUS
<1>1. PlaceInv'
  BY PlaceStep DEF HubInv
<1>2. Owned'
  BY OwnedStep DEF HubInv, PlaceInv
<1>3. Cardinality(InFlight)' <= Cap
  BY CapStep DEF HubInv, PlaceInv
<1> QED BY <1>1, <1>2, <1>3 DEF HubInv

\* The hub's maps, the callers, the tasks, the channels and the device keep their types,
\* however the link breaks and comes back.
THEOREM TypeCorrect == Spec => []TypeOK
<1>1. Init => TypeOK
  BY HubInit DEF HubInv, PlaceInv
<1> QED BY <1>1, TypeStep, PTL DEF Spec

\* What the inductive invariant says of callers.
LEMMA InvKeepsApart == HubInv => CallsKeepApart
<1> SUFFICES ASSUME HubInv PROVE CallsKeepApart
  OBVIOUS
<1>1. AnswerFits
  <2> SUFFICES ASSUME NEW c \in Call, got[c] # NoCall
               PROVE  /\ IdOf[got[c]] = IdOf[c] /\ ran[got[c]] = 1
                      /\ \A b \in Call \ {c} : got[b] # got[c]
    BY DEF AnswerFits
  <2>1. got[c] \in Call /\ Given(got[c])
    BY DEF HubInv, PlaceInv, TypeOK, Given
  <2> QED BY <2>1 DEF HubInv, PlaceInv, OnePlace, RunsMatch, ResultOnWay, Owned
<1>2. NothingIsReplayed
  <2> SUFFICES ASSUME NEW c \in Call
               PROVE  ran[c] <= 1 /\ (result[c] \in {"expired", "duplicate", "too_many"} => ran[c] = 0)
    BY DEF NothingIsReplayed
  <2>1. ran[c] \in Nat /\ ran[c] <= 1 /\ (ran[c] = 1 => Left(c))
    BY DEF HubInv, PlaceInv, TypeOK, RunsMatch
  <2> QED BY <2>1 DEF Left
<1>3. SlotsAreLive
  BY DEF HubInv, Owned, SlotsAreLive
<1> QED BY <1>1, <1>2, <1>3 DEF CallsKeepApart

\* Calls are kept apart on any link: a caller is handed the one result that was computed
\* from a frame with its request id, no frame is run twice, and the slots are live and no
\* more than the cap (send_and_wait, complete_result, the device loop).
THEOREM KeptApart == Spec => []CallsKeepApart
<1>1. Spec => []HubInv
  BY HubInit, HubStep, PTL DEF Spec
<1> QED BY <1>1, InvKeepsApart, PTL

-----------------------------------------------------------------------------
\* A step of anything but the tasks and a new stream.
LEMMA ServedApart == ASSUME RegisteredIsServed, UNCHANGED <<devices, stream>> PROVE RegisteredIsServed'
BY DEF RegisteredIsServed

LEMMA ServedStep == TypeOK /\ RegisteredIsServed /\ [Next]_vars => RegisteredIsServed'
<1> SUFFICES ASSUME TypeOK, RegisteredIsServed, [Next]_vars PROVE RegisteredIsServed'
  OBVIOUS
<1> USE DEF hub, calls, streams, device
<1>1. /\ devices \in Session \cup {NoSession} /\ NoSession \notin Session
      /\ stream \in [Session -> {"new", "read", "register", "complete", "ack", "refuse",
                                 "unregister", "ended"}]
  BY ConstantsAssumption DEF TypeOK
<1>2. ASSUME NEW s \in Session, Serve(s) \/ Connect(s) PROVE RegisteredIsServed'
  BY <1>1, <1>2 DEF RegisteredIsServed, Serve, ReadHello, Register, ReadResult, ReadBeat, Complete,
                    RefuseFrame, Reply, StreamEnds, Unregister, Connect, StreamTo
<1>3. ASSUME \/ \E c \in Call : Begin(c) \/ Proceed(c) \/ Expire(c)
             \/ \E s \in Session : Break(s)
             \/ Die \/ ReadFirst \/ ReadFrame \/ Work \/ Pulse \/ Answer \/ UNCHANGED vars
      PROVE  UNCHANGED <<devices, stream>>
  BY <1>3 DEF Begin, Proceed, Insert, Send, TakeResult, SlotGone, Timeout, Remove, Expire, Break, Die,
              ReadFirst, ReadFrame, Work, Pulse, Answer, vars
<1> QED BY <1>2, <1>3, ServedApart DEF Next, Rest

\* The session that the hub has registered has a task that has not ended, so it will be
\* taken out of the map (PrivateLinkHub::register and unregister).
THEOREM SessionIsServed == Spec => []RegisteredIsServed
<1>1. Init => RegisteredIsServed
  BY DEF Init, RegisteredIsServed
<1>2. Init => TypeOK
  BY HubInit DEF HubInv, PlaceInv
<1> QED BY <1>1, <1>2, TypeStep, ServedStep, PTL DEF Spec
=============================================================================
