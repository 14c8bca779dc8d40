--------------------------- MODULE RelayServiceProofs ---------------------------
(***************************************************************************)
(* What lies between a tool of the gateway and the device, for any number  *)
(* of calls, sessions, devices and frames and channels of any size: the    *)
(* replay window, the router, the relay's link, and the messages that are  *)
(* signed and sealed.                                                      *)
(***************************************************************************)
EXTENDS RelayService, FiniteSetTheorems, SequenceTheorems, WellFoundedInduction, TLAPS

-----------------------------------------------------------------------------
(* The replay window.                                                      *)

\* The entries and the frames that are alive at time t.
AliveAt(entries, t) == {e \in entries : e.expiry > t}
Ids(frames) == {Entry(f, f.id) : f \in frames}
Marks(frames) == {Entry(f, f.nonce) : f \in frames}

\* An entry lives as long as its frame.
LEMMA EntriesAreFrames ==
    ASSUME NEW t \in Nat, NEW F \in SUBSET Frames
    PROVE  /\ AliveAt(Ids(F), t) = Ids(AliveAt(F, t))
           /\ AliveAt(Marks(F), t) = Marks(AliveAt(F, t))
BY DEF AliveAt, Ids, Marks, Entry, Frames

\* Pruning keeps what is alive later on.
LEMMA PruneKeeps ==
    ASSUME NEW E, NEW t \in Nat, NEW u \in Nat, t <= u, \A e \in E : e.expiry \in Nat
    PROVE  AliveAt(AliveAt(E, t), u) = AliveAt(E, u)
BY DEF AliveAt

-----------------------------------------------------------------------------
\* The window is well-formed, whatever frames come when.
LEMMA WindowTypeStep ==
    WindowTypeOK /\ [WindowNext]_windowVars => WindowTypeOK'
<1> SUFFICES ASSUME WindowTypeOK, [WindowNext]_windowVars PROVE WindowTypeOK'
  OBVIOUS
<1> USE WindowAssumption DEF WindowTypeOK
<1>1. ASSUME NEW f \in Frames, Accept(f) PROVE WindowTypeOK'
  <2>1. /\ Entry(f, f.id) \in [device : Devices, key : MessageIds, expiry : Expiries]
        /\ Entry(f, f.nonce) \in [device : Devices, key : Nonces, expiry : Expiries]
    BY DEF Entry, Frames
  <2> QED BY <1>1, <2>1 DEF Accept, Prune
<1>2. CASE Tick
  BY <1>2 DEF Tick, window
<1>3. CASE UNCHANGED windowVars
  BY <1>3 DEF windowVars, window
<1> QED BY <1>1, <1>2, <1>3 DEF WindowNext, WindowRest

\* What the window holds of what is alive is exact, and nothing is taken twice: a frame
\* that was taken and is alive has its entry, so that it is not fresh.
LEMMA WindowStep ==
    WindowTypeOK /\ NoReplay /\ [WindowNext]_windowVars => NoReplay'
<1> SUFFICES ASSUME WindowTypeOK, NoReplay, [WindowNext]_windowVars PROVE NoReplay'
  OBVIOUS
<1> DEFINE alive == AliveAt(accepted, now)
<1>0. /\ now \in Nat /\ accepted \subseteq Frames
      /\ \A e \in messages \cup nonces \cup accepted : e.expiry \in Nat
      /\ Prune(messages) = Ids(alive) /\ Prune(nonces) = Marks(alive)
  BY WindowAssumption DEF WindowTypeOK, NoReplay, WindowIsExact, Ids, Marks, AliveAt, Frames
<1>1. ASSUME NEW f \in Frames, Accept(f) PROVE NoReplay'
  <2> DEFINE ms == Prune(messages)
             ns == Prune(nonces)
             taken == /\ ~Has(ms, f, f.id) /\ ~Has(ns, f, f.nonce)
                      /\ Cardinality(ms) < MaxEntries /\ Cardinality(ns) < MaxEntries
  <2>1. f.expiry > now /\ now' = now
    BY <1>1 DEF Accept
  <2>2. /\ AliveAt(ms, now) = ms /\ AliveAt(ns, now) = ns
    BY DEF AliveAt, Prune
  <2>3. CASE taken
    <3>1. /\ messages' = ms \cup {Entry(f, f.id)} /\ nonces' = ns \cup {Entry(f, f.nonce)}
          /\ accepted' = accepted \cup {f}
          /\ replays' = IF f \in accepted THEN replays \cup {f} ELSE replays
      BY <1>1, <2>3 DEF Accept
    <3>2. f \notin accepted
      <4> SUFFICES ASSUME f \in accepted PROVE FALSE
        OBVIOUS
      <4>1. f \in alive
        BY <2>1 DEF AliveAt
      <4>2. Entry(f, f.id) \in ms
        BY <1>0, <4>1 DEF Ids
      <4> QED BY <2>3, <4>2 DEF Has, Entry
    <3>3. NothingTakenTwice'
      BY <3>1, <3>2 DEF NoReplay, NothingTakenTwice
    <3>4. AliveAt(accepted', now) = alive \cup {f}
      BY <2>1, <3>1 DEF AliveAt
    <3>5. /\ Prune(messages)' = Ids(alive \cup {f})
          /\ Prune(nonces)' = Marks(alive \cup {f})
      <4>1. Entry(f, f.id).expiry = f.expiry /\ Entry(f, f.nonce).expiry = f.expiry
        BY DEF Entry
      <4>2. Prune(messages)' = ms \cup {Entry(f, f.id)} /\ Prune(nonces)' = ns \cup {Entry(f, f.nonce)}
        BY <2>1, <2>2, <3>1, <4>1 DEF Prune, AliveAt
      <4> QED BY <1>0, <4>2 DEF Ids, Marks
    <3> QED BY <2>1, <3>3, <3>4, <3>5 DEF NoReplay, WindowIsExact, Ids, Marks, AliveAt
  <2>4. CASE ~taken
    <3>1. messages' = ms /\ nonces' = ns /\ accepted' = accepted /\ replays' = replays
      BY <1>1, <2>4 DEF Accept
    <3>2. Prune(messages)' = ms /\ Prune(nonces)' = ns
      BY <2>1, <2>2, <3>1 DEF Prune, AliveAt
    <3> QED BY <1>0, <2>1, <3>1, <3>2
            DEF NoReplay, NothingTakenTwice, WindowIsExact, Ids, Marks, AliveAt
  <2> QED BY <2>3, <2>4
<1>2. CASE Tick
  <2>1. now' = now + 1 /\ now' \in Nat /\ now <= now' /\ UNCHANGED window
    BY <1>0, <1>2 DEF Tick
  <2>2. /\ AliveAt(messages, now') = AliveAt(Ids(alive), now')
        /\ AliveAt(nonces, now') = AliveAt(Marks(alive), now')
    BY <1>0, <2>1, PruneKeeps DEF Prune, AliveAt
  <2>3. alive \subseteq Frames
    BY <1>0 DEF AliveAt
  <2>4. AliveAt(alive, now') = AliveAt(accepted, now')
    BY <1>0, <2>1, PruneKeeps
  <2>5. /\ AliveAt(messages, now') = Ids(AliveAt(accepted, now'))
        /\ AliveAt(nonces, now') = Marks(AliveAt(accepted, now'))
    BY <2>1, <2>2, <2>3, <2>4, EntriesAreFrames
  <2> QED BY <2>1, <2>5
          DEF NoReplay, NothingTakenTwice, WindowIsExact, Prune, AliveAt, Ids, Marks, window
<1>3. CASE UNCHANGED windowVars
  BY <1>3 DEF windowVars, window, NoReplay, NothingTakenTwice, WindowIsExact, Prune
<1> QED BY <1>1, <1>2, <1>3 DEF WindowNext, WindowRest

\* The window's records are well-formed (ReplayGuard).
THEOREM WindowTypeCorrect == WindowSpec => []WindowTypeOK
<1>1. WindowInit => WindowTypeOK
  BY DEF WindowInit, WindowTypeOK
<1> QED BY <1>1, WindowTypeStep, PTL DEF WindowSpec

\* No frame is taken twice by ReplayGuard, of any size, although it forgets what has
\* expired; and it has no room taken by anything that could not be replayed.
THEOREM NothingIsTakenTwice == WindowSpec => []NoReplay
<1>1. WindowInit => NoReplay
  BY DEF WindowInit, NoReplay, NothingTakenTwice, WindowIsExact, Prune
<1> QED BY <1>1, WindowStep, WindowTypeCorrect, PTL DEF WindowSpec

-----------------------------------------------------------------------------
(* The router.                                                             *)

Steps == {"idle", "look_private", "look_relay", "private", "relay", "wait", "done"}
Results == {"none", "offline", "duplicate", "answered", "failed"}

RouterTypeOK ==
    /\ hubs \subseteq Links
    /\ registered \in [Links -> Nat]
    /\ opened \in Nat
    /\ routed \in [Calls -> [at : Steps, result : Results, always : SUBSET Links, ever : SUBSET Links]]
    /\ slots \in [Links -> Calls \cup {Nobody}]
    /\ wire \in [Links -> SUBSET Calls]

\* The link has something of the call.
Over(c, l) == c \in wire[l] \/ <<c, l>> \in runs \/ slots[l] = c

\* A call is on no link before its hub has dispatched it, and then on that one alone; it
\* holds a slot exactly while it waits.
OnOneLink ==
    \A c \in Calls :
        /\ routed[c].at \notin {"wait", "done"} => \A l \in Links : ~Over(c, l)
        /\ routed[c].at # "done" => routed[c].result = "none"
        /\ routed[c].result \in {"offline", "duplicate"} => \A l \in Links : ~Over(c, l)
        /\ \A l, m \in Links : Over(c, l) /\ Over(c, m) => l = m
        /\ \A l \in Links : slots[l] = c => routed[c].at = "wait"

\* What a call has watched, and what it has seen of the private link.
Watching ==
    \A c \in Calls :
        /\ routed[c].at \notin {"idle", "done"} => routed[c].always \subseteq On /\ On \subseteq routed[c].ever
        /\ routed[c].at \in {"look_relay", "relay"} => "private" \notin routed[c].always
        /\ routed[c].at = "private" => "private" \in routed[c].ever

RouterInv == RouterTypeOK /\ OnOneLink /\ Watching /\ OfflineIsOff

-----------------------------------------------------------------------------
(* One call's record changes.                                              *)

\* A call that goes on: what it has watched stays.
LEMMA GotoIs ==
    ASSUME RouterTypeOK, NEW c \in Calls, NEW step \in Steps, MoveTo(c, step)
    PROVE  /\ routed' \in [Calls -> [at : Steps, result : Results, always : SUBSET Links, ever : SUBSET Links]]
           /\ routed'[c].at = step /\ routed'[c].result = routed[c].result
           /\ routed'[c].always = routed[c].always /\ routed'[c].ever = routed[c].ever
           /\ \A b \in Calls \ {c} : routed'[b] = routed[b]
BY DEF RouterTypeOK, MoveTo

LEMMA ReturnIs ==
    ASSUME RouterTypeOK, NEW c \in Calls, NEW r \in Results, Return(c, r)
    PROVE  /\ routed' \in [Calls -> [at : Steps, result : Results, always : SUBSET Links, ever : SUBSET Links]]
           /\ routed'[c].at = "done" /\ routed'[c].result = r
           /\ routed'[c].always = routed[c].always /\ routed'[c].ever = routed[c].ever
           /\ \A b \in Calls \ {c} : routed'[b] = routed[b]
BY DEF RouterTypeOK, Return, Steps

\* Every call sees what is registered links.
LEMMA WatchIs ==
    ASSUME RouterTypeOK, NEW links \in SUBSET Links, Watch(links)
    PROVE  /\ routed' \in [Calls -> [at : Steps, result : Results, always : SUBSET Links, ever : SUBSET Links]]
           /\ \A c \in Calls :
                 /\ routed'[c].at = routed[c].at /\ routed'[c].result = routed[c].result
                 /\ routed[c].at \in {"idle", "done"} => routed'[c] = routed[c]
                 /\ routed[c].at \notin {"idle", "done"} =>
                       /\ routed'[c].always = routed[c].always \cap links
                       /\ routed'[c].ever = routed[c].ever \cup links
<1>1. ASSUME NEW c \in Calls, routed[c].at \in {"idle", "done"} PROVE routed'[c] = routed[c]
  BY <1>1 DEF Watch
<1>2. ASSUME NEW c \in Calls, routed[c].at \notin {"idle", "done"}
      PROVE  /\ routed'[c].at = routed[c].at /\ routed'[c].result = routed[c].result
             /\ routed'[c].always = routed[c].always \cap links
             /\ routed'[c].ever = routed[c].ever \cup links
             /\ routed'[c] \in [at : Steps, result : Results, always : SUBSET Links, ever : SUBSET Links]
  <2>1. routed[c] \in [at : Steps, result : Results, always : SUBSET Links, ever : SUBSET Links]
    BY DEF RouterTypeOK
  <2>2. routed'[c] = [routed[c] EXCEPT !.always = @ \cap links, !.ever = @ \cup links]
    BY <1>2 DEF Watch
  <2> QED BY <2>1, <2>2
<1>3. routed' \in [Calls -> [at : Steps, result : Results, always : SUBSET Links, ever : SUBSET Links]]
  <2>1. DOMAIN routed' = Calls /\ routed' = [c \in Calls |-> routed'[c]]
    BY DEF Watch
  <2>2. \A c \in Calls : routed'[c] \in [at : Steps, result : Results, always : SUBSET Links, ever : SUBSET Links]
    BY <1>1, <1>2 DEF RouterTypeOK
  <2> QED BY <2>1, <2>2
<1> QED BY <1>1, <1>2, <1>3

LEMMA OnIs == RouterTypeOK => On \subseteq Links
BY DEF RouterTypeOK, On

-----------------------------------------------------------------------------
(* Sessions come and go.                                                   *)

\* The links change hands, and every call sees it.
LEMMA SessionStep ==
    ASSUME RouterInv, NEW links \in SUBSET Links, Watch(links), On' = links, UNCHANGED <<slots, runs, hubs>>,
           UNCHANGED wire, registered' \in [Links -> Nat], opened' \in Nat
    PROVE  RouterInv'
<1> USE DEF RouterInv
<1>1. RouterTypeOK'
  BY WatchIs DEF RouterTypeOK
<1>2. \A c \in Calls, l \in Links : Over(c, l)' = Over(c, l)
  BY DEF Over
<1>3. OnOneLink'
  BY <1>2, WatchIs DEF OnOneLink
<1>4. Watching'
  BY WatchIs DEF Watching
<1>5. OfflineIsOff'
  <2>1. \A c \in Calls : routed[c].result = "offline" => routed'[c] = routed[c]
    BY WatchIs DEF OnOneLink
  <2> QED BY <2>1, WatchIs DEF OfflineIsOff
<1> QED BY <1>1, <1>3, <1>4, <1>5

LEMMA SessionsKeepInv ==
    ASSUME RouterInv, NEW l \in Links, Open(l) \/ Lose(l) \/ Notice(l)
    PROVE  RouterInv'
<1>1. /\ registered \in [Links -> Nat] /\ opened \in Nat /\ hubs \subseteq Links /\ On \subseteq Links
  BY OnIs DEF RouterInv, RouterTypeOK
<1>2. CASE Open(l)
  <2>1. opened' = opened + 1 /\ registered' = [registered EXCEPT ![l] = opened'] /\ l \in hubs
        /\ hubs' = hubs /\ UNCHANGED <<slots, runs, wire>> /\ Watch(On \cup {l})
    BY <1>2 DEF Open
  <2>2. opened' \in Nat /\ opened' # 0
    BY <1>1, <2>1
  <2>3. registered' \in [Links -> Nat] /\ On' = On \cup {l}
    BY <1>1, <2>1, <2>2 DEF On
  <2>4. On \cup {l} \in SUBSET Links
    BY <1>1
  <2> QED BY <2>1, <2>2, <2>3, <2>4, SessionStep
<1>3. CASE Notice(l)
  <2>1. registered' = [registered EXCEPT ![l] = 0]
        /\ hubs' = hubs /\ UNCHANGED <<slots, runs, wire, opened>> /\ Watch(On \ {l})
    BY <1>3 DEF Notice
  <2>2. registered' \in [Links -> Nat] /\ On' = On \ {l} /\ opened' \in Nat
    BY <1>1, <2>1 DEF On
  <2>3. On \ {l} \in SUBSET Links
    BY <1>1
  <2> QED BY <2>1, <2>2, <2>3, SessionStep
<1>4. CASE Lose(l)
  <2>1. wire' = [wire EXCEPT ![l] = {}] /\ UNCHANGED <<hubs, registered, opened, routed, slots, runs>>
    BY <1>4 DEF Lose
  <2>2. RouterTypeOK'
    BY <2>1 DEF RouterInv, RouterTypeOK
  <2>3. \A c \in Calls, m \in Links : Over(c, m)' => Over(c, m)
    BY <2>1 DEF Over, RouterInv, RouterTypeOK
  <2>4. \A c \in Calls : routed'[c] = routed[c]
    BY <2>1
  <2>5. OnOneLink'
    BY <2>1, <2>3 DEF RouterInv, OnOneLink
  <2>6. Watching' /\ OfflineIsOff'
    BY <2>1 DEF RouterInv, Watching, OfflineIsOff, On
  <2> QED BY <2>2, <2>5, <2>6 DEF RouterInv
<1> QED BY <1>2, <1>3, <1>4

-----------------------------------------------------------------------------
(* A call looks for its link.                                              *)

LEMMA LooksKeepInv ==
    ASSUME RouterInv, NEW c \in Calls, Arrive(c) \/ LookPrivate(c) \/ LookRelay(c)
    PROVE  RouterInv'
<1> USE DEF RouterInv
<1>1. UNCHANGED <<hubs, held, registered, opened, slots, wire, runs>>
  BY DEF Arrive, LookPrivate, LookRelay
<1>2. /\ \A b \in Calls, l \in Links : Over(b, l)' = Over(b, l)
      /\ On' = On /\ On \subseteq Links
  BY <1>1, OnIs DEF Over, On
<1>3. ASSUME routed' \in [Calls -> [at : Steps, result : Results, always : SUBSET Links, ever : SUBSET Links]],
             \A b \in Calls \ {c} : routed'[b] = routed[b],
             routed[c].at \notin {"wait", "done"},
             routed'[c].at # "wait",
             routed'[c].at # "done" => routed'[c].result = "none",
             routed'[c].at \notin {"idle", "done"} => routed'[c].always \subseteq On /\ On \subseteq routed'[c].ever,
             routed'[c].at \in {"look_relay", "relay"} => "private" \notin routed'[c].always,
             routed'[c].at = "private" => "private" \in routed'[c].ever,
             routed'[c].result = "offline" => "private" \notin routed'[c].always /\ "relay" \notin routed'[c].always
      PROVE  RouterInv'
  <2>1. RouterTypeOK'
    BY <1>1, <1>3 DEF RouterTypeOK
  <2>2. \A l \in Links : ~Over(c, l)
    BY <1>3 DEF OnOneLink
  <2>3. OnOneLink'
    <3>1. ASSUME NEW b \in Calls
          PROVE  /\ routed'[b].at \notin {"wait", "done"} => \A l \in Links : ~Over(b, l)
                 /\ routed'[b].at # "done" => routed'[b].result = "none"
                 /\ routed'[b].result \in {"offline", "duplicate"} => \A l \in Links : ~Over(b, l)
                 /\ \A l, m \in Links : Over(b, l) /\ Over(b, m) => l = m
                 /\ \A l \in Links : slots[l] = b => routed'[b].at = "wait"
      <4>1. CASE b = c
        BY <1>3, <2>2, <4>1 DEF Over
      <4>2. CASE b # c
        BY <1>3, <4>2 DEF OnOneLink
      <4> QED BY <4>1, <4>2
    <3> QED BY <1>1, <1>2, <3>1 DEF OnOneLink
  <2>4. Watching'
    BY <1>2, <1>3 DEF Watching
  <2>5. OfflineIsOff'
    BY <1>3 DEF OfflineIsOff
  <2> QED BY <2>1, <2>3, <2>4, <2>5
<1>4. routed \in [Calls -> [at : Steps, result : Results, always : SUBSET Links, ever : SUBSET Links]]
  BY DEF RouterTypeOK
<1>5. CASE Arrive(c)
  <2> DEFINE rec == [at |-> "look_private", result |-> "none", always |-> On, ever |-> On]
  <2>1. routed' = [routed EXCEPT ![c] = rec] /\ routed[c].at = "idle"
    BY <1>5 DEF Arrive
  <2>2. rec \in [at : Steps, result : Results, always : SUBSET Links, ever : SUBSET Links]
    BY <1>2 DEF Steps, Results
  <2>3. routed'[c] = rec /\ \A b \in Calls \ {c} : routed'[b] = routed[b]
    BY <1>4, <2>1
  <2>4. routed' \in [Calls -> [at : Steps, result : Results, always : SUBSET Links, ever : SUBSET Links]]
    BY <1>4, <2>1, <2>2
  <2> QED BY <1>3, <2>1, <2>3, <2>4
<1>6. CASE LookPrivate(c)
  <2>1. routed[c].at = "look_private" /\ routed[c].result = "none"
        /\ routed[c].always \subseteq On /\ On \subseteq routed[c].ever
    BY <1>6 DEF LookPrivate, OnOneLink, Watching
  <2>2. CASE "private" \in On /\ MoveTo(c, "private")
    BY <1>3, <2>1, <2>2, GotoIs DEF Steps
  <2>3. CASE "private" \notin On /\ MoveTo(c, "look_relay")
    BY <1>3, <2>1, <2>3, GotoIs DEF Steps
  <2> QED BY <1>6, <2>2, <2>3 DEF LookPrivate
<1>7. CASE LookRelay(c)
  <2>1. routed[c].at = "look_relay" /\ routed[c].result = "none" /\ "private" \notin routed[c].always
        /\ routed[c].always \subseteq On /\ On \subseteq routed[c].ever
    BY <1>7 DEF LookRelay, OnOneLink, Watching
  <2>2. CASE "relay" \in On /\ MoveTo(c, "relay")
    BY <1>3, <2>1, <2>2, GotoIs DEF Steps
  <2>3. CASE "relay" \notin On /\ Return(c, "offline")
    BY <1>3, <2>1, <2>3, ReturnIs DEF Results
  <2> QED BY <1>7, <2>2, <2>3 DEF LookRelay
<1> QED BY <1>5, <1>6, <1>7

-----------------------------------------------------------------------------
(* Its hub dispatches it, and it comes back.                               *)

LEMMA OthersKept ==
    ASSUME RouterInv, NEW c \in Calls, UNCHANGED <<hubs, registered, opened>>,
           routed' \in [Calls -> [at : Steps, result : Results, always : SUBSET Links, ever : SUBSET Links]],
           \A b \in Calls \ {c} : routed'[b] = routed[b],
           slots' \in [Links -> Calls \cup {Nobody}], wire' \in [Links -> SUBSET Calls],
           \A b \in Calls \ {c}, l \in Links : Over(b, l)' => Over(b, l),
           \A b \in Calls \ {c}, l \in Links : slots'[l] = b => slots[l] = b,
           routed'[c].at \in {"wait", "done"},
           routed'[c].at = "wait" => routed'[c].result = "none",
           routed'[c].always = routed[c].always, routed'[c].ever = routed[c].ever,
           routed'[c].at = "wait" => routed[c].always \subseteq On /\ On \subseteq routed[c].ever,
           routed'[c].result \in {"offline", "duplicate"} => \A l \in Links : ~Over(c, l)',
           \A l, m \in Links : Over(c, l)' /\ Over(c, m)' => l = m,
           \A l \in Links : slots'[l] = c => routed'[c].at = "wait",
           routed'[c].result = "offline" =>
               /\ "private" \notin routed[c].always
               /\ "relay" \in routed[c].always => "private" \in routed[c].ever
    PROVE  RouterInv'
<1> USE DEF RouterInv
<1>1. RouterTypeOK'
  BY DEF RouterTypeOK
<1>2. ASSUME NEW b \in Calls
      PROVE  /\ routed'[b].at \notin {"wait", "done"} => \A l \in Links : ~Over(b, l)'
             /\ routed'[b].at # "done" => routed'[b].result = "none"
             /\ routed'[b].result \in {"offline", "duplicate"} => \A l \in Links : ~Over(b, l)'
             /\ \A l, m \in Links : Over(b, l)' /\ Over(b, m)' => l = m
             /\ \A l \in Links : slots'[l] = b => routed'[b].at = "wait"
  <2>1. CASE b = c
    BY <2>1
  <2>2. CASE b # c
    BY <2>2 DEF OnOneLink
  <2> QED BY <2>1, <2>2
<1>3. OnOneLink'
  BY <1>2 DEF OnOneLink
<1>4. On' = On
  BY DEF On
<1>5. Watching'
  BY <1>4 DEF Watching
<1>6. OfflineIsOff'
  BY DEF OfflineIsOff
<1> QED BY <1>1, <1>3, <1>5, <1>6

LEMMA DispatchKeepsInv ==
    ASSUME RouterInv, NEW c \in Calls, NEW l \in Links, Dispatch(c, l)
    PROVE  RouterInv'
<1> USE DEF RouterInv
<1>1. /\ routed[c].at = l /\ routed[c].result = "none"
      /\ routed[c].at \notin {"wait", "done", "idle"}
      /\ \A m \in Links : ~Over(c, m)
  BY DEF Dispatch, OnOneLink, Links
<1>2. /\ routed[c].always \subseteq On /\ On \subseteq routed[c].ever
      /\ l = "relay" => "private" \notin routed[c].always
      /\ l = "private" => "private" \in routed[c].ever
  BY <1>1 DEF Watching
<1>3. /\ slots \in [Links -> Calls \cup {Nobody}] /\ wire \in [Links -> SUBSET Calls]
      /\ UNCHANGED <<hubs, registered, opened, runs>>
  BY DEF RouterTypeOK, Dispatch
<1>4. CASE Return(c, "offline") /\ registered[l] = 0 /\ UNCHANGED <<slots, wire>>
  <2>1. l \notin On
    BY <1>4 DEF On
  <2>2. /\ "private" \notin routed[c].always
        /\ "relay" \in routed[c].always => "private" \in routed[c].ever
    BY <1>2, <2>1 DEF Links
  <2>3. \A b \in Calls, m \in Links : Over(b, m)' = Over(b, m)
    BY <1>3, <1>4 DEF Over
  <2>4. \A m \in Links : slots[m] # c
    BY <1>1 DEF Over
  <2>5. "offline" \in Results
    BY DEF Results
  <2> QED BY <1>1, <1>3, <1>4, <2>2, <2>3, <2>4, <2>5, ReturnIs, OthersKept
<1>5. CASE Return(c, "duplicate") /\ UNCHANGED <<slots, wire>>
  <2>1. \A b \in Calls, m \in Links : Over(b, m)' = Over(b, m)
    BY <1>3, <1>5 DEF Over
  <2>2. \A m \in Links : slots[m] # c
    BY <1>1 DEF Over
  <2>3. "duplicate" \in Results
    BY DEF Results
  <2> QED BY <1>1, <1>3, <1>5, <2>1, <2>2, <2>3, ReturnIs, OthersKept
<1>6. CASE /\ MoveTo(c, "wait") /\ slots[l] = Nobody /\ slots' = [slots EXCEPT ![l] = c]
           /\ wire' = IF registered[l] = held[l] THEN [wire EXCEPT ![l] = @ \cup {c}] ELSE wire
  <2>1. /\ slots' \in [Links -> Calls \cup {Nobody}] /\ slots'[l] = c
        /\ \A m \in Links \ {l} : slots'[m] = slots[m]
    BY <1>3, <1>6
  <2>2. /\ wire' \in [Links -> SUBSET Calls] /\ wire'[l] \subseteq wire[l] \cup {c}
        /\ \A m \in Links \ {l} : wire'[m] = wire[m]
    <3>1. CASE registered[l] = held[l]
      BY <1>3, <1>6, <3>1
    <3>2. CASE registered[l] # held[l]
      BY <1>3, <1>6, <3>2
    <3> QED BY <3>1, <3>2
  <2>3. \A b \in Calls \ {c}, m \in Links : Over(b, m)' => Over(b, m)
    BY <1>3, <2>1, <2>2 DEF Over
  <2>4. \A b \in Calls \ {c}, m \in Links : slots'[m] = b => slots[m] = b
    BY <2>1
  <2>5. \A m \in Links : Over(c, m)' => m = l
    BY <1>1, <1>3, <2>1, <2>2 DEF Over
  <2>6. "wait" \in Steps
    BY DEF Steps
  <2>7. /\ routed' \in [Calls -> [at : Steps, result : Results, always : SUBSET Links, ever : SUBSET Links]]
        /\ routed'[c].at = "wait" /\ routed'[c].result = "none"
        /\ routed'[c].always = routed[c].always /\ routed'[c].ever = routed[c].ever
        /\ \A b \in Calls \ {c} : routed'[b] = routed[b]
    BY <1>1, <1>6, <2>6, GotoIs
  <2>8. \A m, n \in Links : Over(c, m)' /\ Over(c, n)' => m = n
    BY <2>5
  <2> QED BY <1>2, <1>3, <2>1, <2>2, <2>3, <2>4, <2>7, <2>8, OthersKept
<1> QED BY <1>4, <1>5, <1>6 DEF Dispatch

\* The call that has the slot of a link comes back; a frame may have been run.
LEMMA BackKeepsInv ==
    ASSUME RouterInv, NEW b \in Calls, NEW l \in Links, slots[l] = b,
           NEW r \in {"answered", "failed"}, Return(b, r),
           slots' = [slots EXCEPT ![l] = Nobody],
           UNCHANGED <<hubs, registered, opened>>,
           wire' \in [Links -> SUBSET Calls],
           \A c \in Calls, m \in Links : c \in wire'[m] \/ <<c, m>> \in runs' => Over(c, m)
    PROVE  RouterInv'
<1> USE DEF RouterInv
<1>1. /\ slots \in [Links -> Calls \cup {Nobody}] /\ Nobody \notin Calls
      /\ routed[b].at = "wait"
      /\ \A m, n \in Links : Over(b, m) /\ Over(b, n) => m = n
  BY RouterAssumption DEF RouterTypeOK, OnOneLink
<1>2. /\ slots' \in [Links -> Calls \cup {Nobody}] /\ slots'[l] = Nobody
      /\ \A m \in Links \ {l} : slots'[m] = slots[m]
  BY <1>1
<1>3. /\ Over(b, l)
      /\ \A c \in Calls, m \in Links : slots'[m] = c => slots[m] = c
      /\ \A m \in Links : slots'[m] # b
  <2>1. Over(b, l)
    BY DEF Over
  <2>2. \A c \in Calls, m \in Links : slots'[m] = c => slots[m] = c
    BY <1>1, <1>2
  <2>3. ASSUME NEW m \in Links, slots'[m] = b PROVE FALSE
    <3>1. m # l /\ slots[m] = b
      BY <1>1, <1>2, <2>3
    <3>2. Over(b, m)
      BY <3>1 DEF Over
    <3> QED BY <1>1, <2>1, <3>1, <3>2
  <2> QED BY <2>1, <2>2, <2>3
<1>4. \A c \in Calls, m \in Links : Over(c, m)' => Over(c, m)
  BY <1>3 DEF Over
<1>5. r \in Results /\ r \notin {"offline", "duplicate"}
  BY DEF Results
<1>6. /\ routed' \in [Calls -> [at : Steps, result : Results, always : SUBSET Links, ever : SUBSET Links]]
      /\ routed'[b].at = "done" /\ routed'[b].result = r
      /\ routed'[b].always = routed[b].always /\ routed'[b].ever = routed[b].ever
      /\ \A c \in Calls \ {b} : routed'[c] = routed[c]
  BY <1>5, ReturnIs
<1>7. \A m, n \in Links : Over(b, m)' /\ Over(b, n)' => m = n
  BY <1>1, <1>4
<1> QED BY <1>2, <1>3, <1>4, <1>5, <1>6, <1>7, OthersKept

LEMMA EndsKeepInv ==
    ASSUME RouterInv, NEW c \in Calls, NEW l \in Links, Run(c, l) \/ HubFails(c, l)
    PROVE  RouterInv'
<1> USE DEF RouterInv
<1>1. slots \in [Links -> Calls \cup {Nobody}] /\ wire \in [Links -> SUBSET Calls] /\ Nobody \notin Calls
  BY RouterAssumption DEF RouterTypeOK
<1>2. CASE HubFails(c, l)
  <2>1. /\ slots[l] = c /\ Return(c, "failed") /\ slots' = [slots EXCEPT ![l] = Nobody]
        /\ UNCHANGED <<hubs, registered, opened, wire, runs>>
    BY <1>2 DEF HubFails
  <2>2. \A b \in Calls, m \in Links : b \in wire'[m] \/ <<b, m>> \in runs' => Over(b, m)
    BY <2>1 DEF Over
  <2> QED BY <1>1, <2>1, <2>2, BackKeepsInv
<1>3. CASE Run(c, l)
  <2>1. /\ c \in wire[l] /\ wire' = [wire EXCEPT ![l] = @ \ {c}] /\ runs' = runs \cup {<<c, l>>}
        /\ slots' = [slots EXCEPT ![l] = Nobody] /\ UNCHANGED <<hubs, registered, opened>>
    BY <1>3 DEF Run
  <2>2. wire' \in [Links -> SUBSET Calls] /\ \A m \in Links : wire'[m] \subseteq wire[m]
    BY <1>1, <2>1
  <2>3. \A b \in Calls, m \in Links : b \in wire'[m] \/ <<b, m>> \in runs' => Over(b, m)
    BY <2>1, <2>2 DEF Over
  <2>4. CASE slots[l] # Nobody
    <3>1. slots[l] \in Calls /\ Return(slots[l], "answered")
      BY <1>1, <1>3, <2>4 DEF Run
    <3> QED BY <2>1, <2>2, <2>3, <3>1, BackKeepsInv
  <2>5. CASE slots[l] = Nobody
    <3>1. slots' = slots /\ routed' = routed
      BY <1>1, <1>3, <2>1, <2>5 DEF Run
    <3>2. \A b \in Calls, m \in Links : Over(b, m)' => Over(b, m)
      BY <2>3, <3>1 DEF Over
    <3>3. RouterTypeOK'
      BY <2>1, <2>2, <3>1 DEF RouterTypeOK
    <3>4. OnOneLink'
      BY <3>1, <3>2 DEF OnOneLink
    <3>5. Watching' /\ OfflineIsOff'
      BY <2>1, <3>1 DEF Watching, OfflineIsOff, On
    <3> QED BY <3>3, <3>4, <3>5
  <2> QED BY <2>4, <2>5
<1> QED BY <1>2, <1>3

-----------------------------------------------------------------------------
LEMMA RouterInvInit == RouterInit => RouterInv
<1> SUFFICES ASSUME RouterInit PROVE RouterInv
  OBVIOUS
<1>1. RouterTypeOK
  <2>1. hubs \subseteq Links
    BY RouterAssumption DEF RouterInit
  <2>2. [at |-> "idle", result |-> "none", always |-> Links, ever |-> {}]
            \in [at : Steps, result : Results, always : SUBSET Links, ever : SUBSET Links]
    BY DEF Steps, Results
  <2> QED BY <2>1, <2>2 DEF RouterInit, RouterTypeOK
<1>2. \A c \in Calls : routed[c].at = "idle" /\ routed[c].result = "none" /\ \A l \in Links : ~Over(c, l)
  BY RouterAssumption DEF RouterInit, Over
<1>3. OnOneLink /\ Watching /\ OfflineIsOff
  BY <1>2 DEF OnOneLink, Watching, OfflineIsOff, Over
<1> QED BY <1>1, <1>3 DEF RouterInv

LEMMA RouterInvStep == RouterInv /\ [RouterNext]_router => RouterInv'
<1> SUFFICES ASSUME RouterInv, [RouterNext]_router PROVE RouterInv'
  OBVIOUS
<1>1. CASE UNCHANGED router
  BY <1>1 DEF router, RouterInv, RouterTypeOK, OnOneLink, Watching, OfflineIsOff, Over, On
<1>2. CASE RouterNext
  BY <1>2, SessionsKeepInv, LooksKeepInv, DispatchKeepsInv, EndsKeepInv DEF RouterNext
<1> QED BY <1>1, <1>2

\* A call leaves over one link at most, and is told that its device is offline only when
\* it is, however sessions come and go between the router's look and the hub's
\* (RemoteDispatchRouter::dispatch_action).
THEOREM RoutedOnce == RouterSpec => []RoutesOnce
<1>1. RouterInv => RoutesOnce
  BY DEF RouterInv, OnOneLink, RoutesOnce, LeavesOnce, Over
<1>2. RouterInit => RouterInv
  BY RouterInvInit
<1>3. RouterInv /\ [RouterNext]_router => RouterInv'
  BY RouterInvStep
<1> QED BY <1>1, <1>2, <1>3, PTL DEF RouterSpec

-----------------------------------------------------------------------------
(* Queues: one for each session.                                           *)

\* What lies in the queues, and that none of X is twice in them.
Lies(q, x) == \E s \in Session : \E k \in DOMAIN q[s] : q[s][k] = x
Single(q, X) ==
    \A s, t \in Session : \A j \in DOMAIN q[s], k \in DOMAIN q[t] :
        q[s][j] = q[t][k] /\ q[s][j] \in X => s = t /\ j = k

Lengthened(q, s, x) == [q EXCEPT ![s] = Append(@, x)]
Shortened(q, s) == [q EXCEPT ![s] = Tail(@)]
Renewed(q, s, r) == [q EXCEPT ![s] = r]

LEMMA QueueTypes ==
    ASSUME NEW S, NEW q \in [Session -> Seq(S)], NEW s \in Session, NEW x \in S, NEW r \in Seq(S)
    PROVE  /\ Lengthened(q, s, x) \in [Session -> Seq(S)]
           /\ Renewed(q, s, r) \in [Session -> Seq(S)]
           /\ q[s] # << >> => Shortened(q, s) \in [Session -> Seq(S)]
BY DEF Lengthened, Shortened, Renewed

LEMMA JoinsIn ==
    ASSUME NEW S, NEW q \in [Session -> Seq(S)], NEW s \in Session, NEW x \in S, NEW X,
           Single(q, X), x \in X => ~Lies(q, x)
    PROVE  /\ Single(Lengthened(q, s, x), X)
           /\ \A y : Lies(Lengthened(q, s, x), y) => Lies(q, y) \/ y = x
<1> DEFINE r == Lengthened(q, s, x)
<1>0. r = [q EXCEPT ![s] = Append(@, x)]
  BY DEF Lengthened
<1> HIDE DEF r
<1>1. \A k \in DOMAIN r[s] : \/ k \in DOMAIN q[s] /\ r[s][k] = q[s][k]
                             \/ k = Len(q[s]) + 1 /\ r[s][k] = x
  BY <1>0
<1>2. \A t \in Session \ {s} : r[t] = q[t]
  BY <1>0
<1> DEFINE Old(t, k) == k \in DOMAIN q[t] /\ r[t][k] = q[t][k]
           New(t, k) == t = s /\ k = Len(q[s]) + 1 /\ r[t][k] = x
<1>3. ASSUME NEW t \in Session, NEW k \in DOMAIN r[t]
      PROVE  Old(t, k) \/ New(t, k)
  BY <1>1, <1>2
<1>4. ASSUME NEW t \in Session, NEW u \in Session, NEW j \in DOMAIN r[t], NEW k \in DOMAIN r[u],
             r[t][j] = r[u][k], r[t][j] \in X
      PROVE  t = u /\ j = k
  <2>1. (Old(t, j) \/ New(t, j)) /\ (Old(u, k) \/ New(u, k))
    BY <1>3
  <2>2. CASE Old(t, j) /\ Old(u, k)
    <3>1. j \in DOMAIN q[t] /\ k \in DOMAIN q[u] /\ q[t][j] = q[u][k] /\ q[t][j] \in X
      BY <1>4, <2>2
    <3> HIDE DEF Old, New
    <3> QED BY <3>1 DEF Single
  <2>3. CASE New(t, j) /\ New(u, k)
    BY <2>3
  <2>4. CASE Old(t, j) /\ New(u, k)
    BY <1>4, <2>4 DEF Lies
  <2>5. CASE New(t, j) /\ Old(u, k)
    BY <1>4, <2>5 DEF Lies
  <2> QED BY <2>1, <2>2, <2>3, <2>4, <2>5
<1>5. ASSUME NEW y, Lies(r, y) PROVE Lies(q, y) \/ y = x
  <2>1. PICK t \in Session : \E k \in DOMAIN r[t] : r[t][k] = y
    BY <1>5 DEF Lies
  <2>2. PICK k \in DOMAIN r[t] : r[t][k] = y
    BY <2>1
  <2> QED BY <1>3, <2>2 DEF Lies
<1> QED BY <1>4, <1>5 DEF Single, r

LEMMA LeavesOut ==
    ASSUME NEW S, NEW q \in [Session -> Seq(S)], NEW s \in Session, q[s] # << >>, NEW X, Single(q, X)
    PROVE  /\ Single(Shortened(q, s), X) /\ Head(q[s]) \in S /\ Lies(q, Head(q[s]))
           /\ \A y : Lies(Shortened(q, s), y) => Lies(q, y) /\ (y \in X => y # Head(q[s]))
<1> DEFINE r == Shortened(q, s)
<1>0. r = [q EXCEPT ![s] = Tail(@)]
  BY DEF Shortened
<1> HIDE DEF r
<1>1. /\ 1 \in DOMAIN q[s] /\ Head(q[s]) = q[s][1] /\ q[s][1] \in S
      /\ \A k \in DOMAIN r[s] : k \in Nat /\ r[s][k] = q[s][k + 1] /\ k + 1 \in DOMAIN q[s] /\ k + 1 # 1
  BY <1>0
<1>2. \A t \in Session \ {s} : r[t] = q[t]
  BY <1>0
<1> DEFINE was(t, k) == IF t = s THEN k + 1 ELSE k
<1>3. ASSUME NEW t \in Session, NEW k \in DOMAIN r[t]
      PROVE  /\ was(t, k) \in DOMAIN q[t] /\ r[t][k] = q[t][was(t, k)]
             /\ t = s => was(t, k) # 1 /\ k \in Nat
  <2>1. CASE t = s
    BY <1>1, <2>1
  <2>2. CASE t # s
    BY <1>2, <2>2
  <2> QED BY <2>1, <2>2
<1>4. ASSUME NEW t \in Session, NEW u \in Session, NEW j \in DOMAIN r[t], NEW k \in DOMAIN r[u],
             r[t][j] = r[u][k], r[t][j] \in X
      PROVE  t = u /\ j = k
  <2>1. t = u /\ was(t, j) = was(u, k)
    <3>1. /\ was(t, j) \in DOMAIN q[t] /\ r[t][j] = q[t][was(t, j)]
          /\ was(u, k) \in DOMAIN q[u] /\ r[u][k] = q[u][was(u, k)]
      BY <1>3
    <3> HIDE DEF was
    <3>2. q[t][was(t, j)] = q[u][was(u, k)] /\ q[t][was(t, j)] \in X
      BY <1>4, <3>1
    <3> QED BY <3>1, <3>2 DEF Single
  <2>2. CASE t = s
    BY <1>3, <2>1, <2>2
  <2> QED BY <2>1, <2>2
<1>5. ASSUME NEW y, Lies(r, y) PROVE Lies(q, y) /\ (y \in X => y # Head(q[s]))
  <2>1. PICK t \in Session : \E k \in DOMAIN r[t] : r[t][k] = y
    BY <1>5 DEF Lies
  <2>2. PICK k \in DOMAIN r[t] : r[t][k] = y
    BY <2>1
  <2>3. was(t, k) \in DOMAIN q[t] /\ q[t][was(t, k)] = y /\ (t = s => was(t, k) # 1)
    BY <1>3, <2>2
  <2> HIDE DEF was
  <2>4. ASSUME y \in X, y = q[s][1] PROVE FALSE
    BY <1>1, <2>3, <2>4 DEF Single
  <2> QED BY <1>1, <2>3, <2>4 DEF Lies
<1>6. Lies(q, Head(q[s]))
  BY <1>1 DEF Lies
<1> QED BY <1>1, <1>4, <1>5, <1>6 DEF Single, r

LEMMA Emptied ==
    ASSUME NEW S, NEW q \in [Session -> Seq(S)], NEW s \in Session, NEW r, NEW X,
           r = << >> \/ \E x : x \notin X /\ r = <<x>>, Single(q, X)
    PROVE  Single(Renewed(q, s, r), X) /\ \A x \in X : Lies(Renewed(q, s, r), x) => Lies(q, x)
<1> DEFINE p == Renewed(q, s, r)
<1>1. \A t \in Session : \A k \in DOMAIN p[t] : p[t][k] \in X =>
          t # s /\ k \in DOMAIN q[t] /\ p[t][k] = q[t][k]
  <2>1. \A k \in DOMAIN r : r[k] \notin X
    OBVIOUS
  <2>2. p[s] = r /\ \A t \in Session \ {s} : p[t] = q[t]
    BY DEF Renewed
  <2> QED BY <2>1, <2>2
<1> HIDE DEF p
<1>2. Single(p, X)
  BY <1>1 DEF Single
<1>3. \A x \in X : Lies(p, x) => Lies(q, x)
  BY <1>1 DEF Lies
<1> QED BY <1>2, <1>3 DEF p

\* Of some numbers one is least.
LEMMA LeastIndex ==
    ASSUME NEW S \in SUBSET Nat, S # {}
    PROVE  \E i \in S : \A j \in S : i <= j
<1>1. PICK n \in S : TRUE
  OBVIOUS
<1> DEFINE B == {0..i : i \in {i \in S : i <= n}}
<1>2. B \subseteq SUBSET (0..n) /\ 0..n \in B
  BY <1>1
<1>3. IsWellFoundedOn(StrictSubsetOrdering(0..n), SUBSET (0..n))
  <2>1. IsFiniteSet(0..n)
    BY <1>1, FS_Interval
  <2>2. FiniteSubsetsOf(0..n) = SUBSET (0..n)
    BY <2>1, FS_FiniteSubsetsOfFinite
  <2> QED BY <2>2, FS_StrictSubsetOrderingWellFounded
<1>4. PICK X \in B : \A U \in B : ~(<<U, X>> \in StrictSubsetOrdering(0..n))
  <2> HIDE DEF B
  <2> QED BY <1>2, <1>3, WFMin
<1>5. PICK i \in S : i <= n /\ X = 0..i
  OBVIOUS
<1>6. ASSUME NEW j \in S, j < i
      PROVE  FALSE
  <2>1. 0..j \in B /\ 0..j \subseteq 0..i /\ i \in 0..i /\ i \notin 0..j
    BY <1>1, <1>5, <1>6
  <2> QED BY <1>2, <1>4, <1>5, <2>1 DEF StrictSubsetOrdering
<1> QED BY <1>6


\* RemoveFirst, of what is there: a sequence again, and the tail if it is the first.
LEMMA FirstRemoved ==
    ASSUME NEW S, NEW q \in Seq(S), NEW e, Contains(q, e)
    PROVE  /\ q # << >> /\ RemoveFirst(q, e) \in Seq(S)
           /\ q[1] = e => RemoveFirst(q, e) = Tail(q)
<1> DEFINE I == {i \in 1 .. Len(q) : q[i] = e}
           m == Min(I)
<1>1. I \in SUBSET Nat /\ I # {}
  BY DEF Contains
<1>2. PICK n \in I : \A i \in I : n <= i
  BY <1>1, LeastIndex
<1>3. m \in I /\ \A i \in I : m <= i
  BY <1>2 DEF Min
<1>4. RemoveFirst(q, e) = SubSeq(q, 1, m - 1) \o SubSeq(q, m + 1, Len(q))
  BY <1>1 DEF RemoveFirst, RemoveAt, SelectInSeq
<1> HIDE DEF m
<1>5. m \in 1 .. Len(q)
  BY <1>3
<1>6. SubSeq(q, 1, m - 1) \in Seq(S) /\ SubSeq(q, m + 1, Len(q)) \in Seq(S)
  BY <1>5, SubSeqProperties
<1>7. ASSUME q[1] = e PROVE RemoveFirst(q, e) = Tail(q)
  <2>1. m = 1
    BY <1>3, <1>5, <1>7
  <2>2. SubSeq(q, 1, 0) = << >>
    BY SubSeqEmpty
  <2>3. SubSeq(q, 2, Len(q)) = Tail(q)
    BY <1>5
  <2>4. << >> \o Tail(q) = Tail(q)
    BY <1>5
  <2> QED BY <1>4, <2>1, <2>2, <2>3, <2>4
<1>8. q # << >>
  BY <1>5
<1>9. RemoveFirst(q, e) \in Seq(S)
  <2> DEFINE a == SubSeq(q, 1, m - 1)
             b == SubSeq(q, m + 1, Len(q))
  <2> HIDE DEF a, b
  <2>1. a \in Seq(S) /\ b \in Seq(S)
    BY <1>6 DEF a, b
  <2>2. a \o b \in Seq(S)
    BY <2>1
  <2> QED BY <1>4, <2>2 DEF a, b
<1> QED BY <1>7, <1>8, <1>9
-----------------------------------------------------------------------------
(* The relay's link: types.                                                *)

CallFrames == {Frame("call", c) : c \in Call}
ResultFrames == {Frame("result", c) : c \in Call}
Tracked == ResultFrames \cup {Beat}
Sent == Tracked \cup {Hello}
Answers == {Frame("ack", f) : f \in Sent}

CallSteps == {"idle", "insert", "send", "wait", "remove", "done"}
TaskSteps == {"new", "read", "register", "ack", "complete", "deliver", "unregister", "ended"}

HubTypes ==
    /\ devices \in Session \cup {None}
    /\ pending \in [Id -> Call \cup {None}]
CallTypes ==
    /\ at \in [Call -> CallSteps]
    /\ session \in [Call -> Session \cup {None}]
    /\ \A c \in Call : at[c] \in {"insert", "send"} => session[c] \in Session
    /\ got \in [Call -> Call \cup {None}]
TaskTypes ==
    /\ task \in [Session -> TaskSteps]
    /\ hand \in [Session -> CallFrames \cup Sent \cup {None}]
    /\ \A s \in Session :
          /\ task[s] = "register" => hand[s] = Hello
          /\ task[s] = "complete" => hand[s] \in ResultFrames
          /\ task[s] = "ack" => hand[s] \in Sent
          /\ task[s] = "deliver" => hand[s] \in CallFrames
OutTypes == out \in [Session -> Seq(Call)]
DownTypes == down \in [Session -> Seq(CallFrames \cup Answers)]
UpTypes == up \in [Session -> Seq(Sent)]
DevTypes ==
    /\ dev \in [session : Session \cup {None}, at : {"down", "greet", "serve", "work", "send"},
                job : CallFrames \cup Tracked \cup {None}]
    /\ dev.at # "down" => dev.session \in Session
    /\ dev.at = "work" => dev.job \in CallFrames
    /\ dev.at = "send" => dev.job \in Tracked
    /\ acks \in Seq(Tracked)
    /\ ran \in [Call -> Nat]

LinkTypes ==
    HubTypes /\ CallTypes /\ TaskTypes /\ OutTypes /\ DownTypes /\ UpTypes /\ DevTypes

LEMMA HubTypesKept == HubTypes /\ UNCHANGED hub => HubTypes'
BY DEF HubTypes, hub
LEMMA CallTypesKept == CallTypes /\ UNCHANGED <<at, session, got>> => CallTypes'
BY DEF CallTypes
LEMMA TaskTypesKept == TaskTypes /\ UNCHANGED <<task, hand>> => TaskTypes'
BY DEF TaskTypes

\* A task goes on, with a frame in hand that is right for where it goes.
LEMMA TaskGoesOn ==
    ASSUME TaskTypes, NEW s \in Session, NEW step \in TaskSteps \ {"new"},
           NEW f \in CallFrames \cup Sent \cup {None},
           task' = [task EXCEPT ![s] = step], hand' = [hand EXCEPT ![s] = f],
           step = "register" => f = Hello, step = "complete" => f \in ResultFrames,
           step = "ack" => f \in Sent, step = "deliver" => f \in CallFrames
    PROVE  TaskTypes'
<1>1. /\ task' \in [Session -> TaskSteps]
      /\ hand' \in [Session -> CallFrames \cup Sent \cup {None}]
  BY DEF TaskTypes
<1>2. ASSUME NEW t \in Session
      PROVE  /\ task'[t] = "register" => hand'[t] = Hello
             /\ task'[t] = "complete" => hand'[t] \in ResultFrames
             /\ task'[t] = "ack" => hand'[t] \in Sent
             /\ task'[t] = "deliver" => hand'[t] \in CallFrames
  <2>1. CASE t = s
    <3>1. task'[t] = step /\ hand'[t] = f
      BY <2>1 DEF TaskTypes
    <3> QED BY <3>1
  <2>2. CASE t # s
    <3>1. task'[t] = task[t] /\ hand'[t] = hand[t]
      BY <2>2 DEF TaskTypes
    <3> QED BY <3>1 DEF TaskTypes
  <2> QED BY <2>1, <2>2
<1> QED BY <1>1, <1>2 DEF TaskTypes

LEMMA SameHand ==
    ASSUME TaskTypes, NEW s \in Session, hand' = hand
    PROVE  hand' = [hand EXCEPT ![s] = hand[s]] /\ hand[s] \in CallFrames \cup Sent \cup {None}
BY DEF TaskTypes

LEMMA HubTypesStep == ASSUME LinkAssumption, LinkTypes, [Next]_vars PROVE HubTypes'
<1> USE DEF LinkTypes
<1>1. ASSUME NEW c \in Call, Begin(c) \/ Send(c) \/ TakeResult(c) \/ SlotGone(c) \/ Timeout(c) \/ Expire(c)
      PROVE  UNCHANGED hub
  BY <1>1 DEF Begin, Send, TakeResult, SlotGone, Timeout, Expire
<1>2. ASSUME NEW c \in Call, Insert(c) \/ TakeOut(c) PROVE HubTypes'
  <2>1. devices' = devices
    BY <1>2 DEF Insert, TakeOut
  <2>2. \E x \in {c, None} : pending' = [pending EXCEPT ![IdOf[c]] = x] \/ pending' = pending
    BY <1>2 DEF Insert, TakeOut
  <2> QED BY <2>1, <2>2 DEF HubTypes
<1>3. ASSUME NEW s \in Session, Register(s) \/ Unregister(s) PROVE HubTypes'
  BY <1>3 DEF Register, Unregister, HubTypes
<1>4. ASSUME NEW s \in Session, Complete(s) PROVE HubTypes'
  <2>1. devices' = devices /\ pending' = [pending EXCEPT ![IdOf[hand[s].of]] = None]
    BY <1>4 DEF Complete
  <2> QED BY <2>1 DEF HubTypes
<1>5. ASSUME NEW s \in Session,
             Deliver(s) \/ Read(s) \/ Put(s) \/ TaskEnds(s) \/ Break(s) \/ Connect(s)
      PROVE  UNCHANGED hub
  BY <1>5 DEF Deliver, Read, Put, TaskEnds, Break, Connect
<1>6. Die \/ ReadFirst \/ ReadFrame \/ Work \/ Pulse \/ SendTracked \/ UNCHANGED vars => UNCHANGED hub
  BY DEF Die, ReadFirst, ReadFrame, Work, Pulse, SendTracked, vars
<1> QED BY <1>1, <1>2, <1>3, <1>4, <1>5, <1>6, HubTypesKept DEF Next, Proceed, Serve, Rest

LEMMA CallTypesStep == ASSUME LinkAssumption, LinkTypes, [Next]_vars PROVE CallTypes'
<1> USE DEF LinkTypes
<1>1. ASSUME NEW c \in Call, Begin(c) PROVE CallTypes'
  <2>1. got' = got
    BY <1>1 DEF Begin
  <2>2. CASE at' = [at EXCEPT ![c] = "done"] /\ session' = session
    BY <2>1, <2>2 DEF CallTypes, CallSteps
  <2>3. CASE at' = [at EXCEPT ![c] = "insert"] /\ session' = [session EXCEPT ![c] = devices]
              /\ devices # None
    BY <2>1, <2>3 DEF CallTypes, HubTypes, CallSteps
  <2> QED BY <1>1, <2>2, <2>3 DEF Begin, Goto, Finish
<1>2. ASSUME NEW c \in Call, Proceed(c) PROVE CallTypes'
  <2>1. UNCHANGED <<session, got>>
    BY <1>2 DEF Proceed, Insert, Send, TakeResult, SlotGone, Timeout, TakeOut
  <2>2. PICK step \in {"send", "wait", "remove", "done"} :
            /\ at' = [at EXCEPT ![c] = step]
            /\ step = "send" => at[c] = "insert"
    BY <1>2 DEF Proceed, Insert, Send, TakeResult, SlotGone, Timeout, TakeOut, Goto, Finish, Fail
  <2> QED BY <2>1, <2>2 DEF CallTypes, CallSteps
<1>3. ASSUME NEW s \in Session, Complete(s) PROVE CallTypes'
  <2>1. UNCHANGED <<at, session>> /\ hand[s].of \in Call
    BY <1>3 DEF Complete, TaskTypes, ResultFrames, Frame
  <2>2. got' = got \/ got' = [got EXCEPT ![pending[IdOf[hand[s].of]]] = hand[s].of]
    BY <1>3 DEF Complete
  <2> QED BY <2>1, <2>2 DEF CallTypes
<1>4. ASSUME NEW s \in Session,
             \/ Deliver(s) \/ Read(s) \/ Register(s) \/ Put(s) \/ TaskEnds(s) \/ Unregister(s)
             \/ Break(s) \/ Connect(s)
      PROVE  UNCHANGED <<at, session, got>>
  BY <1>4 DEF Deliver, Read, Register, Put, TaskEnds, Unregister, Break, Connect, calls
<1>5. Die \/ ReadFirst \/ ReadFrame \/ Work \/ Pulse \/ SendTracked \/ UNCHANGED vars
          => UNCHANGED <<at, session, got>>
  BY DEF Die, ReadFirst, ReadFrame, Work, Pulse, SendTracked, vars, calls
<1>6. ASSUME NEW c \in Call, Expire(c) PROVE UNCHANGED <<at, session, got>>
  BY <1>6 DEF Expire, calls
<1> QED BY <1>1, <1>2, <1>3, <1>4, <1>5, <1>6, CallTypesKept DEF Next, Serve, Rest

LEMMA TaskTypesStep == ASSUME LinkAssumption, LinkTypes, [Next]_vars PROVE TaskTypes'
<1> USE DEF LinkTypes
<1>1. ASSUME NEW s \in Session, Deliver(s) PROVE TaskTypes'
  <2>1. Head(out[s]) \in Call
    BY <1>1 DEF Deliver, OutTypes
  <2>2. Frame("call", Head(out[s])) \in CallFrames
    BY <2>1 DEF CallFrames
  <2>3. /\ hand' = [hand EXCEPT ![s] = Frame("call", Head(out[s]))]
        /\ task' = [task EXCEPT ![s] = "deliver"]
    BY <1>1 DEF Deliver, Hold, TaskTo
  <2> QED BY <2>2, <2>3, TaskGoesOn DEF TaskSteps
<1>2. ASSUME NEW s \in Session, Read(s) PROVE TaskTypes'
  <2> DEFINE f == Head(up[s])
  <2>1. f \in Sent
    BY <1>2 DEF Read, UpTypes
  <2>2. PICK step \in {"register", "ack", "complete", "unregister"}, g \in {f, None} :
            /\ task' = [task EXCEPT ![s] = step] /\ hand' = [hand EXCEPT ![s] = g]
            /\ step = "register" => g = f /\ f = Hello
            /\ step = "ack" => g = f
            /\ step = "complete" => g = f /\ f.kind = "result"
    BY <1>2 DEF Read, Hold, Close, Drop, TaskTo
  <2>3. f.kind = "result" => f \in ResultFrames
    BY <2>1 DEF Sent, Tracked, ResultFrames, Beat, Hello, Frame
  <2> HIDE DEF f
  <2>4. step \in TaskSteps \ {"new"} /\ g \in CallFrames \cup Sent \cup {None}
    BY <2>1 DEF TaskSteps
  <2> QED BY <2>1, <2>2, <2>3, <2>4, TaskGoesOn
<1>3. ASSUME NEW s \in Session, Register(s) PROVE TaskTypes'
  <2>1. task[s] = "register" /\ task' = [task EXCEPT ![s] = "ack"] /\ hand' = hand
    BY <1>3 DEF Register, TaskTo
  <2>2. hand[s] \in Sent
    BY <2>1 DEF TaskTypes, Sent
  <2> QED BY <2>1, <2>2, SameHand, TaskGoesOn DEF TaskSteps
<1>4. ASSUME NEW s \in Session, Complete(s) PROVE TaskTypes'
  <2>1. PICK step \in {"ack", "unregister"}, g \in {hand[s], None} :
            /\ task' = [task EXCEPT ![s] = step]
            /\ (hand' = hand /\ g = hand[s]) \/ hand' = [hand EXCEPT ![s] = g]
            /\ step = "ack" => g = hand[s]
    BY <1>4 DEF Complete, Close, Drop, Hold, TaskTo
  <2>2. hand[s] \in Sent
    BY <1>4 DEF Complete, TaskTypes, Sent, Tracked
  <2>3. hand' = [hand EXCEPT ![s] = g]
    BY <2>1, SameHand
  <2>4. step \in TaskSteps \ {"new"} /\ g \in CallFrames \cup Sent \cup {None}
    BY <2>2 DEF TaskSteps
  <2> QED BY <2>1, <2>2, <2>3, <2>4, TaskGoesOn
<1>5. ASSUME NEW s \in Session, Put(s) PROVE TaskTypes'
  <2>1. PICK step \in {"read", "unregister"} :
            task' = [task EXCEPT ![s] = step] /\ hand' = [hand EXCEPT ![s] = None]
    BY <1>5 DEF Put, Drop, Hold, TaskTo
  <2>2. step \in TaskSteps \ {"new"}
    BY DEF TaskSteps
  <2> QED BY <2>1, <2>2, TaskGoesOn
<1>6. ASSUME NEW s \in Session, TaskEnds(s) \/ Unregister(s) \/ Connect(s) PROVE TaskTypes'
  <2>1. PICK step \in {"unregister", "ended", "read"} : task' = [task EXCEPT ![s] = step] /\ hand' = hand
    BY <1>6 DEF TaskEnds, Unregister, Connect, TaskTo
  <2>2. step \in TaskSteps \ {"new"}
    BY DEF TaskSteps
  <2> QED BY <2>1, <2>2, SameHand, TaskGoesOn
<1>7. ASSUME NEW s \in Session, Break(s) PROVE UNCHANGED <<task, hand>>
  BY <1>7 DEF Break, tasks
<1>8. ASSUME NEW c \in Call, Begin(c) \/ Proceed(c) \/ Expire(c) PROVE UNCHANGED <<task, hand>>
  BY <1>8 DEF Begin, Proceed, Insert, Send, TakeResult, SlotGone, Timeout, TakeOut, Expire, tasks
<1>9. Die \/ ReadFirst \/ ReadFrame \/ Work \/ Pulse \/ SendTracked \/ UNCHANGED vars => UNCHANGED <<task, hand>>
  BY DEF Die, ReadFirst, ReadFrame, Work, Pulse, SendTracked, vars, tasks
<1> QED BY <1>1, <1>2, <1>3, <1>4, <1>5, <1>6, <1>7, <1>8, <1>9, TaskTypesKept DEF Next, Serve, Rest

\* What a caller, a task and the device may do to the sockets and the channel.
LEMMA OutStep ==
    ASSUME LinkTypes, [Next]_vars
    PROVE  \/ out' = out
           \/ \E c \in Call : Send(c) /\ out' = Lengthened(out, session[c], c) /\ session[c] \in Session
           \/ \E s \in Session : Deliver(s) /\ out[s] # << >> /\ out' = Shortened(out, s)
           \/ \E s \in Session : Unregister(s) /\ out' = Renewed(out, s, << >>)
<1> USE DEF LinkTypes, Lengthened, Shortened, Renewed
<1>1. ASSUME NEW c \in Call, Begin(c) \/ Proceed(c) \/ Expire(c)
      PROVE  \/ out' = out
             \/ Send(c) /\ out' = Lengthened(out, session[c], c) /\ session[c] \in Session
  BY <1>1 DEF Begin, Proceed, Insert, Send, TakeResult, SlotGone, Timeout, TakeOut, Expire, tasks, CallTypes
<1>2. ASSUME NEW s \in Session, Serve(s) \/ Break(s) \/ Connect(s)
      PROVE  \/ out' = out
             \/ Deliver(s) /\ out[s] # << >> /\ out' = Shortened(out, s)
             \/ Unregister(s) /\ out' = Renewed(out, s, << >>)
  BY <1>2 DEF Serve, Deliver, Read, Register, Complete, Put, TaskEnds, Unregister, Break, Connect, tasks
<1>3. Die \/ ReadFirst \/ ReadFrame \/ Work \/ Pulse \/ SendTracked \/ UNCHANGED vars => out' = out
  BY DEF Die, ReadFirst, ReadFrame, Work, Pulse, SendTracked, vars, tasks
<1> QED BY <1>1, <1>2, <1>3 DEF Next, Rest

LEMMA UpStep ==
    ASSUME LinkTypes, [Next]_vars
    PROVE  \/ up' = up
           \/ \E s \in Session : Read(s) /\ up[s] # << >> /\ up' = Shortened(up, s)
           \/ \E s \in Session : Unregister(s) /\ up' = Renewed(up, s, << >>)
           \/ \E s \in Session : Connect(s) /\ up' = Renewed(up, s, <<Hello>>)
           \/ SendTracked /\ up' = Lengthened(up, dev.session, dev.job) /\ dev.session \in Session
                          /\ dev.job \in Tracked
<1> USE DEF LinkTypes, Lengthened, Shortened, Renewed
<1>1. ASSUME NEW c \in Call, Begin(c) \/ Proceed(c) \/ Expire(c)
      PROVE  up' = up
  BY <1>1 DEF Begin, Proceed, Insert, Send, TakeResult, SlotGone, Timeout, TakeOut, Expire
<1>2. ASSUME NEW s \in Session, Serve(s) \/ Break(s) \/ Connect(s)
      PROVE  \/ up' = up
             \/ Read(s) /\ up[s] # << >> /\ up' = Shortened(up, s)
             \/ Unregister(s) /\ up' = Renewed(up, s, << >>)
             \/ Connect(s) /\ up' = Renewed(up, s, <<Hello>>)
  BY <1>2 DEF Serve, Deliver, Read, Register, Complete, Put, TaskEnds, Unregister, Break, Connect
<1>3. SendTracked => \/ up' = up
                     \/ /\ up' = Lengthened(up, dev.session, dev.job)
                        /\ dev.session \in Session /\ dev.job \in Tracked
  BY DEF SendTracked, DevTypes
<1>4. Die \/ ReadFirst \/ ReadFrame \/ Work \/ Pulse \/ UNCHANGED vars => up' = up
  BY DEF Die, ReadFirst, ReadFrame, Work, Pulse, vars
<1> QED BY <1>1, <1>2, <1>3, <1>4 DEF Next, Rest

\* The device hangs up, or reads what has come.
HangsUp == /\ dev' = Offline /\ acks' = << >> /\ dev.session \in Session
           /\ down' = Renewed(down, dev.session, << >>)
Reads == /\ dev.session \in Session /\ down[dev.session] # << >>
         /\ down' = Shortened(down, dev.session)
LEMMA DownStep ==
    ASSUME LinkTypes, [Next]_vars
    PROVE  \/ down' = down
           \/ \E s \in Session : /\ Put(s) /\ task[s] = "deliver"
                                 /\ down' = Lengthened(down, s, hand[s])
           \/ \E s \in Session : /\ Put(s) /\ task[s] = "ack"
                                 /\ down' = Lengthened(down, s, Frame("ack", hand[s]))
           \/ HangsUp /\ (Die \/ ReadFirst \/ ReadFrame \/ Work \/ SendTracked)
           \/ Reads /\ (ReadFirst \/ ReadFrame)
<1> USE DEF LinkTypes, Lengthened, Shortened, Renewed
<1>1. ASSUME NEW c \in Call, Begin(c) \/ Proceed(c) \/ Expire(c)
      PROVE  down' = down
  BY <1>1 DEF Begin, Proceed, Insert, Send, TakeResult, SlotGone, Timeout, TakeOut, Expire
<1>2. ASSUME NEW s \in Session, Put(s)
      PROVE  \/ down' = down
             \/ task[s] = "deliver" /\ down' = Lengthened(down, s, hand[s])
             \/ task[s] = "ack" /\ down' = Lengthened(down, s, Frame("ack", hand[s]))
  BY <1>2 DEF Put
<1>3. ASSUME NEW s \in Session,
             \/ Deliver(s) \/ Read(s) \/ Register(s) \/ Complete(s) \/ TaskEnds(s) \/ Unregister(s)
             \/ Break(s) \/ Connect(s)
      PROVE  down' = down
  BY <1>3 DEF Deliver, Read, Register, Complete, TaskEnds, Unregister, Break, Connect
<1>4. dev.at # "down" /\ HangUp => HangsUp
  BY DEF HangUp, HangsUp, DevTypes
<1>5. dev.at # "down" /\ Incoming # << >> /\ Take => Reads
  BY DEF Incoming, Take, Reads, DevTypes
<1>6. Die => HangsUp
  BY <1>4 DEF Die
<1>7. ReadFirst => HangsUp \/ Reads
  BY <1>4, <1>5 DEF ReadFirst
<1>8. ReadFrame => HangsUp \/ Reads
  BY <1>4, <1>5 DEF ReadFrame
<1>9. Work => HangsUp \/ down' = down
  BY <1>4 DEF Work
<1>10. SendTracked => HangsUp \/ down' = down
  BY <1>4 DEF SendTracked
<1>11. Pulse \/ UNCHANGED vars => down' = down
  BY DEF Pulse, vars
<1> QED BY <1>1, <1>2, <1>3, <1>6, <1>7, <1>8, <1>9, <1>10, <1>11 DEF Next, Serve, Rest

LEMMA QueueTypesStep ==
    ASSUME LinkTypes, [Next]_vars PROVE OutTypes' /\ DownTypes' /\ UpTypes'
<1>1. OutTypes'
  <2>1. out \in [Session -> Seq(Call)] /\ << >> \in Seq(Call)
    BY DEF LinkTypes, OutTypes
  <2>2. ASSUME NEW s \in Session, NEW c \in Call
        PROVE  /\ Lengthened(out, s, c) \in [Session -> Seq(Call)]
               /\ Renewed(out, s, << >>) \in [Session -> Seq(Call)]
               /\ out[s] # << >> => Shortened(out, s) \in [Session -> Seq(Call)]
    BY <2>1, QueueTypes
  <2>3. ASSUME NEW s \in Session
        PROVE  /\ Renewed(out, s, << >>) \in [Session -> Seq(Call)]
               /\ out[s] # << >> => Shortened(out, s) \in [Session -> Seq(Call)]
    BY <2>1 DEF Renewed, Shortened
  <2> QED BY <2>1, <2>2, <2>3, OutStep DEF OutTypes
<1>2. UpTypes'
  <2>1. up \in [Session -> Seq(Sent)] /\ << >> \in Seq(Sent) /\ <<Hello>> \in Seq(Sent) /\ Hello \in Sent
    BY DEF LinkTypes, UpTypes, Sent
  <2>2. ASSUME NEW s \in Session, NEW f \in Sent
        PROVE  /\ Lengthened(up, s, f) \in [Session -> Seq(Sent)]
               /\ Renewed(up, s, << >>) \in [Session -> Seq(Sent)]
               /\ Renewed(up, s, <<Hello>>) \in [Session -> Seq(Sent)]
               /\ up[s] # << >> => Shortened(up, s) \in [Session -> Seq(Sent)]
    BY <2>1, QueueTypes
  <2>3. Tracked \subseteq Sent
    BY DEF Sent
  <2> QED BY <2>1, <2>2, <2>3, UpStep DEF UpTypes
<1>3. DownTypes'
  <2> DEFINE F == CallFrames \cup Answers
  <2>1. down \in [Session -> Seq(F)] /\ << >> \in Seq(F)
    BY DEF LinkTypes, DownTypes
  <2>2. ASSUME NEW s \in Session, NEW f \in F
        PROVE  Lengthened(down, s, f) \in [Session -> Seq(F)]
    BY <2>1, QueueTypes
  <2>3. ASSUME NEW s \in Session
        PROVE  /\ Renewed(down, s, << >>) \in [Session -> Seq(F)]
               /\ down[s] # << >> => Shortened(down, s) \in [Session -> Seq(F)]
    BY <2>1 DEF Renewed, Shortened
  <2>4. \A s \in Session : /\ task[s] = "deliver" => hand[s] \in F
                           /\ task[s] = "ack" => Frame("ack", hand[s]) \in F
    BY DEF LinkTypes, TaskTypes, Answers
  <2> HIDE DEF F
  <2>5. down' \in [Session -> Seq(F)]
    BY <2>1, <2>2, <2>3, <2>4, DownStep DEF HangsUp, Reads
  <2> QED BY <2>5 DEF DownTypes, F
<1> QED BY <1>1, <1>2, <1>3

LEMMA DevTypesStep == ASSUME LinkTypes, [Next]_vars PROVE DevTypes'
<1> USE DEF LinkTypes
<1>1. ASSUME NEW s \in Session, Connect(s) PROVE DevTypes'
  BY <1>1 DEF Connect, DevTypes
<1>2. HangUp /\ ran' = ran => DevTypes'
  BY DEF HangUp, DevTypes, Offline
<1>3. ASSUME ReadFirst PROVE DevTypes'
  <2>1. CASE dev.at = "greet" /\ dev' = [dev EXCEPT !.at = "serve"] /\ UNCHANGED <<acks, ran>>
    BY <2>1 DEF DevTypes
  <2> QED BY <1>2, <1>3, <2>1 DEF ReadFirst
<1>4. ASSUME ReadFrame PROVE DevTypes'
  <2> DEFINE f == Head(Incoming)
  <2>1. ran' = ran /\ dev.at = "serve" /\ Incoming # << >>
    BY <1>4 DEF ReadFrame
  <2>2. CASE HangUp
    BY <1>2, <2>1, <2>2
  <2>3. f \in CallFrames \cup Answers
    BY <2>1 DEF Incoming, DownTypes, DevTypes
  <2>4. CASE f.kind = "call" /\ dev' = [dev EXCEPT !.at = "work", !.job = f] /\ acks' = acks
    <3>1. f \in CallFrames
      BY <2>3, <2>4 DEF CallFrames, Answers, Frame
    <3> QED BY <2>1, <2>4, <3>1 DEF DevTypes
  <2>5. CASE Contains(acks, f.of) /\ acks' = RemoveFirst(acks, f.of) /\ dev' = dev
    <3>1. acks' \in Seq(Tracked)
      BY <2>5, FirstRemoved DEF DevTypes
    <3> QED BY <2>1, <2>5, <3>1 DEF DevTypes
  <2> QED BY <1>4, <2>2, <2>4, <2>5 DEF ReadFrame
<1>5. ASSUME Work PROVE DevTypes'
  <2>1. dev.at = "work" /\ dev.job \in CallFrames /\ ran' = [ran EXCEPT ![dev.job.of] = @ + 1]
    BY <1>5 DEF Work, DevTypes
  <2>2. PICK c \in Call : dev.job = Frame("call", c) /\ dev.job.of = c
    BY <2>1 DEF CallFrames, Frame
  <2>3. ran' \in [Call -> Nat]
    <3>1. ran \in [Call -> Nat] /\ ran[c] \in Nat
      BY DEF DevTypes
    <3>2. ran[c] + 1 \in Nat
      BY <3>1
    <3> QED BY <2>1, <2>2, <3>1, <3>2
  <2>4. CASE dev' = [dev EXCEPT !.at = "send", !.job = Frame("result", c)] /\ acks' = acks
    BY <2>3, <2>4, <2>1 DEF DevTypes, Tracked, ResultFrames
  <2>5. CASE dev' = Offline /\ acks' = << >>
    BY <2>3, <2>5 DEF DevTypes, Offline
  <2> QED BY <1>5, <2>2, <2>4, <2>5 DEF Work, HangUp
<1>6. ASSUME Pulse PROVE DevTypes'
  BY <1>6 DEF Pulse, DevTypes, Tracked
<1>7. ASSUME SendTracked PROVE DevTypes'
  <2>1. ran' = ran /\ dev.at = "send"
    BY <1>7 DEF SendTracked
  <2>2. CASE dev' = [dev EXCEPT !.at = "serve", !.job = None] /\ acks' = Append(acks, dev.job)
    <3>1. acks' \in Seq(Tracked)
      BY <2>1, <2>2 DEF DevTypes
    <3> QED BY <2>1, <2>2, <3>1 DEF DevTypes
  <2> QED BY <1>2, <1>7, <2>1, <2>2 DEF SendTracked
<1>8. ASSUME NEW c \in Call, Begin(c) \/ Proceed(c) \/ Expire(c) PROVE UNCHANGED <<dev, acks, ran>>
  BY <1>8 DEF Begin, Proceed, Insert, Send, TakeResult, SlotGone, Timeout, TakeOut, Expire, device
<1>9. ASSUME NEW s \in Session, Serve(s) \/ Break(s) PROVE UNCHANGED <<dev, acks, ran>>
  BY <1>9 DEF Serve, Deliver, Read, Register, Complete, Put, TaskEnds, Unregister, Break, device
<1>10. UNCHANGED <<dev, acks, ran>> => DevTypes'
  BY DEF DevTypes
<1>11. Die => HangUp /\ ran' = ran
  BY DEF Die
<1>12. UNCHANGED vars => UNCHANGED <<dev, acks, ran>>
  BY DEF vars, device
<1> QED BY <1>1, <1>2, <1>3, <1>4, <1>5, <1>6, <1>7, <1>8, <1>9, <1>10, <1>11, <1>12 DEF Next, Rest

LEMMA LinkTypesStep == ASSUME LinkAssumption, LinkTypes, [Next]_vars PROVE LinkTypes'
BY HubTypesStep, CallTypesStep, TaskTypesStep, QueueTypesStep, DevTypesStep DEF LinkTypes

-----------------------------------------------------------------------------
(* The relay's link: a call's frame, and later its result, is in one place. *)

\* From the channel of a task (1) over its hand, the socket and the dispatcher to what the
\* device is to send (5), and back to the channel of the caller that is given it (8).
Stands(c, n) ==
    \/ n = 1 /\ Lies(out, c)
    \/ n = 2 /\ \E s \in Session : task[s] = "deliver" /\ hand[s] = Frame("call", c)
    \/ n = 3 /\ Lies(down, Frame("call", c))
    \/ n = 4 /\ dev.at = "work" /\ dev.job = Frame("call", c)
    \/ n = 5 /\ dev.at = "send" /\ dev.job = Frame("result", c)
    \/ n = 6 /\ Lies(up, Frame("result", c))
    \/ n = 7 /\ \E s \in Session : task[s] = "complete" /\ hand[s] = Frame("result", c)
    \/ n = 8 /\ \E b \in Call : got[b] = c

Place == 1 .. 8

\* Calls that have been sent, or will not be.
Left(c) == at[c] \in {"wait", "remove", "done"}

OnePlace ==
    \A c \in Call :
        /\ ~Left(c) => ran[c] = 0
        /\ \A n \in Place : Stands(c, n) =>
              /\ Left(c) /\ ran[c] = (IF n <= 4 THEN 0 ELSE 1)
              /\ \A m \in Place : Stands(c, m) => m = n

\* ... and there once.
HandsDiffer ==
    \A s, t \in Session :
        /\ task[s] = "deliver" /\ task[t] = "deliver" /\ hand[s] = hand[t] => s = t
        /\ task[s] = "complete" /\ task[t] = "complete" /\ hand[s] = hand[t] => s = t
GivenOnce == \A a, b \in Call : got[a] # None /\ got[a] = got[b] => a = b
Once == /\ Single(out, Call) /\ Single(down, CallFrames) /\ Single(up, ResultFrames)
        /\ HandsDiffer /\ GivenOnce

\* What a step does to a place: it puts nothing there but, perhaps, c; or it takes c away.
Keeps(n) == \A b \in Call : Stands(b, n)' => Stands(b, n)
Gains(n, c) == \A b \in Call : Stands(b, n)' => Stands(b, n) \/ b = c
Loses(n, c) == Keeps(n) /\ ~Stands(c, n)'

\* The dispatcher runs it once, between the fourth place and the fifth.
Counts(n, c) == ran' = IF n = 4 THEN [ran EXCEPT ![c] = @ + 1] ELSE ran

NoneComesBack == \A b \in Call : Left(b) => Left(b)'

LEMMA KeepsAlso ==
    /\ UNCHANGED out => Keeps(1)
    /\ UNCHANGED <<task, hand>> => Keeps(2) /\ Keeps(7)
    /\ UNCHANGED down => Keeps(3)
    /\ UNCHANGED dev => Keeps(4) /\ Keeps(5)
    /\ UNCHANGED up => Keeps(6)
    /\ UNCHANGED got => Keeps(8)
BY DEF Keeps, Stands, Lies

LEMMA OnlyThere ==
    ASSUME OnePlace, NEW c \in Call, NEW n \in Place, Stands(c, n)
    PROVE  /\ Left(c) /\ ran[c] = (IF n <= 4 THEN 0 ELSE 1)
           /\ \A m \in Place \ {n} : ~Stands(c, m)
BY DEF OnePlace

LEMMA NothingMoves ==
    ASSUME OnePlace, ran' = ran, NoneComesBack, \A m \in Place : Keeps(m)
    PROVE  OnePlace'
BY DEF OnePlace, NoneComesBack, Keeps

LEMMA OneMoves ==
    ASSUME OnePlace, ran \in [Call -> Nat], NEW c \in Call, NEW n \in 0 .. 7, NoneComesBack,
           n = 0 => ~Left(c) /\ Left(c)',
           n # 0 => Stands(c, n) /\ Loses(n, c),
           Gains(n + 1, c), \A m \in Place \ {n, n + 1} : Keeps(m),
           Counts(n, c)
    PROVE  OnePlace'
<1>1. \A m \in Place : Stands(c, m)' => m = n + 1
  <2> SUFFICES ASSUME NEW m \in Place, Stands(c, m)', m # n + 1 PROVE FALSE
    OBVIOUS
  <2>1. m # n
    BY DEF Loses, Place
  <2>2. Stands(c, m)
    BY <2>1 DEF Keeps
  <2>3. CASE n = 0
    BY <2>2, <2>3 DEF OnePlace
  <2>4. CASE n # 0
    <3>1. n \in Place
      BY <2>4 DEF Place
    <3> QED BY <2>1, <2>2, <2>4, <3>1, OnlyThere
  <2> QED BY <2>3, <2>4
<1>2. Left(c)' /\ ran'[c] = (IF n + 1 <= 4 THEN 0 ELSE 1)
  <2>1. CASE n = 0
    BY <2>1 DEF OnePlace, Counts
  <2>2. CASE n # 0
    <3>1. n \in Place /\ n \in Nat
      BY <2>2 DEF Place
    <3>2. Left(c) /\ ran[c] = (IF n <= 4 THEN 0 ELSE 1)
      BY <2>2, <3>1, OnlyThere
    <3> QED BY <3>1, <3>2 DEF NoneComesBack, Counts
  <2> QED BY <2>1, <2>2
<1>3. ASSUME NEW b \in Call, b # c
      PROVE  /\ ran'[b] = ran[b] /\ (Left(b) => Left(b)')
             /\ \A m \in Place : Stands(b, m)' => Stands(b, m)
  <2>1. \A m \in Place : Stands(b, m)' => Stands(b, m)
    BY <1>3 DEF Gains, Keeps, Loses, Place
  <2>2. ran'[b] = ran[b]
    BY <1>3 DEF Counts
  <2> QED BY <2>1, <2>2 DEF NoneComesBack
<1>4. ASSUME NEW b \in Call
      PROVE  /\ ~Left(b)' => ran'[b] = 0
             /\ \A m \in Place : Stands(b, m)' =>
                  /\ Left(b)' /\ ran'[b] = (IF m <= 4 THEN 0 ELSE 1)
                  /\ \A k \in Place : Stands(b, k)' => k = m
  <2>1. CASE b = c
    BY <1>1, <1>2, <2>1
  <2>2. CASE b # c
    BY <1>3, <2>2 DEF OnePlace
  <2> QED BY <2>1, <2>2
<1> QED BY <1>4 DEF OnePlace

\* A task's hand: what it held is gone, what it takes is new there.
LEMMA HandMoves ==
    ASSUME TaskTypes, HandsDiffer, NEW s \in Session, NEW step, NEW f, Hold(s, f, step)
    PROVE  /\ step # "deliver" => Keeps(2)
           /\ step # "complete" => Keeps(7)
           /\ \A c \in Call : f = Frame("call", c) => Gains(2, c)
           /\ \A c \in Call : f = Frame("result", c) => Gains(7, c)
           /\ \A c \in Call : /\ task[s] = "deliver" /\ step # "deliver" /\ hand[s] = Frame("call", c)
                              => Loses(2, c)
           /\ \A c \in Call : /\ task[s] = "complete" /\ step # "complete" /\ hand[s] = Frame("result", c)
                              => Loses(7, c)
<1>1. /\ task'[s] = step /\ hand'[s] = f
      /\ \A t \in Session \ {s} : task'[t] = task[t] /\ hand'[t] = hand[t]
  BY DEF TaskTypes, Hold, TaskTo
<1>2. \A b, c \in Call : /\ Frame("call", b) = Frame("call", c) => b = c
                         /\ Frame("result", b) = Frame("result", c) => b = c
  BY DEF Frame
<1>3. step # "deliver" => Keeps(2)
  BY <1>1 DEF Keeps, Stands
<1>4. step # "complete" => Keeps(7)
  BY <1>1 DEF Keeps, Stands
<1>5. \A c \in Call : f = Frame("call", c) => Gains(2, c)
  BY <1>1, <1>2 DEF Gains, Stands
<1>6. \A c \in Call : f = Frame("result", c) => Gains(7, c)
  BY <1>1, <1>2 DEF Gains, Stands
<1>7. ASSUME NEW c \in Call, task[s] = "deliver", step # "deliver", hand[s] = Frame("call", c)
      PROVE  ~Stands(c, 2)'
  BY <1>1, <1>7 DEF Stands, HandsDiffer
<1>8. ASSUME NEW c \in Call, task[s] = "complete", step # "complete", hand[s] = Frame("result", c)
      PROVE  ~Stands(c, 7)'
  BY <1>1, <1>8 DEF Stands, HandsDiffer
<1> QED BY <1>3, <1>4, <1>5, <1>6, <1>7, <1>8 DEF Loses

\* The device goes from one step to the next.
LEMMA DeviceMoves ==
    /\ dev'.at # "work" => Keeps(4) /\ \A c \in Call : ~Stands(c, 4)'
    /\ dev'.at # "send" => Keeps(5) /\ \A c \in Call : ~Stands(c, 5)'
    /\ \A c \in Call : dev'.job = Frame("call", c) => Gains(4, c) /\ Keeps(5)
    /\ \A c \in Call : dev'.job = Frame("result", c) => Gains(5, c) /\ Keeps(4)
    /\ dev'.job = Beat => Keeps(4) /\ Keeps(5)
<1>1. \A b, c \in Call : /\ Frame("call", b) = Frame("call", c) => b = c
                         /\ Frame("result", b) = Frame("result", c) => b = c
                         /\ Frame("call", b) # Frame("result", c)
                         /\ Frame("call", b) # Beat /\ Frame("result", b) # Beat
  BY DEF Frame, Beat
<1> QED BY <1>1 DEF Keeps, Gains, Stands

\* The channels and the sockets, when a frame comes in, goes out, or all are dropped.
LEMMA OutMoves ==
    ASSUME OutTypes, Single(out, Call), NEW s \in Session
    PROVE  /\ \A c \in Call : ~Stands(c, 1) /\ out' = Lengthened(out, s, c)
                              => Gains(1, c) /\ Single(out', Call)
           /\ out[s] # << >> /\ out' = Shortened(out, s)
              => /\ \E c \in Call : c = Head(out[s]) /\ Stands(c, 1) /\ Loses(1, c)
                 /\ Single(out', Call)
           /\ out' = Renewed(out, s, << >>) => Keeps(1) /\ Single(out', Call)
<1>0. out \in [Session -> Seq(Call)]
  BY DEF OutTypes
<1>1. ASSUME NEW c \in Call, ~Stands(c, 1), out' = Lengthened(out, s, c)
      PROVE  Gains(1, c) /\ Single(out', Call)
  <2>1. ~Lies(out, c)
    BY <1>1 DEF Stands
  <2>2. /\ Single(Lengthened(out, s, c), Call)
        /\ \A y : Lies(Lengthened(out, s, c), y) => Lies(out, y) \/ y = c
    BY <1>0, <2>1, JoinsIn
  <2> QED BY <1>1, <2>2 DEF Gains, Stands
<1>2. ASSUME out[s] # << >>, out' = Shortened(out, s)
      PROVE  /\ \E c \in Call : c = Head(out[s]) /\ Stands(c, 1) /\ Loses(1, c)
             /\ Single(out', Call)
  <2>1. /\ Single(Shortened(out, s), Call) /\ Head(out[s]) \in Call /\ Lies(out, Head(out[s]))
        /\ \A y : Lies(Shortened(out, s), y) => Lies(out, y) /\ (y \in Call => y # Head(out[s]))
    BY <1>0, <1>2, LeavesOut
  <2>2. PICK c \in Call : c = Head(out[s])
    BY <2>1
  <2>3. Stands(c, 1) /\ Loses(1, c)
    BY <1>2, <2>1, <2>2 DEF Loses, Keeps, Stands
  <2> QED BY <1>2, <2>1, <2>2, <2>3
<1>3. ASSUME out' = Renewed(out, s, << >>)
      PROVE  Keeps(1) /\ Single(out', Call)
  <2>1. /\ Single(Renewed(out, s, << >>), Call)
        /\ \A x \in Call : Lies(Renewed(out, s, << >>), x) => Lies(out, x)
    BY <1>0, Emptied
  <2> QED BY <1>3, <2>1 DEF Keeps, Stands
<1> QED BY <1>1, <1>2, <1>3

LEMMA DownMoves ==
    ASSUME DownTypes, Single(down, CallFrames), NEW s \in Session
    PROVE  /\ \A c \in Call : ~Stands(c, 3) /\ down' = Lengthened(down, s, Frame("call", c))
                              => Gains(3, c) /\ Single(down', CallFrames)
           /\ \A f \in Answers : down' = Lengthened(down, s, f) => Keeps(3) /\ Single(down', CallFrames)
           /\ down[s] # << >> /\ down' = Shortened(down, s)
              => /\ Keeps(3) /\ Single(down', CallFrames)
                 /\ \A c \in Call : Head(down[s]) = Frame("call", c) => Stands(c, 3) /\ Loses(3, c)
           /\ down' = Renewed(down, s, << >>) => Keeps(3) /\ Single(down', CallFrames)
<1> DEFINE F == CallFrames \cup Answers
<1>0. /\ down \in [Session -> Seq(F)]
      /\ \A c \in Call : Frame("call", c) \in CallFrames /\ Frame("call", c) \in F
      /\ \A b, c \in Call : Frame("call", b) = Frame("call", c) => b = c
  BY DEF DownTypes, CallFrames, Frame
<1>1. ASSUME NEW c \in Call, ~Stands(c, 3), down' = Lengthened(down, s, Frame("call", c))
      PROVE  Gains(3, c) /\ Single(down', CallFrames)
  <2>1. ~Lies(down, Frame("call", c))
    BY <1>1 DEF Stands
  <2>2. /\ Single(Lengthened(down, s, Frame("call", c)), CallFrames)
        /\ \A y : Lies(Lengthened(down, s, Frame("call", c)), y) => Lies(down, y) \/ y = Frame("call", c)
    BY <1>0, <2>1, JoinsIn
  <2> QED BY <1>0, <1>1, <2>2 DEF Gains, Stands
<1>2. ASSUME NEW f \in Answers, down' = Lengthened(down, s, f)
      PROVE  Keeps(3) /\ Single(down', CallFrames)
  <2>1. f \in F /\ f \notin CallFrames
    BY DEF Answers, CallFrames, Frame
  <2>2. /\ Single(Lengthened(down, s, f), CallFrames)
        /\ \A y : Lies(Lengthened(down, s, f), y) => Lies(down, y) \/ y = f
    BY <1>0, <2>1, JoinsIn
  <2> QED BY <1>0, <1>2, <2>1, <2>2 DEF Keeps, Stands
<1>3. ASSUME down[s] # << >>, down' = Shortened(down, s)
      PROVE  /\ Keeps(3) /\ Single(down', CallFrames)
             /\ \A c \in Call : Head(down[s]) = Frame("call", c) => Stands(c, 3) /\ Loses(3, c)
  <2>1. /\ Single(Shortened(down, s), CallFrames) /\ Lies(down, Head(down[s]))
        /\ \A y : Lies(Shortened(down, s), y) => Lies(down, y) /\ (y \in CallFrames => y # Head(down[s]))
    BY <1>0, <1>3, LeavesOut
  <2> QED BY <1>0, <1>3, <2>1 DEF Loses, Keeps, Stands
<1>4. ASSUME down' = Renewed(down, s, << >>)
      PROVE  Keeps(3) /\ Single(down', CallFrames)
  <2>1. /\ Single(Renewed(down, s, << >>), CallFrames)
        /\ \A x \in CallFrames : Lies(Renewed(down, s, << >>), x) => Lies(down, x)
    BY <1>0, Emptied
  <2> QED BY <1>0, <1>4, <2>1 DEF Keeps, Stands
<1> QED BY <1>1, <1>2, <1>3, <1>4

LEMMA UpMoves ==
    ASSUME UpTypes, Single(up, ResultFrames), NEW s \in Session
    PROVE  /\ \A c \in Call : ~Stands(c, 6) /\ up' = Lengthened(up, s, Frame("result", c))
                              => Gains(6, c) /\ Single(up', ResultFrames)
           /\ up' = Lengthened(up, s, Beat) => Keeps(6) /\ Single(up', ResultFrames)
           /\ up[s] # << >> /\ up' = Shortened(up, s)
              => /\ Keeps(6) /\ Single(up', ResultFrames)
                 /\ \A c \in Call : Head(up[s]) = Frame("result", c) => Stands(c, 6) /\ Loses(6, c)
           /\ \A r \in {<< >>, <<Hello>>} :
                 up' = Renewed(up, s, r) => Keeps(6) /\ Single(up', ResultFrames)
<1>0. /\ up \in [Session -> Seq(Sent)] /\ Beat \in Sent
      /\ \A c \in Call : Frame("result", c) \in ResultFrames /\ Frame("result", c) \in Sent
      /\ \A b, c \in Call : Frame("result", b) = Frame("result", c) => b = c
      /\ Beat \notin ResultFrames /\ Hello \notin ResultFrames
  BY DEF UpTypes, ResultFrames, Frame, Sent, Tracked, Beat, Hello
<1>1. ASSUME NEW c \in Call, ~Stands(c, 6), up' = Lengthened(up, s, Frame("result", c))
      PROVE  Gains(6, c) /\ Single(up', ResultFrames)
  <2>1. ~Lies(up, Frame("result", c))
    BY <1>1 DEF Stands
  <2>2. /\ Single(Lengthened(up, s, Frame("result", c)), ResultFrames)
        /\ \A y : Lies(Lengthened(up, s, Frame("result", c)), y) => Lies(up, y) \/ y = Frame("result", c)
    BY <1>0, <2>1, JoinsIn
  <2> QED BY <1>0, <1>1, <2>2 DEF Gains, Stands
<1>2. ASSUME up' = Lengthened(up, s, Beat)
      PROVE  Keeps(6) /\ Single(up', ResultFrames)
  <2>1. /\ Single(Lengthened(up, s, Beat), ResultFrames)
        /\ \A y : Lies(Lengthened(up, s, Beat), y) => Lies(up, y) \/ y = Beat
    BY <1>0, JoinsIn
  <2> QED BY <1>0, <1>2, <2>1 DEF Keeps, Stands
<1>3. ASSUME up[s] # << >>, up' = Shortened(up, s)
      PROVE  /\ Keeps(6) /\ Single(up', ResultFrames)
             /\ \A c \in Call : Head(up[s]) = Frame("result", c) => Stands(c, 6) /\ Loses(6, c)
  <2>1. /\ Single(Shortened(up, s), ResultFrames) /\ Lies(up, Head(up[s]))
        /\ \A y : Lies(Shortened(up, s), y) => Lies(up, y) /\ (y \in ResultFrames => y # Head(up[s]))
    BY <1>0, <1>3, LeavesOut
  <2> QED BY <1>0, <1>3, <2>1 DEF Loses, Keeps, Stands
<1>4. ASSUME NEW r \in {<< >>, <<Hello>>}, up' = Renewed(up, s, r)
      PROVE  Keeps(6) /\ Single(up', ResultFrames)
  <2>1. r = << >> \/ \E x : x \notin ResultFrames /\ r = <<x>>
    BY <1>0
  <2>2. /\ Single(Renewed(up, s, r), ResultFrames)
        /\ \A x \in ResultFrames : Lies(Renewed(up, s, r), x) => Lies(up, x)
    BY <1>0, <2>1, Emptied
  <2> QED BY <1>0, <1>4, <2>2 DEF Keeps, Stands
<1> QED BY <1>1, <1>2, <1>3, <1>4

LEMMA HandsStay ==
    ASSUME TaskTypes, HandsDiffer, NEW s \in Session, NEW step, NEW f,
           Hold(s, f, step),
           step = "deliver" => \E c \in Call : f = Frame("call", c) /\ ~Stands(c, 2),
           step = "complete" => \E c \in Call : f = Frame("result", c) /\ ~Stands(c, 7)
    PROVE  HandsDiffer'
<1>1. /\ task'[s] = step /\ hand'[s] = f
      /\ \A t \in Session \ {s} : task'[t] = task[t] /\ hand'[t] = hand[t]
  BY DEF TaskTypes, Hold, TaskTo
<1>2. step = "deliver" => \A t \in Session : task[t] = "deliver" => hand[t] # f
  BY DEF Stands
<1>3. step = "complete" => \A t \in Session : task[t] = "complete" => hand[t] # f
  BY DEF Stands
<1> QED BY <1>1, <1>2, <1>3 DEF HandsDiffer

LEMMA OnceAlso ==
    ASSUME Once
    PROVE  /\ UNCHANGED out => Single(out', Call)
           /\ UNCHANGED down => Single(down', CallFrames)
           /\ UNCHANGED up => Single(up', ResultFrames)
           /\ UNCHANGED <<task, hand>> => HandsDiffer'
           /\ UNCHANGED got => GivenOnce'
BY DEF Once, HandsDiffer, GivenOnce

PlaceInv == OnePlace /\ Once

LEMMA CallerMoves ==
    ASSUME LinkTypes, PlaceInv, NEW c \in Call, Begin(c) \/ Proceed(c) \/ Expire(c)
    PROVE  PlaceInv'
<1>1. /\ UNCHANGED <<task, hand, down, up, dev, got>> /\ ran' = ran /\ Once /\ OnePlace
  <2>1. Begin(c) \/ Expire(c) => UNCHANGED <<task, hand, down, up, dev, got>> /\ ran' = ran
    BY DEF Begin, Expire, tasks, device, calls
  <2>2. Insert(c) \/ Send(c) => UNCHANGED <<task, hand, down, up, dev, got>> /\ ran' = ran
    BY DEF Insert, Send, tasks, device
  <2>3. /\ TakeResult(c) \/ SlotGone(c) \/ Timeout(c) \/ TakeOut(c)
        => UNCHANGED <<task, hand, down, up, dev, got>> /\ ran' = ran
    BY DEF TakeResult, SlotGone, Timeout, TakeOut, tasks, device
  <2> QED BY <2>1, <2>2, <2>3 DEF Proceed, PlaceInv
<1>2. NoneComesBack
  <2>1. CASE at' = at
    BY <2>1 DEF NoneComesBack, Left
  <2>2. CASE \E step \in CallSteps :
               at' = [at EXCEPT ![c] = step] /\ (Left(c) => step \in {"wait", "remove", "done"})
    BY <2>2 DEF NoneComesBack, Left, LinkTypes, CallTypes
  <2> QED BY <2>1, <2>2 DEF Begin, Proceed, Insert, Send, TakeResult, SlotGone, Timeout, TakeOut,
             Expire, Goto, Finish, Fail, CallSteps, Left, calls
<1>3. \A m \in Place \ {1} : Keeps(m)
  BY <1>1, KeepsAlso DEF Place
<1>4. CASE out' = out
  <2>1. \A m \in Place : Keeps(m)
    BY <1>3, <1>4, KeepsAlso
  <2>2. OnePlace'
    BY <1>1, <1>2, <2>1, NothingMoves
  <2> QED BY <1>1, <1>4, <2>2, OnceAlso DEF PlaceInv, Once
<1>5. CASE Send(c) /\ out' # out
  <2>1. /\ at[c] = "send" /\ out' = Lengthened(out, session[c], c) /\ session[c] \in Session
        /\ at' = [at EXCEPT ![c] = "wait"]
    BY <1>5 DEF Send, Lengthened, Goto, LinkTypes, CallTypes
  <2>2. ~Left(c) /\ Left(c)'
    BY <2>1 DEF Left, LinkTypes, CallTypes
  <2>3. ~Stands(c, 1)
    BY <1>1, <2>2 DEF OnePlace, Place
  <2>4. Gains(1, c) /\ Single(out', Call)
    BY <1>1, <2>1, <2>3, OutMoves DEF LinkTypes, Once
  <2>5. ran \in [Call -> Nat]
    BY DEF LinkTypes, DevTypes
  <2>6. OnePlace'
    <3>1. Gains(0 + 1, c) /\ \A m \in Place \ {0, 0 + 1} : Keeps(m)
      BY <1>3, <2>4
    <3>2. 0 \in 0 .. 7 /\ Counts(0, c)
      BY <1>1 DEF Counts
    <3> QED BY <1>1, <1>2, <2>2, <2>5, <3>1, <3>2, OneMoves
  <2> QED BY <1>1, <2>4, <2>6, OnceAlso DEF PlaceInv, Once
<1>6. Send(c) \/ out' = out
  BY DEF Begin, Proceed, Insert, TakeResult, SlotGone, Timeout, TakeOut, Expire, tasks
<1> QED BY <1>4, <1>5, <1>6

LEMMA DeliverMoves ==
    ASSUME LinkTypes, PlaceInv, NEW s \in Session, Deliver(s)
    PROVE  PlaceInv'
<1>1. /\ UNCHANGED <<at, down, up, dev, got>> /\ ran' = ran /\ Once /\ OnePlace
      /\ task[s] = "read" /\ out[s] # << >> /\ out' = Shortened(out, s)
      /\ Hold(s, Frame("call", Head(out[s])), "deliver")
  BY DEF Deliver, calls, device, Shortened, PlaceInv
<1>2. PICK c \in Call : c = Head(out[s]) /\ Stands(c, 1) /\ Loses(1, c) /\ Single(out', Call)
  BY <1>1, OutMoves DEF LinkTypes, Once
<1>3. Hold(s, Frame("call", c), "deliver")
  BY <1>1, <1>2
<1>4. Gains(2, c) /\ Keeps(7)
  BY <1>1, <1>3, HandMoves DEF LinkTypes, Once
<1>5. ~Stands(c, 2)
  BY <1>1, <1>2, OnlyThere DEF Place
<1>6. HandsDiffer'
  BY <1>1, <1>3, <1>5, HandsStay DEF LinkTypes, Once
<1>7. OnePlace'
  <2>1. \A m \in Place \ {1, 1 + 1} : Keeps(m)
    BY <1>1, <1>4, KeepsAlso DEF Place
  <2>2. NoneComesBack
    BY <1>1 DEF NoneComesBack, Left
  <2>3. 1 \in 0 .. 7 /\ Gains(1 + 1, c) /\ Counts(1, c)
    BY <1>1, <1>4 DEF Counts
  <2>4. ran \in [Call -> Nat]
    BY DEF LinkTypes, DevTypes
  <2> QED BY <1>1, <1>2, <2>1, <2>2, <2>3, <2>4, OneMoves
<1> QED BY <1>1, <1>2, <1>6, <1>7, OnceAlso DEF PlaceInv, Once

\* A step that puts nothing into the channels and the sockets and only takes out.
LEMMA OnlyTaken ==
    ASSUME PlaceInv, UNCHANGED at, ran' = ran, \A m \in Place : Keeps(m),
           Single(out', Call), Single(down', CallFrames), Single(up', ResultFrames),
           HandsDiffer', GivenOnce'
    PROVE  PlaceInv'
<1>1. NoneComesBack
  BY DEF NoneComesBack, Left
<1> QED BY <1>1, NothingMoves DEF PlaceInv, Once

LEMMA PutMoves ==
    ASSUME LinkTypes, PlaceInv, NEW s \in Session, Put(s)
    PROVE  PlaceInv'
<1>1. /\ UNCHANGED <<at, out, up, dev, got>> /\ ran' = ran /\ Once /\ OnePlace
      /\ task[s] \in {"deliver", "ack"}
  BY DEF Put, calls, device, PlaceInv
<1>2. PICK step \in {"read", "unregister"} :
          /\ Hold(s, None, step)
          /\ \/ down' = down
             \/ task[s] = "ack" /\ down' = Lengthened(down, s, Frame("ack", hand[s]))
             \/ /\ task[s] = "deliver" /\ step = "read"
                /\ down' = Lengthened(down, s, hand[s])
  BY DEF Put, Drop, Lengthened
<1>3. /\ Keeps(2) /\ Keeps(7)
      /\ \A c \in Call : task[s] = "deliver" /\ hand[s] = Frame("call", c) => Loses(2, c)
  BY <1>1, <1>2, HandMoves DEF LinkTypes, Once
<1>4. HandsDiffer'
  BY <1>1, <1>2, HandsStay DEF LinkTypes, Once
<1>5. CASE down' = down
  <2>1. \A m \in Place : Keeps(m)
    BY <1>1, <1>3, <1>5, KeepsAlso DEF Place
  <2> QED BY <1>1, <1>4, <1>5, <2>1, OnceAlso, OnlyTaken
<1>6. CASE task[s] = "ack" /\ down' = Lengthened(down, s, Frame("ack", hand[s]))
  <2>1. Frame("ack", hand[s]) \in Answers
    BY <1>6 DEF LinkTypes, TaskTypes, Answers
  <2>2. Keeps(3) /\ Single(down', CallFrames)
    BY <1>1, <1>6, <2>1, DownMoves DEF LinkTypes, Once
  <2>3. \A m \in Place : Keeps(m)
    BY <1>1, <1>3, <2>2, KeepsAlso DEF Place
  <2> QED BY <1>1, <1>4, <2>2, <2>3, OnceAlso, OnlyTaken
<1>7. CASE task[s] = "deliver" /\ down' = Lengthened(down, s, hand[s])
  <2>1. PICK c \in Call : hand[s] = Frame("call", c)
    BY <1>7 DEF LinkTypes, TaskTypes, CallFrames
  <2>2. Stands(c, 2)
    BY <1>7, <2>1 DEF Stands
  <2>3. ~Stands(c, 3)
    BY <1>1, <2>2, OnlyThere DEF Place
  <2>4. Gains(3, c) /\ Single(down', CallFrames)
    BY <1>1, <1>7, <2>1, <2>3, DownMoves DEF LinkTypes, Once
  <2>5. OnePlace'
    <3>1. \A m \in Place \ {2, 2 + 1} : Keeps(m)
      BY <1>1, <1>3, KeepsAlso DEF Place
    <3>2. NoneComesBack
      BY <1>1 DEF NoneComesBack, Left
    <3>3. 2 \in 0 .. 7 /\ Gains(2 + 1, c) /\ Counts(2, c)
      BY <1>1, <2>4 DEF Counts
    <3>4. ran \in [Call -> Nat]
      BY DEF LinkTypes, DevTypes
    <3> QED BY <1>1, <1>3, <1>7, <2>1, <2>2, <3>1, <3>2, <3>3, <3>4, OneMoves
  <2> QED BY <1>1, <1>4, <2>4, <2>5, OnceAlso DEF PlaceInv, Once
<1> QED BY <1>2, <1>5, <1>6, <1>7

LEMMA ReadMoves ==
    ASSUME LinkTypes, PlaceInv, NEW s \in Session, Read(s)
    PROVE  PlaceInv'
<1>1. /\ UNCHANGED <<at, out, down, dev, got>> /\ ran' = ran /\ Once /\ OnePlace
      /\ task[s] = "read" /\ up[s] # << >> /\ up' = Shortened(up, s)
  BY DEF Read, calls, device, PlaceInv, Shortened
<1>2. Head(up[s]) \in Sent
  BY <1>1 DEF LinkTypes, UpTypes
<1>3. PICK step \in {"register", "ack", "complete", "unregister"}, f \in Sent \cup {None} :
          /\ Hold(s, f, step)
          /\ step = "complete" => f = Head(up[s]) /\ f.kind = "result"
  BY <1>2 DEF Read, Close, Drop
<1>4. /\ Keeps(6) /\ Single(up', ResultFrames)
      /\ \A c \in Call : Head(up[s]) = Frame("result", c) => Stands(c, 6) /\ Loses(6, c)
  BY <1>1, UpMoves DEF LinkTypes, Once
<1>5. CASE step # "complete"
  <2>1. Keeps(2) /\ Keeps(7)
    BY <1>1, <1>3, <1>5, HandMoves DEF LinkTypes, Once
  <2>2. HandsDiffer'
    BY <1>1, <1>3, <1>5, HandsStay DEF LinkTypes, Once
  <2>3. \A m \in Place : Keeps(m)
    BY <1>1, <1>4, <2>1, KeepsAlso DEF Place
  <2> QED BY <1>1, <1>4, <2>2, <2>3, OnceAlso, OnlyTaken
<1>6. CASE step = "complete"
  <2>1. PICK c \in Call : f = Frame("result", c)
    BY <1>2, <1>3, <1>6 DEF Sent, Tracked, ResultFrames, Beat, Hello, Frame
  <2>2. Stands(c, 6) /\ Loses(6, c)
    BY <1>3, <1>4, <1>6, <2>1
  <2>3. ~Stands(c, 7)
    BY <1>1, <2>2, OnlyThere DEF Place
  <2>4. HandsDiffer'
    BY <1>1, <1>3, <1>6, <2>1, <2>3, HandsStay DEF LinkTypes, Once
  <2>5. Keeps(2) /\ Gains(7, c)
    BY <1>1, <1>3, <1>6, <2>1, HandMoves DEF LinkTypes, Once
  <2>6. OnePlace'
    <3>1. \A m \in Place \ {6, 6 + 1} : Keeps(m)
      BY <1>1, <2>5, KeepsAlso DEF Place
    <3>2. NoneComesBack
      BY <1>1 DEF NoneComesBack, Left
    <3>3. 6 \in 0 .. 7 /\ Gains(6 + 1, c) /\ Counts(6, c)
      BY <1>1, <2>5 DEF Counts
    <3>4. ran \in [Call -> Nat]
      BY DEF LinkTypes, DevTypes
    <3> QED BY <1>1, <2>2, <3>1, <3>2, <3>3, <3>4, OneMoves
  <2> QED BY <1>1, <1>4, <2>4, <2>6, OnceAlso DEF PlaceInv, Once
<1> QED BY <1>5, <1>6

LEMMA CompleteMoves ==
    ASSUME LinkAssumption, LinkTypes, PlaceInv, NEW s \in Session, Complete(s)
    PROVE  PlaceInv'
<1>1. /\ UNCHANGED <<at, out, down, up, dev>> /\ ran' = ran /\ Once /\ OnePlace
      /\ task[s] = "complete"
  BY DEF Complete, device, PlaceInv
<1>2. PICK c \in Call : hand[s] = Frame("result", c) /\ hand[s].of = c
  BY <1>1 DEF LinkTypes, TaskTypes, ResultFrames, Frame
<1>3. PICK step \in {"ack", "unregister"}, f \in {hand[s], None} : Hold(s, f, step)
  <2>1. hand' = hand /\ TaskTo(s, "ack") => Hold(s, hand[s], "ack")
    BY SameHand DEF Hold, LinkTypes
  <2> QED BY <2>1 DEF Complete, Close, Drop
<1>4. Keeps(2) /\ Loses(7, c)
  BY <1>1, <1>2, <1>3, HandMoves DEF LinkTypes, Once
<1>5. HandsDiffer'
  BY <1>1, <1>3, HandsStay DEF LinkTypes, Once
<1>6. Stands(c, 7)
  BY <1>1, <1>2 DEF Stands
<1>7. ~Stands(c, 8)
  BY <1>1, <1>6, OnlyThere DEF Place
<1>8. \A b \in Call : got[b] # c
  BY <1>7 DEF Stands
<1>9. got' = got \/ \E a \in Call : got' = [got EXCEPT ![a] = c]
  BY <1>2 DEF Complete, LinkTypes, HubTypes
<1>10. Gains(8, c)
  <2>1. \A b \in Call : got'[b] = got[b] \/ got'[b] = c
    BY <1>9 DEF LinkTypes, CallTypes
  <2> QED BY <2>1 DEF Gains, Stands
<1>11. GivenOnce'
  <2>1. CASE got' = got
    BY <1>1, <2>1, OnceAlso
  <2>2. CASE \E a \in Call : got' = [got EXCEPT ![a] = c]
    BY <1>1, <1>8, <2>2 DEF GivenOnce, Once, LinkTypes, CallTypes
  <2> QED BY <1>9, <2>1, <2>2
<1>12. OnePlace'
  <2>1. \A m \in Place \ {7, 7 + 1} : Keeps(m)
    BY <1>1, <1>4, KeepsAlso DEF Place
  <2>2. NoneComesBack
    BY <1>1 DEF NoneComesBack, Left
  <2>3. 7 \in 0 .. 7 /\ Gains(7 + 1, c) /\ Counts(7, c)
    BY <1>1, <1>10 DEF Counts
  <2>4. ran \in [Call -> Nat]
    BY DEF LinkTypes, DevTypes
  <2> QED BY <1>1, <1>4, <1>6, <2>1, <2>2, <2>3, <2>4, OneMoves
<1> QED BY <1>1, <1>5, <1>11, <1>12, OnceAlso DEF PlaceInv, Once

LEMMA SocketMoves ==
    ASSUME LinkTypes, PlaceInv, NEW s \in Session,
           Register(s) \/ TaskEnds(s) \/ Unregister(s) \/ Break(s) \/ Connect(s)
    PROVE  PlaceInv'
<1>1. UNCHANGED <<at, down, got>> /\ ran' = ran /\ Once /\ OnePlace
  BY DEF Register, TaskEnds, Unregister, Break, Connect, calls, device, PlaceInv
<1>2. Keeps(1) /\ Single(out', Call)
  <2>1. out' = out \/ out' = Renewed(out, s, << >>)
    BY DEF Register, TaskEnds, Unregister, Break, Connect, tasks, Renewed
  <2> QED BY <1>1, <2>1, OutMoves, KeepsAlso, OnceAlso DEF LinkTypes, Once
<1>3. Keeps(6) /\ Single(up', ResultFrames)
  <2>1. up' = up \/ up' = Renewed(up, s, << >>) \/ up' = Renewed(up, s, <<Hello>>)
    BY DEF Register, TaskEnds, Unregister, Break, Connect, Renewed
  <2> QED BY <1>1, <2>1, UpMoves, KeepsAlso, OnceAlso DEF LinkTypes, Once
<1>4. Keeps(2) /\ Keeps(7) /\ HandsDiffer'
  <2>1. CASE UNCHANGED <<task, hand>>
    BY <1>1, <2>1, KeepsAlso, OnceAlso
  <2>2. CASE \E step \in {"ack", "unregister", "ended", "read"} : Hold(s, hand[s], step)
    <3>1. PICK step \in {"ack", "unregister", "ended", "read"} : Hold(s, hand[s], step)
      BY <2>2
    <3>2. Keeps(2) /\ Keeps(7)
      BY <1>1, <3>1, HandMoves DEF LinkTypes, Once
    <3>3. HandsDiffer'
      BY <1>1, <3>1, HandsStay DEF LinkTypes, Once
    <3> QED BY <3>2, <3>3
  <2>3. Break(s) => UNCHANGED <<task, hand>>
    BY DEF Break, tasks
  <2>4. Register(s) \/ TaskEnds(s) \/ Unregister(s) \/ Connect(s)
        => \E step \in {"ack", "unregister", "ended", "read"} : Hold(s, hand[s], step)
    <3>1. hand' = hand => hand' = [hand EXCEPT ![s] = hand[s]]
      BY SameHand DEF LinkTypes
    <3> QED BY <3>1 DEF Register, TaskEnds, Unregister, Connect, Hold
  <2> QED BY <2>1, <2>2, <2>3, <2>4
<1>5. Keeps(4) /\ Keeps(5)
  <2>1. dev' = dev \/ dev'.at = "greet"
    BY DEF Register, TaskEnds, Unregister, Break, Connect, device
  <2> QED BY <2>1, DeviceMoves, KeepsAlso
<1>6. \A m \in Place : Keeps(m)
  BY <1>1, <1>2, <1>3, <1>4, <1>5, KeepsAlso DEF Place
<1> QED BY <1>1, <1>2, <1>3, <1>4, <1>6, OnceAlso, OnlyTaken

\* The device's steps leave the callers and the tasks alone.
LEMMA DeviceAlone ==
    ASSUME PlaceInv, Die \/ ReadFirst \/ ReadFrame \/ Work \/ Pulse \/ SendTracked
    PROVE  /\ UNCHANGED <<at, out, task, hand, got>> /\ NoneComesBack /\ OnePlace /\ Once
           /\ \A m \in {1, 2, 7, 8} : Keeps(m)
           /\ Single(out', Call) /\ HandsDiffer' /\ GivenOnce'
<1>1. UNCHANGED <<at, out, task, hand, got>>
  BY DEF Die, ReadFirst, ReadFrame, Work, Pulse, SendTracked, tasks, calls
<1>2. NoneComesBack
  BY <1>1 DEF NoneComesBack, Left
<1> QED BY <1>1, <1>2, KeepsAlso, OnceAlso DEF PlaceInv

\* It hangs up.
LEMMA HungUp ==
    ASSUME LinkTypes, PlaceInv, dev.at # "down", HangUp
    PROVE  /\ Keeps(3) /\ Keeps(4) /\ Keeps(5) /\ Single(down', CallFrames)
           /\ \A c \in Call : ~Stands(c, 4)' /\ ~Stands(c, 5)'
<1>1. dev.session \in Session /\ down' = Renewed(down, dev.session, << >>) /\ dev'.at = "down"
  BY DEF LinkTypes, DevTypes, HangUp, Offline, Renewed
<1> QED BY <1>1, DownMoves, DeviceMoves DEF LinkTypes, PlaceInv, Once

LEMMA DieMoves ==
    ASSUME LinkTypes, PlaceInv, Die \/ (ReadFirst /\ HangUp) \/ (ReadFrame /\ HangUp)
                                    \/ (SendTracked /\ HangUp)
    PROVE  PlaceInv'
<1>1. /\ Keeps(3) /\ Keeps(4) /\ Keeps(5) /\ Single(down', CallFrames)
  BY HungUp DEF Die, ReadFirst, ReadFrame, SendTracked
<1>2. up' = up /\ ran' = ran
  <2>1. SendTracked /\ HangUp => up' = up
    BY DEF SendTracked, HangUp, Offline, LinkTypes, DevTypes
  <2> QED BY <2>1 DEF Die, ReadFirst, ReadFrame, SendTracked
<1>3. \A m \in Place : Keeps(m)
  BY <1>1, <1>2, DeviceAlone, KeepsAlso DEF Place
<1> QED BY <1>1, <1>2, <1>3, DeviceAlone, OnceAlso, OnlyTaken

LEMMA TakeMoves ==
    ASSUME LinkTypes, PlaceInv, ReadFirst \/ ReadFrame, ~HangUp
    PROVE  PlaceInv'
<1> DEFINE s == dev.session
<1>1. /\ s \in Session /\ down[s] # << >> /\ down' = Shortened(down, s)
      /\ up' = up /\ ran' = ran
  BY DEF ReadFirst, ReadFrame, Take, Incoming, Shortened, LinkTypes, DevTypes
<1>2. /\ Keeps(3) /\ Single(down', CallFrames)
      /\ \A c \in Call : Head(down[s]) = Frame("call", c) => Stands(c, 3) /\ Loses(3, c)
  <2> HIDE DEF s
  <2> QED BY <1>1, DownMoves DEF LinkTypes, PlaceInv, Once
<1>3. CASE dev'.at = "serve"
  <2>1. Keeps(4) /\ Keeps(5)
    BY <1>3, DeviceMoves
  <2>2. \A m \in Place : Keeps(m)
    BY <1>1, <1>2, <2>1, DeviceAlone, KeepsAlso DEF Place
  <2> QED BY <1>1, <1>2, <2>2, DeviceAlone, OnceAlso, OnlyTaken
<1>4. CASE dev' = [dev EXCEPT !.at = "work", !.job = Head(down[s])] /\ Head(down[s]).kind = "call"
  <2>1. Head(down[s]) \in CallFrames \cup Answers
    BY <1>1 DEF LinkTypes, DownTypes
  <2>2. PICK c \in Call : Head(down[s]) = Frame("call", c)
    <3>1. \A f \in CallFrames \cup Answers : f.kind = "call" => \E c \in Call : f = Frame("call", c)
      BY DEF CallFrames, Answers, Frame
    <3> QED BY <1>4, <2>1, <3>1
  <2>3. Stands(c, 3) /\ Loses(3, c)
    BY <1>2, <2>2
  <2>4. dev'.job = Frame("call", c)
    BY <1>4, <2>2 DEF LinkTypes, DevTypes
  <2>5. Gains(4, c) /\ Keeps(5)
    BY <2>4, DeviceMoves
  <2>6. OnePlace'
    <3>1. \A m \in Place \ {3, 3 + 1} : Keeps(m)
      BY <1>1, <2>5, DeviceAlone, KeepsAlso DEF Place
    <3>2. 3 \in 0 .. 7 /\ Gains(3 + 1, c) /\ Counts(3, c)
      BY <1>1, <2>5 DEF Counts
    <3>3. ran \in [Call -> Nat]
      BY DEF LinkTypes, DevTypes
    <3> QED BY <2>3, <3>1, <3>2, <3>3, DeviceAlone, OneMoves
  <2> QED BY <1>1, <1>2, <2>6, DeviceAlone, OnceAlso DEF PlaceInv, Once
<1>5. ReadFirst => dev'.at = "serve"
  BY DEF ReadFirst, LinkTypes, DevTypes
<1>6. ReadFrame => \/ dev'.at = "serve"
                   \/ dev' = [dev EXCEPT !.at = "work", !.job = Head(down[s])] /\ Head(down[s]).kind = "call"
  BY DEF ReadFrame, Incoming
<1> QED BY <1>3, <1>4, <1>5, <1>6

LEMMA WorkMoves ==
    ASSUME LinkTypes, PlaceInv, Work
    PROVE  PlaceInv'
<1>1. dev.at = "work" /\ up' = up /\ ran' = [ran EXCEPT ![dev.job.of] = @ + 1]
  BY DEF Work
<1>2. PICK c \in Call : dev.job = Frame("call", c) /\ dev.job.of = c
  BY <1>1 DEF LinkTypes, DevTypes, CallFrames, Frame
<1>3. Stands(c, 4)
  BY <1>1, <1>2 DEF Stands
<1>4. Keeps(3) /\ Single(down', CallFrames) /\ Loses(4, c) /\ Gains(5, c)
  <2>1. CASE HangUp
    <3>1. Keeps(3) /\ Keeps(4) /\ Keeps(5) /\ Single(down', CallFrames) /\ ~Stands(c, 4)'
      BY <1>1, <2>1, HungUp
    <3> QED BY <3>1 DEF Loses, Gains, Keeps
  <2>2. CASE dev' = [dev EXCEPT !.at = "send", !.job = Frame("result", c)] /\ down' = down
    <3>1. dev'.at = "send" /\ dev'.job = Frame("result", c)
      BY <2>2 DEF LinkTypes, DevTypes
    <3> QED BY <2>2, <3>1, DeviceMoves, KeepsAlso, OnceAlso DEF Loses, PlaceInv
  <2> QED BY <1>2, <2>1, <2>2 DEF Work
<1>5. OnePlace'
  <2>1. \A m \in Place \ {4, 4 + 1} : Keeps(m)
    BY <1>1, <1>4, DeviceAlone, KeepsAlso DEF Place
  <2>2. ran' = [ran EXCEPT ![c] = @ + 1]
    BY <1>1, <1>2
  <2>3. ran \in [Call -> Nat] /\ 4 \in 0 .. 7 /\ Gains(4 + 1, c)
    BY <1>4 DEF LinkTypes, DevTypes
  <2>4. Counts(4, c)
    BY <2>2 DEF Counts
  <2>5. NoneComesBack /\ OnePlace
    BY DeviceAlone
  <2> QED BY <1>3, <1>4, <2>1, <2>3, <2>4, <2>5, OneMoves
<1> QED BY <1>1, <1>4, <1>5, DeviceAlone, OnceAlso DEF PlaceInv, Once

LEMMA PulseMoves ==
    ASSUME LinkTypes, PlaceInv, Pulse
    PROVE  PlaceInv'
<1>1. UNCHANGED <<down, up>> /\ ran' = ran /\ dev'.job = Beat
  BY DEF Pulse, LinkTypes, DevTypes
<1>2. \A m \in Place : Keeps(m)
  BY <1>1, DeviceAlone, DeviceMoves, KeepsAlso DEF Place
<1> QED BY <1>1, <1>2, DeviceAlone, OnceAlso, OnlyTaken

LEMMA SendMoves ==
    ASSUME LinkTypes, PlaceInv, SendTracked, ~HangUp
    PROVE  PlaceInv'
<1> DEFINE s == dev.session
<1>1. /\ s \in Session /\ up' = Lengthened(up, s, dev.job) /\ dev.job \in Tracked
      /\ down' = down /\ ran' = ran /\ dev.at = "send"
      /\ dev'.at = "serve"
  BY DEF SendTracked, Lengthened, LinkTypes, DevTypes
<1> HIDE DEF s
<1>2. /\ Keeps(4) /\ Keeps(5) /\ \A c \in Call : ~Stands(c, 5)'
  BY <1>1, DeviceMoves
<1>3. CASE dev.job = Beat
  <2>1. Keeps(6) /\ Single(up', ResultFrames)
    BY <1>1, <1>3, UpMoves DEF LinkTypes, PlaceInv, Once
  <2>2. \A m \in Place : Keeps(m)
    BY <1>1, <1>2, <2>1, DeviceAlone, KeepsAlso DEF Place
  <2> QED BY <1>1, <2>1, <2>2, DeviceAlone, OnceAlso, OnlyTaken
<1>4. CASE dev.job \in ResultFrames
  <2>1. PICK c \in Call : dev.job = Frame("result", c)
    BY <1>4 DEF ResultFrames
  <2>2. Stands(c, 5)
    BY <1>1, <2>1 DEF Stands
  <2>3. ~Stands(c, 6)
    BY <2>2, OnlyThere DEF Place, PlaceInv
  <2>4. Gains(6, c) /\ Single(up', ResultFrames)
    BY <1>1, <2>1, <2>3, UpMoves DEF LinkTypes, PlaceInv, Once
  <2>5. OnePlace'
    <3>1. \A m \in Place \ {5, 5 + 1} : Keeps(m)
      BY <1>1, <1>2, DeviceAlone, KeepsAlso DEF Place
    <3>2. 5 \in 0 .. 7 /\ Gains(5 + 1, c) /\ Counts(5, c)
      BY <1>1, <2>4 DEF Counts
    <3>3. ran \in [Call -> Nat] /\ Loses(5, c)
      BY <1>2 DEF LinkTypes, DevTypes, Loses
    <3> QED BY <2>2, <3>1, <3>2, <3>3, DeviceAlone, OneMoves
  <2> QED BY <1>1, <2>4, <2>5, DeviceAlone, OnceAlso DEF PlaceInv, Once
<1> QED BY <1>1, <1>3, <1>4 DEF Tracked

\* A call's frame and its result are in one place, once.
LEMMA PlaceStep ==
    ASSUME LinkAssumption, LinkTypes, PlaceInv, [Next]_vars
    PROVE  PlaceInv'
<1>1. ASSUME NEW c \in Call, Begin(c) \/ Proceed(c) \/ Expire(c) PROVE PlaceInv'
  BY <1>1, CallerMoves
<1>2. ASSUME NEW s \in Session, Serve(s) \/ Break(s) \/ Connect(s) PROVE PlaceInv'
  BY <1>2, DeliverMoves, ReadMoves, CompleteMoves, PutMoves, SocketMoves DEF Serve
<1>3. CASE Die \/ ReadFirst \/ ReadFrame \/ Work \/ Pulse \/ SendTracked
  BY <1>3, DieMoves, TakeMoves, WorkMoves, PulseMoves, SendMoves
<1>4. CASE UNCHANGED vars
  <2>1. UNCHANGED <<at, got, out, task, hand, down, up, dev, ran>>
    BY <1>4 DEF vars, calls, tasks, device
  <2>2. \A m \in Place : Keeps(m)
    BY <2>1, KeepsAlso DEF Place
  <2> QED BY <2>1, <2>2, OnceAlso, OnlyTaken DEF PlaceInv
<1> QED BY <1>1, <1>2, <1>3, <1>4 DEF Next, Rest
-----------------------------------------------------------------------------
(* The relay's link: slots and answers.                                    *)

\* A slot belongs to a call of its id that will take it out; a call that was given a
\* result has its slot no more, and was given the result for its id.
SlotOwned ==
    \A i \in Id : pending[i] # None =>
        IdOf[pending[i]] = i /\ at[pending[i]] \in {"send", "wait", "remove"}
GivenFits ==
    \A c \in Call : got[c] # None =>
        IdOf[got[c]] = IdOf[c] /\ pending[IdOf[c]] # c /\ at[c] \notin {"idle", "insert"}
SlotInv == SlotOwned /\ GivenFits

LEMMA SlotsKept == SlotInv /\ UNCHANGED <<at, got, pending>> => SlotInv'
BY DEF SlotInv, SlotOwned, GivenFits

\* A caller goes on, and what it does to its slot.
LEMMA CallerSlots ==
    ASSUME LinkAssumption, LinkTypes, SlotInv, NEW c \in Call, Begin(c) \/ Proceed(c) \/ Expire(c)
    PROVE  SlotInv'
<1> USE DEF LinkAssumption, LinkTypes, HubTypes, CallTypes
<1>0. got' = got /\ IdOf[c] \in Id
  BY DEF Begin, Proceed, Insert, Send, TakeResult, SlotGone, Timeout, TakeOut, Expire, calls
<1>1. CASE Begin(c)
  <2>1. /\ at[c] = "idle" /\ pending' = pending
        /\ \E step \in {"insert", "done"} : at' = [at EXCEPT ![c] = step]
    BY <1>1 DEF Begin, Goto, Finish, hub
  <2> QED BY <1>0, <2>1 DEF SlotInv, SlotOwned, GivenFits
<1>2. CASE Insert(c)
  <2>1. CASE pending' = pending /\ at' = [at EXCEPT ![c] = "done"] /\ at[c] = "insert"
    BY <1>0, <2>1 DEF SlotInv, SlotOwned, GivenFits
  <2>2. CASE /\ pending' = [pending EXCEPT ![IdOf[c]] = c] /\ pending[IdOf[c]] = None
             /\ at' = [at EXCEPT ![c] = "send"] /\ at[c] = "insert"
    <3>1. SlotOwned'
      BY <2>2 DEF SlotInv, SlotOwned
    <3>2. GivenFits'
      BY <1>0, <2>2 DEF SlotInv, GivenFits
    <3> QED BY <3>1, <3>2 DEF SlotInv
  <2> QED BY <1>2, <2>1, <2>2 DEF Insert, Goto, Finish
<1>3. CASE Send(c) \/ SlotGone(c) \/ Timeout(c)
  <2>1. /\ pending' = pending /\ at[c] \in {"send", "wait"}
        /\ \E step \in {"wait", "remove"} : at' = [at EXCEPT ![c] = step]
    BY <1>3 DEF Send, SlotGone, Timeout, Goto, Fail, hub
  <2> QED BY <1>0, <2>1 DEF SlotInv, SlotOwned, GivenFits
<1>4. CASE TakeResult(c)
  <2>1. pending' = pending /\ at[c] = "wait" /\ got[c] # None /\ at' = [at EXCEPT ![c] = "done"]
    BY <1>4 DEF TakeResult, Goto, Finish, hub
  <2> QED BY <1>0, <2>1 DEF SlotInv, SlotOwned, GivenFits
<1>5. CASE TakeOut(c)
  <2>1. /\ pending' = [pending EXCEPT ![IdOf[c]] = None]
        /\ at[c] = "remove" /\ at' = [at EXCEPT ![c] = "done"]
    BY <1>5 DEF TakeOut, Goto
  <2> QED BY <1>0, <2>1 DEF SlotInv, SlotOwned, GivenFits
<1>6. CASE Expire(c)
  BY <1>6, SlotsKept DEF Expire, hub, calls
<1> QED BY <1>1, <1>2, <1>3, <1>4, <1>5, <1>6 DEF Proceed

LEMMA SlotStep ==
    ASSUME LinkAssumption, LinkTypes, SlotInv, [Next]_vars
    PROVE  SlotInv'
<1>1. ASSUME NEW s \in Session, Complete(s) PROVE SlotInv'
  <2> USE DEF LinkAssumption, LinkTypes, HubTypes, CallTypes
  <2>1. PICK r \in Call : hand[s].of = r
    BY <1>1 DEF Complete, TaskTypes, ResultFrames, Frame
  <2> DEFINE i == IdOf[r]
             c == pending[i]
  <2>2. i \in Id
    BY <2>1
  <2>3. at' = at /\ pending' = [pending EXCEPT ![i] = None]
    BY <1>1, <2>1 DEF Complete
  <2>4. got' = got \/ (c # None /\ at[c] \in {"send", "wait"} /\ got' = [got EXCEPT ![c] = r])
    BY <1>1, <2>1 DEF Complete
  <2>5. SlotOwned'
    BY <2>2, <2>3 DEF SlotInv, SlotOwned
  <2>6. GivenFits'
    <3>1. CASE got' = got
      BY <2>2, <2>3, <3>1 DEF SlotInv, GivenFits
    <3>2. CASE c # None /\ at[c] \in {"send", "wait"} /\ got' = [got EXCEPT ![c] = r]
      <4>1. c \in Call /\ IdOf[c] = i
        BY <2>2, <3>2 DEF SlotInv, SlotOwned
      <4> QED BY <2>2, <2>3, <3>2, <4>1 DEF SlotInv, GivenFits
    <3> QED BY <2>4, <3>1, <3>2
  <2> QED BY <2>5, <2>6 DEF SlotInv
<1>2. ASSUME NEW s \in Session,
             \/ Deliver(s) \/ Read(s) \/ Register(s) \/ Put(s) \/ TaskEnds(s) \/ Unregister(s)
             \/ Break(s) \/ Connect(s)
      PROVE  SlotInv'
  BY <1>2, SlotsKept DEF Deliver, Read, Register, Put, TaskEnds, Unregister, Break, Connect, hub, calls
<1>3. CASE Die \/ ReadFirst \/ ReadFrame \/ Work \/ Pulse \/ SendTracked \/ UNCHANGED vars
  BY <1>3, SlotsKept DEF Die, ReadFirst, ReadFrame, Work, Pulse, SendTracked, vars, hub, calls
<1> QED BY <1>1, <1>2, <1>3, CallerSlots DEF Next, Serve, Rest

\* What a caller is handed is its own.
LEMMA AnswerFits ==
    ASSUME LinkAssumption, LinkTypes, PlaceInv, SlotInv
    PROVE  RelayAnswerFits
<1>1. ASSUME NEW c \in Call, got[c] # None
      PROVE  /\ IdOf[got[c]] = IdOf[c] /\ ran[got[c]] = 1
             /\ \A b \in Call \ {c} : got[b] # got[c]
  <2>1. got[c] \in Call
    BY <1>1 DEF LinkTypes, CallTypes
  <2>2. PICK r \in Call : r = got[c]
    BY <2>1
  <2>3. Stands(r, 8)
    BY <2>2 DEF Stands
  <2>4. ran[r] = 1
    BY <2>3, OnlyThere DEF Place, PlaceInv
  <2> QED BY <1>1, <2>2, <2>4 DEF SlotInv, GivenFits, PlaceInv, Once, GivenOnce
<1> QED BY <1>1 DEF RelayAnswerFits, SlotInv, SlotOwned
-----------------------------------------------------------------------------
(* The relay's link: acks on the way.                                      *)

AckPlaces(q, j) == {i \in 1 .. j : q[i].kind = "ack"}

LEMMA AckNumbers ==
    ASSUME NEW q, NEW j \in Nat
    PROVE  /\ AckNumber(q, j) = Cardinality(AckPlaces(q, j))
           /\ IsFiniteSet(AckPlaces(q, j)) /\ AckNumber(q, j) \in Nat
           /\ AckNumber(q, 0) = 0
           /\ AckNumber(q, j) = 0 => \A i \in 1 .. j : q[i].kind # "ack"
           /\ (\A i \in 1 .. j : q[i].kind # "ack") => AckNumber(q, j) = 0
           /\ AckNumber(q, j + 1) = AckNumber(q, j) + (IF q[j + 1].kind = "ack" THEN 1 ELSE 0)
<1> DEFINE A == AckPlaces(q, j)
           B == AckPlaces(q, j + 1)
<1>1. AckNumber(q, j) = Cardinality(A) /\ AckNumber(q, j + 1) = Cardinality(B)
  BY DEF AckNumber, AckPlaces
<1>2. IsFiniteSet(A)
  <2>1. IsFiniteSet(1 .. j) /\ A \in SUBSET (1 .. j)
    BY FS_Interval DEF AckPlaces
  <2> QED BY <2>1, FS_Subset
<1>3. Cardinality(A) \in Nat
  BY <1>2, FS_CardinalityType
<1>4. AckNumber(q, 0) = 0
  <2>1. AckPlaces(q, 0) = {}
    BY DEF AckPlaces
  <2> QED BY <2>1, FS_EmptySet DEF AckNumber, AckPlaces
<1>5. Cardinality(A) = 0 <=> A = {}
  BY <1>2, FS_EmptySet
<1>6. A = {} <=> \A i \in 1 .. j : q[i].kind # "ack"
  BY DEF AckPlaces
<1>7. Cardinality(B) = Cardinality(A) + (IF q[j + 1].kind = "ack" THEN 1 ELSE 0)
  <2>1. CASE q[j + 1].kind = "ack"
    <3>1. B = A \cup {j + 1} /\ j + 1 \notin A
      BY <2>1 DEF AckPlaces
    <3> HIDE DEF A, B
    <3> QED BY <1>2, <2>1, <3>1, FS_AddElement
  <2>2. CASE q[j + 1].kind # "ack"
    <3>1. B = A
      BY <2>2 DEF AckPlaces
    <3> HIDE DEF A, B
    <3> QED BY <1>3, <2>2, <3>1
  <2> QED BY <2>1, <2>2
<1> HIDE DEF A, B
<1> QED BY <1>1, <1>2, <1>3, <1>4, <1>5, <1>6, <1>7 DEF A

\* Sequences that agree on their first places have as many acks there.
LEMMA SameNumber ==
    ASSUME NEW p, NEW q, NEW j \in Nat, \A i \in 1 .. j : p[i] = q[i]
    PROVE  AckNumber(p, j) = AckNumber(q, j)
<1>1. AckPlaces(p, j) = AckPlaces(q, j)
  BY DEF AckPlaces
<1> QED BY <1>1, AckNumbers

\* The acks of what is left when the first frame is taken.
LEMMA TailNumber ==
    ASSUME NEW S, NEW q \in Seq(S), q # << >>, NEW j \in 0 .. Len(q) - 1
    PROVE  AckNumber(q, j + 1) = AckNumber(Tail(q), j) + (IF Head(q).kind = "ack" THEN 1 ELSE 0)
<1> DEFINE A == AckPlaces(Tail(q), j)
           B == AckPlaces(q, j + 1)
           f == [i \in A |-> i + 1]
<1>0. j \in Nat /\ j + 1 \in Nat
  OBVIOUS
<1>1. IsFiniteSet(A) /\ Cardinality(A) = AckNumber(Tail(q), j) /\ Cardinality(B) = AckNumber(q, j + 1)
  BY <1>0, AckNumbers
<1>2. \A i \in 1 .. j : Tail(q)[i] = q[i + 1]
  OBVIOUS
<1>3. Head(q) = q[1]
  OBVIOUS
<1>4. f \in Bijection(A, B \ {1})
  <2>1. \A i \in A : i + 1 \in B \ {1}
    BY <1>0, <1>2 DEF AckPlaces
  <2>2. \A k \in B \ {1} : k - 1 \in A /\ (k - 1) + 1 = k
    BY <1>0, <1>2 DEF AckPlaces
  <2>3. \A i, k \in A : i + 1 = k + 1 => i = k
    BY DEF AckPlaces
  <2> HIDE DEF A, B
  <2>4. f \in [A -> B \ {1}]
    BY <2>1
  <2>5. \A k \in B \ {1} : \E i \in A : f[i] = k
    BY <2>2
  <2> QED BY <2>3, <2>4, <2>5 DEF Bijection, Injection, IsInjective, Surjection
<1>5. IsFiniteSet(B \ {1}) /\ Cardinality(B \ {1}) = Cardinality(A)
  <2>1. ExistsBijection(A, B \ {1})
    BY <1>4 DEF ExistsBijection
  <2> QED BY <1>1, <2>1, FS_Bijection
<1>6. 1 \in B <=> Head(q).kind = "ack"
  BY <1>0, <1>3 DEF AckPlaces
<1>7. 1 \in B => B = (B \ {1}) \cup {1}
  OBVIOUS
<1>8. 1 \notin B => B = B \ {1}
  OBVIOUS
<1>9. Cardinality(A) \in Nat
  BY <1>1, FS_CardinalityType
<1> HIDE DEF A, B, f
<1>10. 1 \in B => Cardinality(B) = Cardinality(B \ {1}) + 1
  BY <1>5, <1>7, FS_AddElement
<1>11. CASE 1 \in B
  BY <1>1, <1>5, <1>6, <1>10, <1>11
<1>12. CASE 1 \notin B
  <2>1. Cardinality(B) = Cardinality(A)
    BY <1>5, <1>8, <1>12
  <2>2. Head(q).kind # "ack"
    BY <1>6, <1>12
  <2> QED BY <1>1, <1>9, <2>1, <2>2
<1> QED BY <1>11, <1>12

-----------------------------------------------------------------------------
\* What waits for an ack, w, is in this order: what q acknowledges, n frames more, and u.
Count(q) == AckNumber(q, Len(q))
InLine(q, w) ==
    /\ Count(q) <= Len(w)
    /\ \A j \in DOMAIN q : q[j].kind = "ack" =>
          AckNumber(q, j) \in 1 .. Count(q) /\ q[j].of = w[AckNumber(q, j)]
Follows(q, n, u, w) ==
    /\ Len(w) = Count(q) + n + Len(u)
    /\ \A k \in 1 .. Len(u) : w[Count(q) + n + k] = u[k]

LEMMA AppendNumber ==
    ASSUME NEW S, NEW q \in Seq(S), NEW f \in S
    PROVE  /\ Count(q) \in Nat
           /\ \A j \in DOMAIN q : AckNumber(Append(q, f), j) = AckNumber(q, j)
           /\ Count(Append(q, f)) = Count(q) + (IF f.kind = "ack" THEN 1 ELSE 0)
           /\ AckNumber(Append(q, f), Len(q) + 1) = Count(Append(q, f))
<1> DEFINE p == Append(q, f)
           n == Len(q)
<1>1. n \in Nat /\ Len(p) = n + 1 /\ p[n + 1] = f /\ \A i \in 1 .. n : p[i] = q[i]
  OBVIOUS
<1> HIDE DEF p, n
<1>2. \A j \in 0 .. n : AckNumber(p, j) = AckNumber(q, j)
  BY <1>1, SameNumber
<1>3. AckNumber(p, n + 1) = AckNumber(p, n) + (IF f.kind = "ack" THEN 1 ELSE 0)
  BY <1>1, AckNumbers
<1>4. Count(q) = AckNumber(q, n) /\ Count(p) = AckNumber(p, n + 1) /\ DOMAIN q = 1 .. n
  BY <1>1 DEF Count, n
<1>5. AckNumber(q, n) \in Nat
  BY <1>1, AckNumbers
<1> QED BY <1>1, <1>2, <1>3, <1>4, <1>5 DEF p, n

\* An ack is put on the wire for the frame that is next in line.
LEMMA AckPut ==
    ASSUME NEW S, NEW q \in Seq(S), NEW T, NEW w \in Seq(T), NEW u \in Seq(T), NEW h,
           NEW f \in S, f.kind = "ack", f.of = h,
           InLine(q, w), Follows(q, 1, u, w), w[Count(q) + 1] = h
    PROVE  InLine(Append(q, f), w) /\ Follows(Append(q, f), 0, u, w)
<1> DEFINE p == Append(q, f)
           n == Len(q)
<1>1. /\ n \in Nat /\ DOMAIN q = 1 .. n /\ DOMAIN p = 1 .. n + 1 /\ p[n + 1] = f
      /\ \A i \in 1 .. n : p[i] = q[i]
  OBVIOUS
<1>2. /\ Count(q) \in Nat /\ Count(p) = Count(q) + 1 /\ AckNumber(p, n + 1) = Count(p)
      /\ \A j \in 1 .. n : AckNumber(p, j) = AckNumber(q, j)
  BY <1>1, AppendNumber
<1>3. Len(w) \in Nat /\ Len(u) \in Nat
  OBVIOUS
<1> HIDE DEF p, n
<1>4. Follows(p, 0, u, w)
  <2>1. /\ Len(w) = Count(q) + 1 + Len(u)
        /\ \A k \in 1 .. Len(u) : w[Count(q) + 1 + k] = u[k]
    BY DEF Follows
  <2>2. \A k \in 0 .. Len(u) : Count(p) + 0 + k = Count(q) + 1 + k
    BY <1>2, <1>3
  <2>3. Len(u) \in 0 .. Len(u) /\ \A k \in 1 .. Len(u) : k \in 0 .. Len(u)
    BY <1>3
  <2> QED BY <2>1, <2>2, <2>3 DEF Follows
<1>5. Count(p) <= Len(w)
  BY <1>2, <1>3 DEF Follows
<1>6. ASSUME NEW j \in DOMAIN p, p[j].kind = "ack"
      PROVE  AckNumber(p, j) \in 1 .. Count(p) /\ p[j].of = w[AckNumber(p, j)]
  <2>1. CASE j \in 1 .. n
    BY <1>1, <1>2, <1>6, <2>1 DEF InLine
  <2>2. CASE j = n + 1
    BY <1>1, <1>2, <2>2
  <2> QED BY <1>1, <1>6, <2>1, <2>2
<1> QED BY <1>4, <1>5, <1>6 DEF InLine, p

\* A call's frame is put on the wire.
LEMMA CallPut ==
    ASSUME NEW S, NEW q \in Seq(S), NEW w, NEW f \in S, f.kind # "ack", InLine(q, w)
    PROVE  InLine(Append(q, f), w) /\ Count(Append(q, f)) = Count(q)
<1> DEFINE p == Append(q, f)
           n == Len(q)
<1>1. /\ n \in Nat /\ DOMAIN q = 1 .. n /\ DOMAIN p = 1 .. n + 1 /\ p[n + 1] = f
      /\ \A i \in 1 .. n : p[i] = q[i]
  OBVIOUS
<1>2. /\ Count(q) \in Nat /\ Count(p) = Count(q)
      /\ \A j \in 1 .. n : AckNumber(p, j) = AckNumber(q, j)
  BY <1>1, AppendNumber
<1> HIDE DEF p, n
<1>3. \A j \in DOMAIN p : p[j].kind = "ack" => j \in 1 .. n
  BY <1>1
<1> QED BY <1>1, <1>2, <1>3 DEF InLine, p

\* The device remembers one more.
LEMMA TrackedLast ==
    ASSUME NEW S, NEW q \in Seq(S), NEW T, NEW w \in Seq(T), NEW x \in T, InLine(q, w)
    PROVE  /\ InLine(q, Append(w, x))
           /\ \A n \in {0, 1}, u \in Seq(T) :
                 Follows(q, n, u, w) => Follows(q, n, Append(u, x), Append(w, x))
           /\ Count(q) + 1 <= Len(w) => Append(w, x)[Count(q) + 1] = w[Count(q) + 1]
<1>1. Len(w) \in Nat /\ \A i \in 1 .. Len(w) : Append(w, x)[i] = w[i]
  OBVIOUS
<1>2. Len(Append(w, x)) = Len(w) + 1 /\ Append(w, x)[Len(w) + 1] = x
  OBVIOUS
<1>3. Count(q) \in Nat
  BY AckNumbers DEF Count
<1>4. InLine(q, Append(w, x))
  BY <1>1, <1>2, <1>3 DEF InLine
<1>5. ASSUME NEW n \in {0, 1}, NEW u \in Seq(T), Follows(q, n, u, w)
      PROVE  Follows(q, n, Append(u, x), Append(w, x))
  <2>1. /\ Len(u) \in Nat /\ Len(Append(u, x)) = Len(u) + 1 /\ Append(u, x)[Len(u) + 1] = x
        /\ \A i \in 1 .. Len(u) : Append(u, x)[i] = u[i]
    OBVIOUS
  <2>2. /\ Len(w) = Count(q) + n + Len(u)
        /\ \A k \in 1 .. Len(u) : w[Count(q) + n + k] = u[k]
    BY <1>5 DEF Follows
  <2> DEFINE v == Append(u, x)
             y == Append(w, x)
  <2>3. Len(y) = Count(q) + n + Len(v)
    BY <1>2, <1>3, <2>1, <2>2
  <2>4. ASSUME NEW k \in 1 .. Len(v) PROVE y[Count(q) + n + k] = v[k]
    <3>1. CASE k \in 1 .. Len(u)
      <4>1. Count(q) + n + k \in 1 .. Len(w)
        BY <1>3, <2>1, <2>2, <3>1
      <4> QED BY <1>1, <2>1, <2>2, <3>1, <4>1
    <3>2. CASE k = Len(u) + 1
      <4>1. Count(q) + n + k = Len(w) + 1
        BY <1>3, <2>1, <2>2, <3>2
      <4> QED BY <1>2, <2>1, <3>2, <4>1
    <3>3. k \in 1 .. Len(u) \/ k = Len(u) + 1
      BY <2>1
    <3> HIDE DEF v, y
    <3> QED BY <3>1, <3>2, <3>3
  <2> QED BY <2>3, <2>4 DEF Follows
<1>6. Count(q) + 1 <= Len(w) => Append(w, x)[Count(q) + 1] = w[Count(q) + 1]
  BY <1>1, <1>3
<1> QED BY <1>4, <1>5, <1>6

\* The task takes the next frame of the device into its hand.
LEMMA NextRead ==
    ASSUME NEW R, NEW q \in Seq(R), NEW w, NEW S, NEW u \in Seq(S), u # << >>, Follows(q, 0, u, w)
    PROVE  Follows(q, 1, Tail(u), w) /\ w[Count(q) + 1] = Head(u)
<1>1. Count(q) \in Nat
  BY AckNumbers DEF Count
<1>2. /\ Head(u) = u[1] /\ Len(u) \in Nat \ {0} /\ Len(Tail(u)) = Len(u) - 1
      /\ \A k \in 1 .. Len(u) - 1 : Tail(u)[k] = u[k + 1]
  OBVIOUS
<1>3. /\ Len(w) = Count(q) + Len(u)
      /\ \A k \in 1 .. Len(u) : w[Count(q) + k] = u[k]
  BY <1>1, <1>2 DEF Follows
<1>4. ASSUME NEW k \in 1 .. Len(u) - 1 PROVE w[Count(q) + 1 + k] = u[k + 1]
  <2>1. k + 1 \in 1 .. Len(u) /\ Count(q) + 1 + k = Count(q) + (k + 1)
    BY <1>1, <1>2
  <2> QED BY <1>3, <2>1
<1>5. Len(w) = Count(q) + 1 + (Len(u) - 1)
  BY <1>1, <1>2, <1>3
<1>6. w[Count(q) + 1] = u[1]
  BY <1>2, <1>3
<1> DEFINE t == Tail(u)
<1> HIDE DEF t
<1> QED BY <1>2, <1>4, <1>5, <1>6 DEF Follows, t

\* The device takes the first frame off the wire.
LEMMA FirstTaken ==
    ASSUME NEW S, NEW q \in Seq(S), q # << >>, NEW T, NEW w \in Seq(T), InLine(q, w)
    PROVE  /\ Head(q).kind # "ack" => InLine(Tail(q), w) /\ Count(Tail(q)) = Count(q)
           /\ Head(q).kind = "ack" =>
                 /\ w # << >> /\ Head(q).of = w[1]
                 /\ InLine(Tail(q), Tail(w)) /\ Count(q) = Count(Tail(q)) + 1
                 /\ \A n \in {0, 1}, u \in Seq(T) :
                       Follows(q, n, u, w) => Follows(Tail(q), n, u, Tail(w))
                 /\ Count(q) + 1 <= Len(w) => Tail(w)[Count(Tail(q)) + 1] = w[Count(q) + 1]
<1> DEFINE p == Tail(q)
           n == Len(q)
<1>1. /\ n \in Nat \ {0} /\ Len(p) = n - 1 /\ DOMAIN p = 1 .. n - 1 /\ DOMAIN q = 1 .. n
      /\ Head(q) = q[1] /\ \A i \in 1 .. n - 1 : p[i] = q[i + 1]
  OBVIOUS
<1> DEFINE d == IF Head(q).kind = "ack" THEN 1 ELSE 0
<1>2. \A j \in 0 .. n - 1 : AckNumber(q, j + 1) = AckNumber(p, j) + d
  BY TailNumber
<1>3. \A j \in Nat : AckNumber(p, j) \in Nat /\ AckNumber(q, j) \in Nat
  BY AckNumbers
<1>4. Count(q) = AckNumber(q, n) /\ Count(p) = AckNumber(p, n - 1)
  BY <1>1 DEF Count
<1>5. AckNumber(p, 0) = 0
  BY AckNumbers
<1> HIDE DEF p, n, d
<1>6. d \in {0, 1} /\ Count(q) = Count(p) + d /\ Count(p) \in Nat /\ Count(q) \in Nat
  <2>1. n - 1 \in 0 .. n - 1 /\ (n - 1) + 1 = n /\ n \in Nat /\ n - 1 \in Nat
    BY <1>1
  <2>2. d \in {0, 1}
    BY DEF d
  <2> QED BY <1>2, <1>3, <1>4, <2>1, <2>2
<1>7. ASSUME NEW j \in DOMAIN p, p[j].kind = "ack"
      PROVE  /\ AckNumber(q, j + 1) = AckNumber(p, j) + d /\ AckNumber(p, j) \in Nat
             /\ AckNumber(q, j + 1) \in 1 .. Count(q) /\ p[j].of = w[AckNumber(q, j + 1)]
             /\ AckNumber(p, j) # 0
  <2>1. j + 1 \in DOMAIN q /\ p[j] = q[j + 1] /\ j \in 0 .. n - 1 /\ j \in Nat /\ j \in 1 .. j
    BY <1>1
  <2>2. AckNumber(p, j) # 0
    BY <1>7, <2>1, AckNumbers
  <2> QED BY <1>2, <1>3, <1>7, <2>1, <2>2 DEF InLine
<1>8. ASSUME Head(q).kind # "ack"
      PROVE  InLine(p, w) /\ Count(p) = Count(q)
  <2>1. d = 0
    BY <1>8 DEF d
  <2> QED BY <1>6, <1>7, <2>1 DEF InLine
<1>9. ASSUME Head(q).kind = "ack"
      PROVE  /\ w # << >> /\ Head(q).of = w[1]
             /\ InLine(p, Tail(w)) /\ Count(q) = Count(p) + 1
             /\ \A k \in {0, 1}, u \in Seq(T) : Follows(q, k, u, w) => Follows(p, k, u, Tail(w))
             /\ Count(q) + 1 <= Len(w) => Tail(w)[Count(p) + 1] = w[Count(q) + 1]
  <2>1. d = 1
    BY <1>9 DEF d
  <2>2. AckNumber(q, 1) = 1
    <3>1. 0 \in 0 .. n - 1 /\ AckNumber(q, 0 + 1) = AckNumber(p, 0) + d
      BY <1>1, <1>2
    <3> QED BY <1>5, <2>1, <3>1
  <2>3. Count(q) <= Len(w) /\ Count(q) >= 1 /\ Len(w) \in Nat
    BY <1>6, <2>1 DEF InLine
  <2>4. w # << >> /\ Head(q).of = w[1]
    <3>1. 1 \in DOMAIN q /\ q[1].kind = "ack"
      BY <1>1, <1>9
    <3>2. q[1].of = w[1]
      BY <2>2, <3>1 DEF InLine
    <3>3. Len(w) # 0
      BY <1>6, <2>3
    <3> QED BY <1>1, <3>2, <3>3
  <2>5. Len(Tail(w)) = Len(w) - 1 /\ \A i \in 1 .. Len(w) - 1 : Tail(w)[i] = w[i + 1]
    BY <2>4
  <2> DEFINE v == Tail(w)
  <2> HIDE DEF v
  <2>6. Len(v) = Len(w) - 1 /\ \A i \in 1 .. Len(w) - 1 : v[i] = w[i + 1]
    BY <2>5 DEF v
  <2>7. InLine(p, v)
    <3>1. ASSUME NEW j \in DOMAIN p, p[j].kind = "ack"
          PROVE  AckNumber(p, j) \in 1 .. Count(p) /\ p[j].of = v[AckNumber(p, j)]
      <4>1. /\ AckNumber(q, j + 1) = AckNumber(p, j) + 1 /\ AckNumber(p, j) \in 1 .. Count(p)
            /\ p[j].of = w[AckNumber(p, j) + 1]
        BY <1>6, <1>7, <2>1, <3>1
      <4>2. AckNumber(p, j) \in 1 .. Len(w) - 1
        BY <1>6, <2>1, <2>3, <4>1
      <4> QED BY <2>6, <4>1, <4>2
    <3>2. Count(p) <= Len(v)
      BY <1>6, <2>1, <2>3, <2>6
    <3> QED BY <3>1, <3>2 DEF InLine
  <2>8. ASSUME NEW k \in {0, 1}, NEW u \in Seq(T), Follows(q, k, u, w)
        PROVE  Follows(p, k, u, v)
    <3>1. Len(u) \in Nat
      OBVIOUS
    <3>2. /\ Len(w) = Count(q) + k + Len(u)
          /\ \A m \in 1 .. Len(u) : w[Count(q) + k + m] = u[m]
      BY <2>8 DEF Follows
    <3>3. Len(v) = Count(p) + k + Len(u)
      BY <1>6, <2>1, <2>6, <3>1, <3>2
    <3>4. ASSUME NEW m \in 1 .. Len(u) PROVE v[Count(p) + k + m] = u[m]
      <4>1. /\ Count(p) + k + m \in 1 .. Len(w) - 1
            /\ (Count(p) + k + m) + 1 = Count(q) + k + m
        <5>1. k \in Nat /\ m \in Nat /\ m >= 1 /\ m <= Len(u)
          BY <3>1
        <5>2. Count(q) = Count(p) + 1 /\ Count(p) \in Nat /\ Len(w) = Count(q) + k + Len(u)
          BY <1>6, <2>1, <3>2
        <5>3. \A a, b, c \in Nat, i \in Nat : i >= 1 /\ i <= c =>
                  a + b + i \in 1 .. (a + 1 + b + c) - 1 /\ (a + b + i) + 1 = a + 1 + b + i
          OBVIOUS
        <5>4. Len(w) = Count(p) + 1 + k + Len(u) /\ Count(q) + k + m = Count(p) + 1 + k + m
          BY <5>2
        <5>5. Count(p) + k + m \in 1 .. (Count(p) + 1 + k + Len(u)) - 1
          BY <3>1, <5>1, <5>2, <5>3
        <5>6. (Count(p) + k + m) + 1 = Count(p) + 1 + k + m
          BY <3>1, <5>1, <5>2, <5>3
        <5> QED BY <5>4, <5>5, <5>6
      <4> QED BY <2>6, <3>2, <4>1
    <3> QED BY <3>3, <3>4 DEF Follows
  <2>9. Count(q) + 1 <= Len(w) => v[Count(p) + 1] = w[Count(q) + 1]
    <3> SUFFICES ASSUME Count(q) + 1 <= Len(w) PROVE v[Count(p) + 1] = w[Count(q) + 1]
      OBVIOUS
    <3>1. Count(p) + 1 \in 1 .. Len(w) - 1 /\ (Count(p) + 1) + 1 = Count(q) + 1
      BY <1>6, <2>1, <2>3
    <3> QED BY <2>6, <3>1
  <2> QED BY <1>6, <2>1, <2>4, <2>7, <2>8, <2>9 DEF v
<1> QED BY <1>8, <1>9 DEF p
-----------------------------------------------------------------------------
(* The relay's link: the order of what is acknowledged.                    *)

\* A session that nobody has opened.
Unopened ==
    \A s \in Session : task[s] = "new" =>
        s \notin bound /\ down[s] = << >> /\ (dev.at # "down" => dev.session # s)

\* The device waits for the ack of its hello, which the relay has not read, has in hand or
\* has answered before anything else; or the relay has given the session up.
Greets(s) ==
    /\ acks = << >>
    /\ \/ task[s] = "read" /\ s \notin bound /\ up[s] = <<Hello>> /\ down[s] = << >>
       \/ task[s] = "register" /\ hand[s] = Hello /\ up[s] = << >> /\ down[s] = << >>
       \/ task[s] = "ack" /\ hand[s] = Hello /\ s \in bound /\ up[s] = << >> /\ down[s] = << >>
       \/ /\ task[s] \in {"read", "deliver", "unregister", "ended"} /\ s \in bound /\ up[s] = << >>
          /\ down[s] # << >> /\ Head(down[s]) = Frame("ack", Hello) /\ Count(down[s]) = 1
       \/ task[s] \in {"unregister", "ended"} /\ down[s] = << >>

\* What the device remembers is, in this order, what is acknowledged on the wire, what the
\* task has in hand and what it has not read.
Serves(s) ==
    /\ task[s] \notin {"new", "register"} /\ s \in bound
    /\ InLine(down[s], acks)
    /\ task[s] \in {"read", "deliver"} => Follows(down[s], 0, up[s], acks)
    /\ task[s] \in {"complete", "ack"} =>
          Follows(down[s], 1, up[s], acks) /\ acks[Count(down[s]) + 1] = hand[s]

Serving == {"serve", "work", "send"}

OrderInv ==
    /\ Unopened
    /\ dev.at = "greet" => Greets(dev.session)
    /\ dev.at \in Serving => Serves(dev.session)

\* A step of one session leaves the others alone.
LEMMA OthersStay ==
    ASSUME NEW s, task'[s] = task[s], hand'[s] = hand[s], up'[s] = up[s], down'[s] = down[s],
           acks' = acks, (s \in bound') <=> (s \in bound)
    PROVE  (Greets(s) => Greets(s)') /\ (Serves(s) => Serves(s)')
<1>1. Count(down[s])' = Count(down[s])
  BY DEF Count, AckNumber
<1>2. InLine(down[s], acks) => InLine(down[s], acks)'
  BY DEF InLine, Count, AckNumber
<1>3. \A n \in {0, 1} : Follows(down[s], n, up[s], acks) => Follows(down[s], n, up[s], acks)'
  BY DEF Follows, Count, AckNumber
<1>4. Greets(s) => Greets(s)'
  BY <1>1 DEF Greets
<1>5. Serves(s) => Serves(s)'
  BY <1>1, <1>2, <1>3 DEF Serves
<1> QED BY <1>4, <1>5

LEMMA LinkSeqs ==
    ASSUME LinkTypes, NEW s \in Session
    PROVE  /\ down[s] \in Seq(CallFrames \cup Answers) /\ up[s] \in Seq(Sent)
           /\ acks \in Seq(Tracked) /\ acks \in Seq(Sent)
           /\ Count(down[s]) \in Nat
BY AckNumbers DEF LinkTypes, DownTypes, UpTypes, DevTypes, Count, Sent

\* The task of a session reads on.
LEMMA ReadInOrder ==
    ASSUME LinkTypes, NEW s \in Session, Read(s)
    PROVE  (Greets(s) => Greets(s)') /\ (Serves(s) => Serves(s)')
<1> DEFINE f == Head(up[s])
<1>1. /\ task[s] = "read" /\ up[s] # << >> /\ up'[s] = Tail(up[s])
      /\ UNCHANGED <<bound, down, acks>>
  BY DEF Read, device, LinkTypes, UpTypes
<1>2. \/ s \notin bound /\ f = Hello /\ task'[s] = "register" /\ hand'[s] = Hello
      \/ s \in bound /\ task'[s] \in {"ack", "complete"} /\ hand'[s] = f
      \/ task'[s] = "unregister"
  BY DEF Read, Hold, Close, Drop, TaskTo, LinkTypes, TaskTypes
<1>3. ASSUME Greets(s) PROVE Greets(s)'
  <2>1. s \notin bound /\ up[s] = <<Hello>> /\ down[s] = << >> /\ acks = << >>
    BY <1>1, <1>3 DEF Greets
  <2>2. up'[s] = << >>
    BY <1>1, <2>1
  <2> QED BY <1>1, <1>2, <2>1, <2>2 DEF Greets
<1>4. ASSUME Serves(s) PROVE Serves(s)'
  <2>1. /\ s \in bound /\ InLine(down[s], acks) /\ Follows(down[s], 0, up[s], acks)
    BY <1>1, <1>4 DEF Serves
  <2>2. Follows(down[s], 1, Tail(up[s]), acks) /\ acks[Count(down[s]) + 1] = f
    BY <1>1, <2>1, LinkSeqs, NextRead
  <2>3. InLine(down[s], acks)' /\ s \in bound'
    BY <1>1, <2>1 DEF InLine, Count, AckNumber
  <2>4. Follows(down[s], 1, up[s], acks)' /\ (acks[Count(down[s]) + 1])' = f
    BY <1>1, <2>2 DEF Follows, Count, AckNumber
  <2> HIDE DEF f
  <2>5. /\ task'[s] \in {"ack", "complete", "unregister"}
        /\ task'[s] \in {"ack", "complete"} => hand'[s] = f
    BY <1>2, <2>1
  <2> QED BY <2>3, <2>4, <2>5 DEF Serves
<1> QED BY <1>3, <1>4

\* The task answers, or gives up.
LEMMA PutInOrder ==
    ASSUME LinkTypes, NEW s \in Session, Put(s)
    PROVE  (Greets(s) => Greets(s)') /\ (Serves(s) => Serves(s)')
<1> DEFINE f == IF task[s] = "ack" THEN Frame("ack", hand[s]) ELSE hand[s]
<1>1. UNCHANGED <<bound, up, acks>> /\ task[s] \in {"deliver", "ack"}
  BY DEF Put, device
<1>2. \/ down' = down /\ task'[s] = "unregister"
      \/ down'[s] = Append(down[s], f) /\ task'[s] = "read"
  BY DEF Put, Drop, Hold, TaskTo, LinkTypes, TaskTypes, DownTypes
<1>3. /\ f \in CallFrames \cup Answers
      /\ task[s] = "ack" => f.kind = "ack" /\ f.of = hand[s] /\ hand[s] \in Sent
      /\ task[s] = "deliver" => f.kind = "call"
  <2>1. task[s] = "ack" => hand[s] \in Sent /\ f = Frame("ack", hand[s])
    BY DEF LinkTypes, TaskTypes
  <2>2. task[s] = "deliver" => hand[s] \in CallFrames /\ f = hand[s]
    BY DEF LinkTypes, TaskTypes
  <2> HIDE DEF f
  <2> QED BY <1>1, <2>1, <2>2 DEF Answers, CallFrames, Frame
<1> HIDE DEF f
<1>4. CASE down' = down /\ task'[s] = "unregister"
  <2>1. InLine(down[s], acks) => InLine(down[s], acks)'
    BY <1>1, <1>4 DEF InLine, Count, AckNumber
  <2>2. Count(down[s])' = Count(down[s])
    BY <1>4 DEF Count, AckNumber
  <2> QED BY <1>1, <1>4, <2>1, <2>2 DEF Greets, Serves
<1>5. CASE down'[s] = Append(down[s], f) /\ task'[s] = "read"
  <2>1. /\ Count(down[s])' = Count(Append(down[s], f))
        /\ InLine(down[s], acks)' <=> InLine(Append(down[s], f), acks)
        /\ Follows(down[s], 0, up[s], acks)' <=> Follows(Append(down[s], f), 0, up[s], acks)
    BY <1>1, <1>5 DEF InLine, Follows, Count, AckNumber
  <2>2. Count(Append(down[s], f)) = Count(down[s]) + (IF f.kind = "ack" THEN 1 ELSE 0)
    BY <1>3, LinkSeqs, AppendNumber
  <2>3. ASSUME Greets(s) PROVE Greets(s)'
    <3>1. CASE task[s] = "ack"
      <4>1. down[s] = << >> /\ hand[s] = Hello /\ s \in bound /\ up[s] = << >> /\ acks = << >>
        BY <2>3, <3>1 DEF Greets
      <4>2. f = Frame("ack", Hello)
        BY <3>1, <4>1 DEF f
      <4>3. down'[s] # << >> /\ Head(down'[s]) = Frame("ack", Hello)
        BY <1>5, <4>1, <4>2
      <4>4. Count(down[s]) = 0
        BY <4>1, AckNumbers DEF Count
      <4>5. Count(down[s])' = 1
        BY <1>3, <2>1, <2>2, <3>1, <4>4
      <4> QED BY <1>1, <1>5, <4>1, <4>3, <4>5 DEF Greets
    <3>2. CASE task[s] = "deliver"
      <4>1. /\ down[s] # << >> /\ Head(down[s]) = Frame("ack", Hello) /\ s \in bound /\ up[s] = << >>
            /\ Count(down[s]) = 1 /\ acks = << >>
        BY <2>3, <3>2 DEF Greets
      <4>2. down'[s] # << >> /\ Head(down'[s]) = Frame("ack", Hello)
        BY <1>5, <4>1, LinkSeqs, HeadTailAppend
      <4>3. Count(down[s])' = 1
        BY <1>3, <2>1, <2>2, <3>2, <4>1
      <4> QED BY <1>1, <1>5, <4>1, <4>2, <4>3 DEF Greets
    <3> QED BY <1>1, <3>1, <3>2
  <2>4. ASSUME Serves(s) PROVE Serves(s)'
    <3>1. CASE task[s] = "ack"
      <4>1. /\ InLine(down[s], acks) /\ Follows(down[s], 1, up[s], acks)
            /\ acks[Count(down[s]) + 1] = hand[s] /\ s \in bound
        BY <2>4, <3>1 DEF Serves
      <4>2. InLine(Append(down[s], f), acks) /\ Follows(Append(down[s], f), 0, up[s], acks)
        BY <1>3, <3>1, <4>1, LinkSeqs, AckPut
      <4> QED BY <1>1, <1>5, <2>1, <4>1, <4>2 DEF Serves
    <3>2. CASE task[s] = "deliver"
      <4>1. InLine(down[s], acks) /\ Follows(down[s], 0, up[s], acks) /\ s \in bound
        BY <2>4, <3>2 DEF Serves
      <4>2. InLine(Append(down[s], f), acks) /\ Count(Append(down[s], f)) = Count(down[s])
        BY <1>3, <3>2, <4>1, LinkSeqs, CallPut
      <4>3. Follows(Append(down[s], f), 0, up[s], acks)
        BY <4>1, <4>2 DEF Follows
      <4> QED BY <1>1, <1>5, <2>1, <4>1, <4>2, <4>3 DEF Serves
    <3> QED BY <1>1, <3>1, <3>2
  <2> QED BY <2>3, <2>4
<1> QED BY <1>2, <1>4, <1>5

LEMMA TaskInOrder ==
    ASSUME LinkTypes, NEW s \in Session, Serve(s) \/ Break(s)
    PROVE  (Greets(s) => Greets(s)') /\ (Serves(s) => Serves(s)')
<1>0. /\ UNCHANGED <<down, acks>> => /\ InLine(down[s], acks) <=> InLine(down[s], acks)'
                                     /\ Count(down[s])' = Count(down[s])
      /\ \A n \in {0, 1} : UNCHANGED <<down, acks, up>>
                           => (Follows(down[s], n, up[s], acks) => Follows(down[s], n, up[s], acks)')
  BY DEF InLine, Follows, Count, AckNumber
<1>1. CASE Deliver(s)
  <2>1. /\ UNCHANGED <<bound, down, up, acks>> /\ task[s] = "read" /\ s \in bound
        /\ task'[s] = "deliver"
    BY <1>1 DEF Deliver, Hold, TaskTo, device, LinkTypes, TaskTypes
  <2> QED BY <1>0, <2>1 DEF Greets, Serves
<1>2. CASE Register(s)
  <2>1. /\ UNCHANGED <<hand, down, up, acks>> /\ task[s] = "register" /\ task'[s] = "ack"
        /\ s \in bound'
    BY <1>2 DEF Register, TaskTo, device, LinkTypes, TaskTypes
  <2> QED BY <2>1 DEF Greets, Serves
<1>3. CASE Complete(s)
  <2>1. /\ UNCHANGED <<bound, down, up, acks>> /\ task[s] = "complete"
        /\ (task'[s] = "ack" /\ hand' = hand) \/ task'[s] = "unregister"
    BY <1>3 DEF Complete, Close, Drop, Hold, TaskTo, device, LinkTypes, TaskTypes
  <2> QED BY <1>0, <2>1 DEF Greets, Serves
<1>4. CASE TaskEnds(s) \/ Unregister(s)
  <2>1. /\ UNCHANGED <<bound, down, acks>> /\ task[s] \in {"read", "unregister"}
        /\ task'[s] \in {"unregister", "ended"} /\ up'[s] \in {up[s], << >>}
    BY <1>4 DEF TaskEnds, Unregister, TaskTo, device, LinkTypes, TaskTypes, UpTypes
  <2> QED BY <1>0, <2>1 DEF Greets, Serves
<1>5. CASE Break(s)
  BY <1>5, OthersStay DEF Break, tasks, device
<1> QED BY <1>1, <1>2, <1>3, <1>4, <1>5, ReadInOrder, PutInOrder DEF Serve

\* The device reads, works and sends.
LEMMA GreetedInOrder ==
    ASSUME LinkTypes, NEW s \in Session, s = dev.session, Greets(s), ReadFirst, ~HangUp
    PROVE  Serves(s)' /\ dev'.session = s
<1> DEFINE q == down[s]
<1>1. /\ q # << >> /\ Head(q) = Frame("ack", Hello) /\ down'[s] = Tail(q)
      /\ UNCHANGED <<acks, task, hand, bound, up>> /\ dev'.session = s
  BY DEF ReadFirst, Incoming, Take, tasks, LinkTypes, DownTypes, DevTypes
<1>2. /\ acks = << >> /\ task[s] \in {"read", "deliver", "unregister", "ended"} /\ s \in bound
      /\ up[s] = << >> /\ Count(q) = 1
  BY <1>1 DEF Greets
<1>3. q \in Seq(CallFrames \cup Answers) /\ Head(q).kind = "ack"
  BY <1>1, LinkSeqs DEF Frame
<1>4. Len(q) \in Nat \ {0} /\ Len(Tail(q)) = Len(q) - 1 /\ Tail(q) \in Seq(CallFrames \cup Answers)
  BY <1>1, <1>3
<1> HIDE DEF q
<1>5. Count(Tail(q)) = 0
  <2>1. Len(q) - 1 \in 0 .. Len(q) - 1 /\ (Len(q) - 1) + 1 = Len(q)
    BY <1>4
  <2>2. AckNumber(q, Len(q)) = AckNumber(Tail(q), Len(q) - 1) + 1
    BY <1>1, <1>3, <2>1, TailNumber
  <2>3. AckNumber(Tail(q), Len(q) - 1) \in Nat
    BY <1>4, AckNumbers
  <2> QED BY <1>2, <1>4, <2>2, <2>3 DEF Count
<1>6. \A j \in DOMAIN Tail(q) : Tail(q)[j].kind # "ack"
  <2>1. Len(Tail(q)) \in Nat /\ DOMAIN Tail(q) = 1 .. Len(Tail(q))
    BY <1>4
  <2>2. AckNumber(Tail(q), Len(Tail(q))) = 0
    BY <1>5 DEF Count
  <2>3. \A i \in 1 .. Len(Tail(q)) : Tail(q)[i].kind # "ack"
    BY <2>1, <2>2, AckNumbers
  <2> QED BY <2>1, <2>3
<1>7. InLine(Tail(q), << >>) /\ Follows(Tail(q), 0, << >>, << >>)
  BY <1>5, <1>6 DEF InLine, Follows
<1>8. InLine(down[s], acks)' /\ Follows(down[s], 0, up[s], acks)'
  <2>1. /\ InLine(down[s], acks)' <=> InLine(down'[s], acks')
        /\ Follows(down[s], 0, up[s], acks)' <=> Follows(down'[s], 0, up'[s], acks')
    BY DEF InLine, Follows, Count, AckNumber
  <2>2. acks' = << >> /\ up'[s] = << >> /\ down'[s] = Tail(q)
    BY <1>1, <1>2
  <2> QED BY <1>7, <2>1, <2>2
<1> QED BY <1>1, <1>2, <1>8 DEF Serves

LEMMA FrameInOrder ==
    ASSUME LinkTypes, NEW s \in Session, s = dev.session, Serves(s), ReadFrame, ~HangUp
    PROVE  Serves(s)' /\ dev'.session = s /\ dev'.at \in Serving
<1> DEFINE q == down[s]
           w == acks
           f == Head(q)
<1>1. /\ q # << >> /\ down'[s] = Tail(q) /\ UNCHANGED <<task, hand, bound, up>> /\ dev'.session = s
      /\ dev'.at \in Serving
      /\ \/ f.kind = "ack" /\ Contains(w, f.of) /\ acks' = RemoveFirst(w, f.of)
         \/ f.kind = "call" /\ acks' = w
  BY DEF ReadFrame, Incoming, Take, tasks, LinkTypes, DownTypes, DevTypes, Serving
<1>2. /\ q \in Seq(CallFrames \cup Answers) /\ w \in Seq(Sent) /\ up[s] \in Seq(Sent) /\ Count(q) \in Nat
  BY LinkSeqs
<1>3. /\ InLine(q, w) /\ s \in bound /\ task[s] \notin {"new", "register"}
      /\ task[s] \in {"read", "deliver"} => Follows(q, 0, up[s], w)
      /\ task[s] \in {"complete", "ack"} => Follows(q, 1, up[s], w) /\ w[Count(q) + 1] = hand[s]
  BY DEF Serves
<1>4. /\ InLine(down[s], acks)' <=> InLine(down'[s], acks')
      /\ \A n \in {0, 1} : Follows(down[s], n, up[s], acks)' <=> Follows(down'[s], n, up'[s], acks')
      /\ (acks[Count(down[s]) + 1])' = acks'[Count(down'[s]) + 1]
  BY DEF InLine, Follows, Count, AckNumber
<1>5. task[s] \in {"complete", "ack"} => Count(q) + 1 <= Len(w)
  <2>1. Len(up[s]) \in Nat
    BY <1>2
  <2> QED BY <1>2, <1>3, <2>1 DEF Follows
<1> HIDE DEF q, w, f
<1>6. ASSUME f.kind = "ack", Contains(w, f.of), acks' = RemoveFirst(w, f.of)
      PROVE  Serves(s)'
  <2>1. /\ w # << >> /\ f.of = w[1] /\ InLine(Tail(q), Tail(w))
        /\ \A n \in {0, 1}, u \in Seq(Sent) : Follows(q, n, u, w) => Follows(Tail(q), n, u, Tail(w))
        /\ Count(q) + 1 <= Len(w) => Tail(w)[Count(Tail(q)) + 1] = w[Count(q) + 1]
    BY <1>1, <1>2, <1>3, <1>6, FirstTaken DEF f
  <2>2. acks' = Tail(w)
    BY <1>2, <1>6, <2>1, FirstRemoved
  <2> QED BY <1>1, <1>2, <1>3, <1>4, <1>5, <2>1, <2>2 DEF Serves
<1>7. ASSUME f.kind = "call", acks' = w
      PROVE  Serves(s)'
  <2>1. InLine(Tail(q), w) /\ Count(Tail(q)) = Count(q)
    BY <1>1, <1>2, <1>3, <1>7, FirstTaken DEF f
  <2>2. \A n \in {0, 1} : Follows(q, n, up[s], w) => Follows(Tail(q), n, up[s], w)
    BY <2>1 DEF Follows
  <2> QED BY <1>1, <1>3, <1>4, <1>7, <2>1, <2>2 DEF Serves
<1> QED BY <1>1, <1>6, <1>7

LEMMA SentInOrder ==
    ASSUME LinkTypes, NEW s \in Session, s = dev.session, Serves(s), SendTracked, ~HangUp
    PROVE  Serves(s)' /\ dev'.session = s /\ dev'.at \in Serving
<1> DEFINE q == down[s]
           w == acks
           x == dev.job
<1>1. /\ UNCHANGED <<down, task, hand, bound>> /\ dev'.session = s /\ dev'.at \in Serving
      /\ acks' = Append(w, x) /\ up'[s] = Append(up[s], x) /\ x \in Sent
  BY DEF SendTracked, tasks, LinkTypes, UpTypes, DevTypes, Serving, Sent
<1>2. /\ q \in Seq(CallFrames \cup Answers) /\ w \in Seq(Sent) /\ up[s] \in Seq(Sent) /\ Count(q) \in Nat
  BY LinkSeqs
<1>3. /\ InLine(q, w) /\ s \in bound /\ task[s] \notin {"new", "register"}
      /\ task[s] \in {"read", "deliver"} => Follows(q, 0, up[s], w)
      /\ task[s] \in {"complete", "ack"} => Follows(q, 1, up[s], w) /\ w[Count(q) + 1] = hand[s]
  BY DEF Serves
<1>4. /\ InLine(down[s], acks)' <=> InLine(down'[s], acks')
      /\ \A n \in {0, 1} : Follows(down[s], n, up[s], acks)' <=> Follows(down'[s], n, up'[s], acks')
      /\ (acks[Count(down[s]) + 1])' = acks'[Count(down'[s]) + 1]
  BY DEF InLine, Follows, Count, AckNumber
<1>5. task[s] \in {"complete", "ack"} => Count(q) + 1 <= Len(w)
  <2>1. Len(up[s]) \in Nat
    BY <1>2
  <2> QED BY <1>2, <1>3, <2>1 DEF Follows
<1>6. down'[s] = q
  BY <1>1
<1> HIDE DEF q, w, x
<1>7. /\ InLine(q, Append(w, x))
      /\ \A n \in {0, 1} : Follows(q, n, up[s], w) => Follows(q, n, Append(up[s], x), Append(w, x))
      /\ Count(q) + 1 <= Len(w) => Append(w, x)[Count(q) + 1] = w[Count(q) + 1]
  BY <1>1, <1>2, <1>3, TrackedLast
<1> QED BY <1>1, <1>3, <1>4, <1>5, <1>6, <1>7 DEF Serves

LEMMA OpensInOrder ==
    ASSUME LinkTypes, OrderInv, NEW s \in Session, Connect(s)
    PROVE  OrderInv'
<1>1. /\ dev'.session = s /\ dev'.at = "greet" /\ acks' = << >> /\ UNCHANGED <<bound, down>>
      /\ task[s] = "new" /\ task' = [task EXCEPT ![s] = "read"] /\ up'[s] = <<Hello>>
  BY DEF Connect, TaskTo, LinkTypes, UpTypes
<1>2. s \notin bound /\ down[s] = << >>
  BY <1>1 DEF OrderInv, Unopened
<1>3. task'[s] = "read" /\ \A t \in Session \ {s} : task'[t] = task[t]
  BY <1>1 DEF LinkTypes, TaskTypes
<1>4. Greets(s)'
  BY <1>1, <1>2, <1>3 DEF Greets
<1>5. Unopened'
  BY <1>1, <1>3 DEF OrderInv, Unopened
<1> QED BY <1>1, <1>4, <1>5 DEF OrderInv, Serving

\* A step of the task of a session, or of the device's in the session that it has.
LEMMA SessionsInOrder ==
    ASSUME LinkTypes, OrderInv, NEW s \in Session, Serve(s) \/ Break(s)
    PROVE  OrderInv'
<1>1. dev' = dev /\ acks' = acks
  BY DEF Serve, Deliver, Read, Register, Complete, Put, TaskEnds, Unregister, Break, device
<1>2. /\ task[s] # "new" /\ task'[s] # "new"
      /\ \A t \in Session \ {s} : /\ task'[t] = task[t] /\ hand'[t] = hand[t] /\ up'[t] = up[t]
                                  /\ down'[t] = down[t] /\ (t \in bound' <=> t \in bound)
  <2> USE DEF LinkTypes, TaskTypes, UpTypes, DownTypes
  <2>1. CASE Deliver(s) \/ Register(s) \/ TaskEnds(s) \/ Unregister(s)
    BY <2>1 DEF Deliver, Register, TaskEnds, Unregister, Hold, TaskTo
  <2>2. CASE Read(s) \/ Complete(s)
    BY <2>2 DEF Read, Complete, Close, Drop, Hold, TaskTo
  <2>3. CASE Put(s) \/ Break(s)
    BY <2>3 DEF Put, Break, Drop, Hold, TaskTo, tasks
  <2> QED BY <2>1, <2>2, <2>3 DEF Serve
<1>3. ASSUME NEW t \in Session
      PROVE  (Greets(t) => Greets(t)') /\ (Serves(t) => Serves(t)')
  <2>1. CASE t = s
    BY <2>1, TaskInOrder
  <2>2. CASE t # s
    BY <1>1, <1>2, <2>2, OthersStay
  <2> QED BY <2>1, <2>2
<1>4. Unopened'
  BY <1>1, <1>2 DEF OrderInv, Unopened
<1>5. dev.at # "down" => dev.session \in Session
  BY DEF LinkTypes, DevTypes
<1> QED BY <1>1, <1>3, <1>4, <1>5 DEF OrderInv, Serving

LEMMA DeviceInOrder ==
    ASSUME LinkTypes, OrderInv, Die \/ ReadFirst \/ ReadFrame \/ Work \/ Pulse \/ SendTracked
    PROVE  OrderInv'
<1>1. UNCHANGED <<task, bound, hand>> /\ dev.at # "down"
  BY DEF Die, ReadFirst, ReadFrame, Work, Pulse, SendTracked, tasks
<1>2. PICK s \in Session : s = dev.session
  BY <1>1 DEF LinkTypes, DevTypes
<1>3. task[s] # "new"
  BY <1>1, <1>2 DEF OrderInv, Unopened
<1>4. \A t \in Session \ {s} : down'[t] = down[t]
  <2>1. \/ down' = down \/ \E r : down' = [down EXCEPT ![s] = r]
    BY <1>2 DEF Die, ReadFirst, ReadFrame, Work, Pulse, SendTracked, HangUp, Take, Incoming
  <2> QED BY <2>1 DEF LinkTypes, DownTypes
<1>5. ASSUME dev'.at = "down" \/ dev'.session = s PROVE Unopened'
  BY <1>1, <1>2, <1>3, <1>4, <1>5 DEF OrderInv, Unopened
<1>6. CASE HangUp
  <2>1. dev'.at = "down"
    BY <1>6 DEF HangUp, Offline
  <2> QED BY <1>5, <2>1 DEF OrderInv, Serving
<1>7. CASE ReadFirst /\ ~HangUp
  <2>1. dev.at = "greet" /\ dev'.at = "serve"
    BY <1>7 DEF ReadFirst, LinkTypes, DevTypes
  <2>2. Serves(s)' /\ dev'.session = s
    BY <1>2, <1>7, <2>1, GreetedInOrder DEF OrderInv
  <2> QED BY <1>5, <2>1, <2>2 DEF OrderInv, Serving
<1>8. CASE ReadFrame /\ ~HangUp
  <2>1. dev.at = "serve"
    BY <1>8 DEF ReadFrame
  <2>2. Serves(s)' /\ dev'.session = s /\ dev'.at \in Serving
    BY <1>2, <1>8, <2>1, FrameInOrder DEF OrderInv, Serving
  <2> QED BY <1>5, <2>2 DEF OrderInv, Serving
<1>9. CASE SendTracked /\ ~HangUp
  <2>1. dev.at = "send"
    BY <1>9 DEF SendTracked
  <2>2. Serves(s)' /\ dev'.session = s /\ dev'.at \in Serving
    BY <1>2, <1>9, <2>1, SentInOrder DEF OrderInv, Serving
  <2> QED BY <1>5, <2>2 DEF OrderInv, Serving
<1>10. CASE (Work /\ ~HangUp) \/ Pulse
  <2>1. /\ UNCHANGED <<acks, down, up>> /\ dev'.session = s /\ dev.at \in Serving /\ dev'.at \in Serving
    BY <1>2, <1>10 DEF Work, Pulse, Serving, LinkTypes, DevTypes
  <2>2. Serves(s)
    BY <1>2, <2>1 DEF OrderInv
  <2>3. Serves(s)'
    BY <1>1, <2>1, <2>2, OthersStay
  <2> QED BY <1>5, <2>1, <2>3 DEF OrderInv, Serving
<1>11. Die => HangUp
  BY DEF Die
<1> QED BY <1>6, <1>7, <1>8, <1>9, <1>10, <1>11

LEMMA OrderStep ==
    ASSUME LinkTypes, OrderInv, [Next]_vars
    PROVE  OrderInv'
<1>1. ASSUME NEW c \in Call, Begin(c) \/ Proceed(c) \/ Expire(c)
      PROVE  UNCHANGED <<task, bound, hand, up, down, dev, acks>>
  BY <1>1 DEF Begin, Proceed, Insert, Send, TakeResult, SlotGone, Timeout, TakeOut, Expire, tasks, device
<1>2. UNCHANGED vars => UNCHANGED <<task, bound, hand, up, down, dev, acks>>
  BY DEF vars, tasks, device
<1>3. ASSUME UNCHANGED <<task, bound, hand, up, down, dev, acks>> PROVE OrderInv'
  <2>1. \A s \in Session : (Greets(s) => Greets(s)') /\ (Serves(s) => Serves(s)')
    BY <1>3, OthersStay
  <2>2. dev.at # "down" => dev.session \in Session
    BY DEF LinkTypes, DevTypes
  <2> QED BY <1>3, <2>1, <2>2 DEF OrderInv, Unopened, Serving
<1> QED BY <1>1, <1>2, <1>3, OpensInOrder, SessionsInOrder, DeviceInOrder DEF Next, Rest

\* What the device reads is what it waits for.
LEMMA AcksFit ==
    ASSUME LinkTypes, OrderInv
    PROVE  AcksAreInOrder
<1> DEFINE s == dev.session
           q == down[s]
<1>1. ASSUME dev.at = "greet", q # << >> PROVE Head(q) = Frame("ack", Hello)
  BY <1>1 DEF OrderInv, Greets
<1>2. ASSUME dev.at \in {"serve", "work", "send"}, NEW j \in DOMAIN q, q[j].kind = "ack"
      PROVE  AckNumber(q, j) <= Len(acks) /\ q[j].of = acks[AckNumber(q, j)]
  <2>1. s \in Session /\ Serves(s)
    BY <1>2 DEF LinkTypes, DevTypes, OrderInv, Serving
  <2>2. Count(q) \in Nat /\ Len(acks) \in Nat
    BY <2>1, LinkSeqs
  <2> HIDE DEF q
  <2>3. InLine(q, acks)
    BY <2>1 DEF Serves, q
  <2>4. Count(q) <= Len(acks) /\ AckNumber(q, j) \in 1 .. Count(q) /\ q[j].of = acks[AckNumber(q, j)]
    BY <1>2, <2>3 DEF InLine
  <2> QED BY <2>2, <2>4
<1> QED BY <1>1, <1>2 DEF AcksAreInOrder

-----------------------------------------------------------------------------
(* The relay's link, whole.                                                *)

LinkInv == LinkTypes /\ PlaceInv /\ SlotInv /\ OrderInv

LEMMA LinkInit == LinkAssumption /\ Init => LinkInv
<1> SUFFICES ASSUME LinkAssumption, Init PROVE LinkInv
  OBVIOUS
<1>1. LinkTypes
  BY DEF Init, LinkTypes, HubTypes, CallTypes, TaskTypes, OutTypes, DownTypes, UpTypes, DevTypes,
         CallSteps, TaskSteps, Offline
<1>2. \A c \in Call, n \in Place : ~Stands(c, n)
  BY DEF Init, Stands, Place, Lies, Offline, LinkAssumption
<1>3. OnePlace
  BY <1>2 DEF Init, OnePlace, Left
<1>4. Once
  BY DEF Init, Once, Single, HandsDiffer, GivenOnce
<1>5. SlotInv
  BY DEF Init, SlotInv, SlotOwned, GivenFits
<1>6. OrderInv
  BY DEF Init, OrderInv, Unopened, Serving, Offline
<1> QED BY <1>1, <1>3, <1>4, <1>5, <1>6 DEF LinkInv, PlaceInv

LEMMA LinkStep ==
    LinkAssumption /\ LinkInv /\ [Next]_vars => LinkInv'
BY LinkTypesStep, PlaceStep, SlotStep, OrderStep DEF LinkInv

\* What a caller of the relay is handed was computed for its request, from a frame that
\* was run once, and is handed to nobody else, over however many sockets and retries; and
\* the device is never put off by the order of what it reads (RelayHub, handle_device,
\* dispatch_loop).
THEOREM RelayStaysInOrder == ServiceSpec => []RelayIsInOrder
<1>1. ServiceInit => LinkInv
  BY LinkAssumption, LinkInit DEF ServiceInit
<1>2. LinkInv /\ [ServiceNext]_Service => LinkInv'
  <2> SUFFICES ASSUME LinkInv, [ServiceNext]_Service PROVE LinkInv'
    OBVIOUS
  <2>1. [Next]_vars
    BY DEF ServiceNext, Service
  <2> QED BY <2>1, LinkAssumption, LinkStep
<1>3. LinkInv => RelayIsInOrder
  BY LinkAssumption, AnswerFits, AcksFit DEF LinkInv, RelayIsInOrder
<1> QED BY <1>1, <1>2, <1>3, PTL DEF ServiceSpec

-----------------------------------------------------------------------------
(* The messages that are signed and sealed.  Bytes are numbers; a message  *)
(* is read from its front, each text by the length before it.              *)

Bytes == Seq(Nat)
Joined(t, r) == t \o r

\* Bytes that are put after others are found again behind as many.
LEMMA CutBytes ==
    ASSUME NEW t \in Bytes, NEW u \in Bytes, NEW r \in Bytes, NEW s \in Bytes,
           Len(t) = Len(u), Joined(t, r) = Joined(u, s)
    PROVE  t = u /\ r = s
<1>0. t \o r = u \o s
  BY DEF Joined
<1>1. ASSUME NEW i \in 1 .. Len(t) PROVE t[i] = u[i]
  <2>1. (t \o r)[i] = t[i] /\ (u \o s)[i] = u[i]
    BY ConcatProperties DEF Bytes
  <2> QED BY <1>0, <2>1
<1>2. Len(r) = Len(s)
  BY <1>0, ConcatProperties DEF Bytes
<1>3. ASSUME NEW i \in 1 .. Len(r) PROVE r[i] = s[i]
  <2>1. (t \o r)[Len(t) + i] = r[i] /\ (u \o s)[Len(u) + i] = s[i]
    <3>0. PICK k \in Nat : k = Len(t) + i
      BY DEF Bytes
    <3>1. k \in 1 .. Len(t) + Len(r) /\ ~(k <= Len(t)) /\ k - Len(t) = i
      BY <3>0 DEF Bytes
    <3>2. (t \o r)[k] = r[i]
      BY <3>1, ConcatProperties DEF Bytes
    <3>3. (u \o s)[k] = s[i]
      BY <1>2, <3>1, ConcatProperties DEF Bytes
    <3>4. k = Len(u) + i
      BY <3>0
    <3> QED BY <3>0, <3>2, <3>3, <3>4
  <2> QED BY <1>0, <2>1
<1> QED BY <1>1, <1>2, <1>3, SeqEqual DEF Bytes

LEMMA JoinedBytes ==
    ASSUME NEW r \in Bytes, NEW s \in Bytes
    PROVE  Joined(r, s) \in Bytes
BY ConcatProperties DEF Bytes, Joined

LEMMA Regrouped ==
    ASSUME NEW r \in Bytes, NEW s \in Bytes, NEW t \in Bytes
    PROVE  Joined(Joined(r, s), t) = Joined(r, Joined(s, t))
BY ConcatAssociative DEF Bytes, Joined

First(a, r) == Joined(<<a>>, r)

LEMMA FirstBytes ==
    ASSUME NEW a \in Nat, NEW r \in Bytes
    PROVE  First(a, r) \in Bytes /\ <<a>> \in Bytes
<1>1. <<a>> \in Bytes
  BY DEF Bytes
<1> QED BY <1>1, JoinedBytes DEF First

LEMMA FirstCut ==
    ASSUME NEW a \in Nat, NEW b \in Nat, NEW r \in Bytes, NEW s \in Bytes, First(a, r) = First(b, s)
    PROVE  a = b /\ r = s
<1> DEFINE t == <<a>>
           u == <<b>>
<1>1. t \in Bytes /\ u \in Bytes /\ Len(t) = Len(u) /\ Joined(t, r) = Joined(u, s)
  BY DEF Bytes, First
<1>2. t = u => a = b
  OBVIOUS
<1> HIDE DEF t, u
<1>3. t = u /\ r = s
  BY ONLY <1>1, CutBytes, r \in Bytes, s \in Bytes
<1> QED BY <1>2, <1>3

\* A text with its length is cut from what follows in one place.
Pushed(t, r) == Joined(M!PushText(t), r)

LEMMA PushedBytes ==
    ASSUME NEW t \in Bytes, NEW r \in Bytes
    PROVE  /\ M!PushText(t) \in Bytes /\ Pushed(t, r) \in Bytes
           /\ Pushed(t, r) = First(Len(t), Joined(t, r))
<1>1. Len(t) \in Nat /\ M!PushText(t) = First(Len(t), t) /\ <<Len(t)>> \in Bytes
  BY DEF Bytes, M!PushText, First, Joined
<1>2. M!PushText(t) \in Bytes
  BY <1>1, FirstBytes
<1>3. Pushed(t, r) \in Bytes
  BY <1>2, JoinedBytes DEF Pushed
<1>4. Joined(First(Len(t), t), r) = First(Len(t), Joined(t, r))
  <2> DEFINE h == <<Len(t)>>
  <2>1. h \in Bytes
    BY <1>1
  <2> HIDE DEF h
  <2>2. Joined(Joined(h, t), r) = Joined(h, Joined(t, r))
    BY <2>1, Regrouped
  <2> QED BY <2>2 DEF h, First
<1> QED BY <1>1, <1>2, <1>3, <1>4 DEF Pushed

LEMMA PushedCut ==
    ASSUME NEW t \in Bytes, NEW u \in Bytes, NEW r \in Bytes, NEW s \in Bytes,
           Pushed(t, r) = Pushed(u, s)
    PROVE  t = u /\ r = s
<1> DEFINE a == Len(t)
           b == Len(u)
<1>1. a \in Nat /\ b \in Nat
  BY DEF Bytes
<1>2. Joined(t, r) \in Bytes /\ Joined(u, s) \in Bytes
  BY JoinedBytes
<1>3. First(a, Joined(t, r)) = First(b, Joined(u, s))
  BY PushedBytes
<1> HIDE DEF a, b
<1>4. a = b /\ Joined(t, r) = Joined(u, s)
  BY ONLY <1>1, <1>2, <1>3, FirstCut
<1> QED BY <1>4, CutBytes DEF a, b

\* Either it has a capability, or it has none.
CapThen(c, r) == IF c.capability = None THEN First(0, r) ELSE First(1, Pushed(c.capability, r))

LEMMA CapBytes ==
    ASSUME M!MessagesAssumption, NEW c \in M!Challenges, NEW r \in Bytes
    PROVE  /\ CapThen(c, r) \in Bytes
           /\ c.capability # None => c.capability \in Bytes
<1>1. c.capability # None => c.capability \in Bytes
  BY DEF M!Challenges, M!MessagesAssumption, Bytes
<1>2. ASSUME c.capability # None PROVE First(1, Pushed(c.capability, r)) \in Bytes
  BY <1>1, <1>2, PushedBytes, FirstBytes
<1>3. First(0, r) \in Bytes
  BY FirstBytes
<1> QED BY <1>1, <1>2, <1>3 DEF CapThen

LEMMA CapCut ==
    ASSUME M!MessagesAssumption, NEW c \in M!Challenges, NEW d \in M!Challenges,
           NEW r \in Bytes, NEW s \in Bytes, CapThen(c, r) = CapThen(d, s)
    PROVE  c.capability = d.capability /\ r = s
<1> DEFINE rest(e, t) == IF e.capability = None THEN t ELSE Pushed(e.capability, t)
           flag(e) == IF e.capability = None THEN 0 ELSE 1
<1>1. ASSUME NEW e \in M!Challenges, NEW t \in Bytes
      PROVE  CapThen(e, t) = First(flag(e), rest(e, t)) /\ rest(e, t) \in Bytes /\ flag(e) \in Nat
  BY CapBytes, PushedBytes DEF CapThen
<1>2. First(flag(c), rest(c, r)) = First(flag(d), rest(d, s))
  BY <1>1
<1>3. rest(c, r) \in Bytes /\ rest(d, s) \in Bytes /\ flag(c) \in Nat /\ flag(d) \in Nat
  BY <1>1
<1>4. flag(c) = flag(d) /\ rest(c, r) = rest(d, s)
  <2> HIDE DEF rest, flag
  <2> QED BY ONLY <1>2, <1>3, FirstCut
<1>5. CASE c.capability = None
  BY <1>4, <1>5
<1>6. CASE c.capability # None
  <2>1. d.capability # None
    BY <1>4, <1>6
  <2>2. Pushed(c.capability, r) = Pushed(d.capability, s)
    BY <1>4, <1>6, <2>1
  <2>3. c.capability \in Bytes /\ d.capability \in Bytes
    BY <1>6, <2>1, CapBytes
  <2> QED BY <2>2, <2>3, PushedCut
<1> QED BY <1>5, <1>6

\* The message, as a text, then the rest, and so on.
AfterTime(c, who) == First(c.expires_at, Joined(c.nonce, M!PushText(who)))
AfterDigest(c, who) == Pushed(c.policy_id, CapThen(c, AfterTime(c, who)))
Said(c, who) == Pushed(c.request_id, Joined(c.envelope_digest, AfterDigest(c, who)))

LEMMA ChallengeBytes ==
    ASSUME M!MessagesAssumption, NEW c \in M!Challenges, NEW who \in Texts
    PROVE  /\ c.request_id \in Bytes /\ c.envelope_digest \in Bytes /\ c.policy_id \in Bytes
           /\ c.expires_at \in Nat /\ c.nonce \in Bytes /\ who \in Bytes
           /\ M!PushText(who) \in Bytes /\ Joined(c.nonce, M!PushText(who)) \in Bytes
           /\ AfterTime(c, who) \in Bytes /\ AfterDigest(c, who) \in Bytes
<1>1. /\ c.request_id \in Bytes /\ c.envelope_digest \in Bytes /\ c.policy_id \in Bytes
      /\ c.expires_at \in Nat /\ c.nonce \in Bytes /\ who \in Bytes
  BY DEF M!Challenges, M!MessagesAssumption, Bytes
<1>2. << >> \in Bytes
  BY DEF Bytes
<1>3. M!PushText(who) \in Bytes
  BY <1>1, <1>2, PushedBytes
<1>4. Joined(c.nonce, M!PushText(who)) \in Bytes
  BY <1>1, <1>3, JoinedBytes
<1>5. AfterTime(c, who) \in Bytes
  BY <1>1, <1>4, FirstBytes DEF AfterTime
<1>6. CapThen(c, AfterTime(c, who)) \in Bytes
  BY <1>5, CapBytes
<1>7. AfterDigest(c, who) \in Bytes
  BY <1>1, <1>6, PushedBytes DEF AfterDigest
<1> QED BY <1>1, <1>3, <1>4, <1>5, <1>7

LEMMA MessageIsSaid ==
    ASSUME M!MessagesAssumption, NEW c \in M!Challenges, NEW who \in Texts
    PROVE  M!Message(c, who) = Said(c, who)
<1> DEFINE a == M!PushText(c.request_id)
           b == c.envelope_digest
           p == M!PushText(c.policy_id)
           d == IF c.capability = None THEN <<0>> ELSE <<1>> \o M!PushText(c.capability)
           e == <<c.expires_at>>
           f == c.nonce
           g == M!PushText(who)
           r == Joined(e, Joined(f, g))
<1>1. a \in Bytes /\ b \in Bytes /\ p \in Bytes /\ e \in Bytes /\ f \in Bytes /\ g \in Bytes
  <2>1. << >> \in Bytes
    BY DEF Bytes
  <2> QED BY <2>1, ChallengeBytes, PushedBytes, FirstBytes
<1>2. r = AfterTime(c, who) /\ r \in Bytes
  BY ChallengeBytes DEF AfterTime, First
<1>3. d \in Bytes /\ Joined(d, r) = CapThen(c, r)
  <2>1. CASE c.capability = None
    BY <1>2, <2>1, FirstBytes DEF CapThen, First
  <2>2. CASE c.capability # None
    <3>1. c.capability \in Bytes
      BY <2>2, CapBytes, <1>2
    <3>2. PICK h \in Bytes : h = <<1>>
      <4>1. <<1>> \in Bytes
        BY <1>2, FirstBytes
      <4> QED BY <4>1
    <3>3. PICK k \in Bytes : k = M!PushText(c.capability)
      BY <1>2, <3>1, PushedBytes
    <3> HIDE DEF r
    <3>4. Joined(Joined(h, k), r) = Joined(h, Joined(k, r)) /\ Joined(h, k) \in Bytes
      BY <1>2, Regrouped, JoinedBytes
    <3>5. d = Joined(h, k) /\ CapThen(c, r) = Joined(h, Joined(k, r))
      BY <2>2, <3>2, <3>3 DEF Joined, CapThen, First, Pushed
    <3> HIDE DEF d
    <3> QED BY <3>4, <3>5
  <2> QED BY <2>1, <2>2
<1>4. M!Message(c, who) = Joined(Joined(Joined(Joined(Joined(Joined(a, b), p), d), e), f), g)
  BY DEF M!Message, Joined
<1>5. Said(c, who) = Joined(a, Joined(b, Joined(p, CapThen(c, r))))
  BY <1>2 DEF Said, AfterDigest, Pushed
<1> HIDE DEF a, b, p, d, e, f, g
<1> DEFINE ab == Joined(a, b)
           abp == Joined(ab, p)
           abpd == Joined(abp, d)
           abpde == Joined(abpd, e)
<1>6. ab \in Bytes /\ abp \in Bytes /\ abpd \in Bytes /\ abpde \in Bytes
  BY <1>1, <1>3, JoinedBytes
<1>7. Joined(f, g) \in Bytes
  BY <1>1, JoinedBytes
<1>8. Joined(Joined(abpde, f), g) = Joined(abpde, Joined(f, g))
  <2> HIDE DEF abpde
  <2> QED BY <1>1, <1>6, Regrouped
<1>9. Joined(abpde, Joined(f, g)) = Joined(abpd, r)
  <2> HIDE DEF abpd
  <2> QED BY <1>1, <1>6, <1>7, Regrouped
<1> HIDE DEF r
<1>10. Joined(abpd, r) = Joined(abp, Joined(d, r))
  <2> HIDE DEF abp
  <2> QED BY <1>2, <1>3, <1>6, Regrouped
<1>11. Joined(d, r) \in Bytes /\ Joined(p, Joined(d, r)) \in Bytes
  BY <1>1, <1>2, <1>3, JoinedBytes
<1>12. Joined(abp, Joined(d, r)) = Joined(ab, Joined(p, Joined(d, r)))
  <2> HIDE DEF ab
  <2> QED BY <1>1, <1>6, <1>11, Regrouped
<1>13. Joined(ab, Joined(p, Joined(d, r))) = Joined(a, Joined(b, Joined(p, Joined(d, r))))
  BY <1>1, <1>11, Regrouped
<1> QED BY <1>3, <1>4, <1>5, <1>8, <1>9, <1>10, <1>12, <1>13

\* One message is that of one challenge and one approver.
LEMMA MessageTells ==
    ASSUME M!MessagesAssumption, NEW c \in M!Challenges, NEW d \in M!Challenges,
           NEW who \in Texts, NEW whom \in Texts, M!Message(c, who) = M!Message(d, whom)
    PROVE  c = d /\ who = whom
<1>1. Said(c, who) = Said(d, whom)
  BY MessageIsSaid
<1>2. /\ Joined(c.envelope_digest, AfterDigest(c, who)) \in Bytes
      /\ Joined(d.envelope_digest, AfterDigest(d, whom)) \in Bytes
  BY ChallengeBytes, JoinedBytes
<1>3. /\ c.request_id = d.request_id
      /\ Joined(c.envelope_digest, AfterDigest(c, who)) = Joined(d.envelope_digest, AfterDigest(d, whom))
  <2> DEFINE v == Joined(c.envelope_digest, AfterDigest(c, who))
             w == Joined(d.envelope_digest, AfterDigest(d, whom))
             t == c.request_id
             u == d.request_id
  <2>1. Pushed(t, v) = Pushed(u, w) /\ t \in Bytes /\ u \in Bytes
    BY <1>1, ChallengeBytes DEF Said
  <2>2. v \in Bytes /\ w \in Bytes
    BY <1>2
  <2> HIDE DEF v, w, t, u
  <2>3. t = u /\ v = w
    BY ONLY <2>1, <2>2, PushedCut
  <2> QED BY <2>3 DEF v, w, t, u
<1>4. c.envelope_digest = d.envelope_digest /\ AfterDigest(c, who) = AfterDigest(d, whom)
  <2>1. Len(c.envelope_digest) = Len(d.envelope_digest)
    BY DEF M!Challenges, M!MessagesAssumption
  <2> QED BY <1>3, <2>1, ChallengeBytes, CutBytes
<1>5. CapThen(c, AfterTime(c, who)) \in Bytes /\ CapThen(d, AfterTime(d, whom)) \in Bytes
  BY ChallengeBytes, CapBytes
<1>6. c.policy_id = d.policy_id /\ CapThen(c, AfterTime(c, who)) = CapThen(d, AfterTime(d, whom))
  BY <1>4, <1>5, ChallengeBytes, PushedCut DEF AfterDigest
<1>7. c.capability = d.capability /\ AfterTime(c, who) = AfterTime(d, whom)
  BY <1>6, ChallengeBytes, CapCut
<1>8. /\ c.expires_at = d.expires_at
      /\ Joined(c.nonce, M!PushText(who)) = Joined(d.nonce, M!PushText(whom))
  BY <1>7, ChallengeBytes, FirstCut DEF AfterTime
<1>9. c.nonce = d.nonce /\ M!PushText(who) = M!PushText(whom)
  <2>1. Len(c.nonce) = Len(d.nonce)
    BY DEF M!Challenges, M!MessagesAssumption
  <2> QED BY <1>8, <2>1, ChallengeBytes, CutBytes
<1>10. who = whom
  <2>1. << >> \in Bytes
    BY DEF Bytes
  <2>2. Pushed(who, << >>) = Pushed(whom, << >>)
    BY <1>9 DEF Pushed
  <2> QED BY <2>1, <2>2, ChallengeBytes, PushedCut
<1> QED BY <1>3, <1>4, <1>6, <1>7, <1>8, <1>9, <1>10 DEF M!Challenges

-----------------------------------------------------------------------------
(* On the wire.                                                            *)

LEMMA DivMod ==
    ASSUME NEW m \in Nat, NEW k \in Nat \ {0}
    PROVE  m \div k \in Nat /\ m % k \in 0 .. k - 1 /\ m = (m \div k) * k + (m % k)
OBVIOUS

LEMMA TimesOver ==
    ASSUME NEW m \in Nat, NEW k \in Nat \ {0}
    PROVE  m * k \in Nat /\ (m * k) \div k = m
<1>1. PICK n \in Nat : n = m * k
  OBVIOUS
<1>2. PICK q \in Nat, r \in 0 .. k - 1 : q = n \div k /\ n = q * k + r
  BY DivMod
<1>3. ASSUME q < m PROVE FALSE
  <2>1. PICK d \in Nat : m = q + 1 + d
    <3>1. m - q - 1 \in Nat /\ m = q + 1 + (m - q - 1)
      BY <1>3
    <3> QED BY <3>1
  <2>2. m * k = q * k + k + d * k
    BY <2>1
  <2>3. d * k \in Nat
    BY <2>1
  <2> QED BY <1>1, <1>2, <2>2, <2>3
<1>4. ASSUME m < q PROVE FALSE
  <2>1. PICK d \in Nat : q = m + 1 + d
    <3>1. q - m - 1 \in Nat /\ q = m + 1 + (q - m - 1)
      BY <1>4
    <3> QED BY <3>1
  <2>2. q * k = m * k + k + d * k
    BY <2>1
  <2>3. d * k \in Nat
    BY <2>1
  <2> QED BY <1>1, <1>2, <2>2, <2>3
<1> QED BY <1>1, <1>2, <1>3, <1>4

LEMMA StampedBack ==
    ASSUME M!MessagesAssumption, NEW ms \in Nat
    PROVE  M!ToMs(M!ToStamp(ms)) = ms
<1>1. Scale \in Nat \ {0} /\ NanosPerMs \in Nat \ {0}
  BY DEF M!MessagesAssumption
<1> DEFINE q == ms \div Scale
           r == ms % Scale
<1>2. q \in Nat /\ r \in Nat /\ ms = q * Scale + r
  BY <1>1, DivMod
<1>3. M!ToMs(M!ToStamp(ms)) = q * Scale + (r * NanosPerMs) \div NanosPerMs
  BY DEF M!ToMs, M!ToStamp
<1> HIDE DEF q, r
<1>4. (r * NanosPerMs) \div NanosPerMs = r
  BY <1>1, <1>2, TimesOver
<1> QED BY <1>2, <1>3, <1>4

-----------------------------------------------------------------------------
(* What Stripe signs.                                                      *)

LEMMA Climb ==
    ASSUME NEW n \in Nat, NEW A, 0 \in A, \A k \in 1 .. n : k - 1 \in A => k \in A
    PROVE  n \in A
<1> DEFINE B == {k \in 0 .. n : k \notin A}
<1>1. SUFFICES ASSUME B # {} PROVE FALSE
  OBVIOUS
<1>2. PICK k \in B : \A j \in B : k <= j
  <2>1. B \in SUBSET Nat
    OBVIOUS
  <2> HIDE DEF B
  <2> QED BY <1>1, <2>1, LeastIndex
<1>3. k \in 1 .. n /\ k - 1 \in 0 .. n /\ ~(k <= k - 1)
  OBVIOUS
<1>4. k - 1 \in A
  BY <1>2, <1>3
<1> QED BY <1>3, <1>4

Bits == {0, 1}
Halves(f, k) == IF k < 2 THEN <<k>> ELSE f[k \div 2] \o <<k % 2>>
IsDigits(f, n) == f = [k \in 0 .. n |-> Halves(f, k)]

LEMMA DecimalIsDigits ==
    ASSUME NEW n \in Nat
    PROVE  M!Decimal(n) = (CHOOSE f : IsDigits(f, n))[n]
BY DEF M!Decimal, M!Base, IsDigits, Halves

LEMMA Half ==
    ASSUME NEW k \in Nat, k >= 2
    PROVE  /\ k \div 2 \in Nat /\ k \div 2 < k /\ k % 2 \in Bits
           /\ k = (k \div 2) * 2 + (k % 2)
BY DivMod DEF Bits

LEMMA DigitsExist ==
    ASSUME NEW n \in Nat
    PROVE  \E f : IsDigits(f, n)
<1> DEFINE A == {k \in 0 .. n : \E f : IsDigits(f, k)}
<1>1. 0 \in A
  <2> DEFINE f == [k \in 0 .. 0 |-> <<k>>]
  <2>1. IsDigits(f, 0)
    BY DEF IsDigits, Halves
  <2> QED BY <2>1
<1>2. ASSUME NEW k \in 1 .. n, k - 1 \in A PROVE k \in A
  <2>1. PICK f : IsDigits(f, k - 1)
    BY <1>2
  <2> DEFINE g == [i \in 0 .. k |-> IF i = k THEN Halves(f, k) ELSE f[i]]
  <2>2. ASSUME NEW i \in 0 .. k PROVE g[i] = Halves(g, i)
    <3>1. i >= 2 => i \div 2 \in 0 .. k - 1
      BY Half
    <3>2. Halves(g, i) = Halves(f, i)
      BY <3>1 DEF Halves
    <3>3. i # k => f[i] = Halves(f, i)
      BY <2>1 DEF IsDigits
    <3> QED BY <3>2, <3>3
  <2>3. g = [i \in 0 .. k |-> Halves(g, i)]
    BY <2>2
  <2> HIDE DEF g
  <2> QED BY <2>3 DEF IsDigits
<1> HIDE DEF A
<1>3. n \in A
  BY ONLY <1>1, <1>2, Climb, n \in Nat
<1> QED BY <1>3 DEF A

LEMMA DigitsAgree ==
    ASSUME NEW n \in Nat, NEW m \in Nat, NEW f, NEW g, IsDigits(f, n), IsDigits(g, m)
    PROVE  \A k \in 0 .. n : k <= m => f[k] = g[k]
<1> DEFINE B == {k \in 0 .. n : k <= m /\ f[k] # g[k]}
<1>1. SUFFICES ASSUME B # {} PROVE FALSE
  OBVIOUS
<1>2. PICK k \in B : \A j \in B : k <= j
  <2>1. B \in SUBSET Nat
    OBVIOUS
  <2> HIDE DEF B
  <2> QED BY <1>1, <2>1, LeastIndex
<1>3. f[k] = Halves(f, k) /\ g[k] = Halves(g, k)
  BY DEF IsDigits
<1>4. Halves(f, k) = Halves(g, k)
  <2>1. k >= 2 => k \div 2 \in 0 .. n /\ k \div 2 < k
    BY Half
  <2>2. k >= 2 => k \div 2 \notin B
    BY <1>2, <2>1
  <2> QED BY <2>1, <2>2 DEF Halves
<1> QED BY <1>3, <1>4

\* The digits of a number are those of its half and one more.
LEMMA DecimalUnfolds ==
    ASSUME NEW n \in Nat
    PROVE  M!Decimal(n) = IF n < 2 THEN <<n>> ELSE M!Decimal(n \div 2) \o <<n % 2>>
<1>1. PICK f : f = CHOOSE d : IsDigits(d, n)
  OBVIOUS
<1>2. IsDigits(f, n) /\ M!Decimal(n) = f[n]
  BY <1>1, DigitsExist, DecimalIsDigits
<1>3. f[n] = Halves(f, n)
  BY <1>2 DEF IsDigits
<1>4. ASSUME n >= 2 PROVE f[n \div 2] = M!Decimal(n \div 2)
  <2>1. PICK h \in Nat : h = n \div 2 /\ h < n
    BY <1>4, Half
  <2>2. PICK g : g = CHOOSE d : IsDigits(d, h)
    OBVIOUS
  <2>3. IsDigits(g, h) /\ M!Decimal(h) = g[h]
    BY <2>2, DigitsExist, DecimalIsDigits
  <2>4. f[h] = g[h]
    BY <1>2, <2>1, <2>3, DigitsAgree
  <2> QED BY <2>1, <2>3, <2>4
<1> QED BY <1>2, <1>3, <1>4 DEF Halves

LEMMA DecimalBits ==
    ASSUME NEW n \in Nat
    PROVE  M!Decimal(n) \in Seq(Bits) /\ M!Decimal(n) # << >>
<1> DEFINE B == {k \in Nat : ~(M!Decimal(k) \in Seq(Bits) /\ M!Decimal(k) # << >>)}
<1>1. SUFFICES ASSUME B # {} PROVE FALSE
  OBVIOUS
<1>2. PICK k \in B : \A j \in B : k <= j
  <2>1. B \in SUBSET Nat
    OBVIOUS
  <2> HIDE DEF B
  <2> QED BY <1>1, <2>1, LeastIndex
<1>3. CASE k < 2
  <2>1. M!Decimal(k) = <<k>>
    BY <1>3, DecimalUnfolds
  <2>2. k \in Bits
    BY <1>3 DEF Bits
  <2>3. <<k>> \in Seq(Bits) /\ <<k>> # << >>
    BY <2>2
  <2> QED BY ONLY <2>1, <2>3, k \in B
<1>4. CASE k >= 2
  <2>1. PICK h \in Nat, b \in Bits : h = k \div 2 /\ b = k % 2 /\ h < k
    BY <1>4, Half
  <2>2. M!Decimal(h) \in Seq(Bits)
    BY <1>2, <2>1
  <2>3. M!Decimal(k) = M!Decimal(h) \o <<b>>
    BY <1>4, <2>1, DecimalUnfolds
  <2> HIDE DEF B
  <2>4. M!Decimal(h) \o <<b>> \in Seq(Bits) /\ M!Decimal(h) \o <<b>> # << >>
    <3> DEFINE d == M!Decimal(h)
    <3>1. d \in Seq(Bits)
      BY <2>2
    <3> HIDE DEF d
    <3>2. d \o <<b>> = Append(d, b)
      BY <3>1, AppendIsConcat
    <3>3. Append(d, b) \in Seq(Bits) /\ Append(d, b) # << >>
      BY <3>1, AppendProperties
    <3> QED BY <3>2, <3>3 DEF d
  <2>5. M!Decimal(k) \in Seq(Bits) /\ M!Decimal(k) # << >>
    BY ONLY <2>3, <2>4
  <2> QED BY <2>5 DEF B
<1> QED BY <1>3, <1>4

\* No two numbers are written alike.
LEMMA DecimalTells ==
    ASSUME NEW n \in Nat, NEW m \in Nat, M!Decimal(n) = M!Decimal(m)
    PROVE  n = m
<1> DEFINE B == {k \in Nat : \E j \in Nat : j # k /\ M!Decimal(j) = M!Decimal(k)}
<1>1. SUFFICES ASSUME B # {} PROVE FALSE
  OBVIOUS
<1>2. PICK k \in B : \A j \in B : k <= j
  <2>1. B \in SUBSET Nat
    OBVIOUS
  <2> HIDE DEF B
  <2> QED BY <1>1, <2>1, LeastIndex
<1>3. PICK j \in Nat : j # k /\ M!Decimal(j) = M!Decimal(k)
  OBVIOUS
<1>4. ASSUME NEW i \in Nat, i < 2 PROVE M!Decimal(i) = <<i>>
  BY <1>4, DecimalUnfolds
<1>5. ASSUME NEW i \in Nat, i >= 2
      PROVE  \E h \in Nat, b \in Bits, d \in Seq(Bits) :
                 /\ h < i /\ i = h * 2 + b
                 /\ d # << >> /\ d = M!Decimal(h) /\ M!Decimal(i) = Append(d, b)
  <2>1. PICK h \in Nat, b \in Bits : h = i \div 2 /\ b = i % 2 /\ h < i /\ i = h * 2 + b
    BY <1>5, Half
  <2>2. PICK d \in Seq(Bits) : d = M!Decimal(h) /\ d # << >>
    BY DecimalBits
  <2>3. M!Decimal(i) = d \o <<b>>
    <3>1. M!Decimal(i) = M!Decimal(i \div 2) \o <<i % 2>>
      BY <1>5, DecimalUnfolds
    <3> QED BY ONLY <2>1, <2>2, <3>1
  <2>4. d \o <<b>> = Append(d, b)
    BY AppendIsConcat
  <2> QED BY <2>1, <2>2, <2>3, <2>4
<1>6. ASSUME NEW i \in Nat, i < 2, NEW l \in Nat, l >= 2 PROVE M!Decimal(i) # M!Decimal(l)
  <2>1. PICK b \in Bits, d \in Seq(Bits) : d # << >> /\ M!Decimal(l) = Append(d, b)
    BY <1>5, <1>6
  <2>2. Len(Append(d, b)) >= 2
    BY <2>1
  <2> QED BY <1>4, <1>6, <2>1, <2>2
<1>7. CASE k < 2 /\ j < 2
  BY <1>3, <1>4, <1>7
<1>8. CASE k >= 2 /\ j >= 2
  <2>1. PICK h \in Nat, b \in Bits, d \in Seq(Bits) :
            h < k /\ k = h * 2 + b /\ d = M!Decimal(h) /\ M!Decimal(k) = Append(d, b)
    BY <1>5, <1>8
  <2>2. PICK g \in Nat, c \in Bits, e \in Seq(Bits) :
            g < j /\ j = g * 2 + c /\ e = M!Decimal(g) /\ M!Decimal(j) = Append(e, c)
    BY <1>3, <1>5, <1>8
  <2>3. d = e /\ b = c
    <3>1. Append(d, b) = Append(e, c)
      BY <1>3, <2>1, <2>2
    <3> QED BY ONLY <3>1, d \in Seq(Bits), e \in Seq(Bits), b \in Bits, c \in Bits, AppendInjective
  <2>4. h # g
    BY <1>3, <2>1, <2>2, <2>3
  <2>5. h \in B
    BY <2>1, <2>2, <2>3, <2>4
  <2> QED BY <1>2, <2>1, <2>5
<1> QED BY <1>3, <1>6, <1>7, <1>8

\* What has no dot ends at the dot.
LEMMA DotBeyond ==
    ASSUME NEW d \in Bytes, NEW e \in Bytes, NEW r \in Bytes, NEW s \in Bytes,
           \A i \in 1 .. Len(e) : e[i] # 2, Joined(d, First(2, r)) = Joined(e, First(2, s))
    PROVE  ~(Len(d) < Len(e))
<1>1. SUFFICES ASSUME Len(d) < Len(e) PROVE FALSE
  OBVIOUS
<1>2. PICK k \in Nat : k = Len(d) + 1
  BY DEF Bytes
<1>3. PICK v \in Bytes : v = First(2, r) /\ v[1] = 2 /\ Len(v) >= 1
  <2>1. First(2, r) \in Bytes
    BY FirstBytes
  <2>2. First(2, r)[1] = 2 /\ Len(First(2, r)) >= 1
    BY DEF First, Joined, Bytes
  <2> QED BY <2>1, <2>2
<1>4. PICK w \in Bytes : w = First(2, s)
  BY FirstBytes
<1>5. d \o v = e \o w
  BY <1>3, <1>4 DEF Joined
<1>6. (d \o v)[k] = 2
  <2>1. k \in 1 .. Len(d) + Len(v) /\ ~(k <= Len(d)) /\ k - Len(d) = 1
    BY <1>2, <1>3 DEF Bytes
  <2> QED BY <1>3, <2>1, ConcatProperties DEF Bytes
<1>7. (e \o w)[k] = e[k] /\ k \in 1 .. Len(e)
  <2>1. k \in 1 .. Len(e) + Len(w) /\ k <= Len(e) /\ k \in 1 .. Len(e)
    BY <1>1, <1>2 DEF Bytes
  <2> QED BY <2>1, ConcatProperties DEF Bytes
<1> QED BY <1>5, <1>6, <1>7

LEMMA DotEnds ==
    ASSUME NEW d \in Bytes, NEW e \in Bytes, NEW r \in Bytes, NEW s \in Bytes,
           \A i \in 1 .. Len(d) : d[i] # 2, \A i \in 1 .. Len(e) : e[i] # 2,
           Joined(d, First(2, r)) = Joined(e, First(2, s))
    PROVE  Len(d) = Len(e)
<1>1. Len(d) \in Nat /\ Len(e) \in Nat
  BY DEF Bytes
<1>2. ~(Len(d) < Len(e))
  BY DotBeyond
<1>3. Joined(e, First(2, s)) = Joined(d, First(2, r))
  OBVIOUS
<1>4. ~(Len(e) < Len(d))
  BY <1>3, DotBeyond
<1> QED BY <1>1, <1>2, <1>4

\* The first that is no digit ends the number.
LEMMA SignedBytesTell ==
    ASSUME NEW n \in Nat, NEW m \in Nat, NEW r \in Bytes, NEW s \in Bytes,
           M!SignedBytes(n, r) = M!SignedBytes(m, s)
    PROVE  n = m /\ r = s
<1> DEFINE d == M!Decimal(n)
           e == M!Decimal(m)
           dot == <<2>>
<1>1. d \in Seq(Bits) /\ e \in Seq(Bits)
  BY DecimalBits
<1>2. d \in Bytes /\ e \in Bytes /\ dot \in Bytes
  BY <1>1 DEF Bits, Bytes
<1>3. Joined(Joined(d, dot), r) = Joined(Joined(e, dot), s)
  BY DEF M!SignedBytes, M!Dot, Joined
<1>4. \A i \in 1 .. Len(d) : d[i] # 2
  BY <1>1 DEF Bits
<1>5. \A i \in 1 .. Len(e) : e[i] # 2
  BY <1>1 DEF Bits
<1> HIDE DEF d, e
<1>6. Joined(d, First(2, r)) = Joined(e, First(2, s))
  <2> HIDE DEF dot
  <2>1. Joined(Joined(d, dot), r) = Joined(d, Joined(dot, r))
    BY <1>2, Regrouped
  <2>2. Joined(Joined(e, dot), s) = Joined(e, Joined(dot, s))
    BY <1>2, Regrouped
  <2> QED BY <1>3, <2>1, <2>2 DEF First, dot
<1>7. First(2, r) \in Bytes /\ First(2, s) \in Bytes
  BY FirstBytes
<1>8. Len(d) = Len(e)
  BY <1>2, <1>4, <1>5, <1>6, DotEnds
<1>9. d = e /\ First(2, r) = First(2, s)
  BY <1>2, <1>6, <1>7, <1>8, CutBytes
<1>10. r = s
  BY <1>9, FirstCut
<1>11. n = m
  BY <1>9, DecimalTells DEF d, e
<1> QED BY <1>10, <1>11

-----------------------------------------------------------------------------
(* An approval, from its signature to its verification.                    *)

\* What the wire leaves of a challenge: a capability that is empty is none.
OnArrival(c) == [c EXCEPT !.capability = IF @ = << >> THEN None ELSE @]
TooLong(c, who) ==
    \/ \E text \in {c.request_id, who, c.policy_id} : text = << >>
    \/ Len(c.request_id) > MaxIdLen \/ Len(who) > MaxIdLen \/ Len(c.policy_id) > MaxField

LEMMA WireBack ==
    ASSUME M!MessagesAssumption, NEW c \in M!Challenges, NEW who \in Texts
    PROVE  M!GrantFromProto(M!GrantToProto(c, who))
           = IF TooLong(c, who) THEN None ELSE [challenge |-> OnArrival(c), approver |-> who]
<1> DEFINE p == M!GrantToProto(c, who)
           q == p.challenge
           d == [q EXCEPT !.capability = IF @ = << >> THEN None ELSE @, !.expires_at = M!ToMs(@)]
<1>1. /\ q = [c EXCEPT !.capability = IF @ = None THEN << >> ELSE @, !.expires_at = M!ToStamp(@)]
      /\ p.approver_id = who
  BY DEF M!GrantToProto
<1>2. q.request_id = c.request_id /\ q.policy_id = c.policy_id
  BY <1>1 DEF M!Challenges
<1>3. M!GrantFromProto(p) = IF TooLong(c, who) THEN None ELSE [challenge |-> d, approver |-> who]
  BY <1>1, <1>2 DEF M!GrantFromProto, TooLong
<1>4. M!ToMs(M!ToStamp(c.expires_at)) = c.expires_at
  BY ChallengeBytes, StampedBack
<1>5. d = OnArrival(c)
  BY <1>1, <1>4 DEF OnArrival, M!Challenges
<1> QED BY <1>3, <1>5

LEMMA LeftTyped ==
    ASSUME NEW c \in M!Challenges
    PROVE  OnArrival(c) \in M!Challenges
BY DEF OnArrival, M!Challenges

\* What is signed may be signed; its signature is that of its message; and what is verified is it.
GrantInv ==
    grant # None =>
        /\ grant.signed.challenge \in M!Challenges /\ grant.signed.approver \in Texts
        /\ grant.signed = [challenge |-> grant.signed.challenge, approver |-> grant.signed.approver]
        /\ M!Signable(grant.signed.challenge, grant.signed.approver)
        /\ grant.signature = M!Message(grant.signed.challenge, grant.signed.approver)
        /\ DOMAIN grant = {"signed", "signature", "presented", "verified"}
        /\ grant.verified => grant.presented = grant.signed

LEMMA SignStep ==
    ASSUME NEW c \in M!Challenges, NEW who \in Texts, M!Sign(c, who)
    PROVE  GrantInv'
<1> DEFINE g == [signed |-> [challenge |-> c, approver |-> who],
                 signature |-> M!Message(c, who), presented |-> None, verified |-> FALSE]
<1>1. grant' = g /\ M!Signable(c, who)
  BY DEF M!Sign
<1>2. /\ g.signed.challenge = c /\ g.signed.approver = who /\ g.verified = FALSE
      /\ g.signed = [challenge |-> c, approver |-> who] /\ g.signature = M!Message(c, who)
      /\ DOMAIN g = {"signed", "signature", "presented", "verified"}
  OBVIOUS
<1> HIDE DEF g
<1> QED BY <1>1, <1>2 DEF GrantInv

LEMMA PresentStep ==
    ASSUME M!MessagesAssumption, GrantInv, grant # None,
           NEW c \in M!Challenges, NEW who \in Texts, M!Present(c, who)
    PROVE  GrantInv'
<1> DEFINE p == M!GrantFromProto(M!GrantToProto(c, who))
           s == grant.signed
           ok == /\ p # None
                 /\ M!Signable(p.challenge, p.approver)
                 /\ M!Message(p.challenge, p.approver) = grant.signature
<1>1. grant' = [grant EXCEPT !.presented = p, !.verified = ok]
  BY DEF M!Present
<1>2. /\ grant'.signed = s /\ grant'.signature = grant.signature
      /\ DOMAIN grant' = {"signed", "signature", "presented", "verified"}
      /\ grant'.presented = p /\ grant'.verified = ok
  <2> HIDE DEF p, ok
  <2> QED BY <1>1 DEF GrantInv
<1>3. ASSUME ok PROVE p = s
  <2>1. p = [challenge |-> OnArrival(c), approver |-> who]
    BY <1>3, WireBack
  <2>2. p.challenge = OnArrival(c) /\ p.approver = who
    BY <2>1
  <2>3. M!Message(OnArrival(c), who) = M!Message(s.challenge, s.approver)
    BY <1>3, <2>2 DEF GrantInv
  <2>4. s.challenge \in M!Challenges /\ s.approver \in Texts /\ OnArrival(c) \in M!Challenges
    BY LeftTyped DEF GrantInv
  <2>5. OnArrival(c) = s.challenge /\ who = s.approver
    BY <2>3, <2>4, MessageTells
  <2> QED BY <2>1, <2>5 DEF GrantInv
<1> HIDE DEF p, ok
<1> QED BY <1>2, <1>3 DEF GrantInv

LEMMA GrantSeals ==
    ASSUME M!MessagesAssumption, GrantInv
    PROVE  M!SignatureBinds /\ M!SignedArrives
<1>1. M!SignatureBinds
  BY DEF GrantInv, M!SignatureBinds
<1>2. ASSUME grant # None
      PROVE  LET s == grant.signed IN
             M!GrantFromProto(M!GrantToProto(s.challenge, s.approver))
                 \in {s} \cup (IF Len(s.challenge.request_id) > MaxIdLen \/ Len(s.approver) > MaxIdLen
                               THEN {None} ELSE {})
  <2> DEFINE s == grant.signed
             c == s.challenge
             who == s.approver
  <2>1. c \in M!Challenges /\ who \in Texts /\ M!Signable(c, who) /\ s = [challenge |-> c, approver |-> who]
    BY <1>2 DEF GrantInv
  <2> HIDE DEF c, who
  <2>2. M!GrantFromProto(M!GrantToProto(c, who))
           = IF TooLong(c, who) THEN None ELSE [challenge |-> OnArrival(c), approver |-> who]
    BY <2>1, WireBack
  <2>3. None \notin Texts
    BY DEF M!MessagesAssumption
  <2>4. \A text \in {c.request_id, c.policy_id, who} : text # << >> /\ Len(text) <= MaxField
    BY <2>1, <2>3 DEF M!Signable, M!ValidText, M!Challenges
  <2>5. c.capability # << >> \/ c.capability = None
    BY <2>1 DEF M!Signable, M!ValidText
  <2>6. OnArrival(c) = c
    BY <2>1, <2>5 DEF OnArrival, M!Challenges
  <2>7. TooLong(c, who) => Len(c.request_id) > MaxIdLen \/ Len(who) > MaxIdLen
    <3>1. ~(Len(c.policy_id) > MaxField)
      <4>1. c.policy_id \in Seq(Nat) /\ MaxField \in Nat
        BY <2>1 DEF M!Challenges, M!MessagesAssumption
      <4> QED BY <2>4, <4>1
    <3> QED BY <2>4, <3>1 DEF TooLong
  <2> QED BY <2>1, <2>2, <2>6, <2>7 DEF c, who
<1> QED BY <1>1, <1>2 DEF M!SignedArrives

-----------------------------------------------------------------------------
(* A webhook.                                                              *)

SignedItems(n, body) ==
    {<<"t", v>> : v \in Spellings \cup {Junk}}
    \cup {<<k, M!SignedBytes(n, body)>> : k \in {"v0", "v1"}}
    \cup {<<"v1", Junk>>}

\* What Stripe signed is a number and a body, and a header holds nothing else that fits.
HookInv ==
    hook # None =>
        /\ \E v \in Spellings : hook.signed[1] = M!Number(v)
        /\ hook.signed[2] \in Bodies
        /\ DOMAIN hook = {"signed", "header", "body", "clock", "taken"}
        /\ hook.header # << >> =>
               /\ DOMAIN hook.header = 1 .. 3
               /\ \A i \in 1 .. 3 : hook.header[i] \in SignedItems(hook.signed[1], hook.signed[2])
               /\ hook.body \in Bodies /\ hook.clock \in Clocks
               /\ hook.taken <=> M!VerifiesHook(hook.header, hook.body, hook.clock)

LEMMA SignHookStep ==
    ASSUME NEW v \in Spellings, NEW body \in Bodies, M!SignHook(v, body)
    PROVE  HookInv'
<1> DEFINE h == [signed |-> <<M!Number(v), body>>, header |-> << >>, body |-> << >>,
                 clock |-> 0, taken |-> FALSE]
<1>1. hook' = h
  BY DEF M!SignHook
<1>2. /\ h.signed[1] = M!Number(v) /\ h.signed[2] = body /\ h.header = << >>
      /\ DOMAIN h = {"signed", "header", "body", "clock", "taken"}
  OBVIOUS
<1> HIDE DEF h
<1> QED BY <1>1, <1>2 DEF HookInv

LEMMA TakeHookStep ==
    ASSUME HookInv, hook # None, NEW a \in M!Items, NEW b \in M!Items, NEW c \in M!Items,
           NEW body \in Bodies, NEW clock \in Clocks, M!TakeHook(<<a, b, c>>, body, clock)
    PROVE  HookInv'
<1> DEFINE header == <<a, b, c>>
           ok == M!VerifiesHook(header, body, clock)
<1>1. hook' = [hook EXCEPT !.header = header, !.body = body, !.clock = clock, !.taken = ok]
  BY DEF M!TakeHook
<1>2. /\ DOMAIN header = 1 .. 3 /\ header # << >>
      /\ \A i \in 1 .. 3 : header[i] \in SignedItems(hook.signed[1], hook.signed[2])
  <2>1. M!Items = SignedItems(hook.signed[1], hook.signed[2])
    BY DEF M!Items, SignedItems
  <2> QED BY <2>1
<1> HIDE DEF header, ok
<1>3. /\ hook'.signed = hook.signed /\ hook'.header = header /\ hook'.body = body
      /\ hook'.clock = clock /\ hook'.taken = ok
      /\ DOMAIN hook' = {"signed", "header", "body", "clock", "taken"}
  BY <1>1 DEF HookInv
<1>4. hook'.taken <=> M!VerifiesHook(hook'.header, hook'.body, hook'.clock)
  BY ONLY <1>3 DEF ok
<1>5. /\ \E v \in Spellings : hook.signed[1] = M!Number(v)
      /\ hook.signed[2] \in Bodies
  BY DEF HookInv
<1> QED BY <1>2, <1>3, <1>4, <1>5 DEF HookInv

\* The time in a header is the last that it has.
LEMMA TimeIs ==
    ASSUME NEW header, DOMAIN header = 1 .. 3
    PROVE  \/ /\ \A i \in 1 .. 3 : header[i][1] # "t"
              /\ M!TimeIn(header) = None
           \/ \E i \in 1 .. 3 :
                /\ header[i][1] = "t"
                /\ M!TimeIn(header) = IF header[i][2] = Junk THEN None ELSE M!Number(header[i][2])
<1> DEFINE ts == {i \in DOMAIN header : header[i][1] = "t"}
           k == CHOOSE i \in ts : \A j \in ts : j <= i
<1>1. CASE ts = {}
  BY <1>1 DEF M!TimeIn
<1>2. CASE ts # {}
  <2>1. \E i \in ts : \A j \in ts : j <= i
    <3>1. ts \subseteq {1, 2, 3}
      OBVIOUS
    <3> HIDE DEF ts
    <3>2. CASE 3 \in ts
      BY <3>1, <3>2
    <3>3. CASE 3 \notin ts /\ 2 \in ts
      BY <3>1, <3>3
    <3>4. CASE 3 \notin ts /\ 2 \notin ts
      <4>1. ts = {1}
        BY <1>2, <3>1, <3>4
      <4> QED BY <4>1
    <3> QED BY <3>2, <3>3, <3>4
  <2>2. k \in ts
    <3> HIDE DEF ts
    <3> QED BY <2>1
  <2>3. M!TimeIn(header) = IF header[k][2] = Junk THEN None ELSE M!Number(header[k][2])
    BY <1>2 DEF M!TimeIn
  <2>4. k \in 1 .. 3 /\ header[k][1] = "t"
    BY <2>2
  <2> HIDE DEF k
  <2> QED BY <2>3, <2>4
<1> QED BY <1>1, <1>2

LEMMA TimeOfItems ==
    ASSUME M!MessagesAssumption, NEW n, NEW b, NEW item \in SignedItems(n, b)
    PROVE  /\ item[1] = "t" => item[2] = Junk \/ item[2] \in Spellings
           /\ item[1] = "v1" => item[2] = Junk \/ item[2] = M!SignedBytes(n, b)
BY DEF SignedItems

LEMMA SignedAreBytes ==
    ASSUME M!MessagesAssumption, NEW n \in Nat, NEW b \in Bodies
    PROVE  M!SignedBytes(n, b) \in Bytes /\ M!SignedBytes(n, b) # Junk
<1>1. PICK d \in Bytes : d = M!Decimal(n)
  <2>1. M!Decimal(n) \in Seq(Bits)
    BY DecimalBits
  <2> QED BY <2>1 DEF Bits, Bytes
<1>2. PICK t \in Bytes : t = <<2>>
  <2>1. <<2>> \in Bytes
    BY DEF Bytes
  <2> QED BY <2>1
<1>3. b \in Bytes
  BY DEF M!MessagesAssumption, Bytes
<1>4. Joined(Joined(d, t), b) \in Bytes
  BY <1>3, JoinedBytes
<1>5. M!SignedBytes(n, b) = Joined(Joined(d, t), b)
  BY <1>1, <1>2 DEF M!SignedBytes, M!Dot, Joined
<1>6. Junk \notin Bytes
  BY DEF M!MessagesAssumption, Bytes
<1> QED BY <1>4, <1>5, <1>6

LEMMA NearIsInTime ==
    ASSUME M!MessagesAssumption, NEW n \in 0 .. MaxSecond, NEW clock \in Clocks
    PROVE  M!InTime(n, clock) <=> n <= clock + Tolerance /\ clock <= n + Tolerance
<1>1. clock \in Nat /\ Tolerance \in Nat /\ MaxSecond \in Nat
  BY DEF M!MessagesAssumption
<1> QED BY <1>1 DEF M!InTime

LEMMA HookSeals ==
    ASSUME M!MessagesAssumption, HookInv
    PROVE  M!HookIsStripes
<1> SUFFICES ASSUME hook # None, hook.header # << >> PROVE M!HookIsStripes
  BY DEF M!HookIsStripes
<1> DEFINE n == hook.signed[1]
           b == hook.signed[2]
           header == hook.header
           body == hook.body
           clock == hook.clock
           near == n <= clock + Tolerance /\ clock <= n + Tolerance
           time == M!TimeIn(header)
<1>1. /\ n \in 0 .. MaxSecond /\ b \in Bodies /\ DOMAIN header = 1 .. 3
      /\ \A i \in 1 .. 3 : header[i] \in SignedItems(n, b)
      /\ body \in Bodies /\ clock \in Clocks
      /\ hook.taken <=> M!VerifiesHook(header, body, clock)
  BY DEF HookInv, M!MessagesAssumption
<1>2. None \notin Nat /\ MaxSecond \in Nat
  BY DEF M!MessagesAssumption
<1>3. ASSUME hook.taken PROVE body = b /\ near
  <2>1. /\ time # None /\ M!InTime(time, clock)
        /\ \E i \in 1 .. 3 : header[i] = <<"v1", M!SignedBytes(time, body)>>
    BY <1>1, <1>3 DEF M!VerifiesHook
  <2>2. PICK i \in 1 .. 3 : header[i] = <<"v1", M!SignedBytes(time, body)>>
    BY <2>1
  <2> HIDE DEF n, b, header, body, clock, time
  <2>3. PICK j \in 1 .. 3 : header[j][1] = "t" /\ header[j][2] # Junk /\ time = M!Number(header[j][2])
    BY <1>1, <2>1, TimeIs DEF time
  <2>4. header[j][2] \in Spellings
    BY <1>1, <2>3, TimeOfItems
  <2>5. time \in 0 .. MaxSecond
    BY <2>3, <2>4 DEF M!MessagesAssumption
  <2>6. M!SignedBytes(time, body) # Junk
    BY <1>1, <1>2, <2>5, SignedAreBytes
  <2>7. M!SignedBytes(time, body) = M!SignedBytes(n, b)
    <3>1. header[i][1] = "v1" /\ header[i][2] = M!SignedBytes(time, body)
      BY <2>2
    <3> QED BY <1>1, <2>6, <3>1, TimeOfItems
  <2>8. body \in Bytes /\ b \in Bytes /\ time \in Nat /\ n \in Nat
    BY <1>1, <1>2, <2>5 DEF M!MessagesAssumption, Bytes
  <2>9. time = n /\ body = b
    BY <2>7, <2>8, SignedBytesTell
  <2> QED BY <1>1, <2>1, <2>9, NearIsInTime
<1>4. ASSUME near, body = b,
             \A i \in {i \in DOMAIN header : header[i][1] = "t"} :
                 header[i][2] # Junk /\ M!Number(header[i][2]) = n,
             {i \in DOMAIN header : header[i][1] = "t"} # {},
             <<"v1", M!SignedBytes(n, body)>> \in M!Range(header)
      PROVE  hook.taken
  <2>1. PICK i \in 1 .. 3 : header[i] = <<"v1", M!SignedBytes(n, body)>>
    BY <1>1, <1>4 DEF M!Range
  <2> HIDE DEF n, b, header, body, clock, time
  <2>2. time = n
    BY <1>1, <1>4, TimeIs DEF time
  <2>3. n # None /\ M!InTime(n, clock)
    BY <1>1, <1>2, <1>4, NearIsInTime
  <2>4. M!VerifiesHook(header, body, clock)
    BY <1>1, <2>1, <2>2, <2>3 DEF M!VerifiesHook, time
  <2> QED BY <1>1, <2>4
<1> QED BY <1>3, <1>4 DEF M!HookIsStripes

-----------------------------------------------------------------------------
(* Sorting.  An order is a set of pairs.                                   *)

IsOrder(R, I) ==
    /\ \A x \in I : <<x, x>> \notin R
    /\ \A x, y, z \in I : <<x, y>> \in R /\ <<y, z>> \in R => <<x, z>> \in R
    /\ \A x, y \in I : x = y \/ <<x, y>> \in R \/ <<y, x>> \in R

Rises(s, n, R) == \A i, j \in 1 .. n : i < j => <<s[i], s[j]>> \in R

\* Different elements at all places, as many as there are, leave none out.
Different(f, n) == \A i, j \in 1 .. n : f[i] = f[j] => i = j
LeavesNone(f, n, S) == \A x \in S : \E i \in 1 .. n : f[i] = x

LEMMA NoneLeftOut ==
    ASSUME NEW S, IsFiniteSet(S), NEW n \in Nat, n = Cardinality(S), NEW f \in [1 .. n -> S],
           Different(f, n)
    PROVE  LeavesNone(f, n, S)
<1>1. IsFiniteSet(1 .. n) /\ Cardinality(1 .. n) = n
  BY FS_Interval
<1>2. f \in Injection(1 .. n, S)
  BY DEF Injection, IsInjective, Different
<1>3. f \in Surjection(1 .. n, S)
  BY <1>1, <1>2, FS_Injection
<1> QED BY <1>3 DEF Surjection, LeavesNone

\* The elements of a finite set stand in line: each at the place after all that are below it.
LEMMA LineUp ==
    ASSUME NEW I, IsFiniteSet(I), NEW R, IsOrder(R, I), NEW n \in Nat, n = Cardinality(I)
    PROVE  \E s \in [1 .. n -> I] : Rises(s, n, R)
<1> DEFINE Below(x) == {y \in I : <<y, x>> \in R}
           rank == [x \in I |-> Cardinality(Below(x)) + 1]
<1>1. ASSUME NEW x \in I
      PROVE  IsFiniteSet(Below(x)) /\ Cardinality(Below(x)) \in Nat /\ Cardinality(Below(x)) < n
  <2>1. Below(x) \in SUBSET I /\ x \notin Below(x)
    BY DEF IsOrder
  <2> HIDE DEF Below
  <2>2. IsFiniteSet(Below(x)) /\ Cardinality(Below(x)) <= n /\ Cardinality(Below(x)) # n
    BY <2>1, FS_Subset
  <2>3. Cardinality(Below(x)) \in Nat
    BY <2>2, FS_CardinalityType
  <2> QED BY <2>2, <2>3
<1>2. ASSUME NEW x \in I, NEW y \in I, <<x, y>> \in R
      PROVE  Cardinality(Below(x)) < Cardinality(Below(y))
  <2>1. Below(x) \in SUBSET Below(y) /\ x \in Below(y) /\ x \notin Below(x)
    BY <1>2 DEF IsOrder
  <2> HIDE DEF Below
  <2>2. Cardinality(Below(x)) <= Cardinality(Below(y)) /\ Cardinality(Below(x)) # Cardinality(Below(y))
    BY <1>1, <2>1, FS_Subset
  <2> QED BY <1>1, <2>2
<1> HIDE DEF Below
<1>3. rank \in [I -> 1 .. n]
  BY <1>1
<1>4. \A x, y \in I : <<x, y>> \in R => rank[x] < rank[y]
  BY <1>1, <1>2
<1> HIDE DEF rank
<1>5. \A x, y \in I : rank[x] = rank[y] => x = y
  <2> SUFFICES ASSUME NEW x \in I, NEW y \in I, rank[x] = rank[y], x # y PROVE FALSE
    OBVIOUS
  <2>1. rank[x] \in Nat /\ ~(rank[x] < rank[y]) /\ ~(rank[y] < rank[x])
    BY <1>3
  <2> QED BY <1>4, <2>1 DEF IsOrder
<1>6. \A i \in 1 .. n : \E x \in I : rank[x] = i
  <2>1. IsFiniteSet(1 .. n) /\ Cardinality(1 .. n) = n
    BY FS_Interval
  <2>2. rank \in Injection(I, 1 .. n)
    BY <1>3, <1>5 DEF Injection, IsInjective
  <2>3. rank \in Surjection(I, 1 .. n)
    BY <2>1, <2>2, FS_Injection
  <2> QED BY <2>3 DEF Surjection
<1> DEFINE s == [i \in 1 .. n |-> CHOOSE x \in I : rank[x] = i]
<1>7. \A i \in 1 .. n : s[i] \in I /\ rank[s[i]] = i
  BY <1>6
<1>8. s \in [1 .. n -> I]
  BY <1>7
<1> HIDE DEF s
<1>9. ASSUME NEW i \in 1 .. n, NEW j \in 1 .. n, i < j PROVE <<s[i], s[j]>> \in R
  <2>1. s[i] # s[j] /\ ~(rank[s[j]] < rank[s[i]])
    BY <1>7, <1>9
  <2> QED BY <1>4, <1>7, <2>1 DEF IsOrder
<1> QED BY <1>8, <1>9 DEF Rises

LEMMA OneCardinality ==
    ASSUME NEW S
    PROVE  M!Cardinality(S) = Cardinality(S)
BY Zenon DEF M!Cardinality, Cardinality

LEMMA NumbersInOrder ==
    ASSUME NEW S \in SUBSET Nat
    PROVE  IsOrder({p \in S \X S : p[1] < p[2]}, S)
BY DEF IsOrder

\* All of a set of numbers, and nothing else.
LEMMA SortedHasAll ==
    ASSUME NEW S \in SUBSET Nat, IsFiniteSet(S)
    PROVE  M!Range(M!Sorted(S)) = S /\ M!Sorted(S) \in Bytes
<1>1. PICK n \in Nat : n = Cardinality(S)
  BY FS_CardinalityType
<1> DEFINE R == {p \in S \X S : p[1] < p[2]}
           fits(s) == \A i, j \in DOMAIN s : i < j => s[i] < s[j]
<1>2. PICK s \in [1 .. n -> S] : Rises(s, n, R)
  BY <1>1, NumbersInOrder, LineUp
<1>3. fits(s)
  BY <1>2 DEF Rises
<1>4. M!Sorted(S) = CHOOSE t \in [1 .. n -> S] : fits(t)
  BY <1>1, OneCardinality DEF M!Sorted
<1>5. PICK t \in [1 .. n -> S] : t = M!Sorted(S) /\ fits(t)
  BY <1>3, <1>4
<1>6. Different(t, n)
  <2> SUFFICES ASSUME NEW i \in 1 .. n, NEW j \in 1 .. n, t[i] = t[j], i < j \/ j < i PROVE FALSE
    BY DEF Different
  <2>1. t[i] \in Nat /\ t[j] \in Nat
    OBVIOUS
  <2> QED BY <1>5, <2>1
<1>7. LeavesNone(t, n, S)
  BY <1>1, <1>6, NoneLeftOut
<1>8. M!Range(t) = S
  <2>1. M!Range(t) = {t[i] : i \in 1 .. n}
    BY DEF M!Range
  <2>2. {t[i] : i \in 1 .. n} \subseteq S
    OBVIOUS
  <2>3. S \subseteq {t[i] : i \in 1 .. n}
    BY <1>7 DEF LeavesNone
  <2> QED BY <2>1, <2>2, <2>3
<1>9. M!Sorted(S) = t
  BY <1>5
<1>10. t \in Bytes
  <2>1. t \in [1 .. n -> Nat]
    OBVIOUS
  <2> QED BY ONLY <1>1, <2>1 DEF Bytes
<1> QED BY ONLY <1>8, <1>9, <1>10

\* The places of an element, and two sequences with the same elements as often.
Places(f, x) == {i \in DOMAIN f : f[i] = x}
SameCounts(f, g) == \A x : Cardinality(Places(f, x)) = Cardinality(Places(g, x))

LEMMA PlacesFinite ==
    ASSUME NEW n \in Nat, NEW f, DOMAIN f = 1 .. n, NEW x
    PROVE  /\ IsFiniteSet(Places(f, x)) /\ Cardinality(Places(f, x)) \in Nat
           /\ Cardinality(Places(f, x)) = 0 <=> x \notin M!Range(f)
<1>1. IsFiniteSet(1 .. n) /\ Places(f, x) \in SUBSET (1 .. n)
  BY FS_Interval DEF Places
<1>2. IsFiniteSet(Places(f, x))
  BY <1>1, FS_Subset
<1>3. Cardinality(Places(f, x)) \in Nat /\ (Cardinality(Places(f, x)) = 0 <=> Places(f, x) = {})
  BY <1>2, FS_CardinalityType, FS_EmptySet
<1>4. Places(f, x) = {} <=> x \notin M!Range(f)
  BY DEF Places, M!Range
<1> QED BY <1>2, <1>3, <1>4

\* Bags tell how often.
LEMMA BagsTell ==
    ASSUME NEW n \in Nat, NEW m \in Nat, NEW f, NEW g, DOMAIN f = 1 .. n, DOMAIN g = 1 .. m
    PROVE  M!ToBag(f) = M!ToBag(g) <=> SameCounts(f, g)
<1>1. ASSUME NEW h
      PROVE  M!ToBag(h) = [x \in M!Range(h) |-> Cardinality(Places(h, x))]
  <2>1. M!ToBag(h) = [x \in M!Range(h) |-> M!Cardinality(Places(h, x))]
    BY DEF M!ToBag, Places
  <2> QED BY <2>1, OneCardinality
<1>2. ASSUME M!ToBag(f) = M!ToBag(g) PROVE SameCounts(f, g)
  <2> DEFINE F == [x \in M!Range(f) |-> Cardinality(Places(f, x))]
             G == [x \in M!Range(g) |-> Cardinality(Places(g, x))]
  <2>1. F = G
    BY <1>1, <1>2
  <2>2. DOMAIN F = M!Range(f) /\ DOMAIN G = M!Range(g)
    OBVIOUS
  <2>3. M!Range(f) = M!Range(g)
    BY ONLY <2>1, <2>2
  <2>4. ASSUME NEW x \in M!Range(f) PROVE Cardinality(Places(f, x)) = Cardinality(Places(g, x))
    <3>1. F[x] = Cardinality(Places(f, x)) /\ G[x] = Cardinality(Places(g, x))
      BY <2>3
    <3> QED BY ONLY <2>1, <3>1
  <2>5. ASSUME NEW x, x \notin M!Range(f) PROVE Cardinality(Places(f, x)) = Cardinality(Places(g, x))
    BY <2>3, <2>5, PlacesFinite
  <2> QED BY <2>4, <2>5 DEF SameCounts
<1>3. ASSUME SameCounts(f, g) PROVE M!ToBag(f) = M!ToBag(g)
  <2>1. ASSUME NEW x PROVE Cardinality(Places(f, x)) = Cardinality(Places(g, x))
    BY <1>3 DEF SameCounts
  <2>2. \A x : x \in M!Range(f) <=> x \in M!Range(g)
    BY <2>1, PlacesFinite
  <2>3. M!Range(f) = M!Range(g)
    BY <2>2
  <2> QED BY <1>1, <2>1, <2>3
<1> QED BY <1>2, <1>3

\* No element stands before one that is below it; and f has at k, first, what g has not.
NoFall(f, n, R) == \A i, j \in 1 .. n : i < j => <<f[j], f[i]>> \notin R
Departs(f, n, g, m, k, R) ==
    /\ \A i \in 1 .. n : i < k => i \in 1 .. m /\ f[i] = g[i]
    /\ k \in 1 .. m => <<f[k], g[k]>> \in R

LEMMA SortedAgree ==
    ASSUME NEW F, NEW R, IsOrder(R, F), NEW n \in Nat, NEW m \in Nat,
           NEW f \in [1 .. n -> F], NEW g \in [1 .. m -> F], SameCounts(f, g),
           NoFall(f, n, R), NoFall(g, m, R), NEW k \in 1 .. n
    PROVE  ~Departs(f, n, g, m, k, R)
<1> SUFFICES ASSUME Departs(f, n, g, m, k, R) PROVE FALSE
  OBVIOUS
<1>0. /\ \A i \in 1 .. n : i < k => i \in 1 .. m /\ f[i] = g[i]
      /\ k \in 1 .. m => <<f[k], g[k]>> \in R
      /\ \A i, j \in 1 .. m : i < j => <<g[j], g[i]>> \notin R
  BY DEF Departs, NoFall
<1> DEFINE x == f[k]
<1>1. Places(g, x) \subseteq Places(f, x)
  <2> SUFFICES ASSUME NEW i \in Places(g, x) PROVE i \in Places(f, x)
    OBVIOUS
  <2>1. i \in 1 .. m /\ g[i] = x
    BY DEF Places
  <2>2. CASE i < k
    <3>1. i \in 1 .. n /\ f[i] = g[i]
      BY <1>0, <2>1, <2>2
    <3> QED BY <2>1, <3>1 DEF Places
  <2>3. CASE i >= k
    <3>1. k \in 1 .. m
      BY <2>1, <2>3
    <3>2. x \in F /\ g[k] \in F /\ <<x, g[k]>> \in R
      BY <1>0, <3>1
    <3>3. i # k
      BY <2>1, <3>2 DEF IsOrder
    <3>4. <<g[i], g[k]>> \notin R
      BY <1>0, <2>1, <2>3, <3>1, <3>3
    <3> QED BY <2>1, <3>2, <3>4
  <2> QED BY <2>1, <2>2, <2>3
<1>2. k \in Places(f, x)
  BY DEF Places
<1>3. k \notin Places(g, x)
  <2>1. x \in F
    OBVIOUS
  <2> QED BY <1>0, <2>1 DEF Places, IsOrder
<1>4. DOMAIN f = 1 .. n /\ DOMAIN g = 1 .. m
  OBVIOUS
<1> HIDE DEF x
<1>5. IsFiniteSet(Places(f, x)) /\ Cardinality(Places(f, x)) = Cardinality(Places(g, x))
  BY <1>4, PlacesFinite DEF SameCounts
<1>6. Places(f, x) = Places(g, x)
  BY ONLY <1>1, <1>5, FS_Subset
<1> QED BY <1>2, <1>3, <1>6

LEMMA SortedSame ==
    ASSUME NEW F, NEW R, IsOrder(R, F), NEW n \in Nat, NEW m \in Nat,
           NEW f \in [1 .. n -> F], NEW g \in [1 .. m -> F], SameCounts(f, g),
           NoFall(f, n, R), NoFall(g, m, R)
    PROVE  f = g
<1> DEFINE B == {i \in 1 .. n : ~(i \in 1 .. m /\ f[i] = g[i])} \cup {i \in 1 .. m : i \notin 1 .. n}
<1>0. SameCounts(g, f)
  BY DEF SameCounts
<1>1. CASE B = {}
  <2>1. n = m
    <3>1. \A i \in Nat : i \in 1 .. n <=> i \in 1 .. m
      BY <1>1
    <3>2. n # 0 => n \in 1 .. n
      OBVIOUS
    <3>3. m # 0 => m \in 1 .. m
      OBVIOUS
    <3> QED BY <3>1, <3>2, <3>3
  <2>2. \A i \in 1 .. n : f[i] = g[i]
    BY <1>1
  <2> QED BY <2>1, <2>2
<1>2. CASE B # {}
  <2>1. PICK k \in B : \A j \in B : k <= j
    <3>1. B \in SUBSET Nat
      OBVIOUS
    <3> HIDE DEF B
    <3> QED BY <1>2, <3>1, LeastIndex
  <2>2. ASSUME NEW i \in Nat, i < k PROVE i \notin B
    BY <2>1, <2>2
  <2>3. k \in Nat /\ k >= 1
    OBVIOUS
  <2>4. \A i \in 1 .. n : i < k => i \in 1 .. m /\ f[i] = g[i]
    BY <2>2, <2>3
  <2>5. \A i \in 1 .. m : i < k => i \in 1 .. n /\ g[i] = f[i]
    BY <2>2, <2>3
  <2>6. CASE k \in 1 .. n /\ k \notin 1 .. m
    <3>1. Departs(f, n, g, m, k, R)
      BY <2>4, <2>6 DEF Departs
    <3> QED BY <2>6, <3>1, SortedAgree
  <2>7. CASE k \in 1 .. m /\ k \notin 1 .. n
    <3>1. Departs(g, m, f, n, k, R)
      BY <2>5, <2>7 DEF Departs
    <3> QED BY <1>0, <2>7, <3>1, SortedAgree
  <2>8. CASE k \in 1 .. n /\ k \in 1 .. m
    <3>1. f[k] # g[k] /\ f[k] \in F /\ g[k] \in F
      BY <2>8
    <3>2. CASE <<f[k], g[k]>> \in R
      <4>1. Departs(f, n, g, m, k, R)
        BY <2>4, <3>2 DEF Departs
      <4> QED BY <2>8, <4>1, SortedAgree
    <3>3. CASE <<g[k], f[k]>> \in R
      <4>1. Departs(g, m, f, n, k, R)
        BY <2>5, <3>3 DEF Departs
      <4> QED BY <1>0, <2>8, <4>1, SortedAgree
    <3> QED BY <3>1, <3>2, <3>3 DEF IsOrder
  <2> QED BY <2>1, <2>6, <2>7, <2>8
<1> QED BY <1>1, <1>2

-----------------------------------------------------------------------------
(* Capabilities in order: by name, then by constraints as words in a book. *)

Caps == [name : Nat, constraints : Bytes]
CapOrder == {p \in Caps \X Caps : M!Precedes(p[1], p[2])}

\* At k, b is first above a.
Above(a, b, k) ==
    /\ k \in 1 .. Len(b)
    /\ \A j \in 1 .. k - 1 : j <= Len(a) /\ a[j] = b[j]
    /\ k > Len(a) \/ a[k] < b[k]

LEMMA BeforeIsAbove ==
    ASSUME NEW a \in Bytes, NEW b \in Bytes
    PROVE  M!Before(a, b) <=> \E k \in Nat : Above(a, b, k)
<1>1. M!Before(a, b) <=> \E k \in 1 .. Len(b) : Above(a, b, k)
  BY DEF M!Before, Above
<1>2. Len(b) \in Nat
  BY DEF Bytes
<1>3. \A k : Above(a, b, k) => k \in 1 .. Len(b)
  BY DEF Above
<1> QED BY <1>1, <1>2, <1>3

LEMMA BeforeOnce ==
    ASSUME NEW a \in Bytes
    PROVE  ~M!Before(a, a)
<1>1. ASSUME NEW k \in Nat, Above(a, a, k) PROVE FALSE
  BY <1>1 DEF Above, Bytes
<1> QED BY <1>1, BeforeIsAbove

LEMMA BeforeGoesOn ==
    ASSUME NEW a \in Bytes, NEW b \in Bytes, NEW c \in Bytes, M!Before(a, b), M!Before(b, c)
    PROVE  M!Before(a, c)
<1>1. PICK k \in Nat : Above(a, b, k)
  BY BeforeIsAbove
<1>2. PICK l \in Nat : Above(b, c, l)
  BY BeforeIsAbove
<1>3. Len(a) \in Nat /\ Len(b) \in Nat /\ Len(c) \in Nat
  BY DEF Bytes
<1>4. /\ \A i \in 1 .. Len(a) : a[i] \in Nat
      /\ \A i \in 1 .. Len(b) : b[i] \in Nat
      /\ \A i \in 1 .. Len(c) : c[i] \in Nat
  BY DEF Bytes
<1>5. CASE k < l
  <2>1. k \in 1 .. l - 1 /\ k \in 1 .. Len(c) /\ b[k] = c[k]
    BY <1>1, <1>2, <1>3, <1>5 DEF Above
  <2>2. \A j \in 1 .. k - 1 : j <= Len(a) /\ a[j] = c[j]
    <3> SUFFICES ASSUME NEW j \in 1 .. k - 1 PROVE j <= Len(a) /\ a[j] = c[j]
      OBVIOUS
    <3>1. j <= Len(a) /\ a[j] = b[j]
      BY <1>1 DEF Above
    <3>2. j \in 1 .. l - 1
      BY <1>5
    <3>3. b[j] = c[j]
      BY <1>2, <3>2 DEF Above
    <3> QED BY <3>1, <3>3
  <2>3. k > Len(a) \/ a[k] < c[k]
    BY <1>1, <2>1 DEF Above
  <2>4. Above(a, c, k)
    BY <2>1, <2>2, <2>3 DEF Above
  <2> QED BY <2>4, BeforeIsAbove
<1>6. CASE l < k
  <2>1. l \in 1 .. k - 1 /\ l \in 1 .. Len(c) /\ l \in 1 .. Len(b)
    BY <1>1, <1>2, <1>3, <1>6 DEF Above
  <2>2. l <= Len(a) /\ a[l] = b[l] /\ b[l] < c[l]
    BY <1>1, <1>2, <1>3, <2>1 DEF Above
  <2>3. \A j \in 1 .. l - 1 : j <= Len(a) /\ a[j] = c[j]
    <3> SUFFICES ASSUME NEW j \in 1 .. l - 1 PROVE j <= Len(a) /\ a[j] = c[j]
      OBVIOUS
    <3>1. b[j] = c[j]
      BY <1>2 DEF Above
    <3>2. j \in 1 .. k - 1
      BY <1>6
    <3>3. j <= Len(a) /\ a[j] = b[j]
      BY <1>1, <3>2 DEF Above
    <3> QED BY <3>1, <3>3
  <2>4. Above(a, c, l)
    BY <2>1, <2>2, <2>3 DEF Above
  <2> QED BY <2>4, BeforeIsAbove
<1>7. CASE k = l
  <2>1. k \in 1 .. Len(b) /\ k \in 1 .. Len(c) /\ b[k] < c[k]
    BY <1>1, <1>2, <1>3, <1>7 DEF Above
  <2>2. k > Len(a) \/ a[k] < c[k]
    <3>1. CASE k > Len(a)
      BY <3>1
    <3>2. CASE ~(k > Len(a))
      <4>1. k \in 1 .. Len(a) /\ a[k] < b[k]
        BY <1>1, <1>3, <2>1, <3>2 DEF Above
      <4>2. a[k] \in Nat /\ b[k] \in Nat /\ c[k] \in Nat
        BY <1>4, <2>1, <4>1
      <4> QED BY <2>1, <4>1, <4>2
    <3> QED BY <3>1, <3>2
  <2>3. \A j \in 1 .. k - 1 : j <= Len(a) /\ a[j] = c[j]
    <3> SUFFICES ASSUME NEW j \in 1 .. k - 1 PROVE j <= Len(a) /\ a[j] = c[j]
      OBVIOUS
    <3>1. j <= Len(a) /\ a[j] = b[j]
      BY <1>1 DEF Above
    <3>2. b[j] = c[j]
      BY <1>2, <1>7 DEF Above
    <3> QED BY <3>1, <3>2
  <2>4. Above(a, c, k)
    BY <2>1, <2>2, <2>3 DEF Above
  <2> QED BY <2>4, BeforeIsAbove
<1> QED BY <1>5, <1>6, <1>7

\* At k, a and b are not the same.
Apart(a, b, k) ==
    /\ k >= 1
    /\ k <= Len(a) \/ k <= Len(b)
    /\ ~(k <= Len(a) /\ k <= Len(b) /\ a[k] = b[k])

LEMMA BeforeOrAfter ==
    ASSUME NEW a \in Bytes, NEW b \in Bytes, a # b
    PROVE  M!Before(a, b) \/ M!Before(b, a)
<1> DEFINE D == {k \in Nat : Apart(a, b, k)}
<1>1. Len(a) \in Nat /\ Len(b) \in Nat
  BY DEF Bytes
<1>2. D # {}
  <2> SUFFICES ASSUME \A k \in Nat : ~Apart(a, b, k) PROVE FALSE
    OBVIOUS
  <2>1. Len(a) = Len(b)
    <3>1. Len(a) >= 1 => Len(a) <= Len(b)
      BY <1>1 DEF Apart
    <3>2. Len(b) >= 1 => Len(b) <= Len(a)
      BY <1>1 DEF Apart
    <3> QED BY <1>1, <3>1, <3>2
  <2>2. \A k \in 1 .. Len(a) : a[k] = b[k]
    BY <1>1, <2>1 DEF Apart
  <2> QED BY <2>1, <2>2, SeqEqual DEF Bytes
<1>3. PICK k \in Nat : Apart(a, b, k) /\ \A j \in Nat : Apart(a, b, j) => k <= j
  <2>1. D \in SUBSET Nat
    OBVIOUS
  <2>2. PICK k \in D : \A j \in D : k <= j
    <3> HIDE DEF D
    <3> QED BY <1>2, <2>1, LeastIndex
  <2> QED BY <2>2
<1>4. \A j \in 1 .. k - 1 : j <= Len(a) /\ j <= Len(b) /\ a[j] = b[j]
  <2> SUFFICES ASSUME NEW j \in 1 .. k - 1 PROVE j <= Len(a) /\ j <= Len(b) /\ a[j] = b[j]
    OBVIOUS
  <2>1. j \in Nat /\ j >= 1 /\ ~(k <= j) /\ j < k
    OBVIOUS
  <2>2. ~Apart(a, b, j)
    BY <1>3, <2>1
  <2>3. j <= Len(a) \/ j <= Len(b)
    <3>1. k <= Len(a) \/ k <= Len(b)
      BY <1>3 DEF Apart
    <3> QED BY ONLY <1>1, <2>1, <3>1, k \in Nat
  <2> QED BY <2>1, <2>2, <2>3 DEF Apart
<1>5. k \in Nat /\ k >= 1
  BY <1>3 DEF Apart
<1>6. CASE k <= Len(b) /\ (k > Len(a) \/ a[k] < b[k])
  <2>1. Above(a, b, k)
    BY <1>1, <1>4, <1>5, <1>6 DEF Above
  <2> QED BY <1>5, <2>1, BeforeIsAbove
<1>7. CASE k <= Len(a) /\ (k > Len(b) \/ b[k] < a[k])
  <2>1. Above(b, a, k)
    BY <1>1, <1>4, <1>5, <1>7 DEF Above
  <2> QED BY <1>5, <2>1, BeforeIsAbove
<1>8. CASE k <= Len(a) /\ k <= Len(b) /\ ~(a[k] < b[k]) /\ ~(b[k] < a[k])
  <2>1. a[k] \in Nat /\ b[k] \in Nat
    BY <1>1, <1>5, <1>8 DEF Bytes
  <2>2. a[k] = b[k]
    BY <1>8, <2>1
  <2> QED BY <1>3, <1>8, <2>2 DEF Apart
<1> QED BY <1>1, <1>3, <1>6, <1>7, <1>8 DEF Apart

LEMMA CapsInOrder == IsOrder(CapOrder, Caps)
<1>0. ASSUME NEW x \in Caps, NEW y \in Caps
      PROVE  /\ <<x, y>> \in CapOrder <=>
                    x.name < y.name \/ (x.name = y.name /\ M!Before(x.constraints, y.constraints))
             /\ x.name = y.name /\ x.constraints = y.constraints => x = y
  BY DEF CapOrder, Caps, M!Precedes
<1>4. ASSUME NEW x \in Caps PROVE x.name \in Nat /\ x.constraints \in Bytes
  BY DEF Caps
<1>1. ASSUME NEW x \in Caps PROVE <<x, x>> \notin CapOrder
  <2>1. ~(x.name < x.name) /\ ~M!Before(x.constraints, x.constraints)
    BY <1>4, BeforeOnce
  <2> QED BY <1>0, <2>1
<1>2. ASSUME NEW x \in Caps, NEW y \in Caps, NEW z \in Caps,
             <<x, y>> \in CapOrder, <<y, z>> \in CapOrder
      PROVE  <<x, z>> \in CapOrder
  <2>1. x.name \in Nat /\ y.name \in Nat /\ z.name \in Nat
    BY <1>4
  <2>2. x.name < y.name \/ (x.name = y.name /\ M!Before(x.constraints, y.constraints))
    BY <1>0, <1>2
  <2>3. y.name < z.name \/ (y.name = z.name /\ M!Before(y.constraints, z.constraints))
    BY <1>0, <1>2
  <2>4. M!Before(x.constraints, y.constraints) /\ M!Before(y.constraints, z.constraints)
            => M!Before(x.constraints, z.constraints)
    BY <1>4, BeforeGoesOn
  <2>5. x.name < z.name \/ (x.name = z.name /\ M!Before(x.constraints, z.constraints))
    BY ONLY <2>1, <2>2, <2>3, <2>4
  <2> QED BY <1>0, <2>5
<1>3. ASSUME NEW x \in Caps, NEW y \in Caps, x # y
      PROVE  <<x, y>> \in CapOrder \/ <<y, x>> \in CapOrder
  <2>1. x.name < y.name \/ y.name < x.name \/ x.name = y.name
    <3>1. x.name \in Nat /\ y.name \in Nat
      BY <1>4
    <3> QED BY ONLY <3>1
  <2>2. x.name = y.name => M!Before(x.constraints, y.constraints) \/ M!Before(y.constraints, x.constraints)
    BY <1>0, <1>4, <1>3, BeforeOrAfter
  <2> QED BY <1>0, <2>1, <2>2
<1> HIDE DEF CapOrder
<1> QED BY <1>1, <1>2, <1>3 DEF IsOrder

Asked(caps) == [i \in DOMAIN caps |-> [name |-> caps[i].name, constraints |-> M!Range(caps[i].constraints)]]

\* A capability as it is meant, and as it is spelled in a digest.
Meant(cap) == [name |-> cap.name, constraints |-> M!Range(cap.constraints)]
Spelled(cap) == [name |-> cap.name, constraints |-> M!Sorted(cap.constraints)]
Spells(f, u) == DOMAIN f = DOMAIN u /\ \A i \in DOMAIN f : u[i] = Meant(f[i]) /\ f[i] = Spelled(u[i])

LEMMA RangeOfBytes ==
    ASSUME NEW b \in Bytes
    PROVE  M!Range(b) \in SUBSET Nat /\ IsFiniteSet(M!Range(b))
<1> DEFINE n == Len(b)
<1>1. n \in Nat /\ b \in [1 .. n -> Nat] /\ M!Range(b) = {b[i] : i \in 1 .. n}
  BY DEF Bytes, M!Range
<1>2. b \in Surjection(1 .. n, M!Range(b))
  BY <1>1 DEF Surjection
<1>3. IsFiniteSet(1 .. n)
  BY <1>1, FS_Interval
<1>4. IsFiniteSet(M!Range(b))
  BY <1>2, <1>3, FS_Surjection
<1> QED BY <1>1, <1>4

LEMMA FlatSpells ==
    ASSUME M!MessagesAssumption, NEW caps \in CapabilityLists
    PROVE  /\ Len(caps) \in Nat /\ DOMAIN caps = 1 .. Len(caps)
           /\ M!Flat(caps) \in [1 .. Len(caps) -> Caps]
           /\ Spells(M!Flat(caps), Asked(caps)) /\ DOMAIN Asked(caps) = 1 .. Len(caps)
<1>1. caps \in Seq([name : Nat, constraints : Seq(Nat)])
  BY DEF M!MessagesAssumption
<1>2. Len(caps) \in Nat /\ DOMAIN caps = 1 .. Len(caps)
  BY <1>1
<1> DEFINE flat == M!Flat(caps)
           asked == Asked(caps)
<1>3. DOMAIN flat = 1 .. Len(caps) /\ DOMAIN asked = 1 .. Len(caps)
  BY <1>2 DEF M!Flat, Asked
<1>4. ASSUME NEW i \in 1 .. Len(caps)
      PROVE  flat[i] \in Caps /\ asked[i] = Meant(flat[i]) /\ flat[i] = Spelled(asked[i])
  <2>0. caps[i] \in [name : Nat, constraints : Seq(Nat)]
    <3> DEFINE records == [name : Nat, constraints : Seq(Nat)]
    <3>1. caps \in Seq(records) /\ i \in 1 .. Len(caps)
      BY <1>1, <1>4
    <3> HIDE DEF records
    <3>2. caps[i] \in records
      BY ONLY <3>1
    <3> QED BY <3>2 DEF records
  <2>1. PICK m \in Nat, b \in Bytes : m = caps[i].name /\ b = caps[i].constraints
    BY <2>0 DEF Bytes
  <2>2. PICK S \in SUBSET Nat : S = M!Range(b) /\ IsFiniteSet(S)
    BY RangeOfBytes
  <2>3. flat[i] = [name |-> m, constraints |-> M!Sorted(S)]
    BY <1>2, <2>1, <2>2 DEF M!Flat
  <2>4. asked[i] = [name |-> m, constraints |-> S]
    BY <1>2, <2>1, <2>2 DEF Asked
  <2>5. M!Range(M!Sorted(S)) = S /\ M!Sorted(S) \in Bytes
    BY <2>2, SortedHasAll
  <2> HIDE DEF flat, asked
  <2>6. flat[i] \in Caps
    BY <2>3, <2>5 DEF Caps
  <2> QED BY <2>3, <2>4, <2>5, <2>6 DEF Meant, Spelled
<1> HIDE DEF flat, asked
<1>5. flat \in [1 .. Len(caps) -> Caps]
  <2>1. flat = [i \in 1 .. Len(caps) |-> flat[i]]
    BY <1>3 DEF flat, M!Flat
  <2> QED BY <1>4, <2>1
<1>6. Spells(flat, asked)
  BY <1>3, <1>4 DEF Spells
<1> QED BY <1>2, <1>3, <1>5, <1>6 DEF flat, asked

\* To be spelled as often is to be meant as often.
LEMMA SpellingCounts ==
    ASSUME NEW f, NEW u, Spells(f, u), NEW g, NEW v, Spells(g, v)
    PROVE  SameCounts(f, g) <=> SameCounts(u, v)
<1>1. ASSUME NEW h, NEW w, Spells(h, w), NEW x
      PROVE  Places(h, x) = IF x = Spelled(Meant(x)) THEN Places(w, Meant(x)) ELSE {}
  <2>1. ASSUME NEW i \in DOMAIN h, h[i] = x PROVE x = Spelled(Meant(x)) /\ w[i] = Meant(x)
    BY <1>1, <2>1 DEF Spells
  <2>2. ASSUME NEW i \in DOMAIN w, x = Spelled(Meant(x)), w[i] = Meant(x) PROVE h[i] = x
    BY <1>1, <2>2 DEF Spells
  <2>3. DOMAIN h = DOMAIN w
    BY <1>1 DEF Spells
  <2> QED BY <2>1, <2>2, <2>3 DEF Places
<1>2. ASSUME NEW h, NEW w, Spells(h, w), NEW y
      PROVE  Places(w, y) = IF y = Meant(Spelled(y)) THEN Places(h, Spelled(y)) ELSE {}
  <2>1. ASSUME NEW i \in DOMAIN h, w[i] = y PROVE y = Meant(Spelled(y)) /\ h[i] = Spelled(y)
    BY <1>2, <2>1 DEF Spells
  <2>2. ASSUME NEW i \in DOMAIN h, y = Meant(Spelled(y)), h[i] = Spelled(y) PROVE w[i] = y
    BY <1>2, <2>2 DEF Spells
  <2>3. DOMAIN h = DOMAIN w
    BY <1>2 DEF Spells
  <2> QED BY <2>1, <2>2, <2>3 DEF Places
<1>3. ASSUME SameCounts(f, g), NEW y
      PROVE  Cardinality(Places(u, y)) = Cardinality(Places(v, y))
  <2>1. Cardinality(Places(f, Spelled(y))) = Cardinality(Places(g, Spelled(y)))
    BY <1>3 DEF SameCounts
  <2>2. Places(u, y) = IF y = Meant(Spelled(y)) THEN Places(f, Spelled(y)) ELSE {}
    BY <1>2
  <2>3. Places(v, y) = IF y = Meant(Spelled(y)) THEN Places(g, Spelled(y)) ELSE {}
    BY <1>2
  <2> QED BY <2>1, <2>2, <2>3
<1>4. ASSUME SameCounts(u, v), NEW x
      PROVE  Cardinality(Places(f, x)) = Cardinality(Places(g, x))
  <2>1. Cardinality(Places(u, Meant(x))) = Cardinality(Places(v, Meant(x)))
    BY <1>4 DEF SameCounts
  <2>2. Places(f, x) = IF x = Spelled(Meant(x)) THEN Places(u, Meant(x)) ELSE {}
    BY <1>1
  <2>3. Places(g, x) = IF x = Spelled(Meant(x)) THEN Places(v, Meant(x)) ELSE {}
    BY <1>1
  <2> QED BY <2>1, <2>2, <2>3
<1> QED BY <1>3, <1>4 DEF SameCounts

\* Elements that change places are as many as before.
LEMMA Rearranged ==
    ASSUME NEW n \in Nat, NEW f, DOMAIN f = 1 .. n, NEW p \in M!Orders(n),
           NEW s, DOMAIN s = 1 .. n, \A i \in 1 .. n : s[i] = f[p[i]]
    PROVE  SameCounts(s, f)
<1>1. p \in [1 .. n -> 1 .. n] /\ Different(p, n)
  BY DEF M!Orders, M!IsInjective, Different
<1>2. IsFiniteSet(1 .. n) /\ Cardinality(1 .. n) = n
  BY FS_Interval
<1>3. LeavesNone(p, n, 1 .. n)
  BY <1>1, <1>2, NoneLeftOut
<1>4. ASSUME NEW x PROVE Cardinality(Places(s, x)) = Cardinality(Places(f, x))
  <2> DEFINE P == Places(s, x)
             Q == Places(f, x)
             b == [i \in P |-> p[i]]
  <2>1. /\ \A i \in P : i \in 1 .. n /\ f[p[i]] = x /\ p[i] \in 1 .. n
        /\ \A i \in 1 .. n : f[p[i]] = x => i \in P
    BY <1>1 DEF Places
  <2>2. \A j : j \in Q <=> j \in 1 .. n /\ f[j] = x
    BY DEF Places
  <2>3. IsFiniteSet(P)
    BY PlacesFinite
  <2> HIDE DEF P, Q
  <2>4. b \in [P -> Q]
    BY <2>1, <2>2
  <2>5. \A i, j \in P : b[i] = b[j] => i = j
    BY <1>1, <2>1 DEF Different
  <2>6. \A j \in Q : \E i \in P : b[i] = j
    BY <1>3, <2>1, <2>2 DEF LeavesNone
  <2> HIDE DEF b
  <2>7. b \in Bijection(P, Q)
    BY <2>4, <2>5, <2>6 DEF Bijection, Injection, Surjection, IsInjective
  <2>8. ExistsBijection(P, Q)
    BY <2>7 DEF ExistsBijection
  <2>9. Cardinality(Q) = Cardinality(P)
    BY <2>3, <2>8, FS_Bijection
  <2> QED BY <2>9 DEF P, Q
<1> QED BY <1>4 DEF SameCounts

\* Places in order: by what stands there, and then by themselves.
LEMMA PlacesInOrder ==
    ASSUME NEW n \in Nat, NEW F, NEW R, IsOrder(R, F), NEW f \in [1 .. n -> F]
    PROVE  \E p \in M!Orders(n) :
               \A i, j \in 1 .. n : i < j => <<f[p[j]], f[p[i]]>> \notin R
<1> DEFINE I == 1 .. n
           Q == {q \in I \X I : \/ <<f[q[1]], f[q[2]]>> \in R
                                \/ f[q[1]] = f[q[2]] /\ q[1] < q[2]}
<1>0. ASSUME NEW x \in F, NEW y \in F, NEW z \in F
      PROVE  /\ <<x, x>> \notin R
             /\ <<x, y>> \in R /\ <<y, z>> \in R => <<x, z>> \in R
             /\ x = y \/ <<x, y>> \in R \/ <<y, x>> \in R
  BY DEF IsOrder
<1>1. ASSUME NEW x \in I, NEW y \in I
      PROVE  <<x, y>> \in Q <=> <<f[x], f[y]>> \in R \/ (f[x] = f[y] /\ x < y)
  OBVIOUS
<1>2. ASSUME NEW x \in I PROVE f[x] \in F /\ x \in Nat
  OBVIOUS
<1> HIDE DEF Q, I
<1>3. IsOrder(Q, I)
  <2>1. ASSUME NEW x \in I PROVE <<x, x>> \notin Q
    <3>1. x \in Nat /\ f[x] \in F
      BY <1>2
    <3>2. ~(x < x) /\ <<f[x], f[x]>> \notin R
      BY <1>0, <3>1
    <3> QED BY <1>1, <3>2
  <2>2. ASSUME NEW x \in I, NEW y \in I, NEW z \in I, <<x, y>> \in Q, <<y, z>> \in Q
        PROVE  <<x, z>> \in Q
    <3>1. <<f[x], f[y]>> \in R \/ (f[x] = f[y] /\ x < y)
      BY <1>1, <2>2
    <3>2. <<f[y], f[z]>> \in R \/ (f[y] = f[z] /\ y < z)
      BY <1>1, <2>2
    <3>3. x < y /\ y < z => x < z
      BY <1>2
    <3>4. <<f[x], f[z]>> \in R \/ (f[x] = f[z] /\ x < z)
      <4>1. <<f[x], f[y]>> \in R /\ <<f[y], f[z]>> \in R => <<f[x], f[z]>> \in R
        BY <1>0, <1>2
      <4> QED BY <3>1, <3>2, <3>3, <4>1
    <3> QED BY <1>1, <3>4
  <2>3. ASSUME NEW x \in I, NEW y \in I, x # y PROVE <<x, y>> \in Q \/ <<y, x>> \in Q
    <3>1. x < y \/ y < x
      <4>1. x \in Nat /\ y \in Nat
        BY <1>2
      <4> QED BY ONLY <2>3, <4>1
    <3>2. f[x] = f[y] \/ <<f[x], f[y]>> \in R \/ <<f[y], f[x]>> \in R
      BY <1>0, <1>2
    <3> QED BY <1>1, <3>1, <3>2
  <2> QED BY <2>1, <2>2, <2>3 DEF IsOrder
<1>4. IsFiniteSet(I) /\ Cardinality(I) = n
  BY FS_Interval DEF I
<1>5. PICK p \in [1 .. n -> I] : Rises(p, n, Q)
  BY <1>3, <1>4, LineUp
<1>6. p \in M!Orders(n)
  <2>1. ASSUME NEW i \in 1 .. n, NEW j \in 1 .. n, p[i] = p[j], i < j PROVE FALSE
    <3>1. <<p[i], p[j]>> \in Q
      BY <1>5, <2>1 DEF Rises
    <3>2. p[j] \in I
      OBVIOUS
    <3> QED BY <1>3, <2>1, <3>1, <3>2 DEF IsOrder
  <2>2. ASSUME NEW i \in 1 .. n, NEW j \in 1 .. n, p[i] = p[j] PROVE i = j
    <3>1. ~(i < j) /\ ~(j < i)
      BY <2>1, <2>2
    <3> QED BY <3>1
  <2> QED BY <2>2 DEF M!Orders, M!IsInjective, I
<1>7. ASSUME NEW i \in 1 .. n, NEW j \in 1 .. n, i < j PROVE <<f[p[j]], f[p[i]]>> \notin R
  <2>1. <<p[i], p[j]>> \in Q /\ p[i] \in I /\ p[j] \in I
    BY <1>5, <1>7 DEF Rises
  <2>2. <<f[p[i]], f[p[j]]>> \in R \/ f[p[i]] = f[p[j]]
    BY <1>1, <2>1
  <2>3. f[p[i]] \in F /\ f[p[j]] \in F
    BY <1>2, <2>1
  <2> QED BY <1>0, <2>2, <2>3
<1> QED BY <1>6, <1>7

\* What a digest is taken of: the capabilities of a request, rearranged, in order.
LEMMA NormalizedIs ==
    ASSUME M!MessagesAssumption, NEW caps \in CapabilityLists
    PROVE  /\ M!Normalized(caps) \in [1 .. Len(caps) -> Caps]
           /\ NoFall(M!Normalized(caps), Len(caps), CapOrder)
           /\ SameCounts(M!Normalized(caps), M!Flat(caps))
<1> DEFINE flat == M!Flat(caps)
           n == Len(caps)
           choices == {[i \in DOMAIN flat |-> flat[p[i]]] : p \in M!Orders(Len(flat))}
           sorted(s) == \A i, j \in DOMAIN s : i < j => ~M!Precedes(s[j], s[i])
<1>1. n \in Nat /\ flat \in [1 .. n -> Caps] /\ DOMAIN flat = 1 .. n
  BY FlatSpells
<1>2. M!Normalized(caps) = CHOOSE s \in choices : sorted(s)
  BY DEF M!Normalized
<1> HIDE DEF flat, n
<1>3. Len(flat) = n
  BY <1>1
<1>4. ASSUME NEW p \in M!Orders(n), NEW s, s = [i \in 1 .. n |-> flat[p[i]]]
      PROVE  /\ s \in [1 .. n -> Caps] /\ SameCounts(s, flat)
             /\ sorted(s) <=> \A i, j \in 1 .. n : i < j => <<flat[p[j]], flat[p[i]]>> \notin CapOrder
  <2>1. p \in [1 .. n -> 1 .. n]
    BY DEF M!Orders
  <2>2. \A i \in 1 .. n : flat[p[i]] \in Caps
    BY <1>1, <2>1
  <2>3. DOMAIN s = 1 .. n /\ \A i \in 1 .. n : s[i] = flat[p[i]]
    BY <1>4
  <2>4. s \in [1 .. n -> Caps]
    BY <1>4, <2>2
  <2>5. SameCounts(s, flat)
    BY <1>1, <2>3, Rearranged
  <2>6. \A i, j \in 1 .. n : <<flat[p[j]], flat[p[i]]>> \in CapOrder <=> M!Precedes(s[j], s[i])
    BY <2>2, <2>3 DEF CapOrder
  <2> QED BY <2>3, <2>4, <2>5, <2>6
<1>5. choices = {[i \in 1 .. n |-> flat[p[i]]] : p \in M!Orders(n)}
  BY <1>1, <1>3
<1> HIDE DEF choices, sorted
<1>6. PICK p \in M!Orders(n) :
          \A i, j \in 1 .. n : i < j => <<flat[p[j]], flat[p[i]]>> \notin CapOrder
  BY <1>1, CapsInOrder, PlacesInOrder
<1>7. \E s \in choices : sorted(s)
  BY <1>4, <1>5, <1>6
<1>8. PICK s \in choices : s = M!Normalized(caps) /\ sorted(s)
  BY <1>2, <1>7
<1>9. PICK q \in M!Orders(n) : s = [i \in 1 .. n |-> flat[q[i]]]
  BY <1>5
<1>10. s \in [1 .. n -> Caps] /\ SameCounts(s, flat)
  BY <1>4, <1>9
<1>11. NoFall(s, n, CapOrder)
  <2>1. DOMAIN s = 1 .. n
    BY <1>9
  <2>2. \A i \in 1 .. n : s[i] \in Caps
    BY <1>10
  <2> QED BY <1>8, <2>1, <2>2 DEF sorted, NoFall, CapOrder
<1> QED BY <1>8, <1>10, <1>11 DEF flat, n

\* Digests tell two lists of capabilities from each other just as the bags of what they ask.
LEMMA DigestTells ==
    ASSUME M!MessagesAssumption, NEW a \in CapabilityLists, NEW b \in CapabilityLists
    PROVE  M!Normalized(a) = M!Normalized(b) <=> M!ToBag(Asked(a)) = M!ToBag(Asked(b))
<1> DEFINE f == M!Normalized(a)
           g == M!Normalized(b)
           n == Len(a)
           m == Len(b)
<1>1. /\ f \in [1 .. n -> Caps] /\ NoFall(f, n, CapOrder) /\ SameCounts(f, M!Flat(a))
      /\ g \in [1 .. m -> Caps] /\ NoFall(g, m, CapOrder) /\ SameCounts(g, M!Flat(b))
  BY NormalizedIs
<1>2. /\ n \in Nat /\ Spells(M!Flat(a), Asked(a)) /\ DOMAIN Asked(a) = 1 .. n
      /\ m \in Nat /\ Spells(M!Flat(b), Asked(b)) /\ DOMAIN Asked(b) = 1 .. m
  BY FlatSpells
<1> HIDE DEF f, g, n, m
<1>3. SameCounts(M!Flat(a), M!Flat(b)) <=> SameCounts(Asked(a), Asked(b))
  BY <1>2, SpellingCounts
<1>4. SameCounts(f, g) <=> SameCounts(M!Flat(a), M!Flat(b))
  BY <1>1 DEF SameCounts
<1>5. M!ToBag(Asked(a)) = M!ToBag(Asked(b)) <=> SameCounts(Asked(a), Asked(b))
  BY <1>2, BagsTell
<1>6. SameCounts(f, g) => f = g
  BY <1>1, <1>2, CapsInOrder, SortedSame
<1>7. f = g => SameCounts(f, g)
  BY DEF SameCounts
<1> QED BY <1>3, <1>4, <1>5, <1>6, <1>7 DEF f, g

-----------------------------------------------------------------------------
(* A request, from its sealing to its arrival.                             *)

Envelopes(e) ==
    /\ e = M!Envelope(e.content, e.capabilities, e.expires_at)
    /\ e.capabilities \in CapabilityLists

\* Requests are envelopes, and one is accepted whose digest is that of the one sealed.
RequestInv ==
    request # None =>
        /\ Envelopes(request.sealed) /\ request.digest = M!Digest(request.sealed)
        /\ DOMAIN request = {"sealed", "digest", "carried", "accepted"}
        /\ request.carried # None =>
               /\ Envelopes(request.carried)
               /\ request.accepted <=> M!Digest(request.carried) = request.digest

LEMMA SealStep ==
    ASSUME NEW content, NEW caps \in CapabilityLists, NEW ms, M!Seal(M!Envelope(content, caps, ms))
    PROVE  RequestInv'
<1> DEFINE e == M!Envelope(content, caps, ms)
           d == M!Digest(e)
           r == [sealed |-> e, digest |-> d, carried |-> None, accepted |-> FALSE]
<1>1. request' = r
  BY DEF M!Seal
<1>2. Envelopes(e)
  BY DEF Envelopes, M!Envelope
<1> HIDE DEF e
<1>3. /\ r.sealed = e /\ r.digest = M!Digest(e) /\ r.carried = None
      /\ DOMAIN r = {"sealed", "digest", "carried", "accepted"}
  <2> HIDE DEF d
  <2>1. /\ r.sealed = e /\ r.digest = d /\ r.carried = None
        /\ DOMAIN r = {"sealed", "digest", "carried", "accepted"}
    OBVIOUS
  <2> QED BY <2>1 DEF d
<1> HIDE DEF r
<1> QED BY <1>1, <1>2, <1>3 DEF RequestInv

LEMMA CarryStep ==
    ASSUME RequestInv, request # None, NEW content, NEW caps \in CapabilityLists, NEW stamp,
           M!Carry(M!Envelope(content, caps, 0), stamp)
    PROVE  RequestInv'
<1> DEFINE e == M!Envelope(content, caps, 0)
           r == M!RequestFromProto([M!RequestToProto(e) EXCEPT !.expires_at = stamp])
           ok == M!Digest(r) = request.digest
<1>1. request' = [request EXCEPT !.carried = r, !.accepted = ok]
  BY DEF M!Carry
<1>2. r = M!Envelope(content, caps, M!ToMs(stamp))
  <2> DEFINE q == M!RequestToProto(e)
             p == [q EXCEPT !.expires_at = stamp]
             ms == M!ToMs(p.expires_at)
  <2>1. q = M!Envelope(content, caps, M!ToStamp(0))
    <3> DEFINE zero == M!ToStamp(0)
    <3>1. q = [e EXCEPT !.expires_at = M!ToStamp(e.expires_at)] /\ e.expires_at = 0
      BY DEF M!RequestToProto, M!Envelope
    <3> HIDE DEF zero, q
    <3>2. q = [e EXCEPT !.expires_at = zero]
      BY <3>1 DEF zero
    <3>3. [e EXCEPT !.expires_at = zero] = M!Envelope(content, caps, zero)
      BY DEF M!Envelope
    <3> QED BY <3>2, <3>3 DEF zero
  <2> HIDE DEF q
  <2>2. p = M!Envelope(content, caps, stamp)
    BY <2>1 DEF M!Envelope
  <2>3. r = [p EXCEPT !.expires_at = M!ToMs(p.expires_at)]
    BY DEF M!RequestFromProto, q
  <2>4. p.expires_at = stamp
    BY <2>2 DEF M!Envelope
  <2> HIDE DEF p, ms
  <2>5. r = [p EXCEPT !.expires_at = ms]
    BY <2>3 DEF ms
  <2>6. r = M!Envelope(content, caps, ms)
    BY <2>2, <2>5 DEF M!Envelope
  <2> QED BY <2>4, <2>6 DEF ms
<1>3. Envelopes(r)
  BY <1>2 DEF Envelopes, M!Envelope
<1> HIDE DEF r
<1>4. /\ request'.sealed = request.sealed /\ request'.digest = request.digest
      /\ request'.carried = r /\ request'.accepted = ok
      /\ DOMAIN request' = {"sealed", "digest", "carried", "accepted"}
  <2> HIDE DEF ok
  <2> QED BY <1>1 DEF RequestInv
<1> QED BY <1>3, <1>4 DEF RequestInv

LEMMA RequestSeals ==
    ASSUME M!MessagesAssumption, RequestInv
    PROVE  M!DigestIsMeaning
<1> SUFFICES ASSUME request # None, request.carried # None PROVE M!DigestIsMeaning
  BY DEF M!DigestIsMeaning
<1> DEFINE c == request.carried
           s == request.sealed
<1>1. /\ Envelopes(s) /\ Envelopes(c)
      /\ request.accepted <=> M!Digest(c) = M!Digest(s)
  BY DEF RequestInv
<1> HIDE DEF c, s
<1>2. ASSUME NEW e, Envelopes(e)
      PROVE  /\ M!Digest(e) = M!Envelope(e.content, M!Normalized(e.capabilities), e.expires_at)
             /\ e.capabilities \in CapabilityLists
  <2> DEFINE h == e.content
             t == e.capabilities
             ms == e.expires_at
             N == M!Normalized(t)
  <2>1. e = M!Envelope(h, t, ms) /\ t \in CapabilityLists
    BY <1>2 DEF Envelopes
  <2>2. M!Digest(e) = [e EXCEPT !.capabilities = N]
    BY <2>1 DEF M!Digest, M!Envelope
  <2> HIDE DEF h, t, ms, N
  <2>3. M!Digest(e) = M!Envelope(h, N, ms)
    BY <2>1, <2>2 DEF M!Envelope
  <2> QED BY <2>1, <2>3 DEF h, t, ms, N
<1>3. M!Digest(c) = M!Digest(s)
      <=> /\ c.content = s.content /\ c.expires_at = s.expires_at
          /\ M!Normalized(c.capabilities) = M!Normalized(s.capabilities)
  <2>1. ASSUME NEW h, NEW t, NEW ms, NEW h2, NEW t2, NEW ms2
        PROVE  M!Envelope(h, t, ms) = M!Envelope(h2, t2, ms2) <=> h = h2 /\ t = t2 /\ ms = ms2
    BY DEF M!Envelope
  <2> QED BY <1>1, <1>2, <2>1
<1>4. M!Normalized(c.capabilities) = M!Normalized(s.capabilities)
      <=> M!ToBag(Asked(c.capabilities)) = M!ToBag(Asked(s.capabilities))
  BY <1>1, <1>2, DigestTells
<1> QED BY <1>1, <1>3, <1>4 DEF M!DigestIsMeaning, Asked, c, s

-----------------------------------------------------------------------------
(* All of them.                                                            *)

SealInv == GrantInv /\ HookInv /\ RequestInv

LEMMA SealInit ==
    M!Init => SealInv
BY DEF M!Init, SealInv, GrantInv, HookInv, RequestInv

LEMMA SealsStep ==
    ASSUME M!MessagesAssumption, SealInv, M!Next
    PROVE  SealInv'
<1> USE DEF SealInv
<1>1. ASSUME grant' = grant PROVE GrantInv'
  BY <1>1 DEF GrantInv
<1>2. ASSUME request' = request PROVE RequestInv'
  BY <1>2 DEF RequestInv
<1>3. ASSUME hook' = hook PROVE HookInv'
  BY <1>3 DEF HookInv
<1>4. ASSUME NEW v \in Spellings, NEW body \in Bodies, M!SignHook(v, body) PROVE HookInv'
  BY <1>4, SignHookStep
<1>5. ASSUME hook # None, NEW a \in M!Items, NEW b \in M!Items, NEW c \in M!Items,
             NEW body \in Bodies, NEW clock \in Clocks, M!TakeHook(<<a, b, c>>, body, clock)
      PROVE  HookInv'
  BY <1>5, TakeHookStep
<1>6. ASSUME NEW c \in M!Challenges, NEW who \in Texts, M!Sign(c, who) PROVE GrantInv'
  BY <1>6, SignStep
<1>7. ASSUME grant # None, NEW c \in M!Challenges, NEW who \in Texts, M!Present(c, who)
      PROVE  GrantInv'
  BY <1>7, PresentStep
<1>8. ASSUME NEW content, NEW caps \in CapabilityLists, NEW ms, M!Seal(M!Envelope(content, caps, ms))
      PROVE  RequestInv'
  BY <1>8, SealStep
<1>9. ASSUME request # None, NEW content, NEW caps \in CapabilityLists, NEW stamp,
             M!Carry(M!Envelope(content, caps, 0), stamp)
      PROVE  RequestInv'
  BY <1>9, CarryStep
<1>10. CASE /\ M!Nothing /\ UNCHANGED <<grant, request>>
            /\ \E v \in Spellings, body \in Bodies : M!SignHook(v, body)
  BY <1>1, <1>2, <1>4, <1>10
<1>11. CASE /\ hook # None /\ hook.header = << >> /\ UNCHANGED <<grant, request>>
            /\ \E a, b, c \in M!Items, body \in Bodies, clock \in Clocks :
                   M!TakeHook(<<a, b, c>>, body, clock)
  BY <1>1, <1>2, <1>5, <1>11
<1>12. CASE /\ M!Nothing /\ UNCHANGED <<request, hook>>
            /\ \E c \in M!Challenges, who \in Texts : M!Sign(c, who)
  BY <1>2, <1>3, <1>6, <1>12
<1>13. CASE /\ grant # None /\ grant.presented = None /\ UNCHANGED <<request, hook>>
            /\ \E c \in M!Challenges, who \in Texts : M!Present(c, who)
  BY <1>2, <1>3, <1>7, <1>13
<1>14. CASE /\ M!Nothing /\ UNCHANGED <<grant, hook>>
            /\ \E content \in Contents, caps \in CapabilityLists, ms \in Times :
                   M!Seal(M!Envelope(content, caps, ms))
  BY <1>1, <1>3, <1>8, <1>14
<1>15. CASE /\ request # None /\ request.carried = None /\ UNCHANGED <<grant, hook>>
            /\ \E content \in Contents, caps \in CapabilityLists,
                  stamp \in Stamps \cup {M!ToStamp(ms) : ms \in Times} :
                   M!Carry(M!Envelope(content, caps, 0), stamp)
  BY <1>1, <1>3, <1>9, <1>15
<1> QED BY <1>10, <1>11, <1>12, <1>13, <1>14, <1>15 DEF M!Next

\* A signature fits the one challenge and approver that it was made for, and what was signed
\* arrives; a digest is that of the requests that ask for the same, and of no other; a webhook
\* that is taken is one that Stripe signed, in its time: for texts, times, capabilities and
\* headers of any kind (approval_message, ActionEnvelope::digest, verify_stripe_signature).
THEOREM SealsStayExact == ServiceSpec => []SealsAreExact
<1>1. ServiceInit => SealInv
  BY SealInit DEF ServiceInit
<1>2. SealInv /\ [ServiceNext]_Service => SealInv'
  <2> SUFFICES ASSUME SealInv, [ServiceNext]_Service PROVE SealInv'
    OBVIOUS
  <2>1. CASE UNCHANGED messagesOnWire
    BY <2>1 DEF messagesOnWire, SealInv, GrantInv, HookInv, RequestInv
  <2>2. CASE M!Next
    BY <2>2, MessagesFit, SealsStep
  <2> QED BY <2>1, <2>2 DEF ServiceNext, Service
<1>3. SealInv => SealsAreExact
  BY MessagesFit, GrantSeals, HookSeals, RequestSeals DEF SealInv, SealsAreExact, M!SealsAreExact
<1> QED BY <1>1, <1>2, <1>3, PTL DEF ServiceSpec
=============================================================================
