----------------------------- MODULE ReplayWindow -----------------------------
(***************************************************************************)
(* vor-wire's ReplayGuard, which the relay and the private link's server   *)
(* share among all their devices and each device keeps for one connection: *)
(* a frame is taken when it has not expired, neither its message id nor    *)
(* its nonce is in the window, and the window has room.  Frames arrive in  *)
(* any order and any number of times; the system's clock does not step     *)
(* back.                                                                   *)
(***************************************************************************)
EXTENDS Integers, FiniteSets

CONSTANTS
    Devices,
    MessageIds, Nonces,
    MaxEntries,     \* replay_capacity
    MaxTime,        \* bound: the clock
    Expiries        \* expires_at of the frames

\* Times are numbers.
ASSUME WindowAssumption == MaxTime \in Nat /\ Expiries \subseteq Nat

Frames == [device : Devices, id : MessageIds, nonce : Nonces, expiry : Expiries]

VARIABLES
    now,
    messages,       \* message_ids, as {[device, key, expiry]}
    nonces,
    accepted,       \* history: the frames that were taken
    replays         \* history: those that were taken again
window == <<messages, nonces, accepted, replays>>
windowVars == <<now, window>>

Entry(f, key) == [device |-> f.device, key |-> key, expiry |-> f.expiry]
Has(entries, f, key) == \E e \in entries : e.device = f.device /\ e.key = key

WindowInit ==
    /\ now = 0
    /\ messages = {} /\ nonces = {}
    /\ accepted = {} /\ replays = {}

\* Mutant of Prune: entries that expire in the next tick are forgotten too.
PruneEarly(entries) == {e \in entries : e.expiry > now + 1}

\* prune
Prune(entries) == {e \in entries : e.expiry > now}

\* accept: a frame that has not expired cleans the window before it is looked up.
Accept(f) ==
    LET ms == Prune(messages)
        ns == Prune(nonces)
        fresh == ~Has(ms, f, f.id) /\ ~Has(ns, f, f.nonce)
        room == Cardinality(ms) < MaxEntries /\ Cardinality(ns) < MaxEntries IN
    /\ f.expiry > now
    /\ IF fresh /\ room
       THEN /\ messages' = ms \cup {Entry(f, f.id)}
            /\ nonces' = ns \cup {Entry(f, f.nonce)}
            /\ accepted' = accepted \cup {f}
            /\ replays' = IF f \in accepted THEN replays \cup {f} ELSE replays
       ELSE messages' = ms /\ nonces' = ns /\ UNCHANGED <<accepted, replays>>
    /\ UNCHANGED now

Tick == now < MaxTime /\ now' = now + 1 /\ UNCHANGED window

\* The clock stays at the bound of the instance.
WindowRest == now = MaxTime /\ UNCHANGED windowVars

WindowNext == (\E f \in Frames : Accept(f)) \/ Tick \/ WindowRest

WindowSpec == WindowInit /\ [][WindowNext]_windowVars

-----------------------------------------------------------------------------
(* Properties.                                                             *)

WindowTypeOK ==
    /\ now \in Nat
    /\ messages \subseteq [device : Devices, key : MessageIds, expiry : Expiries]
    /\ nonces \subseteq [device : Devices, key : Nonces, expiry : Expiries]
    /\ accepted \subseteq Frames /\ replays \subseteq Frames

\* No frame is taken twice, although what has expired is forgotten (accept, prune).
NothingTakenTwice == replays = {}

\* The window holds an id and a nonce for every frame that was taken and is alive, and
\* for nothing else that is alive: a fresh frame is turned away for want of room only
\* because of frames that could still be replayed.
WindowIsExact ==
    /\ Prune(messages) = {Entry(f, f.id) : f \in {g \in accepted : g.expiry > now}}
    /\ Prune(nonces) = {Entry(f, f.nonce) : f \in {g \in accepted : g.expiry > now}}

NoReplay == NothingTakenTwice /\ WindowIsExact
=============================================================================
