----------------------------- MODULE RemoteRouter -----------------------------
(***************************************************************************)
(* The gateway's RemoteDispatchRouter, which has a hub for the private     *)
(* link and may have one for the relay.  A call asks the private hub for   *)
(* the devices that are registered, then the relay's, and goes to the      *)
(* first that names its device; the hub looks again by itself.  In between *)
(* sessions come and go, and a hub learns late that one has gone.  A hub's *)
(* own waits are LinkHub and RelayLink; here they are one step each.       *)
(***************************************************************************)
EXTENDS Naturals

CONSTANTS
    Calls,          \* for one device and one request id: a call and its retries
    Hubs,           \* bound: the sets of hubs that a router may have
    MaxSessions,    \* bound
    Nobody          \* no call

Links == {"private", "relay"}

ASSUME RouterAssumption ==
    Nobody \notin Calls /\ Hubs \subseteq SUBSET Links /\ MaxSessions \in Nat

VARIABLES
    hubs,           \* the hubs of this router
    held,           \* [link -> the session that the device holds, or 0]
    registered,     \* [link -> the session in its hub, or 0]
    opened,         \* counter of the bound
    routed,         \* [call -> [at, result, always, ever]]: where it stands and what it was told;
                    \* history: the links that were registered all the while, and at some time
    slots,          \* [link -> the call that waits in the hub's map, or Nobody]
    wire,           \* [link -> the calls whose frames are on the way in the held session]
    runs            \* history: <<call, link>> that the device was given
router == <<hubs, held, registered, opened, routed, slots, wire, runs>>

On == {l \in hubs : registered[l] # 0}

RouterInit ==
    /\ hubs \in Hubs
    /\ held = [l \in Links |-> 0] /\ registered = [l \in Links |-> 0] /\ opened = 0
    /\ routed = [c \in Calls |-> [at |-> "idle", result |-> "none", always |-> Links, ever |-> {}]]
    /\ slots = [l \in Links |-> Nobody] /\ wire = [l \in Links |-> {}]
    /\ runs = {}

-----------------------------------------------------------------------------
(* Sessions.                                                               *)

Watch(links) == routed' = [c \in Calls |->
    IF routed[c].at \in {"idle", "done"} THEN routed[c]
    ELSE [routed[c] EXCEPT !.always = @ \cap links, !.ever = @ \cup links]]

Open(l) ==
    /\ l \in hubs /\ held[l] = 0 /\ opened < MaxSessions /\ opened' = opened + 1
    /\ held' = [held EXCEPT ![l] = opened'] /\ registered' = [registered EXCEPT ![l] = opened']
    /\ Watch(On \cup {l})
    /\ UNCHANGED <<hubs, slots, wire, runs>>

\* What is on the way is lost; the hub still has the session.
Lose(l) ==
    /\ held[l] # 0 /\ held' = [held EXCEPT ![l] = 0] /\ wire' = [wire EXCEPT ![l] = {}]
    /\ UNCHANGED <<hubs, registered, opened, routed, slots, runs>>

\* unregister, unless a newer session has taken its place.
Notice(l) ==
    /\ registered[l] \notin {0, held[l]} /\ registered' = [registered EXCEPT ![l] = 0]
    /\ Watch(On \ {l})
    /\ UNCHANGED <<hubs, held, opened, slots, wire, runs>>

-----------------------------------------------------------------------------
(* dispatch_action, dispatch_approved_action.                              *)

MoveTo(c, step) == routed' = [routed EXCEPT ![c].at = step]
Return(c, r) == routed' = [routed EXCEPT ![c].at = "done", ![c].result = r]

Arrive(c) ==
    /\ routed[c].at = "idle"
    /\ routed' = [routed EXCEPT ![c] = [at |-> "look_private", result |-> "none", always |-> On, ever |-> On]]
    /\ UNCHANGED <<hubs, held, registered, opened, slots, wire, runs>>

LookPrivate(c) ==
    /\ routed[c].at = "look_private"
    /\ MoveTo(c, IF "private" \in On THEN "private" ELSE "look_relay")
    /\ UNCHANGED <<hubs, held, registered, opened, slots, wire, runs>>

LookRelay(c) ==
    /\ routed[c].at = "look_relay"
    /\ IF "relay" \in On THEN MoveTo(c, "relay") ELSE Return(c, "offline")
    /\ UNCHANGED <<hubs, held, registered, opened, slots, wire, runs>>

\* The hub's own look, its slot and its frame.
Dispatch(c, l) ==
    /\ routed[c].at = l
    /\ IF registered[l] = 0 THEN Return(c, "offline") /\ UNCHANGED <<slots, wire>>
       ELSE IF slots[l] # Nobody THEN Return(c, "duplicate") /\ UNCHANGED <<slots, wire>>
       ELSE /\ MoveTo(c, "wait")
            /\ slots' = [slots EXCEPT ![l] = c]
            /\ wire' = IF registered[l] = held[l] THEN [wire EXCEPT ![l] = @ \cup {c}] ELSE wire
    /\ UNCHANGED <<hubs, held, registered, opened, runs>>

\* The device runs the frame; its result goes to the slot that is taken by then.
Run(c, l) ==
    /\ c \in wire[l] /\ wire' = [wire EXCEPT ![l] = @ \ {c}]
    /\ runs' = runs \cup {<<c, l>>}
    /\ slots' = [slots EXCEPT ![l] = Nobody]
    /\ IF slots[l] = Nobody THEN UNCHANGED routed ELSE Return(slots[l], "answered")
    /\ UNCHANGED <<hubs, held, registered, opened>>

\* Mutant of HubFails: the other link is tried.
FailOver(c, l) ==
    /\ slots[l] = c /\ MoveTo(c, IF l = "private" THEN "look_relay" ELSE "done")
    /\ slots' = [slots EXCEPT ![l] = Nobody]
    /\ UNCHANGED <<hubs, held, registered, opened, wire, runs>>

\* The hub's timeout, or its session has gone: there is no second attempt.
HubFails(c, l) ==
    /\ slots[l] = c /\ Return(c, "failed")
    /\ slots' = [slots EXCEPT ![l] = Nobody]
    /\ UNCHANGED <<hubs, held, registered, opened, wire, runs>>

RouterNext ==
    \/ \E l \in Links : Open(l) \/ Lose(l) \/ Notice(l)
    \/ \E c \in Calls : Arrive(c) \/ LookPrivate(c) \/ LookRelay(c)
    \/ \E c \in Calls, l \in Links : Dispatch(c, l) \/ Run(c, l) \/ HubFails(c, l)

RouterSpec == RouterInit /\ [][RouterNext]_router

-----------------------------------------------------------------------------
(* Properties.                                                             *)

\* A call leaves over one link at most, and one that is told that the device is offline
\* or the request is there already has not left at all: an action is not run a second
\* time over the other link because the first was slow (dispatch_approved_action).
LeavesOnce ==
    \A c \in Calls :
        LET over == {l \in Links : c \in wire[l] \/ <<c, l>> \in runs \/ slots[l] = c} IN
        /\ \A l, m \in over : l = m
        /\ routed[c].result \in {"offline", "duplicate"} => over = {}

\* A device that is registered with the private link all the while is never said to be
\* offline; nor is one that is on the relay, unless the private link had it for a while
\* and the call was on its way there.
OfflineIsOff ==
    \A c \in Calls : routed[c].result = "offline" =>
        /\ "private" \notin routed[c].always
        /\ "relay" \in routed[c].always => "private" \in routed[c].ever

RoutesOnce == LeavesOnce /\ OfflineIsOff
===============================================================================
