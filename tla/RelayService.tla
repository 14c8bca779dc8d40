----------------------------- MODULE RelayService -----------------------------
(***************************************************************************)
(* What lies between a tool of the gateway and the device: the router,     *)
(* the relay's calls and sockets, the replay window that all devices       *)
(* share, of which RelayLink keeps only the answer, and the messages that  *)
(* are signed and sealed.                                                  *)
(***************************************************************************)
EXTENDS RelayLink, ReplayWindow, RemoteRouter

CONSTANTS
    Parts,      \* the sets of parts that run
    Texts, Digests, MessageNonces, Times, Stamps, Scale, NanosPerMs, MaxIdLen, MaxField,
    Contents, CapabilityLists, Bodies, Spellings, Clocks, MaxSecond, Tolerance, Junk

VARIABLES
    part,
    grant, request, hook

messagesOnWire == <<grant, request, hook>>
Service == <<part, vars, windowVars, router, messagesOnWire>>

M == INSTANCE SignedMessages WITH Nonces <- MessageNonces
ASSUME MessagesFit == M!MessagesAssumption

ServiceInit ==
    /\ part \in Parts /\ Init /\ WindowInit /\ RouterInit /\ M!Init
    /\ part # "router" => hubs = Links

ServiceNext ==
    /\ UNCHANGED part
    /\ \/ part = "link" /\ Next /\ UNCHANGED <<windowVars, router, messagesOnWire>>
       \/ part = "window" /\ WindowNext /\ UNCHANGED <<vars, router, messagesOnWire>>
       \/ part = "router" /\ RouterNext /\ UNCHANGED <<vars, windowVars, messagesOnWire>>
       \/ part = "messages" /\ M!Next /\ UNCHANGED <<vars, windowVars, router>>
       \/ part \in {"router", "messages"} /\ UNCHANGED Service     \* they end where they like

ServiceSpec == ServiceInit /\ [][ServiceNext]_Service /\ Fairness

\* The device and the callers get what is theirs, in order (see RelayLink).
RelayIsInOrder == RelayAnswerFits /\ AcksAreInOrder

\* What the messages promise (see their module).
SealsAreExact == M!SealsAreExact
=============================================================================
