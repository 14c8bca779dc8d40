---------------------------- MODULE SignedMessages ----------------------------
(***************************************************************************)
(* What is signed and what is sealed, as bytes and on the wire: the        *)
(* message under an approval's signature (vor-approval), the digest of a   *)
(* request (vor-protocol), their forms in protobuf (vor-wire), and what    *)
(* Stripe signs of a webhook (the gateway's billing.rs).                   *)
(* ApprovedDispatch has an approval as its challenge and the key that made *)
(* it, and a request as its identity; this is why it may.  SHA-256 is free *)
(* of collisions here and a signature fits one message and one key.        *)
(***************************************************************************)
EXTENDS Naturals, SequencesExt

CONSTANTS
    Texts,              \* of request ids, policy ids, capabilities and approver ids: bytes
    Digests, Nonces,    \* of fixed length
    Times,              \* expiry, in milliseconds
    Stamps,             \* [seconds, nanos] that come from the wire
    Scale, NanosPerMs,  \* milliseconds to the second, nanoseconds to the millisecond
    MaxIdLen, MaxField, \* limits of vor-wire and vor-approval
    Contents,           \* everything in an envelope but its capabilities and its expiry
    CapabilityLists,    \* sequences of [name, constraints]
    Bodies,             \* of webhooks, as sequences of digits and Dot
    Spellings,          \* of the numbers in a header, sequences of digits, and Junk
    Clocks, MaxSecond,  \* what the gateway's clock says, and the greatest number it can say
    Tolerance,          \* SIGNATURE_TOLERANCE_SECONDS
    Junk, None

VARIABLES
    grant,      \* [signed, signature, presented, verified]
    request,    \* [sealed, digest, carried, accepted]
    hook        \* [signed, header, body, clock, taken]
vars == <<grant, request, hook>>

-----------------------------------------------------------------------------
(* approval_message.                                                       *)

Challenges == [request_id : Texts, envelope_digest : Digests, policy_id : Texts,
               capability : Texts \cup {None}, expires_at : Times, nonce : Nonces]

ValidText(text) == text # << >> /\ Len(text) <= MaxField /\ 0 \notin Range(text)

\* Mutant of PushText: without its length.
PushTextBare(text) == text

PushText(text) == <<Len(text)>> \o text

Message(c, approver) ==
    PushText(c.request_id) \o c.envelope_digest \o PushText(c.policy_id)
    \o (IF c.capability = None THEN <<0>> ELSE <<1>> \o PushText(c.capability))
    \o <<c.expires_at>> \o c.nonce \o PushText(approver)

\* sign_approval
Signable(c, approver) ==
    \A text \in {c.request_id, c.policy_id, c.capability, approver} \ {None} : ValidText(text)

-----------------------------------------------------------------------------
(* timestamp_to_ms, ms_to_timestamp, approval_grant_to_proto and _from.    *)

ToStamp(ms) == [seconds |-> ms \div Scale, nanos |-> (ms % Scale) * NanosPerMs]
ToMs(stamp) == stamp.seconds * Scale + stamp.nanos \div NanosPerMs

GrantToProto(c, approver) ==
    [challenge |-> [c EXCEPT !.capability = IF @ = None THEN << >> ELSE @, !.expires_at = ToStamp(@)],
     approver_id |-> approver]

\* None if the wire does not take it.
GrantFromProto(p) ==
    LET c == p.challenge IN
    IF \/ \E text \in {c.request_id, p.approver_id, c.policy_id} : text = << >>
       \/ Len(c.request_id) > MaxIdLen \/ Len(p.approver_id) > MaxIdLen \/ Len(c.policy_id) > MaxField
    THEN None
    ELSE [challenge |-> [c EXCEPT !.capability = IF @ = << >> THEN None ELSE @, !.expires_at = ToMs(@)],
          approver |-> p.approver_id]

-----------------------------------------------------------------------------
(* ActionEnvelope::digest, action_request_to_proto and _from.              *)

Before(a, b) == \E k \in 1..Len(b) :
    /\ \A j \in 1..k - 1 : j <= Len(a) /\ a[j] = b[j]
    /\ k > Len(a) \/ a[k] < b[k]
Sorted(S) == CHOOSE s \in [1..Cardinality(S) -> S] : \A i, j \in DOMAIN s : i < j => s[i] < s[j]

Precedes(a, b) == a.name < b.name \/ (a.name = b.name /\ Before(a.constraints, b.constraints))
Orders(n) == {p \in [1..n -> 1..n] : IsInjective(p)}

\* Constraints sorted and without repetition, capabilities sorted by name and constraints.
Flat(capabilities) ==
    [i \in DOMAIN capabilities |->
        [name |-> capabilities[i].name, constraints |-> Sorted(Range(capabilities[i].constraints))]]
Normalized(capabilities) ==
    LET flat == Flat(capabilities) IN
    CHOOSE s \in {[i \in DOMAIN flat |-> flat[p[i]]] : p \in Orders(Len(flat))} :
        \A i, j \in DOMAIN s : i < j => ~Precedes(s[j], s[i])

Envelope(content, capabilities, ms) ==
    [content |-> content, capabilities |-> capabilities, expires_at |-> ms]

Digest(e) == [e EXCEPT !.capabilities = Normalized(@)]

RequestToProto(e) == [e EXCEPT !.expires_at = ToStamp(@)]
RequestFromProto(p) == [p EXCEPT !.expires_at = ToMs(@)]

-----------------------------------------------------------------------------
(* verify_stripe_signature.  The header is a sequence of <<key, value>>;   *)
(* digits are binary.                                                      *)

Dot == 2               \* no digit
Base == 2
Number(digits) == FoldLeft(LAMBDA n, d : n * Base + d, 0, digits)
Decimal(n) ==
    LET digit[k \in 0..n] == IF k < Base THEN <<k>> ELSE digit[k \div Base] \o <<k % Base>>
    IN  digit[n]

SignedBytes(n, body) == Decimal(n) \o <<Dot>> \o body

\* The last "t" of the header counts, if it is a number.
TimeIn(header) ==
    LET ts == {i \in DOMAIN header : header[i][1] = "t"} IN
    IF ts = {} THEN None
    ELSE LET value == header[CHOOSE i \in ts : \A j \in ts : j <= i][2] IN
         IF value = Junk THEN None ELSE Number(value)

\* saturating_add, saturating_sub
InTime(n, clock) ==
    /\ n <= (IF clock + Tolerance > MaxSecond THEN MaxSecond ELSE clock + Tolerance)
    /\ (IF clock > n THEN clock - n ELSE 0) <= Tolerance

VerifiesHook(header, body, clock) ==
    /\ TimeIn(header) # None
    /\ InTime(TimeIn(header), clock)
    /\ \E i \in DOMAIN header : header[i] = <<"v1", SignedBytes(TimeIn(header), body)>>

-----------------------------------------------------------------------------
\* What is parsed as a number is one; what cannot be one is Junk (u64).
MessagesAssumption ==
    /\ Texts \subseteq Seq(Nat) /\ Digests \subseteq Seq(Nat) /\ Nonces \subseteq Seq(Nat)
    /\ \A a, b \in Digests : Len(a) = Len(b)
    /\ \A a, b \in Nonces : Len(a) = Len(b)
    /\ None \notin Texts \cup Nat /\ Junk \notin Seq(Nat)
    /\ Times \subseteq Nat /\ Clocks \subseteq Nat /\ {Scale, NanosPerMs} \subseteq Nat \ {0}
    /\ {MaxIdLen, MaxField, MaxSecond, Tolerance} \subseteq Nat
    /\ CapabilityLists \subseteq Seq([name : Nat, constraints : Seq(Nat)])
    /\ Bodies \subseteq Seq(Nat)
    /\ \A v \in Spellings : Number(v) \in 0..MaxSecond

Init == grant = None /\ request = None /\ hook = None

Sign(c, approver) ==
    /\ Signable(c, approver)
    /\ grant' = [signed |-> [challenge |-> c, approver |-> approver],
                 signature |-> Message(c, approver), presented |-> None, verified |-> FALSE]

\* A grant with that signature comes from the wire, be it what was sent or not.
Present(c, approver) ==
    LET p == GrantFromProto(GrantToProto(c, approver)) IN
    grant' = [grant EXCEPT !.presented = p,
        !.verified = /\ p # None
                     /\ Signable(p.challenge, p.approver)
                     /\ Message(p.challenge, p.approver) = grant.signature]

Seal(e) == request' = [sealed |-> e, digest |-> Digest(e), carried |-> None, accepted |-> FALSE]

\* The gateway's request, or one that another program spelled, with that digest.
Carry(e, stamp) ==
    LET r == RequestFromProto([RequestToProto(e) EXCEPT !.expires_at = stamp]) IN
    request' = [request EXCEPT !.carried = r, !.accepted = Digest(r) = request.digest]

\* Stripe signs a body at a time; the signature stands for the bytes under it.
SignHook(spelling, body) ==
    hook' = [signed |-> <<Number(spelling), body>>, header |-> << >>, body |-> << >>,
             clock |-> 0, taken |-> FALSE]

\* Items that a header may have, with the one signature that there is.
Items == {<<"t", v>> : v \in Spellings \cup {Junk}}
         \cup {<<k, SignedBytes(hook.signed[1], hook.signed[2])>> : k \in {"v0", "v1"}}
         \cup {<<"v1", Junk>>}

\* webhook_inner: the signature is judged before the body is read.
TakeHook(header, body, clock) ==
    hook' = [hook EXCEPT !.header = header, !.body = body, !.clock = clock,
                         !.taken = VerifiesHook(header, body, clock)]

Nothing == grant = None /\ request = None /\ hook = None

Next ==
    \/ Nothing /\ UNCHANGED <<grant, request>>
       /\ \E v \in Spellings, body \in Bodies : SignHook(v, body)
    \/ /\ hook # None /\ hook.header = << >> /\ UNCHANGED <<grant, request>>
       /\ \E a, b, c \in Items, body \in Bodies, clock \in Clocks : TakeHook(<<a, b, c>>, body, clock)
    \/ /\ Nothing /\ UNCHANGED <<request, hook>>
       /\ \E c \in Challenges, who \in Texts : Sign(c, who)
    \/ /\ grant # None /\ grant.presented = None /\ UNCHANGED <<request, hook>>
       /\ \E c \in Challenges, who \in Texts : Present(c, who)
    \/ /\ Nothing /\ UNCHANGED <<grant, hook>>
       /\ \E content \in Contents, caps \in CapabilityLists, ms \in Times : Seal(Envelope(content, caps, ms))
    \/ /\ request # None /\ request.carried = None /\ UNCHANGED <<grant, hook>>
       /\ \E content \in Contents, caps \in CapabilityLists, stamp \in Stamps \cup {ToStamp(ms) : ms \in Times} :
              Carry(Envelope(content, caps, 0), stamp)

-----------------------------------------------------------------------------
(* Properties.                                                             *)

\* A signature is good for the challenge and the approver that it was made for and for
\* no other, whichever way the fields run into each other (approval_message).
SignatureBinds ==
    grant # None /\ grant.verified => grant.presented = grant.signed

\* What was signed gets through the wire and is verified, unless an id is longer than
\* the wire allows; a capability that is empty was never signed (approval_grant_from_proto).
SignedArrives ==
    grant # None =>
        LET s == grant.signed IN
        GrantFromProto(GrantToProto(s.challenge, s.approver))
            \in {s} \cup (IF Len(s.challenge.request_id) > MaxIdLen \/ Len(s.approver) > MaxIdLen
                          THEN {None} ELSE {})

\* A digest is that of all requests that ask for the same, and of no other: the same
\* capabilities with the same constraints, in whatever order, as often as they are asked
\* for, up to the same millisecond (ActionEnvelope::normalized).
DigestIsMeaning ==
    request # None /\ request.carried # None =>
        LET asked(e) == ToBag([i \in DOMAIN e.capabilities |->
                            [name |-> e.capabilities[i].name,
                             constraints |-> Range(e.capabilities[i].constraints)]]) IN
        request.accepted <=>
            /\ request.carried.content = request.sealed.content
            /\ request.carried.expires_at = request.sealed.expires_at
            /\ asked(request.carried) = asked(request.sealed)

\* A webhook that is taken is one that Stripe signed, body and time, not longer ago or
\* further ahead than the tolerance, however the header is put together; and what comes
\* as Stripe sends it is taken, beside other signatures (verify_stripe_signature).
HookIsStripes ==
    hook # None /\ hook.header # << >> =>
        LET n == hook.signed[1]
            near == n <= hook.clock + Tolerance /\ hook.clock <= n + Tolerance
            times == {i \in DOMAIN hook.header : hook.header[i][1] = "t"} IN
        /\ hook.taken => hook.body = hook.signed[2] /\ near
        /\ /\ near /\ hook.body = hook.signed[2]
           /\ \A i \in times : hook.header[i][2] # Junk /\ Number(hook.header[i][2]) = n
           /\ times # {} /\ <<"v1", SignedBytes(n, hook.body)>> \in Range(hook.header)
           => hook.taken

SealsAreExact == SignatureBinds /\ SignedArrives /\ DigestIsMeaning /\ HookIsStripes
===============================================================================
