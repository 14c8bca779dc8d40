------------------------- MODULE OneShotApproval -------------------------
(***************************************************************************)
(* What the device promises about a signed approval, with no dispatcher,   *)
(* no policy and no clock in sight: a reader of the two durable tables     *)
(* (approval_consumptions, approval_executions) may rely on this and on    *)
(* nothing else.  ApprovedDispatch implements it.                          *)
(***************************************************************************)
EXTENDS Naturals

CONSTANTS
    Request,    \* sealed requests, each a (request_id, envelope_digest) pair
    Legacy      \* requests whose approval was spent before the tables existed

VARIABLES
    consumed,   \* requests whose approval is spent
    recovery,   \* the durable disposition of each request ("none": no row)
    ran         \* how often the approved effect of each request happened

vars == <<consumed, recovery, ran>>

RecoveryState == {"none", "not_executed", "effect_uncertain", "effect_applied",
                  "post_effect_uncertain", "completed"}

Init ==
    /\ consumed = Legacy
    /\ recovery = [r \in Request |-> "none"]
    /\ ran = [r \in Request |-> IF r \in Legacy THEN 1 ELSE 0]

\* The approval is spent and the row that describes its effect is created, at once.
Claim(r) ==
    /\ r \notin consumed
    /\ consumed' = consumed \cup {r}
    /\ recovery' = [recovery EXCEPT ![r] = "not_executed"]
    /\ UNCHANGED ran

\* From here on a reader must assume that the effect may have happened.
Announce(r) ==
    /\ recovery[r] = "not_executed"
    /\ recovery' = [recovery EXCEPT ![r] = "effect_uncertain"]
    /\ UNCHANGED <<consumed, ran>>

Apply(r) ==
    /\ recovery[r] = "effect_uncertain"
    /\ ran[r] = 0
    /\ ran' = [ran EXCEPT ![r] = 1]
    /\ UNCHANGED <<consumed, recovery>>

\* A certainty about the effect is only recorded once the effect has happened.
Record(r) ==
    /\ ran[r] = 1
    /\ recovery[r] = "effect_uncertain"
    /\ recovery' = [recovery EXCEPT ![r] = "effect_applied"]
    /\ UNCHANGED <<consumed, ran>>

Settle(r, s) ==
    /\ recovery[r] = "effect_applied"
    /\ s \in {"post_effect_uncertain", "completed"}
    /\ recovery' = [recovery EXCEPT ![r] = s]
    /\ UNCHANGED <<consumed, ran>>

Next ==
    \E r \in Request :
        \/ Claim(r) \/ Announce(r) \/ Apply(r) \/ Record(r)
        \/ \E s \in RecoveryState : Settle(r, s)

Spec == Init /\ [][Next]_vars
=============================================================================
