--------------------------- MODULE MCBillingStore ---------------------------
(* Small instances of BillingStore for TLC. *)
EXTENDS BillingStore, TLC

CONSTANTS c1, s1, s2, o1, o2

Checkout(c, s, o) ==
    [kind |-> "checkout", customer |-> c, subscription |-> s, organization |-> o, active |-> FALSE]
Update(c, s, active) ==
    [kind |-> "subscription", customer |-> c, subscription |-> s, organization |-> o1,
     active |-> active]

\* An update that comes before the checkout it belongs to, a subscription that begins and
\* ends, and a checkout for another organization by a customer that is taken.
MCContent ==
    (1 :> Update(c1, s1, TRUE)) @@ (2 :> Checkout(c1, s1, o1)) @@ (3 :> Update(c1, s1, TRUE))
        @@ (4 :> Update(c1, s1, FALSE)) @@ (5 :> Checkout(c1, s2, o2))
=============================================================================
