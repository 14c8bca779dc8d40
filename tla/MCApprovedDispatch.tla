----------------------- MODULE MCApprovedDispatch -----------------------
(* Small instances of ApprovedDispatch for TLC. *)
EXTENDS ApprovedDispatch, TLC

CONSTANTS d1, d2, rw, rx, re, a1, k1, k2, p1, p2, id1, o1

\* Requests: rw a write the policy may wave through, re an edit recipe that turns
\* into rw, rx a command that needs a signature.
MCOrg == [r \in Request |-> o1]
MCPolicyId == [p \in Policy |-> id1]
MCSize == [r \in Request |-> IF r = re THEN 0 ELSE 2]
MCExpiry == [r \in Request |-> MaxTime]

\* p1 and p2 share an id, as two versions of one policy file do.
MCRule == [p \in Policy |-> [r \in Request |->
    CASE r = rw -> "auto"
      [] r = re -> "approval"
      [] r = rx -> IF p = p1 THEN "deny" ELSE "elevated"]]

NoTransform == [r \in {} |-> r]
EditBecomesWrite == [r \in {re} |-> rw]

\* Dispatchers differ in nothing but what they do.
Dispatchers == Permutations(Dispatcher)

\* k1 may sign for o1, elevation included.
OneKey == {[key |-> k1, level |-> 1, org |-> o1]}
=============================================================================
