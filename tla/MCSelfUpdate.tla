---------------------------- MODULE MCSelfUpdate ----------------------------
(* Small instances of SelfUpdate for TLC. *)
EXTENDS SelfUpdate

CONSTANTS m1, m2, m3, m4, a1, r1, r2

\* m1 and m2 present one approval to apply, m3 and m4 one each to recover.
MCApprovalOf == [m \in Maintainer |->
    CASE m \in {m1, m2} -> a1 [] m = m3 -> r1 [] m = m4 -> r2]
MCActionOf == [a \in Approval |-> IF a = a1 THEN "apply" ELSE "recover"]
=============================================================================
