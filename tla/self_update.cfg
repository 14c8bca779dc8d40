SPECIFICATION Spec
CONSTANTS
    m1 = m1 m2 = m2 m3 = m3 m4 = m4 a1 = a1 r1 = r1 r2 = r2
    Maintainer = {m1, m2, m3, m4}
    Approval = {a1, r1, r2}
    ApprovalOf <- MCApprovalOf
    ActionOf <- MCActionOf
INVARIANTS TargetIsWhole OneRunPerApproval QuietIsConsistent
PROPERTIES CommittedIsTrue OutcomeIsTold
