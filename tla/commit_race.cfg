SPECIFICATION Spec
CONSTANTS
    d1 = d1 d2 = d2 rw = rw rx = rx re = re a1 = a1 k1 = k1 k2 = k2
    p1 = p1 p2 = p2 id1 = id1 o1 = o1
    Unknown = Unknown NoOrg = NoOrg
    Approver = {a1}
    Org <- MCOrg PolicyId <- MCPolicyId Rule <- MCRule Size <- MCSize Expiry <- MCExpiry
    Dispatcher = {d1, d2}
    Request = {rx}
    Legacy = {}
    Key = {k1, k2}
    Enrolment <- OneKey
    TenantScoped = FALSE
    Policy = {p1, p2}
    Write = {}
    SelfRun = {}
    Transform <- NoTransform
    MaxFiles = 1 MaxBytes = 1 Window = 1
    MaxTime = 1
    MaxCharge = 1
SYMMETRY Dispatchers
INVARIANTS EffectAtMostOnce RecoveryTellsTheTruth EffectHasTrail
PROPERTIES ClaimIsEntitled OneShotSpec
