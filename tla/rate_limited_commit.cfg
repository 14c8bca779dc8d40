SPECIFICATION Spec
CONSTANTS
    d1 = d1 d2 = d2 rw = rw rx = rx re = re a1 = a1 k1 = k1 k2 = k2
    p1 = p1 p2 = p2 id1 = id1 o1 = o1
    Unknown = Unknown NoOrg = NoOrg
    Approver = {a1}
    Org <- MCOrg PolicyId <- MCPolicyId Rule <- MCRule Size <- MCSize Expiry <- MCExpiry
    Dispatcher = {d1}
    Request = {rw, re}
    Legacy = {}
    Key = {k1}
    Enrolment <- OneKey
    TenantScoped = FALSE
    Policy = {p1}
    Write = {rw, re}
    SelfRun = {rw}
    Transform <- EditBecomesWrite
    MaxFiles = 1 MaxBytes = 3 Window = 1
    MaxTime = 2
    MaxCharge = 1
PROPERTIES ChallengeCanBeCommitted
