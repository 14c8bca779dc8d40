SPECIFICATION Spec
CONSTANTS
    p1 = p1 p2 = p2 e1 = e1
    NoOne = NoOne NoLock = NoLock Torn = Torn Garbled = Garbled
    Process = {p1, p2}
    Event = {e1}
    Attempts = 2
    AbandonedAge = 2
    MaxAge = 2
    MaxLines = 2
INVARIANTS OnlyTheftHidesDivergence CommittedIsMirrored
PROPERTIES LogSpec AppendReturns
