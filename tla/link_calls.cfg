SPECIFICATION Spec
CONSTANTS
    i1 = i1 i2 = i2
    NoCall = NoCall NoSession = NoSession Hello = Hello Beat = Beat Ack = Ack Refusal = Refusal
    IdOf <- OwnIds
    Call = {1, 2}
    Id = {i1, i2}
    Session = {1}
    Cap = 1 OutCap = 1 InCap = 1 MaxBeats = 2 MaxExpired = 1
PROPERTIES CallReturns
