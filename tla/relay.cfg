SPECIFICATION ServiceSpec
CONSTANTS
    c1 = c1 c2 = c2 i1 = i1 s1 = s1 s2 = s2
    None = None Nobody = Nobody
    IdOf <- MCIdOf
    Call = {c1, c2}
    Id = {i1}
    Session = {s1, s2}
    OutCap = 1 WireCap = 2 MaxAcks = 2 MaxBeats = 1
    Devices = {"d1", "d2"} MessageIds = {"m1", "m2"} Nonces = {"n1", "n2"}
    MaxEntries = 2 MaxTime = 3 Expiries = {1, 2, 3}
    Parts = {"link", "window", "router", "messages"}
    Calls = {c1, c2} Hubs <- MCHubs MaxSessions = 2
    Texts <- MCTexts Digests <- MCDigests MessageNonces <- MCNonces Times = {1, 3} Stamps <- MCStamps
    Scale = 2 NanosPerMs = 2 MaxIdLen = 1 MaxField = 2 Contents = {"x", "y"}
    Bodies <- MCBodies Spellings <- MCSpellings Clocks = {0, 1, 2, 3} MaxSecond = 3 Tolerance = 1 Junk = Junk
    CapabilityLists <- MCLists
INVARIANTS RelayIsInOrder NoReplay RoutesOnce SealsAreExact
 
