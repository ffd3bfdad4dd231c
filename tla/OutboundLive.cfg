\* Liveness: finitely many faults and stops, a queue with room for the PUBRELs.
SPECIFICATION FairSpec
CONSTANTS
    p0 = p0
    p0b = p0b
    p1 = p1
    p1b = p1b
    p2 = p2
    p2b = p2b
    sub = sub
    Kind <- MCKind
    Length <- MCLength
    NoMsg = NoMsg
    Null = Null
    Msgs = {p1, p2}
    PubrelLen = 4
    IpqSize = 2
    MaxOutQ = 100
    ShortMax = 7
    Addr = {a1, a2, a3}
    Options <- MCDurable
    RetryCount = 1
    MaxFaults = 1
    MaxStops = 1
    MaxChan = 4
PROPERTIES
    EventuallyDelivered
