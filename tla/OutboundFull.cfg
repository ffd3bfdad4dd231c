\* A queue with no room for the PUBREL.
SPECIFICATION FairSpec
CONSTANTS
    p0 = p0
    p0b = p0b
    p1 = p1
    p1b = p1b
    p2 = p2
    p2b = p2b
    sub = sub
    Kind <- MCKind
    Length <- MCLength
    NoMsg = NoMsg
    Null = Null
    Msgs = {p2}
    PubrelLen = 4
    IpqSize = 2
    MaxOutQ = 15
    ShortMax = 7
    Addr = {a1, a2, a3}
    Options <- MCVolatile
    RetryCount = 1
    MaxFaults = 0
    MaxStops = 0
    MaxChan = 4
PROPERTIES
    EventuallyDelivered
