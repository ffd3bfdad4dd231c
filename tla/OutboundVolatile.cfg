\* No persistence, one session, a queue and a memory that fill up.
SPECIFICATION Spec
CONSTANTS
    p0 = p0
    p0b = p0b
    p1 = p1
    p1b = p1b
    p2 = p2
    p2b = p2b
    sub = sub
    Kind <- MCKind
    Length <- MCLength
    NoMsg = NoMsg
    Null = Null
    Msgs = {p0, p1, p2, sub}
    PubrelLen = 4
    IpqSize = 2
    MaxOutQ = 30
    ShortMax = 7
    Addr = {a1, a2, a3}
    Options <- MCVolatile
    RetryCount = 1
    MaxFaults = 1
    MaxStops = 0
    MaxChan = 4
INVARIANTS
    QueueBounded
    SentOrder
PROPERTIES
    LeavesOnlyWhenAnswered
