\* Persistence with message ids that are negative as a short.
SPECIFICATION Spec
CONSTANTS
    p0 = p0
    p0b = p0b
    p1 = p1
    p1b = p1b
    p2 = p2
    p2b = p2b
    sub = sub
    Kind <- MCKind
    Length <- MCLength
    NoMsg = NoMsg
    Null = Null
    Msgs = {p0, p1}
    PubrelLen = 4
    IpqSize = 2
    MaxOutQ = 100
    ShortMax = 1
    Addr = {a1, a2, a3}
    Options <- MCDurable
    RetryCount = 1
    MaxFaults = 0
    MaxStops = 0
    MaxChan = 4
INVARIANTS
    StoreMirrorsQueue
