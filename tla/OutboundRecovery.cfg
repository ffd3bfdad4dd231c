\* Beside the runs: what comes back from the store does not fit in the queue.
SPECIFICATION Spec
CONSTANTS
    p0 = p0
    p0b = p0b
    p1 = p1
    p1b = p1b
    p2 = p2
    p2b = p2b
    sub = sub
    Kind <- MCKind
    Length <- MCLength
    NoMsg = NoMsg
    Null = Null
    Msgs = {p1, p1b, sub}
    PubrelLen = 4
    IpqSize = 2
    MaxOutQ = 24
    ShortMax = 7
    Addr = {a1, a2, a3}
    Options <- MCFailing
    RetryCount = 1
    MaxFaults = 0
    MaxStops = 1
    MaxChan = 4
INVARIANTS
    DeliveredIsTrue
