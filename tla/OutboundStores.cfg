\* With persistence, a store that may fail, clean start: faults and restarts.
SPECIFICATION Spec
CONSTANTS
    p0 = p0
    p0b = p0b
    p1 = p1
    p1b = p1b
    p2 = p2
    p2b = p2b
    sub = sub
    Kind <- MCKind
    Length <- MCLength
    NoMsg = NoMsg
    Null = Null
    Msgs = {p1, p2}
    PubrelLen = 4
    IpqSize = 2
    MaxOutQ = 100
    ShortMax = 7
    Addr = {a1, a2, a3}
    Options <- MCStores
    RetryCount = 1
    MaxFaults = 2
    MaxStops = 2
    MaxChan = 4
INVARIANTS
    TypeOK
    HashMatchesList
    BytesAccounted
    DeliveredIsTrue
    StoreKeepsUndelivered
    StoreMirrorsQueue
    AtMostOnce
PROPERTIES
    ImplementsDelivery
