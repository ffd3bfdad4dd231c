\* With persistence, a store that may fail, clean start: faults and restarts.
SPECIFICATION Spec
CONSTANTS
    q0 = q0
    q1 = q1
    q1b = q1b
    q2 = q2
    q2b = q2b
    Qos <- MCQos
    Length <- MCLength
    NoPub = NoPub
    Null = Null
    Pubs = {q1, q2, q2b}
    MsgIds = {1, 2}
    RpqSize = 2
    MaxInQ = 100
    RcvMax = 1000
    Addr = {a1, a2, a3}
    Options <- MCStores
    MaxFaults = 1
    MaxStops = 1
    MaxChan = 3
INVARIANTS
    TypeOK
    ReadyCounted
    HashHoldsUnreleased
    ConfirmsWhatWasTaken
    AnsweredIsKept
    StoreMirrorsQueue
    AtMostOnce
PROPERTIES
    ImplementsDelivery
