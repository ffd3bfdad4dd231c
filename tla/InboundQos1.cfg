\* QoS 0 and 1, with and without persistence, under faults and restarts.
SPECIFICATION FairSpec
CONSTANTS
    q0 = q0
    q1 = q1
    q1b = q1b
    q2 = q2
    q2b = q2b
    Qos <- MCQos
    Length <- MCLength
    NoPub = NoPub
    Null = Null
    Pubs = {q0, q1}
    MsgIds = {1, 2}
    RpqSize = 2
    MaxInQ = 100
    RcvMax = 1000
    Addr = {a1, a2}
    Options <- MCBoth
    MaxFaults = 2
    MaxStops = 1
    MaxChan = 3
PROPERTIES
    EventuallyReceived
