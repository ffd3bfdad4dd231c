\* QoS 2 when the PUBREC is lost.
SPECIFICATION FairSpec
CONSTANTS
    q0 = q0
    q1 = q1
    q1b = q1b
    q2 = q2
    q2b = q2b
    Qos <- MCQos
    Length <- MCLength
    NoPub = NoPub
    Null = Null
    Pubs = {q2}
    MsgIds = {1, 2}
    RpqSize = 2
    MaxInQ = 100
    RcvMax = 1000
    Addr = {a1, a2, a3}
    Options <- MCDurable
    MaxFaults = 1
    MaxStops = 0
    MaxChan = 2
PROPERTIES
    EventuallyReceived
