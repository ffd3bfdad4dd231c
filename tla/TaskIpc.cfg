\* Two application threads, the two tasks, connections that break.
SPECIFICATION Spec
CONSTANTS
    Apps = {a1, a2}
    Fds = {f1, f2}
    MaxPubs = 2
    MaxConnects = 2
    RetryCount = 1
    Faults = {}
    NoSock = NoSock
    Nobody = Nobody
    Nothing = Nothing
    Connack = Connack
    Refused = Refused
SYMMETRY Symmetry
INVARIANTS
    TypeOK
    OwnReply
    ConfirmedIsQueued
    NoLostWakeup
    Answered
