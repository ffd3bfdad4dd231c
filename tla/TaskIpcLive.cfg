\* Two application threads and the two tasks, scheduled fairly.
SPECIFICATION FairSpec
CONSTANTS
    Apps = {a1, a2}
    Fds = {f1}
    MaxPubs = 1
    MaxConnects = 1
    RetryCount = 1
    Faults = {}
    NoSock = NoSock
    Nobody = Nobody
    Nothing = Nothing
    Connack = Connack
    Refused = Refused
PROPERTIES
    CallsReturn
