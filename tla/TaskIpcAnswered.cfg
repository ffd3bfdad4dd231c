\* An application whose first connect fails, and that connects again.
SPECIFICATION Spec
CONSTANTS
    Apps = {a1}
    Fds = {f1}
    MaxPubs = 1
    MaxConnects = 1
    RetryCount = 0
    Faults = {"init"}
    NoSock = NoSock
    Nobody = Nobody
    Nothing = Nothing
    Connack = Connack
    Refused = Refused
INVARIANTS
    Answered
