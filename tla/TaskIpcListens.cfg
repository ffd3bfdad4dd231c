\* A connection that breaks under a receive task that holds its descriptor.
SPECIFICATION FairSpec
CONSTANTS
    Apps = {a1}
    Fds = {f1}
    MaxPubs = 1
    MaxConnects = 1
    RetryCount = 0
    Faults = {}
    NoSock = NoSock
    Nobody = Nobody
    Nothing = Nothing
    Connack = Connack
    Refused = Refused
PROPERTIES
    ListensAgain
