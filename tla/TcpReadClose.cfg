\* Beside the runs: a signal, then a peer that closes. CloseAlwaysNoticed is violated.
SPECIFICATION FairSpec
CONSTANTS
    Base = 2
    Lengths <- MCLengths
    MaxMsgs = 1
    MaxConns = 1
    Faults = {"body", "close"}
    IpcBufferSz = 4
PROPERTIES
    CloseAlwaysNoticed
