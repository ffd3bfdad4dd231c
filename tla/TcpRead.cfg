\* Any pieces, signals in the second loop, a peer that closes or resets at any byte.
SPECIFICATION FairSpec
CONSTANTS
    Base = 2
    Lengths <- MCLengths
    MaxMsgs = 2
    MaxConns = 2
    Faults = {"body", "close", "reset"}
    IpcBufferSz = 4
INVARIANTS
    TypeOK
    WholeMessages
PROPERTIES
    AllRead
    CloseNoticed
