\* Beside the runs: signals in the first loop too. WholeMessages is violated.
SPECIFICATION FairSpec
CONSTANTS
    Base = 2
    Lengths <- MCLengths
    MaxMsgs = 1
    MaxConns = 1
    Faults = {"head"}
    IpcBufferSz = 4
INVARIANTS
    WholeMessages
