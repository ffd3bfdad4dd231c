\* Beside the runs: callbacks that publish. LeavesWhenReported is violated.
SPECIFICATION FairSpec
CONSTANTS
    m0 = m0
    m1 = m1
    m2 = m2
    NoMsg = NoMsg
    Msgs = {m0, m1, m2}
    Qos0 = {m0}
    MaxId = 2
    MaxTries = 2
    MaxBreaks = 1
    Options <- MCOptions
    Inner = {"publish"}
    MaxDepth = 2
PROPERTIES
    LeavesWhenReported
