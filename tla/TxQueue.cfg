\* Callbacks that do not call the client.
SPECIFICATION FairSpec
CONSTANTS
    m0 = m0
    m1 = m1
    m2 = m2
    NoMsg = NoMsg
    Msgs = {m0, m1, m2}
    Qos0 = {m0}
    MaxId = 2
    MaxTries = 2
    MaxBreaks = 1
    Options <- MCOptions
    Inner = {}
    MaxDepth = 1
INVARIANTS
    TypeOK
    SuccessIsTrue
    CallbackOnce
PROPERTIES
    LeavesWhenReported
    CallsReturn
    NoneForgotten
