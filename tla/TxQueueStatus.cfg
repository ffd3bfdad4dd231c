\* Beside the runs: callbacks that call status. CallbackOnce is violated.
SPECIFICATION FairSpec
CONSTANTS
    m0 = m0
    m1 = m1
    m2 = m2
    NoMsg = NoMsg
    Msgs = {m0, m1, m2}
    Qos0 = {m0}
    MaxId = 2
    MaxTries = 2
    MaxBreaks = 1
    Options <- MCOptions
    Inner = {"status"}
    MaxDepth = 3
INVARIANTS
    CallbackOnce
