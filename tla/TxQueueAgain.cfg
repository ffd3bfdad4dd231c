\* A client without persistence connects again without a disconnect.
SPECIFICATION FairSpec
CONSTANTS
    m0 = m0
    m1 = m1
    m2 = m2
    NoMsg = NoMsg
    Msgs = {m0, m1, m2}
    Qos0 = {m0}
    MaxId = 2
    MaxTries = 2
    MaxBreaks = 1
    Options <- MCAgain
    Inner = {}
    MaxDepth = 1
INVARIANTS
    SuccessIsTrue
