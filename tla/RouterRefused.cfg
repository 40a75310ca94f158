CONSTANTS
    Handlers = {h1, h2}
    Keys = {k1}
    Payloads <- MCPayloads
    Ids = {id1}
    Refs = {ref1, ref2}
    None = None
    HashText <- MCHashText
    PoolSize = 2
    RecoveryAfter = 2
    MaxSkew = 0
    CallWindow = 1
    Refuses = TRUE
    MaxFaults = 1
    MaxClock = 7
SPECIFICATION Spec
SYMMETRY MCSymmetry
INVARIANT FailedMeansNotCharged
