CONSTANTS
    Handlers = {h1, h2}
    Keys = {k1}
    Payloads <- MCOnePayload
    Ids = {id1}
    Refs = {ref1}
    None = None
    HashText <- MCHashText
    PoolSize = 2
    RecoveryAfter = 2
    MaxSkew = 0
    CallWindow = 1
    Refuses = TRUE
    MaxFaults = 2
    MaxClock = 12
SPECIFICATION FairSpec
PROPERTIES
    RequestEnds
    PendingResolves
