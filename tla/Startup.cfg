SPECIFICATION FairSpec
CONSTANTS
    Replicas = {r1, r2, r3}
    MaxTries = 2
    MaxOutages = 2
    MaxCrashes = 1
INVARIANTS
    TypeOK
    ServesCompleteSchema
PROPERTY
    EventuallyReady
