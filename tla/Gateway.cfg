CONSTANTS
    Keys = {k1}
    Requests = {r1, r2}
    Refs = {a1, a2}
    None = None
    MaxAttempts = 4
    MaxCrashes = 2
SPECIFICATION Spec
INVARIANTS
    TypeOK
    AnswersAreDurable
    MemoryIsDurable
    EffectiveCountsCharges
PROPERTY ImplementsLedger
