CONSTANTS
    Handlers = {h1, h2, h3}
    Keys = {k1}
    Payloads <- MCPayloads
    Ids = {id1}
    Refs = {ref1, ref2}
    None = None
    HashText <- MCHashText
    PoolSize = 3
    RecoveryAfter = 3
    MaxSkew = 1
    CallWindow = 1
    Refuses = FALSE
    MaxFaults = 2
    MaxClock = 16
SPECIFICATION Spec
SYMMETRY MCSymmetry
INVARIANTS
    TypeOK
    AnswersMatchRow
    SucceededWasCharged
    FailedMeansNotCharged
    ChargedAsReserved
    HolderKeepsLease
    OneCallInFlight
    AtMostOneCharge
PROPERTIES
    TerminalStable
    ImplementsPayments
