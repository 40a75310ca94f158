CONSTANTS
    Loads <- MCLoads
    Traces <- MCTraces
    Vectors <- MCVectors
    Epochs <- MCEpochs
    Totals <- MCTotals
    Responses <- MCResponses
    None = None
SPECIFICATION Spec
CHECK_DEADLOCK FALSE
INVARIANTS
    PassIsEarned
    SuccessPasses
PROPERTY PassStable
