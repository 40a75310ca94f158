CONSTANTS
    k1 = k1
    payer = payer
    payee = payee
    Parties = {payer, payee}
    Seeds <- MCSeeds
    Drafts <- MCDrafts
    MaxChanges = 2
    Handlers = {h1, h2}
    Keys = {k1}
    Requests <- MCRequests
    Ids = {id1}
    Refs = {ref1}
    None = None
    HashText <- MCHashText
    PoolSize = 2
    MaxFaults = 1
SPECIFICATION Spec
SYMMETRY MCSymmetry
INVARIANTS
    TypeOK
    OrdersTellTruth
    AnswersAreTrue
    AuthorisedPayments
