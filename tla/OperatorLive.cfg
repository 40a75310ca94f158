CONSTANTS
    k1 = k1
    payer = payer
    payee = payee
    Parties = {payer, payee}
    Seeds <- MCBothSeeded
    Drafts <- MCNoDrafts
    MaxChanges = 0
    Handlers = {h1, h2}
    Keys = {k1}
    Requests <- MCOneRequest
    Ids = {id1}
    Refs = {ref1}
    None = None
    HashText <- MCHashText
    PoolSize = 2
    MaxFaults = 1
SPECIFICATION FairSpec
PROPERTIES
    RequestEnds
    PendingSettles
