\* Safety, refinement and liveness on two connections.
CONSTANTS
    k1 = k1
    k2 = k2
    k3 = k3
    Keys <- MCKeys
    Comments <- MCComments
    EmptyComment = ""
    Algos <- MCAlgos
    NoAlgo = "none"
    Algo <- MCAlgo
    Groups <- MCGroups
    NoKey = NoKey
    Conns = {c1, c2}
    Holdings <- MCHoldings
    Nobody = Nobody

SPECIFICATION FairSpec

INVARIANTS
    TypeOK
    CacheIsOneListing
    SignNeedsAdmission

PROPERTIES
    RefusalHasCause
    Implements
    RequestIsDecided
