\* Two tasks; two GitHub users with a key file between them.
CONSTANTS
    t1 = t1
    t2 = t2
    Tasks <- MCTasks
    NRules = 3
    GitHub = {1, 3}
    CacheTtl = 2
    RequestTimeout = 1
    MaxTime = 4
    None = None

SYMMETRY MCSymmetry

SPECIFICATION Spec

INVARIANTS
    TypeOK
    FlagHasOneOwner
    ValidIsFresh
    CallTakesEffect

PROPERTY ListNeverAges
