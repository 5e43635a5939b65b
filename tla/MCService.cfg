\* Two shells, at the same time; all version managers are listed ones.
CONSTANTS
    v1 = v1
    u1 = u1
    i1 = i1
    i2 = i2
    Invokers <- MCInvokers
    Stable = Stable
    Versions = {v1}
    Unlisted = {}
    None = None
    Disk = Disk

SYMMETRY MCSymmetry

SPECIFICATION Spec

INVARIANTS
    TypeOK
    RegisteredServiceRuns
    TakesEffect
    GoneForGood
