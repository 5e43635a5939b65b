\* One shell; is an executable of an unlisted version manager detected?
CONSTANTS
    v1 = v1
    u1 = u1
    i1 = i1
    i2 = i2
    Invokers <- MCOneInvoker
    Stable = Stable
    Versions = {v1}
    Unlisted = {u1}
    None = None
    Disk = Disk

SPECIFICATION Spec

INVARIANT
    RegisteredSurvivesUpgrade
