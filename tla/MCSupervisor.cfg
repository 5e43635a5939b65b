\* Safety and liveness: two instances, two paths.
CONSTANTS
    p1 = p1
    p2 = p2
    a = a
    b = b
    n1 = n1
    n2 = n2
    Procs = {p1, p2}
    Names = {n1, n2}
    Paths = {a, b}
    Config <- MCConfig
    Inodes = {i1, i2, i3, i4}
    NoFile = NoFile
    Link = Link
    NoName = NoName

SPECIFICATION FairSpec

INVARIANTS
    TypeOK
    ReachableWatchesOwn

PROPERTIES
    CleanStopLeavesNoSocket
    StartRecovers
    ComesToRest
