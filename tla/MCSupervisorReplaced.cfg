\* The replacement detection of CHANGELOG.md, on two instances and one path.
CONSTANTS
    p1 = p1
    p2 = p2
    a = a
    b = b
    n1 = n1
    n2 = n2
    Procs = {p1, p2}
    Names = {n1}
    Paths = {a}
    Config <- MCOnePath
    Inodes = {i1, i2, i3}
    NoFile = NoFile
    Link = Link
    NoName = NoName

SPECIFICATION FairSpec

PROPERTY
    ReplacedInstanceExits
