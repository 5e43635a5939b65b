\* Command lines of up to five arguments; is a socket served from the upstream that it was named under?
CONSTANTS
    u1 = u1
    u2 = u2
    a = a
    b = b
    c = c
    f1 = f1
    f2 = f2
    work = work
    Upstreams = {u1, u2}
    Paths = {a, b, c}
    Filters = {f1, f2}
    Verbose = Verbose
    Stem <- MCStem
    FileConfigs <- MCFiles
    NoUpstream = NoUpstream
    NoGroup = NoGroup
    NoSpec = NoSpec
    MaxArgs = 5

SPECIFICATION Spec

CHECK_DEADLOCK FALSE

INVARIANT SocketKeepsUpstream
