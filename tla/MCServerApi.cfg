\* Two servers on one path.
CONSTANTS
    s1 = s1
    s2 = s2
    Servers <- MCServers
    Link = Link
    None = None
    MaxSockets = 2
    MaxVersion = 2
    MaxClients = 1

SPECIFICATION Spec

CHECK_DEADLOCK FALSE

INVARIANTS
    TypeOK
    DroppedLeavesNoSocket

PROPERTIES
    SignalEndsRun
    ClientIsAccepted
