SPECIFICATION Spec
CONSTANTS
    ClientPorts = {p1, p2}
    RECV_BUF_CAP = 1
    MAX_SOCKETS = 2
    SeqSpace = 16
    HashFactor = 5
    OpenTick <- MCOpenTick
    MaxOpens = 2
    MaxSends = 2
    MaxCloses = 1
    MaxRepeats = 1
SYMMETRY PortSymmetry
CHECK_DEADLOCK FALSE
INVARIANTS
    InOrder
    ClientAgrees
