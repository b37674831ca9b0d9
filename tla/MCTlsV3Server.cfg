SPECIFICATION Spec
CONSTANTS
    MaxClients = 2
    Hdr = 1
    SendLens = {2}
    Frag = 2
    Fd = {f1, f2}
    Conn = {c1, c2}
    NoFd = NoFd
    NoConn = NoConn
    Windows = FALSE
    MaxMsgs = 1
    MaxSends = 2
SYMMETRY Symmetry
INVARIANTS
    SessionsMatchTable
    BytesAccounted
PROPERTIES
    ImplementsSessions
CHECK_DEADLOCK FALSE
