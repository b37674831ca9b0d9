SPECIFICATION FairSpec
CONSTANTS
    MaxClients = 2
    Hdr = 1
    SendLens = {2}
    Frag = 2
    Fd = {f1, f2}
    Conn = {c1, c2}
    NoFd = NoFd
    NoConn = NoConn
    Windows = TRUE
    MaxMsgs = 1
    MaxSends = 0
INVARIANTS
    SessionsMatchTable
PROPERTIES
    PendingIsDelivered
    EndIsReported
CHECK_DEADLOCK FALSE
