SPECIFICATION Spec
CONSTANTS
    MaxClients = 2
    Hdr = 2
    MaxJson = 0
    Fd = {f1, f2, f3}
    Conn = {c1, c2, c3}
    NoFd = NoFd
    NoConn = NoConn
    MaxMsgs = 1
    MaxSends = 2
SYMMETRY Symmetry
INVARIANTS
    TypeOK
    SessionsMatchTable
    DispatchedWasPolled
    RetryUnchanged
    StoppedIsClean
PROPERTIES
    ImplementsSessions
CHECK_DEADLOCK FALSE
