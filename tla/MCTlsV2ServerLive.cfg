SPECIFICATION FairSpec
CONSTANTS
    MaxClients = 2
    Hdr = 1
    MaxJson = 1
    Fd = {f1, f2}
    Conn = {c1, c2}
    NoFd = NoFd
    NoConn = NoConn
    MaxMsgs = 1
    MaxSends = 1
PROPERTIES
    LossIsReported
    QueuedIsFlushed
    PendingIsDelivered
CHECK_DEADLOCK FALSE
