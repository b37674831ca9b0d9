SPECIFICATION FairSpec
CONSTANTS
    MaxClients = 1
    Hdr = 1
    SendLens = {2}
    Frag = 2
    Fd = {f1}
    Conn = {c1}
    NoFd = NoFd
    NoConn = NoConn
    Windows = FALSE
    MaxMsgs = 1
    MaxSends = 1
PROPERTIES
    AcceptedArrives
CHECK_DEADLOCK FALSE
