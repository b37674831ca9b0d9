SPECIFICATION Spec
CONSTANTS
    MaxConns = 2
    Fd = {f1, f2, f3, f4}
    Conn = {c1, c2, c3, c4, c5}
    NoFd = NoFd
    NoConn = NoConn
SYMMETRY Symmetry
INVARIANTS
    EntriesAreLive
    CallHitsOwnConnection
