SPECIFICATION Spec
CONSTANTS
    Ws = {w1, w2, w3}
    NoWs = NoWs
    Talker = {w1}
    MaxFrames = 2
    Lens = {1, 2}
    HttpLen = 2
    RespBuf = 3
    ShortMax = 0
    MidMax = 1
    KeyLen = 1
    BufSize = 1
    Explicit = {2}
SYMMETRY Symmetry
INVARIANTS
    HandlesAlive
    NewestFirstKeepsHandles
    InOrderWhileInStep
CHECK_DEADLOCK FALSE
