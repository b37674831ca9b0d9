SPECIFICATION FairSpec
CONSTANTS
    Hdr = 2
    Iv = 1
    Tag = 1
    MaxPlain = 4
    MaxRec = 8
    MaxFrag = 2
    IBufLen = 6
    OBufLen = 8
    Pre = 2
    MaxJson = 2
    Lens = {0, 2, 3}
    MaxCount = 2
    ReplyLens = {1}
    MaxReplies = 1
    PeerMax = 3
    MaxWire = 1
INVARIANTS
    RegistersSane
    NeverStuck
    DeliveredIntact
    RepliesIntact
    NotifyFlushes
    ClosedForCause
PROPERTIES
    NonEmptyDelivered
    NotifyAnswered
CHECK_DEADLOCK FALSE
