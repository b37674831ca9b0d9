SPECIFICATION ExchangeSpec
CONSTANTS
    Hdr = 2
    MaxJson = 2
    Lens = {0, 1, 2, 3}
    MaxCount = 3
    ReplyLens = {1, 2}
    RecMax = 2
    MaxLen = 3
    Wrap = 8
    Texts = {0, 1, 2, 3, 4, 5, 6, 7}
    Known = {1}
    Windows = {1, 2}
INVARIANTS
    DeliveredIntact
    ClosedForCause
    LockStep
    RepliesIntact
PROPERTIES
    EveryRequestAnswered
CHECK_DEADLOCK FALSE
