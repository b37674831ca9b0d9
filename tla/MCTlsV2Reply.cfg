SPECIFICATION FairSpec
CONSTANTS
    Hdr = 4
    MaxJson = 6
    ReplyLens = {0, 2, 5, 6}
    RecMax = 5
    MaxLen = 6
    Wrap = 16
    Texts = {6, 7, 8, 9, 10, 11, 12, 13, 14, 15}
    MaxReplies = 3
INVARIANTS
    FitsBuffer
    SkipsWholeMessages
PROPERTIES
    FittingReceived
