SPECIFICATION FairSpec
CONSTANTS
    FClient = {f1}
    CClient = {c1}
    HClient = {h1}
    FTexts <- FTextsDef
    CTexts <- CTextsDef
    MaxMsgs = 2
    MaxSsl = 2
    NoClient = NoClient
INVARIANTS
    InStep
    EchoIntact
    TableMatches
PROPERTIES
    EveryClientFinishes
CHECK_DEADLOCK FALSE
