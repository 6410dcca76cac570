CONSTANTS
    Calls = {c1, c2}
    ReconnectBase = 2
    ReconnectMax = 2
    MaxLinks = 2
    DialsFail = TRUE
SPECIFICATION FairSpec
CHECK_DEADLOCK FALSE
INVARIANTS
    TypeOK
    FreshStays
    NothingLeft
    OwnAnswer
    OncePerLink
PROPERTIES
    AnswerIsReturned
    CallsEnd
