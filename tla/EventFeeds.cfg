CONSTANTS
    Items = {i1, i2}
    Sources = {"gmail", "calendar", "file"}
    Workers = {w1}
    Nobody = Nobody
    Limit = 1
    PageSize = 1
    MaxTime = 3
    MaxRequests = 2
    MaxFaults = 1
SPECIFICATION FairSpec
CHECK_DEADLOCK FALSE
INVARIANTS
    TypeOK
    NothingIsSkipped
PROPERTIES
    NothingIsRevived
    PromiseIsKept
