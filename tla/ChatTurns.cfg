CONSTANTS
    Pages = {p1}
    Conns = {c1, c2, c3}
    None = None
    MaxRuns = 1
    MaxAsks = 2
    MaxStops = 1
    MaxApprovals = 1
    MaxFaults = 2
SPECIFICATION FairSpec
CHECK_DEADLOCK FALSE
INVARIANTS
    TypeOK
    OnlyStopBreaks
    TypedAfterEndIsTaken
PROPERTIES
    EveryTurnIsSettled
