CONSTANTS
    Passes = {p1}
    Requests = {r1}
    Beat = Beat
    Asks = {"start"}
    Actions = {send}
    MaxProviderRetries = 1
    MaxRuns = 1
    MaxCalls = 1
    MaxAsks = 1
    MaxCrashes = 1
SPECIFICATION FairSpec
CHECK_DEADLOCK FALSE
PROPERTIES
    PassagesEnd
    DueIsServed
    LinkWaitEnds
