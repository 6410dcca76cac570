CONSTANTS
    Passes = {p1}
    Requests = {r1}
    Beat = Beat
    Asks = {"start", "pause", "tick"}
    Actions = {send}
    MaxProviderRetries = 0
    MaxRuns = 1
    MaxCalls = 0
    MaxAsks = 3
    MaxCrashes = 0
SPECIFICATION FairSpec
CHECK_DEADLOCK FALSE
PROPERTY
    NeverMute
