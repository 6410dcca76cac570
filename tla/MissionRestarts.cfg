CONSTANTS
    Passes = {p1}
    Requests = {r1, r2}
    Beat = Beat
    Asks = {"start", "restart"}
    Actions = {send}
    MaxProviderRetries = 0
    MaxRuns = 2
    MaxCalls = 1
    MaxAsks = 4
    MaxCrashes = 0
SPECIFICATION Spec
CHECK_DEADLOCK FALSE
SYMMETRY Symmetry
INVARIANTS
    CompletedIsSettled
