CONSTANTS
    Passes = {p1, p2}
    Requests = {r1}
    Beat = Beat
    Asks = {"start", "tick", "pause", "abort", "repondre", "retry", "done", "restart"}
    Actions = {send}
    MaxProviderRetries = 0
    MaxRuns = 1
    MaxCalls = 2
    MaxAsks = 2
    MaxCrashes = 1
SPECIFICATION Spec
CHECK_DEADLOCK FALSE
SYMMETRY Symmetry
INVARIANTS
    TypeOK
    AtMostOnce
    CompletedIsSettled
    OnePassage
    AtMostOneLateCall
