CONSTANTS
    Due = {1, 4}
    OnceAt = 2
    Kinds = {"once"}
    Modes = {"turn"}
    Grace = 1
    MaxAge = 1
    Budgets = {TRUE, FALSE}
    MaxTime = 4
    MaxStops = 0
    MaxUses = 0
SPECIFICATION Spec
CHECK_DEADLOCK FALSE
INVARIANTS
    OneShotRuns
