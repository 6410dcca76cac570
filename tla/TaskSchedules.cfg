CONSTANTS
    Due = {1, 4}
    OnceAt = 2
    Kinds = {"cron", "once"}
    Modes = {"turn", "mission"}
    Grace = 1
    MaxAge = 1
    Budgets = {TRUE, FALSE}
    MaxTime = 4
    MaxStops = 2
    MaxUses = 2
SPECIFICATION FairSpec
CHECK_DEADLOCK FALSE
INVARIANTS
    TypeOK
    NothingIsSilentlyLost
PROPERTIES
    NotRedone
    OneShotDisappears
