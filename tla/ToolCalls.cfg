CONSTANTS
    Calls = {c1, c2}
    Undos = {u1, u2}
    Nobody = Nobody
    Kinds = {"remembered", "reversible"}
    Surfaces = {"chat", "task"}
    MaxCuts = 1
    MaxStops = 1
SPECIFICATION FairSpec
CHECK_DEADLOCK FALSE
INVARIANTS
    TypeOK
    OnlyEffectsAreKept
PROPERTIES
    OutcomesFollow
