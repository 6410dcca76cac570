CONSTANTS
    Sockets = {s1, s2}
    None = None
    Calls = {c1}
    RateLimit = 2
    MaxFaults = 1
    MaxHands = 1
SPECIFICATION FairSpec
CHECK_DEADLOCK FALSE
INVARIANTS
    TypeOK
    RegistryIsSound
PROPERTIES
    CallsEnd
    LinkComesBack
