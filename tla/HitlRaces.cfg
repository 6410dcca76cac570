CONSTANTS
    ann = ann
    bob = bob
    other = other
    NoAction = NoAction
    Users = {ann, bob}
    Owner <- OwnerAnn
    SessionUser <- WebUser
    Actions = {a1}
    Sessions = {web, other}
    Links = {}
    Buttons = {button}
    Choices = {"allow", "deny", "ban"}
    Cancellable = {a1}
    MaxFaults = 1
    MaxCrashes = 1
SPECIFICATION Spec
CHECK_DEADLOCK FALSE
INVARIANTS
    TypeOK
    RecordIsTheTruth
    OnlyHumansApprove
PROPERTIES
    VerdictIsFinal
    RequestsEnd
    Implements
