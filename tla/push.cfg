\* Two clients push every graph of three changesets to one server, at the same time.
SPECIFICATION MCSpec
CONSTANTS
    N = 3
    MaxParents = 2
    Clients = {a, b}
    Branches = {default, other}
    default = default
    other = other
    Options <- AllOptions
    MaxPushes = 2
    None = None
INVARIANTS
    PushTypeOK
    PhasesAgree
PROPERTIES
    PushesAreAllowed
    RacedOnlyIfChanged
    MarkGoesForward
    PublicAsServer
CHECK_DEADLOCK FALSE
SYMMETRY Symmetry
