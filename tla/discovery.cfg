\* hg pull while the server grows; chains longer than a sample.
SPECIFICATION Spec
CONSTANTS
    N = 3
    MaxParents = 2
    InitialSize = 1
    FullSize = 1
    MaxGrowths = 2
INVARIANTS
    DiscoveryTypeOK
    CommonIsExact
    PullCompletes
PROPERTIES
    DiscoveryEnds
CHECK_DEADLOCK FALSE
