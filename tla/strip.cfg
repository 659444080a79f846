\* Every repository of four changesets and a file, stripped twice, killed once.
SPECIFICATION Spec
CONSTANTS
    cl = cl
    data = data
    Absent = Absent
    N = 4
    Files = {data}
    Changelog = cl
    MaxParents = 2
    MaxStrip = 2
    MaxCrash = 1
    CrashInGroup = FALSE
INVARIANTS
    NothingLost
    StripIsExact
    LinksAreGood
CHECK_DEADLOCK FALSE
