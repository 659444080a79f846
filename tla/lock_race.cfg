\* Four processes of a machine, none of which is killed.
SPECIFICATION Spec
CONSTANTS
    a = a
    b = b
    c = c
    d = d
    NoFile = NoFile
    Empty = Empty
    Procs = {a, b, c, d}
    Host <- OneHost
    Symlinks = {a, b, c, d}
    MaxLevel = 1
    Retries = 1
    Waits <- ByTrylock
    Timeout <- NotLong
    MaxDepth = 1
    MaxCrash = 0
    MaxRestart = 0
    Reused = {}
    MayFail = {}
INVARIANTS
    MutualExclusion
