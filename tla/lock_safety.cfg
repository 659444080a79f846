\* Three processes of a machine that wait without a limit, and one of another,
\* where symbolic links are not made and files may be refused.  Two of them may
\* be killed, and the number of one is used again.
SPECIFICATION FairSpec
CONSTANTS
    a = a
    b = b
    c = c
    d = d
    NoFile = NoFile
    Empty = Empty
    Procs = {a, b, c, d}
    Host <- TwoHosts
    Symlinks = {a, c, d}
    MaxLevel = 2
    Retries = 1
    Waits <- HereByLock
    Timeout <- HereForEver
    MaxDepth = 2
    MaxCrash = 2
    MaxRestart = 1
    Reused = {a}
    MayFail = {b}
INVARIANTS
    TypeOK
    ExclusiveUnlessRaced
    BreaksWhatItTested
    NoLockLeftBehind
PROPERTIES
    NoLockStolen
    StaleLockIsBroken
