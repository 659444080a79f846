\* Every file system and both formats; one file, two contents, two seconds and a half.
SPECIFICATION DirstateSpec
CONSTANTS
    Files = {f}
    Contents = {v, w}
    Statuses = {p}
    PerSecond = 3
    MaxTime = 7
    EditsDuringUpdate = FALSE
    None = None
INVARIANTS
    DirstateTypeOK
    CacheIsTrue
    StatusIsTrue
