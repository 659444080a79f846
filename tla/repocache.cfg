\* A process that reads at any time and one that reads under the lock; each may
\* add changesets, two in all.
SPECIFICATION Spec
CONSTANTS
    a = a
    b = b
    NoProc = NoProc
    Procs = {a, b}
    Readers = {a}
    MaxCommits = 2
INVARIANTS
    RepoCacheTypeOK
    NothingOverwritten
    MarksResolve
    ValidIsTrue
CHECK_DEADLOCK FALSE
