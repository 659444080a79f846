\* The phase roots another process wrote.
SPECIFICATION Spec
CONSTANTS
    a = a
    b = b
    NoProc = NoProc
    Procs = {a, b}
    Readers = {a}
    MaxCommits = 2
INVARIANT
    RootsKept
CHECK_DEADLOCK FALSE
