\* A transaction with one log besides the changelog, phaseroots, bookmarks and
\* fncache, killed anywhere (also in the middle of hg recover).
SPECIFICATION Spec
CONSTANTS
    changelog = changelog
    manifest = manifest
    phaseroots = phaseroots
    bookmarks = bookmarks
    fncache = fncache
    Absent = Absent
    Logs = {changelog, manifest}
    Changelog = changelog
    PreGens = {phaseroots}
    PostGens = {bookmarks}
    DirectGens = {fncache}
    MaxTxn = 2
    MaxLen = 2
    MaxNest = 1
    MaxCrash = 2
    MaxFault = 1
    Faults = {"truncate"}
    CrashReopening = FALSE
INVARIANTS
    TypeOK
    RecoverableStore
    ReadersResolve
    NoPendingLeft
PROPERTIES
    ImplementsAtomicStore
CHECK_DEADLOCK FALSE
