\* Scopes nest, may be left without close(), and copies may fail: the end of what
\* has begun, with fncache, which its callers replace themselves.
SPECIFICATION FairSpec
CONSTANTS
    changelog = changelog
    manifest = manifest
    phaseroots = phaseroots
    bookmarks = bookmarks
    fncache = fncache
    Absent = Absent
    Changelog = changelog
    Logs = {changelog, manifest}
    PreGens = {}
    PostGens = {bookmarks}
    DirectGens = {fncache}
    MaxTxn = 2
    MaxLen = 2
    MaxNest = 3
    MaxCrash = 2
    MaxFault = 1
    Faults = {"truncate", "restore"}
    CrashReopening = FALSE
INVARIANTS
    CommitOnlyIfAllClosed
    UndoTakesBack
PROPERTIES
    AbandonedIsRecovered
    EndsItsWork
CHECK_DEADLOCK FALSE
