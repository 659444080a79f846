\* A second crash meets the journal.backupfiles a first one left.
SPECIFICATION Spec
CONSTANTS
    changelog = changelog
    manifest = manifest
    phaseroots = phaseroots
    bookmarks = bookmarks
    fncache = fncache
    Absent = Absent
    Changelog = changelog
    Logs = {changelog}
    PreGens = {}
    PostGens = {bookmarks}
    DirectGens = {}
    MaxTxn = 2
    MaxLen = 1
    MaxNest = 1
    MaxCrash = 2
    MaxFault = 0
    Faults = {}
    CrashReopening = TRUE
INVARIANTS
    RecoverableStore
CHECK_DEADLOCK FALSE
