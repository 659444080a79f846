\* Two operations on every graph of three changesets, in any phases.
SPECIFICATION PhasesSpec
CONSTANTS
    N = 3
    MaxParents = 2
    MaxPhase = 2
    MaxMoves = 2
    Absent = Absent
INVARIANTS
    PhasesTypeOK
    RootsMinimal
    MovesAsAsked
    StripKeepsPhases
PROPERTIES
    MovesAreRecorded
