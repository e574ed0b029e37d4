SPECIFICATION Spec
CONSTANTS
    Keys = {0, 1, 2}
    RefCount <- Fanouts
    CPUs = {c1, c2}
    Elements = {e1, e2}
    Word = 8
    Disciplines = {"ordered", "serial"}
    MaxRounds = 2
    MaxLost = 1
    MaxDup = 1
SYMMETRY Symmetry
INVARIANTS
    TypeOK
    NoLeak
    HeldIsOwnEntry
    CountIsUnserved
    CountInRange
PROPERTIES
    NoPrematureEviction
CHECK_DEADLOCK FALSE
