SPECIFICATION Spec
CONSTANTS
    Keys = {0, 1}
    RefCount <- TwoFanouts
    CPUs = {c1, c2}
    Elements = {e1, e2}
    Word = 8
    Disciplines = {"free"}
    MaxRounds = 1
    MaxLost = 0
    MaxDup = 0
INVARIANTS
    NoLeak
CHECK_DEADLOCK FALSE
