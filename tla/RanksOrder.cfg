SPECIFICATION RankSpec
CONSTANTS
    RawDags <- Inputs
    Names <- AllNames
    NoId = NoId
INVARIANTS
    DownwardRankIsMaximum
CHECK_DEADLOCK FALSE
