SPECIFICATION RankSpec
CONSTANTS
    RawDags <- Inputs
    Names <- AllNames
    NoId = NoId
INVARIANTS
    AcceptsExactlyDags
    CountersMatchEdges
    UpwardRankIsLongestPath
    DownwardRankNotTooHigh
    CriticalTasksAreCritical
PROPERTIES
    InputHandled
CHECK_DEADLOCK FALSE
