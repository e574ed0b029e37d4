SPECIFICATION MainFairSpec
CONSTANTS
    Dags <- MCDags
    Tasks <- MCTasks
    DagOf <- MCDagOf
    Succ <- MCSucc
    InitRem <- MCInitRem
    NumId <- MCNumId
    Qualified = {}
    Critical <- MCTasks
    NumWorkers = 2
    ChanCap = 6
    VaultCap = 6
    MaxFanout = 4
    MaxSubmits = 1
    MaxIdleReports = 0
    MayStop = TRUE
    Iterations <- Clashing
    LastTask <- Last
    RTTs = {2, 5}
INVARIANTS
    PrecedenceRespected
    OneDagAtATime
    GoldenRuleInSequence
    MeanNotBelowSamples
    MeanIsExact
PROPERTIES
    MainEnds
CHECK_DEADLOCK FALSE
