SPECIFICATION Spec
CONSTANTS
    Dags <- MCDags
    Tasks <- MCTasks
    DagOf <- MCDagOf
    Succ <- MCSucc
    InitRem <- MCInitRem
    NumId <- PerDagIds
    Qualified <- MCTasks
    Critical <- MCCritical
    NumWorkers = 2
    ChanCap = 2
    VaultCap = 6
    MaxFanout = 2
    MaxSubmits = 1
    MaxIdleReports = 0
    MayStop = TRUE
INVARIANTS
    GoldenRule
CHECK_DEADLOCK FALSE
