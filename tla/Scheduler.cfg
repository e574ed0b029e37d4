SPECIFICATION Spec
CONSTANTS
    Dags <- MCDags
    Tasks <- MCTasks
    DagOf <- MCDagOf
    Succ <- MCSucc
    InitRem <- MCInitRem
    NumId <- DistinctIds
    Qualified <- MCTasks
    Critical <- MCCritical
    NumWorkers = 2
    ChanCap = 2
    VaultCap = 6
    MaxFanout = 2
    MaxSubmits = 2
    MaxIdleReports = 1
    MayStop = TRUE
INVARIANTS
    TypeOK
    QueueAndRunnersMatchStates
    WorkerRunsOneTask
    GoldenRule
    CompletedDagIsDone
    FinishedDagIsCompleted
PROPERTIES
    ImplementsExecution
CHECK_DEADLOCK FALSE
