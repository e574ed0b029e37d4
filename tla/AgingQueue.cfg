SPECIFICATION AgingFairSpec
CONSTANTS
    Dags <- MCDags
    Tasks <- MCTasks
    DagOf <- MCDagOf
    Succ <- MCSucc
    InitRem <- MCInitRem
    NumId <- MCNumId
    Qualified <- MCTasks
    Critical <- MCTasks
    NumWorkers = 1
    ChanCap = 2
    VaultCap = 5
    MaxFanout = 4
    MaxSubmits = 2
    MaxIdleReports = 1
    MayStop = TRUE
    Rank <- MCRank
    VolPerSubtask <- MCVol
    AgingFactor = 2
    MaxTime = 1
INVARIANTS
    CoreInv
    HeapOrdered
PROPERTIES
    OvertakingIsBounded
    AcceptedDagsFinish
    ImplementsFairExecution
CHECK_DEADLOCK FALSE
