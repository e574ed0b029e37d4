SPECIFICATION SuiteSpec
CONSTANTS
    Degrees <- MCDegrees
    Reps = 2
    MaxFanout = 2
    MaxLate = 2
    Sweep <- MCSweep
    MaxSessions = 3
INVARIANTS
    ArmsApart
    TopologyIsOwn
    HostLeftClean
    EveryConsumerServed
PROPERTIES
    FanoutSettles
CHECK_DEADLOCK FALSE
