SPECIFICATION Spec
CONSTANTS
    Keys = {0, 1, 2}
    Sockets = {s1, s2, s3}
    Workers = {w1}
    Local = local
    Service = service
    None = none
    Elements = {e1, e2, e3, e4}
    MaxEntries = 3
    PortRange = 2
INVARIANTS
    TypeOK
    RuleBeforeTrigger
    RuleReadIsOwn
    CountedOncePerTrigger
    NoHookLeft
SYMMETRY Symmetry
CHECK_DEADLOCK FALSE
