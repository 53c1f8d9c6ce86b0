SPECIFICATION NodeSpec
CONSTANTS
    Threshold = 2
    ResetTimeout = 1
    FailureCap = 2
    Nodes = {n1}
    MainNode = n1
    Watched = n1
    Keys = {k1}
    BatchSize = 1
    Interval = 2
    CounterCap = 0
PROPERTIES
    UsesBreaker
    RecoversFromOutage
    CancelEndsProcess
