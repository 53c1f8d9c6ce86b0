SPECIFICATION Spec
CONSTANTS
    Threshold = 2
    ResetTimeout = 1
    FailureCap = 2
    Nodes = {n1}
    MainNode = n1
    Keys = {k1, k2}
    BatchSize = 1
    Interval = 2
    CounterCap = 1
INVARIANTS
    TypeOK
    NodeBeforeSamples
    WholeCycles
    InsertedIsHonest
PROPERTIES
    SuccessIsDurable
