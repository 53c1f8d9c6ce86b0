SPECIFICATION Spec
CONSTANTS
    Instances = {i1, i2}
    Sessions = {s1, s2}
    NumVersions = 2
INVARIANTS
    TypeOK
    RecordedWasApplied
    AppliedInOrder
    ReadyMeansMigrated
PROPERTIES
    LockWaitEnds
