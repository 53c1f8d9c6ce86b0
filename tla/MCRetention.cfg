SPECIFICATION Spec
CONSTANTS
    Loops = {l1, l2}
    HourTicks = 2
    DayHours = 5
    DayValues = {1, 2}
    Start = 10
    Stamps = {0, 14}
    Faults = TRUE
    MaxTime = 21
    MaxSamples = 2
SYMMETRY LoopSymmetry
INVARIANTS
    TypeOK
    NoDoubleCounting
    StorageBounded
PROPERTIES
    RollupsExact
