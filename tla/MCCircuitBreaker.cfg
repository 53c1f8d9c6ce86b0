SPECIFICATION Spec
CONSTANTS
    Threshold = 2
    ResetTimeout = 2
    FailureCap = 3
    Callers = {c1, c2}
INVARIANTS
    TypeOK
    StateMatchesCounters
PROPERTIES
    TripNeedsFailureRun
    ClosingIsEarned
    CoolingOff
    AdmitsAgain
