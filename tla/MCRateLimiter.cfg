SPECIFICATION Spec
CONSTANTS
    IPs = {a, b}
    Rate = 1
    Cost = 2
    Burst = 2
    Cleanup = 4
    IdleCap = 5
    MaxWindow = 6
INVARIANTS
    TypeOK
    RateBound
PROPERTIES
    RefinesTokenBucket
    NeverStarved
