SPECIFICATION FairSpec
CONSTANTS
    s1 = s1
    s2 = s2
    r1 = r1
    r2 = r2
    r3 = r3
    r4 = r4
    Senders <- MCSenders
    Requests <- MCRequests
    Queue <- MCQueue
    Payload <- MCPayload
    Rejected = Rejected
    None = None
    Handlers = {h1, h2, h3}
    BatchSize = 2
    MaxFaults = 1
    ErrorCap = 1
INVARIANTS
    TypeOK
    AllOrNothing
    AckedIsStored
    AckedIsCounted
PROPERTIES
    Delivered
