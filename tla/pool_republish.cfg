SPECIFICATION FairSpec
CONSTANTS
    w1 = w1
    w2 = w2
    p1 = p1
    p2 = p2
    a = a
    b = b
    k1 = k1
    None = None
    Workers = {w1, w2}
    Partitions = {p1}
    Flights = {a}
    FlightKeys = {k1}
    Log <- RepublishLog
    MaxAttempts = 2
    MaxFaults = 4
INVARIANTS
    TypeOK
    CacheHitMeansProcessed
    DuplicatesArePaidFor
PROPERTIES
    ContractHolds
    EventuallyDrained
