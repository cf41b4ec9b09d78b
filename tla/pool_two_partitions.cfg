SPECIFICATION Spec
CONSTANTS
    w1 = w1
    w2 = w2
    p1 = p1
    p2 = p2
    a = a
    b = b
    k1 = k1
    None = None
    Workers = {w1, w2}
    Partitions = {p1, p2}
    Flights = {a, b}
    FlightKeys = {k1}
    Log <- TwoPartitionLog
    MaxAttempts = 2
    MaxFaults = 2
INVARIANTS
    PositionMatchesHand
    CommittedIsSettled
    ForwardedIsStored
    ActiveIsNewest
