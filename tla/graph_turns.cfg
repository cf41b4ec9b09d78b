SPECIFICATION FairSpec
CONSTANTS
    p1 = p1
    p2 = p2
    s = s
    u = u
    v = v
    w = w
    x = x
    y = y
    g1 = g1
    g2 = g2
    g3 = g3
    None = None
    Garbage = Garbage
    FlightKeys = {s, u, v, w}
    Aircraft = {x, y}
    Gates = {g1, g2, g3}
    GatePool <- TwoGates
    Partitions = {p1}
    Log <- TurnLog
    Snapshot <- TurnRows
    MaxFaults = 2
INVARIANTS
    DelayReachesEveryFlight
PROPERTIES
    PropagationIsContained
    EventuallyDrained
