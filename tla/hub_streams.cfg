SPECIFICATION Latecomer
CONSTANTS
    a = a
    b = b
    c1 = c1
    c2 = c2
    p1 = p1
    p2 = p2
    Flights = {a, b}
    Partitions = {p1, p2}
    Home <- Apart
    Conns = {c1, c2}
    Feed <- DelayThenUpdate
    Cap = 1
    Frames <- OneTalks
    MaxFrames = 1
    MaxBeats <- OneBeats
    MaxFaults = 1
    None = None
INVARIANTS
    StreamIsFaithful
    ConsumersEndWithConnections
    ConnectionsEndForAReason
