SPECIFICATION HookFairSpec
CONSTANTS
    a = a
    b = b
    p1 = p1
    p2 = p2
    Flights = {a, b}
    Partitions = {p1, p2}
    Home <- Apart
    Conns = {c1, c2}
    Feed <- Cascade
    Cap = 1
    Frames <- HookFrames
    MaxFrames = 1
    MaxBeats <- NoBeats
    MaxFaults = 1
    Batch = 2
    Focus = {}
    None = None
INVARIANTS
    HookTypeOK
    MapsConverge
PROPERTIES
    OnlyReplayGoesBack
    UpdatesReachTheMap
