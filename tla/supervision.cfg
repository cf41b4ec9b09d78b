SPECIFICATION FairSpec
CONSTANTS
    w1 = w1
    w2 = w2
    d = d
    Workers = {w1, w2, d}
    Pools <- TwoPools
    MaxFaults = 3
INVARIANTS
    TypeOK
    RestartsMatchFailures
    RunsOnOpenClients
    LeaksTakeACutStop
    CleanShutdown
PROPERTIES
    StoppedLoopsEnd
    ShutdownEnds
