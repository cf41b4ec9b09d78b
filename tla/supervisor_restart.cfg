SPECIFICATION FairSpec
CONSTANTS
    w1 = w1
    w2 = w2
    d = d
    Workers = {w1, w2}
    Pools <- OnePool
    MaxFaults = 2
PROPERTY
    CrashesAreRestarted
