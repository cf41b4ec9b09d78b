SPECIFICATION FairSpec
CONSTANTS
    flight = flight
    delays = delays
    Keys = {flight, delays}
    Lists = {delays}
    Touched <- TouchedTogether
    Requests = {r1, r2}
    Ttl = 2
    Slow = 1
    MaxWrites = 2
    None = None
INVARIANTS
    TypeOK
    EntriesExpireInTime
PROPERTIES
    ContractHolds
    CacheCatchesUp
