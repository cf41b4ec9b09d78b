SPECIFICATION Spec
CONSTANTS
    a = a
    b = b
    Flights = {a, b}
    Listing <- TwoFlights
    MaxClock = 3
    MaxFaults = 2
    None = None
INVARIANTS
    TypeOK
    KeysIdentifyContents
PROPERTIES
    NewestArrives
