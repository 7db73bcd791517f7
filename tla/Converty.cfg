\* Two connections of one store, two requests about them, two deliveries of
\* one event.
CONSTANTS
    s1 = s1
    r1 = r1
    r2 = r2
    w1 = w1
    w2 = w2
    b1 = b1
    Stores = {s1}
    Requests = {r1, r2}
    Deliveries = {w1, w2}
    Bodies <- Events
    MaxConnections = 2
    MaxRotations = 2
    MaxInputs = 5
    MaxFaults = 1
    MaxBusy = 2
SPECIFICATION IntakeSpec
SYMMETRY Symmetry
INVARIANTS
    TypeOK
    TokenChainKept
    HandedOnceAsStored
    AttributedIsHanded
CHECK_DEADLOCK FALSE
