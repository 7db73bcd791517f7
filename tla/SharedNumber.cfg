\* One store; the operator connects the number, then gives up authorizing.
CONSTANTS
    s1 = s1
    r1 = r1
    Stores = {s1}
    Requests = {r1}
    MaxConnections = 2
    MaxRotations = 1
    MaxInputs = 2
    MaxFaults = 0
SPECIFICATION NumberSpec
PROPERTIES
    SharedNumberKept
CHECK_DEADLOCK FALSE
