\* One handler and one worker on the same key, one fault.
CONSTANTS
    k1 = k1
    k2 = k2
    w1 = w1
    w2 = w2
    c1 = c1
    c2 = c2
    Keys = {k1}
    Workers = {w1}
    Callers = {c1}
    MaxAttempts = 2
    MaxFaults = 1
SPECIFICATION FairSpec
PROPERTIES
    ReservedIsResolved
