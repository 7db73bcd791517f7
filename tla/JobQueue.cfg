\* Two instances and two ids for a keyed pair, an unkeyed one and one without a
\* handler, two faults: every interleaving of enqueue, claim, run and bookkeeping.
CONSTANTS
    j1 = j1
    j2 = j2
    w1 = w1
    w2 = w2
    r1 = r1
    r2 = r2
    NoKey = NoKey
    Jobs = {j1, j2}
    Work = {w1, w2}
    Orphans = {w2}
    Runners = {r1, r2}
    Batch = 2
    Lease = 1
    MaxAttempts = 3
    RetryBase = 1
    RetryCap = 2
    ShiftLimit = 12
    Delays = {0, 1}
    MaxFaults = 2
SPECIFICATION FairSpec
INVARIANTS
    ExclusiveWork
    IInv
PROPERTIES
    PacedRetries
    NoEarlyGiveUp
    ImplementsSlots
    EveryJobSettles
