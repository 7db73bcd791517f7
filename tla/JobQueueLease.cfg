\* One crash while a job runs: what becomes of its row.
CONSTANTS
    j1 = j1
    j2 = j2
    w1 = w1
    w2 = w2
    r1 = r1
    r2 = r2
    NoKey = NoKey
    Jobs = {j1, j2}
    Work = {w1, w2}
    Orphans = {}
    Runners = {r1, r2}
    Batch = 1
    Lease = 1
    MaxAttempts = 3
    RetryBase = 1
    RetryCap = 2
    ShiftLimit = 12
    Delays = {0}
    MaxFaults = 1
SPECIFICATION FairSpec
PROPERTIES
    ExpiredLeaseReleased
