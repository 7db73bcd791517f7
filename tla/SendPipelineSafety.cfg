\* One key, a worker, and two handlers on the same event: every race of the
\* queued, the inline and the retried send, with a fault anywhere.
CONSTANTS
    k1 = k1
    k2 = k2
    w1 = w1
    w2 = w2
    c1 = c1
    c2 = c2
    Keys = {k1}
    Workers = {w1}
    Callers = {c1, c2}
    MaxAttempts = 2
    MaxFaults = 1
SPECIFICATION Spec
SYMMETRY PipelineSymmetry
INVARIANTS
    AtMostOneAccepted
    LedgerHonest
    IInv
    PauseStopsQueuedSends
PROPERTIES
    HeldBackNotForgotten
