\* One template, one trigger; two requests about templates.
CONSTANTS
    t1 = t1
    r1 = r1
    r2 = r2
    a1 = a1
    a2 = a2
    g1 = g1
    NoTemplate = NoTemplate
    Templates = {t1}
    Requests = {r1, r2}
    RuleIds = {a1}
    Triggers = {g1}
    Grace = 1
    MaxAttempts = 1
    MaxTime = 2
    MaxFaults = 1
SPECIFICATION CatalogueSpec
SYMMETRY CatalogueSymmetry
INVARIANTS
    TypeOK
    NegativeHasClock
    AttachedIsKept
PROPERTIES
    PurgeAfterWindow
    WindowKept
