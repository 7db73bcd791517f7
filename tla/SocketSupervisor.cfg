\* One shop, two tokens, three changes: safety, connection and shutdown.
CONSTANTS
    s1 = s1
    t1 = t1
    t2 = t2
    l1 = l1
    l2 = l2
    l3 = l3
    l4 = l4
    None = None
    Shops = {s1}
    Tokens = {t1, t2}
    Loops = {l1, l2, l3, l4}
    MaxChanges = 3
SPECIFICATION FairSpec
CHECK_DEADLOCK FALSE
INVARIANTS
    EntriesAreLive
PROPERTIES
    ConnectedInTheEnd
    ShutdownEndsAll
