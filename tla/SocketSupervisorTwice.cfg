\* One change of token.
CONSTANTS
    s1 = s1
    t1 = t1
    t2 = t2
    l1 = l1
    l2 = l2
    l3 = l3
    l4 = l4
    None = None
    Shops = {s1}
    Tokens = {t1, t2}
    Loops = {l1, l2, l3}
    MaxChanges = 1
SPECIFICATION Spec
CHECK_DEADLOCK FALSE
INVARIANTS
    OneConnectionPerShop
