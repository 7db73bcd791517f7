\* Two shops that watch one barcode and connect twice between them: a sweep and
\* a socket event, and three upsets among saves, carrier moves and a fault.
CONSTANTS
    shopA = shopA
    shopB = shopB
    b1 = b1
    o1 = o1
    s1 = s1
    onroad = onroad
    delivered = delivered
    NoStatus = NoStatus
    Removed = Removed
    Shops = {shopA, shopB}
    Barcodes = {b1}
    Pollers = {o1}
    Sockets = {s1}
    Statuses = {onroad, delivered}
    Terminal = {delivered}
    Misses = 2
    MaxMoves = 2
    MaxSaves = 2
    MaxFaults = 1
    MaxUpsets = 3
SPECIFICATION FairSpec
INVARIANTS
    ReportOwed
PROPERTIES
    CourierKept
    FollowsCarrier
