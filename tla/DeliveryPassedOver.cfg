\* Two shops that watch one barcode with one connection.
CONSTANTS
    shopA = shopA
    shopB = shopB
    b1 = b1
    o1 = o1
    s1 = s1
    onroad = onroad
    delivered = delivered
    NoStatus = NoStatus
    Removed = Removed
    Shops = {shopA, shopB}
    Barcodes = {b1}
    Pollers = {o1}
    Sockets = {}
    Statuses = {onroad, delivered}
    Terminal = {delivered}
    Misses = 1
    MaxMoves = 0
    MaxSaves = 1
    MaxFaults = 0
    MaxUpsets = 1
SPECIFICATION FairSpec
PROPERTIES
    EveryParcelPolled
