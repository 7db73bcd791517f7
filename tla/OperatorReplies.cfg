\* A voice note and a template, other sends beside them; budgets of one send
\* per shop and two for the platform, over three windows; two webhook requests
\* at a time about the message of the first send; one fault.
CONSTANTS
    note = note
    template = template
    other = other
    shopA = shopA
    shopB = shopB
    shopC = shopC
    h1 = h1
    h2 = h2
    Messages = {note, template}
    Replies = {note}
    Media = {note}
    Handlers = {h1, h2}
    MaxFaults = 1
    Callers = {note, template, other}
    Shops = {shopA, shopB, shopC}
    ShopOf <- MCShopOf
    PerShop = 1
    Global = 2
    Platform = Platform
    MaxWindow = 2
    MaxCalls = 3
    MaxLost = 1
    MaxSends = 2
    MaxAsked = 1
SYMMETRY RequestsAlike
SPECIFICATION RepliesSpec
INVARIANTS
    QuotaHolds
    PlatformCountsSends
    FurthestStatusShown
    FurthestStatusStamped
PROPERTIES
    RegressesOnlyInARace
CHECK_DEADLOCK FALSE
