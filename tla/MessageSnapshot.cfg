\* Two chips in texts of six pieces, so that a chip can be repeated between them.
CONSTANTS
    MinutesPerHour = 2
    HoursPerDay = 2
    Zones = {"UTC", "Africa/Tunis", "Pacific/Midway"}
    Offset <- ZoneOffset
    Chips = {"customer_name", "order_id"}
    DriverChips = {}
    Legacy <- LegacyOrder
    Dash = "dash"
    MaxPieces = 6
SPECIFICATION PureSpec
INVARIANTS
    SnapshotIsMessage
