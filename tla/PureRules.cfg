\* Four minutes a day in two hours, two zones beside UTC; texts of six pieces.
CONSTANTS
    MinutesPerHour = 2
    HoursPerDay = 2
    Zones = {"UTC", "Africa/Tunis", "Pacific/Midway"}
    Offset <- ZoneOffset
    Chips = {"customer_name", "order_id", "driver_name"}
    DriverChips = {"driver_name"}
    Legacy <- LegacyOrder
    Dash = "dash"
    MaxPieces = 6
SPECIFICATION PureSpec
INVARIANTS
    FiresWhenAsked
    EditRoundTrip
    MessageShowsChips
