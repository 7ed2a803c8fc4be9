CONSTANTS
    Seats = {"East", "South", "West", "North"}
    Tiles = {"1m", "2m"}
    Requests <- MCRequests
    Fans = {8, 13}
SPECIFICATION Spec
INVARIANTS SettlesToZero TilesAreKept
