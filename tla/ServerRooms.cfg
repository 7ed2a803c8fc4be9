SPECIFICATION FairServerSpec
CONSTANTS
    c1 = c1
    c2 = c2
    c3 = c3
    u1 = u1
    u2 = u2
    r1 = r1
    r2 = r2
    Rooms = {r1, r2}
    Users = {u1, u2}
    Conns = {c1, c2}
    SeatCount = 1
    MaxSeq = 1
    None = None
    Logins <- TwoRooms
    Buffer = 1
    Unresponsive = {}
PROPERTIES
    LastRoomIsReleased
CHECK_DEADLOCK FALSE
