SPECIFICATION FairSpec
CONSTANTS
    r1 = r1
    r2 = r2
    r3 = r3
    s1 = s1
    s2 = s2
    Rooms = {r1, r2, r3}
    Sessions = {s1, s2}
    Visits <- PastTheStuckRoom
    Buffer = 1
    CallLimit = 2
    Unresponsive = {r3}
    Nobody = Nobody
PROPERTIES
    StuckRoomHarmsOnlyItself
