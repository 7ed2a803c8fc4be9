SPECIFICATION FairSpec
CONSTANTS
    Conns = {c1}
    Rooms = {r1, r2}
    Unresponsive = {r2}
    Buffer = 1
    MaxIncoming = 2
    MaxEvents = 1
    None = None
INVARIANTS
    TypeOK
    NothingAfterDisconnect
PROPERTIES
    EndIsNoticed
    LastRoomIsTold
    RequestsAreHandled
CHECK_DEADLOCK FALSE
