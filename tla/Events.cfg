SPECIFICATION NumberedSpec
CONSTANTS
    Rooms = {r1}
    Users = {u1, u2}
    Conns = {c1, c2}
    SeatCount = 2
    MaxSeq = 11
    OtherShare = 2
    None = None
    Gateway = Gateway
    Manager = Manager
SYMMETRY Symmetry
INVARIANTS
    NumberedTypeOK
    FramesInOrder
    NumberNamesEvent
    SameNumberSameTable
    FramesTellTheTable
CHECK_DEADLOCK FALSE
