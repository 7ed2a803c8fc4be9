SPECIFICATION Spec
CONSTANTS
    Rooms = {r1}
    Users = {u1, u2, u3, u4}
    Conns = {c1, c2, c3}
    SeatCount = 3
    MaxSeq = 3
    None = None
SYMMETRY Symmetry
INVARIANTS
    TypeOK
    SeatIndexAgrees
    RouteEndsAtOwnSeat
    BindingConsistent
    DealingIffAllReady
    ViewsCurrent
    AwaitingIsRouted
PROPERTIES
    SeatingIsPermanent
    OnlyOwnDisconnect
    ImplementsSeatTable
