SPECIFICATION Spec
CONSTANTS
    r1 = r1
    r2 = r2
    r3 = r3
    s1 = s1
    s2 = s2
    Rooms = {r1, r2}
    Sessions = {s1, s2, s3}
    Visits <- Anywhere
    Buffer = 1
    CallLimit = 1
    Unresponsive = {r2}
    Nobody = Nobody
SYMMETRY Symmetry
INVARIANTS
    TypeOK
    OneTaskPerRoom
    SendersArePublished
PROPERTIES
    ImplementsDirectory
