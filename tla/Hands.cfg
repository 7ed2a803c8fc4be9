SPECIFICATION Spec
CHECK_DEADLOCK FALSE
CONSTANTS
    Suits = 2
    Ranks = 4
    Honours = 1
    Melds = 0
    Left <- LeftOver
INVARIANTS
    JudgedRight
    EveryWayIsCounted
