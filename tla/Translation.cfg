SPECIFICATION Spec
CONSTANTS
    Seats = {"East", "South"}
    Tiles = {"W1"}
    Consumed <- FewConsumed
    SourceSeqs = {0, 1}
    MaxSeq = 3
INVARIANTS
    TypeOK
    CandidateDecides
    ContextsAgree
    JudgedAsOfNow
    TwoWaysToWinAgree
    NoWinWithoutHand
