SPECIFICATION MCSpec
CONSTANTS
    p1 = p1
    p2 = p2
    p3 = p3
    party1 = party1
    party2 = party2
    Players = {p1, p2, p3}
    Parties = {party1, party2}
    GridW = 4
    GridH = 3
    Scenes <- MCScenes
    NodeLimit = 9
    ClosedLimit = 8
    Offsets <- MCOffsets
    CacheR = 1
    PathOps = 3
    Span = 2
    FreeTiles <- MCFree
    Preys <- MCPreys
    Blocks <- MCBlocks
    Round = 2
    MeleePause = 3
    ChallengeTime = 4
    MonsterChangeSpeed = 4
    HuntMaxNow = 8
INVARIANTS
    LinkInv
    SharedWithFit
    WaysSafe
SYMMETRY MCSymmetry
CHECK_DEADLOCK FALSE
