SPECIFICATION MCSpec
CONSTANTS
    Things <- MCThings
    KindOf <- MCKindOf
    Beasts = {"c1", "c2"}
    StackLimit = 4
    KnownLimit = 1
    MaxSkip = 2
    Heights = {6, 7, 8}
    Walks <- MCWalks
    Rows <- MCRows
    ViewSteps = 4
    Fights <- MCFights
    FightMaxHp = 1
    FightMaxMp = 1
    MonsterExp = 5
    KillsToRed = 2
    CondGroups <- MCGroups
    CondMaxNow = 3
    CondMaxOps = 3
    CondMaxHp = 2
    CondBases <- MCBases
INVARIANTS
    ViewSafe
    FightsSafe
    EffectsSafe
PROPERTY
    RelogKeeps
CHECK_DEADLOCK FALSE
