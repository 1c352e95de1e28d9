SPECIFICATION Spec
CONSTANTS
    m1 = m1
    m2 = m2
    m3 = m3
    p1 = p1
    Blocks = {1, 2}
    SpawnMonsters = {m1, m2, m3}
    Interval = 1
    Rate = 1
    r1 = r1
    r2 = r2
    r3 = r3
    RaidName = {r1, r2, r3}
    Length <- MCLength
    Repeat = {r1, r3}
    Reloads = 2
    None = None
    Players = {p1}
    Monsters = {m1, m2}
    Ground = {0, 1, 2, 3}
    Sight = 1
    View = 2
    Leash = 2
    Homes <- MCHomes
    Doors <- MCDoors
    Orders <- MCOrders
    Radius = 2
    MaxDeeds = 3
    Residents <- MCResidents
    Owners = {p1, m1}
INVARIANTS OneAtATime CreaturesAgree
PROPERTY BlocksServed
CHECK_DEADLOCK FALSE
