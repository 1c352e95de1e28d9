SPECIFICATION MCSpec
CONSTANTS
    p1 = p1
    p2 = p2
    p3 = p3
    sword = sword
    bag = bag
    bag2 = bag2
    coins1 = coins1
    coins2 = coins2
    t0 = t0
    t1 = t1
    t3 = t3
    Players = {p1, p2, p3}
    Things = {sword}
    Bags = {bag, bag2}
    Coins = {coins1, coins2}
    Tiles = {t0, t1, t3}
    Coord <- MCCoord
    Capacity <- MCCapacity
    MaxStack = 2
    MaxTradeItems = 3
    MaxMoves = 3
    Tight = TRUE
PROPERTY SafeTrade
SYMMETRY MCSymmetry
