SPECIFICATION ItemsSpec
CONSTANTS
    backpack = backpack
    bag = bag
    coins1 = coins1
    coins2 = coins2
    coins3 = coins3
    shield = shield
    axe = axe
    halberd = halberd
    ground = ground
    hole = hole
    Player = player
    Bags = {backpack, bag}
    Stacks = {coins1, coins2, coins3}
    Things = {shield, axe, halberd}
    Tiles = {ground, hole}
    Home = ground
    TwoHanded = {halberd}
    Below <- MCBelow
    Capacity <- MCCapacity
    Weight <- MCWeight
    SlotPosition <- MCSlotPosition
    WeaponType <- MCWeaponType
    MaxWeight = 8
    MaxStack = 2
    Starts <- MCStarts
INVARIANT ItemsAgree
SYMMETRY MCSymmetry
CHECK_DEADLOCK FALSE
