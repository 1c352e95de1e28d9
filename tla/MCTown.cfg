SPECIFICATION MCSpec
CONSTANTS
    Talkers = {"a", "b"}
    Premium = {"a"}
    GuildRow <- MCRow
    GuildIds = {"g"}
    PartyAddresses = {"x"}
    NormalChannels = {3}
    PrivateSlots = {100}
    MaxBuffer = 0
    ChatSteps = 9
    Tenants = {"a", "b"}
    Belongings = {"chair"}
    Rent = 2
    Savings = 3
    MaxWarnings = 1
    Period = 1
    HouseMaxDay = 3
    HouseSteps = 5
    PortPlans <- MCPlans
    NetErrors = 1
    BanChecks = 4
    StatusTimeout = 4
    DayLength = 4
    PremiumDays = 3
    PremiumLogins = 5
    BlockMax = 20
    i1 = i1
    i2 = i2
    EnvMax = 3
    DeepCalls = FALSE
    Created = {i1, i2}
    TimerIds = {1, 2}
    ScriptSteps = 5
    EventFiles <- MCFiles
    ThinkEvents <- MCThink
    GlobMaxNow = 7
    GlobReloads = 2
    SpellBooks <- MCBooks
    SpellFlags <- MCFlags
    StartMana = 5
    StartSoul = 3
    StartCharges = 2
    StartReagents = 1
    StartAmmo = 2
    CreatureCost = 2
    SpellMaxNow = 2
    SpellMaxDone = 3
    Rows <- MCRows
    ExpGains = {90, 3000}
    TryGains = {60, 300}
    ManaGains = {50, 1300}
    LosePercent <- MCLose
    ProgressSteps = 3
    Width = 4
    Places <- MCPlaces
    Steep = {3}
    StepTime = 2
    UseTime = 3
    PlanTime = 1
    PushTime = 2
    Sprites = {"lever", "rope"}
    Asked <- MCAsked
    WalkMaxNow = 5
    WalkMaxOps = 3
    Purses <- MCPurses
    PurseRoom = 3
    Amounts = {1, 50, 99, 100, 101, 250, 9950, 10001}
    PurseOps = 3
    SpotKinds <- MCSpots
    SpotOps = 4
    NoteOps = 6
    SqlErrors = 2
    LostLinks = 2
    LoginReads = 2
    SavedThings = {"bag", "box", "coin", "rune", "vial", "parcel"}
    ThingKind <- MCKind
    ThingAttrs <- MCAttrs
    Layouts <- MCLayouts
    HoldOps = 4
    EquipSlots = {"ring", "feet"}
    ItemKinds <- MCItemKinds
    Goods <- MCGoods
    Present <- MCPresent
    Buckets = 4
    WornOps = 5
    WornTicks = 10
    TileItems <- MCTiles
    Registered <- MCOrders
INVARIANTS
    ServerAgrees
    ScriptsAgree
    ChatAgrees
    HouseAgrees
    SpellsSafe
    ProgressSafe
    WalkAgrees
    PlacesSafe
    SaveIsWhole
    RestoredSafe
    WornSafe
PROPERTY
    ProgressAddsUp
CHECK_DEADLOCK FALSE
