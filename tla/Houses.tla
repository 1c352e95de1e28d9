------------------------------- MODULE Houses -------------------------------
(* A house with a door, a bed and things in it (house.cpp, housetile.cpp,      *)
(* bed.cpp), its rows in the database (iomapserialize.cpp, Map::save), its     *)
(* rent, and the depots its things are sent to (the part of iologindata.cpp    *)
(* that keeps them). Texts of access lists are the sets of players they name.  *)
(* Offline players are loaded, changed and saved within one step.              *)
EXTENDS Integers, Sequences, FiniteSets

CONSTANTS Tenants,       \* players, all premium
          Belongings,    \* items that lie in the house at first
          Rent, Savings, \* House::rent and the bank balance of a player at first
          MaxWarnings,   \* 7 in payHouses
          Period,        \* of rent, in days
          HouseMaxDay, HouseSteps     \* bounds

VARIABLES hs,            \* the game: house, players in the game, open windows
          db,            \* the database
          hSteps

houseVars == <<hs, db, hSteps>>
NoOne == "no one"
Lists == {"guest", "sub", "door"}

ASSUME HouseAssumption ==
    /\ NoOne \notin Tenants
    /\ Rent \in Nat /\ Savings \in Nat /\ Period \in Nat /\ MaxWarnings \in Nat

-----------------------------------------------------------------------------
(* The database: rows of players, and of the house *)
LoadTenant(d, p) == [bank |-> d.row[p].bank, at |-> d.row[p].at, depot |-> d.row[p].depot, opened |-> FALSE]
(* depots are only written when the player has opened one since the login *)
SaveTenant(d, p, c) ==
    [d EXCEPT !.row[p] = [bank |-> c.bank, at |-> c.at, depot |-> IF c.opened THEN c.depot ELSE @.depot]]

SaveHouseInfo(h, d) == [d EXCEPT !.owner = h.owner, !.paid = h.paid, !.warn = h.warn, !.lists = h.lists]
SaveTile(h) == [things |-> h.tile, bed |-> h.bed]
SaveHouseItems(h, d) == [d EXCEPT !.tile = SaveTile(h)]
(* Map::save: three tries each, and items only after the rest *)
SaveMap(h, d, info, items) ==
    IF ~info THEN d ELSE IF items THEN SaveHouseItems(h, SaveHouseInfo(h, d)) ELSE SaveHouseInfo(h, d)

(* loadHousesXML, loadHouseInfo, loadHouseItems into a game without players *)
LoadHouseInfo(h, d) == [h EXCEPT !.owner = d.owner, !.paid = d.paid, !.warn = d.warn, !.lists = d.lists]
ReadBed(h, sleeper) == [h EXCEPT !.bed = sleeper, !.bedMap = {sleeper} \ {NoOne}]
LoadHouseItems(h, d) == ReadBed([h EXCEPT !.tile = d.tile.things], d.tile.bed)
LoadHouse(h, d) ==
    [LoadHouseItems(LoadHouseInfo(h, d), d) EXCEPT
        !.on = {}, !.mem = [p \in {} |-> LoadTenant(d, p)], !.edit = [p \in Tenants |-> NoOne], !.doc = NoOne, !.kick = {}]

-----------------------------------------------------------------------------
(* Access *)
IsInList(h, list, p) == p \in h.lists[list]
AccessLevel(h, p) ==
    IF p = NoOne \/ p = h.owner THEN 3
    ELSE IF IsInList(h, "sub", p) THEN 2 ELSE IF IsInList(h, "guest", p) THEN 1 ELSE 0
IsWelcome(h, p) == AccessLevel(h, p) # 0
CanEditAccessList(h, list, p) == AccessLevel(h, p) = 3 \/ (AccessLevel(h, p) = 2 /\ list = "guest")
Inside(h) == {p \in h.on : h.mem[p].at = "in"}

(* nobody, nullptr in the code, may put out anyone *)
PutOut(h, p, ts) ==
    LET out == {t \in ts \cap Inside(h) : AccessLevel(h, p) >= AccessLevel(h, t)}
    IN  [h EXCEPT !.mem = [t \in h.on |-> IF t \in out THEN [@[t] EXCEPT !.at = "out"] ELSE @[t]]]

SetListOnly(h, list, names) == [h EXCEPT !.lists[list] = names]          \* a variant: nobody is put out
SetAccessList(h, list, names) ==
    LET g == [h EXCEPT !.lists[list] = names]
    IN  IF list = "door" THEN g ELSE PutOut(g, NoOne, {t \in Inside(g) : ~IsWelcome(g, t)})

-----------------------------------------------------------------------------
(* Beds *)
InternalSleep(h, p) == [h EXCEPT !.bed = p, !.bedMap = @ \cup {p}, !.mem[p].at = "in", !.kick = @ \cup {p}]
WakeUp(h) == [h EXCEPT !.bedMap = @ \ {h.bed}, !.bed = NoOne]

-----------------------------------------------------------------------------
(* Changing hands. copy is the owner as payHouses has loaded it, or None; the  *)
(* result has the game, the database and the copy.                             *)
NoCopy == [bank |-> -1, at |-> "out", depot |-> {}, opened |-> FALSE]

TransferToDepot(h, d, copy) ==
    LET o == h.owner
        tmp == LoadTenant(d, o)
    IN  IF copy # NoCopy THEN [h |-> [h EXCEPT !.tile = {}], d |-> d, copy |-> [copy EXCEPT !.depot = @ \cup h.tile]]
        ELSE IF o \in h.on THEN [h |-> [h EXCEPT !.tile = {}, !.mem[o].depot = @ \cup h.tile], d |-> d, copy |-> copy]
        ELSE [h |-> [h EXCEPT !.tile = {}], copy |-> copy,
              d |-> SaveTenant(d, o, [tmp EXCEPT !.depot = @ \cup h.tile])]

Vacate(h) ==
    LET g == WakeUp(PutOut(h, NoOne, Tenants))
    IN  [g EXCEPT !.owner = NoOne, !.lists = [l \in Lists |-> {}], !.paid = 0, !.warn = 0, !.charged = 0]

SetOwner(h, d, p, copy) ==
    LET d1 == IF h.owner = p THEN d ELSE [d EXCEPT !.owner = p]
        t  == TransferToDepot(h, d1, copy)
        e  == IF h.owner = NoOne THEN [h |-> h, d |-> d1, copy |-> copy] ELSE [t EXCEPT !.h = Vacate(t.h)]
    IN  IF h.owner = p THEN [h |-> h, d |-> d1, copy |-> copy] ELSE [e EXCEPT !.h.owner = p]

(* Houses::payHouses, at every start *)
PayHouses(h, d) ==
    LET o == h.owner
        c == LoadTenant(d, o)
        evicted == SetOwner(h, d, NoOne, c)
    IN  IF o = NoOne \/ h.paid > h.day THEN [h |-> h, d |-> d]
        ELSE IF c.bank >= Rent
        THEN [h |-> [h EXCEPT !.paid = h.day + Period, !.charged = h.day + Period],
              d |-> SaveTenant(d, o, [c EXCEPT !.bank = @ - Rent])]
        ELSE IF h.warn < MaxWarnings
        THEN [h |-> [h EXCEPT !.warn = @ + 1], d |-> SaveTenant(d, o, [c EXCEPT !.depot = @ \cup {"letter"}])]
        ELSE [h |-> evicted.h, d |-> SaveTenant(evicted.d, o, evicted.copy)]

-----------------------------------------------------------------------------
Fresh == [owner |-> NoOne, lists |-> [l \in Lists |-> {}], paid |-> 0, warn |-> 0, tile |-> {}, bed |-> NoOne,
          bedMap |-> {}, on |-> {}, mem |-> [p \in {} |-> NoCopy],
          edit |-> [p \in Tenants |-> NoOne], doc |-> NoOne, kick |-> {}, day |-> 0,
          charged |-> 0, unsaved |-> FALSE]      \* what the owner has paid for; whether a stop lost the map

(* guests may have logged out anywhere *)
HouseInit ==
    /\ \E o \in Tenants \cup {NoOne} : \E guests \in SUBSET (Tenants \ {o}), at \in [Tenants -> {"in", "out"}] :
          /\ o = NoOne => guests = {}
          /\ db = [row |-> [p \in Tenants |-> [bank |-> Savings, at |-> at[p], depot |-> {}]], owner |-> o, paid |-> 1,
                   warn |-> 0, lists |-> [l \in Lists |-> IF l = "guest" THEN guests ELSE {}],
                   tile |-> [things |-> Belongings, bed |-> NoOne]]
    /\ hs = LoadHouse([Fresh EXCEPT !.charged = 1], db)
    /\ hSteps = HouseSteps

HouseStep(h, d) == hSteps > 0 /\ hSteps' = hSteps - 1 /\ hs' = h /\ db' = d
Acts(p) == p \in hs.on /\ p \notin hs.kick          \* the action delay is longer than the kick's

(* Player::onCreatureAppear; a tile of a house sends the uninvited to the entry *)
EnterGame(p) ==
    /\ p \notin hs.on
    /\ LET c == [LoadTenant(db, p) EXCEPT !.at = IF IsWelcome(hs, p) THEN @ ELSE "out"]
           h == [hs EXCEPT !.on = @ \cup {p}, !.mem = [q \in hs.on \cup {p} |-> IF q = p THEN c ELSE hs.mem[q]]]
       IN  HouseStep(IF p \in h.bedMap THEN WakeUp(h) ELSE h, db)

(* Player::onRemoveCreature; a trade of the document is closed *)
QuitGame(p) ==
    [h |-> [hs EXCEPT !.on = @ \ {p}, !.mem = [q \in hs.on \ {p} |-> hs.mem[q]], !.kick = @ \ {p},
                      !.edit[p] = NoOne, !.doc = NoOne],
     d |-> SaveTenant(db, p, hs.mem[p])]
LeaveGame(p) == p \in hs.on /\ HouseStep(QuitGame(p).h, QuitGame(p).d)

WalkIn(p) == Acts(p) /\ hs.mem[p].at = "out" /\ IsWelcome(hs, p) /\ HouseStep([hs EXCEPT !.mem[p].at = "in"], db)
WalkOut(p) == Acts(p) /\ hs.mem[p].at = "in" /\ HouseStep([hs EXCEPT !.mem[p].at = "out"], db)

(* the spells open a window; the rights are not looked at again when it closes *)
EditList(p, list) ==
    Acts(p) /\ hs.mem[p].at = "in" /\ CanEditAccessList(hs, list, p) /\ HouseStep([hs EXCEPT !.edit[p] = list], db)
UpdateHouseWindow(p, names) ==
    /\ Acts(p) /\ hs.edit[p] # NoOne
    /\ HouseStep(SetAccessList([hs EXCEPT !.edit[p] = NoOne], hs.edit[p], names), db)
KickPlayer(p, t) == Acts(p) /\ p # t /\ t \in Inside(hs) /\ HouseStep(PutOut(hs, p, {t}), db)

(* canUse lets the owner take a bed with a sleeper, sleep does not *)
UseBed(p) == Acts(p) /\ hs.bed = NoOne /\ HouseStep(InternalSleep(hs, p), db)

OpenDepot(p) == Acts(p) /\ hs.mem[p].at = "out" /\ ~hs.mem[p].opened /\ HouseStep([hs EXCEPT !.mem[p].opened = TRUE], db)
Furnish(p, i) ==
    /\ Acts(p) /\ i \in hs.mem[p].depot /\ hs.mem[p].opened /\ IsWelcome(hs, p)
    /\ HouseStep([hs EXCEPT !.mem[p].depot = @ \ {i}, !.tile = @ \cup {i}], db)

(* the scripts !buyhouse, !leavehouse and /owner *)
ChangeOwner(p) == LET r == SetOwner(hs, db, p, NoCopy) IN HouseStep([r.h EXCEPT !.charged = 0], r.d)
BuyHouse(p) == Acts(p) /\ hs.owner = NoOne /\ ChangeOwner(p)
LeaveHouse(p) == Acts(p) /\ hs.owner = p /\ hs.mem[p].at = "in" /\ ChangeOwner(NoOne)
AssignOwner(p) == hs.owner # p /\ ChangeOwner(p)

(* Commands::sellHouse and HouseTransferItem::onTradeEvent. doc is the buyer.  *)
SellHouse(p, q) ==
    /\ Acts(p) /\ q \in hs.on \ {p} /\ hs.mem[p].at = "in" /\ hs.owner = p /\ hs.doc = NoOne
    /\ HouseStep([hs EXCEPT !.doc = q], db)
AcceptDocument ==
    hs.doc # NoOne /\ LET r == SetOwner(hs, db, hs.doc, NoCopy) IN HouseStep([r.h EXCEPT !.doc = NoOne, !.charged = 0], r.d)
CancelDocument == hs.doc # NoOne /\ HouseStep([hs EXCEPT !.doc = NoOne], db)

Save(info, items) == HouseStep(hs, SaveMap(hs, db, info, items))

(* The server starts: houses are loaded, then the rent is due. A stop saves    *)
(* every player and the map; a crash saves nothing.                            *)
StartUp(h, d) == LET r == PayHouses(LoadHouse(h, d), d) IN HouseStep(r.h, r.d)
StopAndStart(info, items) ==
    LET d1 == [db EXCEPT !.row = [p \in Tenants |-> IF p \in hs.on THEN SaveTenant(db, p, hs.mem[p]).row[p] ELSE db.row[p]]]
    IN  hs.kick = {} /\ StartUp([hs EXCEPT !.unsaved = @ \/ ~info], SaveMap(hs, d1, info, items))
CrashAndStart == StartUp([hs EXCEPT !.unsaved = TRUE], db)
NewDay == hs.day < HouseMaxDay /\ HouseStep([hs EXCEPT !.day = @ + 1], db)

HouseNext ==
    \/ CrashAndStart \/ NewDay \/ AcceptDocument \/ CancelDocument
    \/ \E info, items \in BOOLEAN : Save(info, items) \/ StopAndStart(info, items)
    \/ \E p \in Tenants :
          \/ EnterGame(p) \/ LeaveGame(p) \/ WalkIn(p) \/ WalkOut(p) \/ UseBed(p) \/ OpenDepot(p)
          \/ BuyHouse(p) \/ LeaveHouse(p) \/ AssignOwner(p)
          \/ \E q \in Tenants : KickPlayer(p, q) \/ SellHouse(p, q)
          \/ \E list \in Lists : EditList(p, list)
          \/ \E names \in SUBSET Tenants : UpdateHouseWindow(p, names)
          \/ \E i \in Belongings : Furnish(p, i)

HouseSpec == HouseInit /\ [][HouseNext]_houseVars

-----------------------------------------------------------------------------
(* Whoever is in the house, but for a sleeper about to be logged out, is       *)
(* welcome there, however lists and owner changed (setAccessList and setOwner  *)
(* put out those who are not); the map of sleepers and the bed name the same   *)
(* player, through every restart; and as long as no stop lost the map, the     *)
(* house knows what was paid for it.                                           *)
HouseAgrees ==
    /\ \A p \in Inside(hs) \ hs.kick : IsWelcome(hs, p)
    /\ hs.bedMap = {hs.bed} \ {NoOne}
    /\ ~hs.unsaved => hs.paid >= hs.charged
=============================================================================
