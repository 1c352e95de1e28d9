-------------------------------- MODULE Items --------------------------------
(***************************************************************************)
(* Where items are, and how Game moves, adds and removes them.             *)
(*                                                                         *)
(* Every item lies in a cylinder: a tile, a container or one of the        *)
(* inventory slots of a player.  The item points at its cylinder (parent), *)
(* the cylinder holds the item in a list or a slot, containers cache the   *)
(* weight of what they hold and the player the weight of what he carries.  *)
(* Game::internalMoveItem, internalAddItem, internalPlayerAddItem and      *)
(* internalRemoveItem ask the cylinders (queryDestination, queryAdd,       *)
(* queryMaxCount, queryRemove) and then change them (removeThing,          *)
(* updateThing, addThing) in several steps; each runs to its end in one    *)
(* task of the dispatcher and is one action here.                          *)
(*                                                                         *)
(* One player, with his slots; tiles, one of which may be a hole that      *)
(* passes items on; items that are moveable and pickupable, neither        *)
(* hangable nor fields nor always on top.  The stackable items are all of  *)
(* one type.  The objects of Stacks that are nowhere are free memory: a    *)
(* clone takes one of them.  An offered item (Player::tradeItem) is chosen *)
(* and dropped freely; module Trade says when.                             *)
(***************************************************************************)
EXTENDS Integers, Sequences, FiniteSets, FiniteSetsExt, SequencesExt

CONSTANTS
    Bags,         \* the containers
    Stacks,       \* objects of the stackable item type
    Things,       \* the other items
    Tiles,
    Player,
    Below,        \* [Tiles -> Tiles]: where Tile::queryDestination leads
    Home,         \* the tile the player stands on
    Capacity,     \* [Bags -> Nat]: Container::capacity
    Weight,       \* [Items -> Nat]: the base weight
    SlotPosition, \* [Items -> SUBSET SlotSet]
    TwoHanded,    \* the items that need both hands
    WeaponType,   \* [Items -> {"none", "shield", "ammo", "weapon"}]
    MaxWeight,    \* the player's capacity
    MaxStack,     \* 100 in the code
    Starts        \* the states a run begins in

Items == Bags \cup Stacks \cup Things
Nowhere == "nowhere"
None == "none"

\* The slots, in the order of the enumeration.  The slots for clothes, the ring
\* and the necklace are filled by the same rule as the backpack's.
BackpackSlot == 3
RightSlot == 5
LeftSlot == 6
AmmoSlot == 10
Slots == <<BackpackSlot, RightSlot, LeftSlot, AmmoSlot>>
SlotSet == Range(Slots)

Wherever == -1 \* INDEX_WHEREEVER, and slot 0 of the player
MoveUp == 254
MAP_MAX_LAYERS == 16

\* The two ways in which the code leaves its own rules, see AddThing, OfferedPlace
\* and AddItemAt: a container with more items than its capacity, and units
\* that were counted in but found no place.
Faults == {"overfull", "remainder"}

ASSUME ItemsAssumption ==
    /\ \A b \in Bags : Capacity[b] \in Nat \ {0}
    /\ \A i \in Items : SlotPosition[i] \cap {BackpackSlot, RightSlot, LeftSlot} # {}
    /\ MaxStack \in Nat \ {0}

VARIABLES
    world,     \* record: parent, list, inventory, count, total, carried
    tradeItem, \* the item the player offers, or None
    classic,   \* the configuration classicEquipmentSlots
    supply,    \* bound: the units and the items that can still be received
    minted,    \* ghost: the units of the stackable type that should exist
    made,      \* ghost: the other items that should exist
    faults     \* ghost: which of the faults in Faults has happened

itemsVars == <<world, tradeItem, classic, supply, minted, made, faults>>

Total(S, f(_)) == MapThenSumSet(f, S)
Repeat(f(_), x, n) == FoldLeft(LAMBDA y, k : f(y), x, [k \in 1..n |-> k])
-------------------------------------------------------------------------------
(* Item, Thing, Cylinder *)

\* Item::getParent, Cylinder::getParent, up to the tile: c and all above it.
Above(w, c) ==
    Repeat(LAMBDA S : S \cup {w.parent[b] : b \in S \cap Bags}, {c}, Cardinality(Bags))

\* getTopParent() == player
Carries(w, c) == Player \in Above(w, c)

\* Item::getWeight, Container::getWeight
GetWeight(w, i) ==
    IF i \in Stacks THEN Weight[i] * Max({1, w.count[i]})
    ELSE Weight[i] + (IF i \in Bags THEN w.total[i] ELSE 0)

\* Item::equals, for the stackable type
Equals(i, y) == i \in Stacks /\ y \in Stacks

\* getThingIndex of a list, counted from 0 as in the code.
ListIndex(s, i) == SelectInSeq(s, LAMBDA x : x = i) - 1
SlotOf(w, i) == CHOOSE s \in SlotSet : w.inventory[s] = i
GetThingIndex(w, c, i) == IF c = Player THEN SlotOf(w, i) ELSE ListIndex(w.list[c], i)

\* getItemByIndex, getTopDownItem, getInventoryItem
ItemAt(s, index) == IF index \in 0..(Len(s) - 1) THEN s[index + 1] ELSE None

\* Mutant of UpdateItemWeight: only this container.
UpdateOwnWeight(w, c, diff) ==
    [w EXCEPT !.total = [b \in Bags |-> IF b = c THEN @[b] + diff ELSE @[b]]]

\* Container::updateItemWeight: this container and those around it.
UpdateItemWeight(w, c, diff) ==
    [w EXCEPT !.total = [b \in Bags |-> IF b \in Above(w, c) THEN @[b] + diff ELSE @[b]]]

\* Player::updateInventoryWeight
InventoryWeight(w) ==
    Total({w.inventory[s] : s \in SlotSet} \ {None}, LAMBDA i : GetWeight(w, i))

\* postAddNotification and postRemoveNotification reach the player who carries
\* the cylinder, and he weighs his inventory again.
Notify(w, c) ==
    IF Carries(w, c) THEN [w EXCEPT !.carried = InventoryWeight(w)] ELSE w
-------------------------------------------------------------------------------
(* addThing, updateThing, removeThing *)

\* Container::addThing silently drops an item whose index is too large.
AddThing(w, c, index, i) ==
    IF c = Player
    THEN [w EXCEPT !.parent[i] = Player, !.inventory[index] = i]
    ELSE IF c \in Bags /\ index >= Capacity[c] THEN w
    ELSE LET w1 == [w EXCEPT !.parent[i] = c, !.list[c] = <<i>> \o @]
         IN  UpdateItemWeight(w1, c, GetWeight(w, i))

\* updateThing and removeThing change the count of a stack.
SetItemCount(w, c, i, n) ==
    LET w1 == [w EXCEPT !.count[i] = n]
    IN  UpdateItemWeight(w1, c, GetWeight(w1, i) - GetWeight(w, i))

RemoveWhole(w, c, i) ==
    LET w1 == UpdateItemWeight(w, c, 0 - GetWeight(w, i))
    IN  IF c = Player
        THEN [w1 EXCEPT !.parent[i] = Nowhere, !.inventory[SlotOf(w, i)] = None]
        ELSE [w1 EXCEPT !.parent[i] = Nowhere,
                        !.list[c] = RemoveAt(@, ListIndex(@, i) + 1)]

RemoveThing(w, c, i, n) ==
    IF i \in Stacks /\ n # w.count[i] THEN SetItemCount(w, c, i, Max({0, w.count[i] - n}))
    ELSE RemoveWhole(w, c, i)
-------------------------------------------------------------------------------
(* queryAdd, queryMaxCount, queryRemove *)

\* Player::hasCapacity: what is already carried weighs nothing more.
HasCapacity(w, i, n) ==
    \/ Carries(w, w.parent[i])
    \/ LET weight == IF i \in Stacks THEN Weight[i] * n ELSE GetWeight(w, i)
       IN  weight <= Max({0, MaxWeight - w.carried})

\* The rules of Player::queryAdd for a hand, given what the other one holds.
HandFitsClassic(w, i, n, other) ==
    \/ other = None
    \/ i \in TwoHanded /\ other = i
    \/ /\ i \notin TwoHanded /\ other \notin TwoHanded
       /\ \/ other = i /\ n = w.count[i]
          \/ /\ ~(WeaponType[other] = "shield" /\ WeaponType[i] = "shield")
             /\ {WeaponType[other], WeaponType[i]} \cap {"none", "shield", "ammo"} # {}

HandFits(w, i, n, slot) ==
    LET other == w.inventory[IF slot = RightSlot THEN LeftSlot ELSE RightSlot]
    IN  IF classic THEN HandFitsClassic(w, i, n, other)
        ELSE IF slot = RightSlot
        THEN WeaponType[i] = "shield" /\ (other = None \/ {other, i} \cap TwoHanded = {})
        ELSE WeaponType[i] \notin {"none", "shield"} /\ ~(other # None /\ i \in TwoHanded)

SlotFits(w, i, n, slot) ==
    CASE slot \in {RightSlot, LeftSlot} -> slot \in SlotPosition[i] /\ HandFits(w, i, n, slot)
      [] slot = AmmoSlot -> slot \in SlotPosition[i] \/ classic
      [] OTHER -> slot \in SlotPosition[i]

\* Player::queryAdd; "exchange" is RETURNVALUE_NEEDEXCHANGE.  A script that
\* forbids to equip an item (onPlayerEquip) is left out.
PlayerQueryAdd(w, slot, i, n) ==
    IF slot = Wherever \/ ~SlotFits(w, i, n, slot) THEN "error"
    ELSE IF w.inventory[slot] # None /\ ~Equals(i, w.inventory[slot]) THEN "exchange"
    ELSE IF HasCapacity(w, i, n) THEN "ok" ELSE "error"

\* Container::queryAdd: not into itself, not into a full one if no place is
\* named; the carrier of the outermost container looks at the weight only.
ContainerQueryAdd(w, b, index, i, n) ==
    IF \/ i \in Above(w, b)
       \/ index = Wherever /\ Len(w.list[b]) >= Capacity[b]
       \/ Carries(w, b) /\ ~HasCapacity(w, i, n)
    THEN "error" ELSE "ok"

\* Tile::queryAdd: the tiles have ground and nothing that blocks.
QueryAdd(w, c, index, i, n) ==
    CASE c = Player -> PlayerQueryAdd(w, index, i, n)
      [] c \in Bags -> ContainerQueryAdd(w, c, index, i, n)
      [] OTHER -> "ok"

Room(w, y) == MaxStack - w.count[y]

\* Container::queryMaxCount: free places, and room on the stacks.
ContainerMaxCount(w, b, index, i) ==
    LET free == Max({Capacity[b] - Len(w.list[b]), 0})
        stacks == {y \in IF index = Wherever THEN Range(w.list[b]) \ {i}
                         ELSE {ItemAt(w.list[b], index)} :
                      Equals(i, y) /\ ContainerQueryAdd(w, b, 0, i, Room(w, y)) = "ok"}
    IN  IF i \in Stacks THEN free * MaxStack + Total(stacks, LAMBDA y : Room(w, y))
        ELSE free

Unit(i) == IF i \in Stacks THEN MaxStack ELSE 1

\* All containers in the player's slots, breadth first: Player::queryMaxCount
\* and Player::queryDestination visit them in this order.
Containers(w, skip, skipInside) ==
    LET bags(s, out) == SelectSeq(s, LAMBDA x : x \in Bags \ out)
        own == bags([k \in DOMAIN Slots |-> w.inventory[Slots[k]]], skip)
        inside(level) ==
            FlattenSeq([k \in DOMAIN level |-> bags(w.list[level[k]], skipInside)])
        deeper(p) == LET next == inside(p.level)
                     IN  [all |-> p.all \o next, level |-> next]
    IN  Repeat(deeper, [all |-> own, level |-> own], Cardinality(Bags)).all

\* Player::queryMaxCount
SlotMaxCount(w, slot, i, n) ==
    LET y == w.inventory[slot]
    IN  IF y # None THEN (IF Equals(i, y) THEN Room(w, y) ELSE 0)
        ELSE IF PlayerQueryAdd(w, slot, i, n) = "ok" THEN Unit(i) ELSE 0

PlayerMaxCount(w, slot, i, n) ==
    IF slot # Wherever THEN SlotMaxCount(w, slot, i, n)
    ELSE LET room(s) ==
                 LET y == w.inventory[s]
                 IN  IF y # None /\ PlayerQueryAdd(w, s, i, Room(w, y)) # "ok" THEN 0
                     ELSE SlotMaxCount(w, s, i, w.count[i])
         IN  Total({s \in SlotSet : w.inventory[s] \notin Bags}, room)
             + Total(Range(Containers(w, {}, {})),
                     LAMBDA b : ContainerMaxCount(w, b, Wherever, i))

\* maxQueryCount; Tile::queryMaxCount takes everything.
MaxCount(w, c, index, i, n) ==
    CASE c = Player -> PlayerMaxCount(w, index, i, n)
      [] c \in Bags -> ContainerMaxCount(w, c, index, i)
      [] OTHER -> Max({1, n})

\* queryRemove of an item that is in its cylinder and moveable.
QueryRemove(w, i, n) == n > 0 /\ (i \in Stacks => n <= w.count[i])
-------------------------------------------------------------------------------
(* queryDestination: the cylinder, the index and the item to stack on *)

Place(c, index, to) == [cyl |-> c, index |-> index, to |-> to]

\* The first stack in a list with room for the item.
StackIn(w, s, i) ==
    SelectInSeq(s, LAMBDA y : y # i /\ Equals(i, y) /\ Room(w, y) > 0)

ContainerDestination(w, b, given, i) ==
    LET up == w.parent[b]
        index == IF given >= Capacity[b] THEN Wherever ELSE given
        stack == StackIn(w, w.list[b], i)
        y == ItemAt(w.list[b], index)
    IN  IF given = MoveUp THEN Place(IF up \in Bags THEN up ELSE b, Wherever, None)
        ELSE IF i \in Stacks /\ w.parent[i] # b /\ stack # 0
        THEN Place(b, stack - 1, w.list[b][stack])
        ELSE IF y \in Bags THEN Place(y, Wherever, None)
        ELSE Place(b, index, y)

\* Player::queryDestination for "drop to capacity window": the first slot that
\* takes the item, else the first container, breadth first; the offered item
\* and the item itself are passed over.
TakesSlot(w, s, i) ==
    LET y == w.inventory[s]
    IN  /\ y \notin {tradeItem, i} \ {None}
        /\ PlayerQueryAdd(w, s, i, w.count[i]) = "ok"
        /\ y # None => Equals(i, y) /\ Room(w, y) > 0

\* The first element of a sequence, or a default.
First(s, default) == IF s = <<>> THEN default ELSE Head(s)

NoPlace == Place(Player, Wherever, None)

\* The place a container offers, or none.  For a stack that finds no other to
\* join it is the number of items that were looked at.  Otherwise it is
\* capacity() - n for n = capacity() - size(), in unsigned arithmetic: for an
\* overfull container too, which then names a place beyond its end.
OfferedPlace(w, b, i, seen, stack) ==
    LET index == IF i \in Stacks THEN Len(seen) ELSE Len(w.list[b])
    IN  IF i \in Stacks /\ stack # 0 THEN Place(b, stack - 1, seen[stack])
        ELSE IF /\ IF i \in Stacks THEN index < Capacity[b] ELSE index # Capacity[b]
                /\ ContainerQueryAdd(w, b, index, i, w.count[i]) = "ok"
        THEN Place(b, index, None) ELSE NoPlace

OfferedPlaces(w, i, bags) ==
    LET seen(b) == SelectSeq(w.list[b], LAMBDA y : y \notin {tradeItem, i})
        offer(b) == OfferedPlace(w, b, i, seen(b), StackIn(w, seen(b), i))
    IN  SelectSeq([k \in DOMAIN bags |-> offer(bags[k])], LAMBDA p : p # NoPlace)

SearchInventory(w, i) ==
    LET slots == SelectSeq([k \in DOMAIN Slots |->
                               Place(Player, Slots[k], w.inventory[Slots[k]])],
                           LAMBDA p : TakesSlot(w, p.index, i))
        bags == Containers(w, {tradeItem, i}, IF i \in Stacks THEN {tradeItem} ELSE {})
    IN  First(slots, First(OfferedPlaces(w, i, bags), NoPlace))

PlayerDestination(w, slot, i) ==
    IF slot = Wherever THEN SearchInventory(w, i)
    ELSE IF w.inventory[slot] \in Bags THEN Place(w.inventory[slot], Wherever, None)
    ELSE Place(Player, slot, w.inventory[slot])

QueryDestination(w, c, index, i) ==
    CASE c = Player -> PlayerDestination(w, index, i)
      [] c \in Bags -> ContainerDestination(w, c, index, i)
      [] OTHER -> Place(Below[c], index, ItemAt(w.list[Below[c]], 0))

\* The loop at the head of internalMoveItem, at most MAP_MAX_LAYERS rounds: from
\* cylinder to cylinder until one names itself.
Settle(w, c, index, i) ==
    LET named(p, q) == [place |-> q, found |-> q.cyl = p.place.cyl]
        step(p) == IF p.found THEN p
                   ELSE named(p, QueryDestination(w, p.place.cyl, p.place.index, i))
    IN  Repeat(step, [place |-> Place(c, index, None), found |-> FALSE],
               MAP_MAX_LAYERS).place
-------------------------------------------------------------------------------
(* Game *)

\* The middle of internalMoveItem when the destination needs an exchange: the
\* item there goes to the source first, then the destination is asked again.
MayExchange(w, from, i, to) ==
    /\ QueryAdd(w, from, GetThingIndex(w, from, i), to, w.count[to]) = "ok"
    /\ MaxCount(w, from, Wherever, to, w.count[to]) > 0

Exchanged(w, from, d) ==
    LET w1 == RemoveThing(w, d.cyl, d.to, w.count[d.to])
        w2 == IF from = Player THEN w1 ELSE AddThing(w1, from, 0, d.to)
    IN  Notify(Notify(w2, d.cyl), from)

\* The object a clone takes: the item's own if nothing is left of it.
Free(w) == {x \in Stacks : w.parent[x] = Nowhere}
CloneOf(w, i) == IF w.parent[i] = Nowhere THEN i ELSE CHOOSE x \in Free(w) : TRUE

\* The end of internalMoveItem: m units (of a stack) leave the source; they join
\* the stack at the destination as far as there is room, a clone holds the rest.
Transfer(w, from, d, i, m) ==
    LET w1 == RemoveThing(w, from, i, m)
        k == IF Equals(i, d.to) THEN Min({Room(w, d.to), m}) ELSE 0
        w2 == IF k > 0 THEN SetItemCount(w1, d.cyl, d.to, w1.count[d.to] + k) ELSE w1
        x == IF i \in Stacks THEN CloneOf(w2, i) ELSE i
        w3 == IF i \in Stacks /\ m = k THEN w2
              ELSE AddThing([w2 EXCEPT !.count[x] = IF i \in Stacks THEN m - k ELSE 1],
                            d.cyl, d.index, x)
    IN  Notify(Notify(w3, from), d.cyl)

\* Between the exchange and the move: the destination must accept the item, take
\* some of it, and the source give it up.
MoveTo(w, i, d, n) ==
    LET max == MaxCount(w, d.cyl, d.index, i, n)
        moved(m) == IF m > 0 /\ QueryRemove(w, i, m) THEN Transfer(w, w.parent[i], d, i, m)
                    ELSE w
    IN  IF QueryAdd(w, d.cyl, d.index, i, n) = "ok"
        THEN moved(IF i \in Stacks THEN Min({n, max}) ELSE max)
        ELSE w

\* Game::internalMoveItem of n units of i to a cylinder; the world afterwards.
MoveOrExchange(w, i, d, n) ==
    IF d.to = i THEN w
    ELSE IF /\ QueryAdd(w, d.cyl, d.index, i, n) = "exchange"
            /\ MayExchange(w, w.parent[i], i, d.to)
    THEN MoveTo(Exchanged(w, w.parent[i], d), i, [d EXCEPT !.to = None], n)
    ELSE MoveTo(w, i, d, n)

InternalMoveItem(w, i, c, index, n) == MoveOrExchange(w, i, Settle(w, c, index, i), n)

\* Game::internalAddItem of an item that is nowhere yet, once the destination is
\* known.  The units that do not fit on the stack found are added as a clone.  If
\* the clone finds no place, nobody is notified, and only the outermost call
\* tells how many are left.
RECURSIVE InternalAddItem(_, _, _)
AddItemAt(w, c, i, d) ==
    LET n == w.count[i]
        k == IF Equals(i, d.to) THEN Min({Room(w, d.to), n}) ELSE 0
        joined == [SetItemCount(w, d.cyl, d.to, w.count[d.to] + k) EXCEPT !.count[i] = n - k]
        done(v) == [ok |-> TRUE, world |-> Notify(v, d.cyl), left |-> 0, faults |-> {}]
        remainder(rest) ==
            IF rest.ok THEN [rest EXCEPT !.left = 0]
            ELSE [ok |-> TRUE, world |-> joined, left |-> n - k, faults |-> {"remainder"}]
    IN  IF \/ QueryAdd(w, d.cyl, d.index, i, n) # "ok"
           \/ MaxCount(w, c, Wherever, i, n) < n
        THEN [ok |-> FALSE, world |-> w, left |-> 0, faults |-> {}]
        ELSE IF k = 0 THEN done(AddThing(w, d.cyl, d.index, i))
        ELSE IF k = n THEN done(joined)
        ELSE remainder(InternalAddItem(joined, c, i))

InternalAddItem(w, c, i) == AddItemAt(w, c, i, QueryDestination(w, c, Wherever, i))

\* Game::internalPlayerAddItem, dropping on the map what the player cannot take.
InternalPlayerAddItem(w, i) ==
    LET orDropped(ret) == IF ret.ok /\ ret.left = 0 THEN ret
                          ELSE [ret EXCEPT !.world = InternalAddItem(@, Home, i).world]
    IN  orDropped(InternalAddItem(w, Player, i))

\* Game::internalRemoveItem
InternalRemoveItem(w, i, n) ==
    LET c == w.parent[i]
    IN  Notify(RemoveThing(w, c, i, n), c)

\* checkTradeState and its callers: the offer ends when the offered item is
\* touched, one inside it, a bag around it, or when something leaves a bag that
\* holds it further down.
TradeAfter(w, v, i) ==
    LET moved(x) == v.parent[x] # w.parent[x]
        touched == {i} \cup {x \in Items : moved(x) \/ v.count[x] # w.count[x]}
        offeredIn == Above(w, w.parent[tradeItem])
    IN  IF /\ tradeItem # None /\ v # w
           /\ \E x \in touched :
                 \/ tradeItem \in {x} \cup Above(w, w.parent[x]) \cup Above(v, v.parent[x])
                 \/ x \in offeredIn
                 \/ /\ x \notin Stacks \/ moved(x)
                    /\ w.parent[x] \in (Bags \cap offeredIn) \ {w.parent[tradeItem]}
        THEN None ELSE tradeItem
-------------------------------------------------------------------------------
\* A state as the loaders leave it, from what lies where: each item points at
\* its cylinder and the weights are those of the contents.
Laid(start) ==
    LET parent == [i \in Items |->
                     IF \E s \in SlotSet : start.inventory[s] = i THEN Player
                     ELSE IF \E c \in Bags \cup Tiles : Contains(start.list[c], i)
                     THEN CHOOSE c \in Bags \cup Tiles : Contains(start.list[c], i)
                     ELSE Nowhere]
    IN  [parent |-> parent, list |-> start.list, inventory |-> start.inventory,
         count |-> start.count, total |-> [b \in Bags |-> 0], carried |-> 0]

OwnWeight(w, i) == IF i \in Stacks THEN Weight[i] * w.count[i] ELSE Weight[i]
Inside(w, c) == {i \in Items : w.parent[i] # Nowhere /\ c \in Above(w, w.parent[i])}
Contents(w, c) == Total(Inside(w, c), LAMBDA i : OwnWeight(w, i))
Placed(w) == {i \in Items : w.parent[i] # Nowhere}
Units(w) == Total(Placed(w) \cap Stacks, LAMBDA x : w.count[x])

ItemsInit ==
    /\ \E start \in Starts :
          LET w == Laid(start)
          IN  /\ world = [w EXCEPT !.total = [b \in Bags |-> Contents(w, b)],
                                   !.carried = Contents(w, Player)]
              /\ supply = start.supply
              /\ classic \in start.classic
    /\ tradeItem = None
    /\ minted = Units(world)
    /\ made = Placed(world) \ Stacks
    /\ faults = {}

\* The new world; an object that is nowhere has no count.
Becomes(v, i, failed) ==
    /\ world' = [v EXCEPT !.count = [x \in Items |-> IF v.parent[x] = Nowhere THEN 0 ELSE @[x]]]
    /\ tradeItem' = TradeAfter(world, v, i)
    /\ faults' = faults \cup failed
                 \cup {f \in {"overfull"} : \E b \in Bags : Len(v.list[b]) > Capacity[b]}
    /\ UNCHANGED classic

\* Indices a client may name: a slot or the capacity window of the inventory, a
\* place in a container, the arrow that moves up.
Indices(c) ==
    CASE c = Player -> SlotSet \cup {Wherever}
      [] c \in Bags -> 0..Capacity[c] \cup {MoveUp}
      [] OTHER -> {0}

\* Game::playerMoveItem, once the player is near enough.  A partial move needs
\* an object for the clone (bound: Stacks).
PlayerMoveItem(i, c, index, n) ==
    /\ i \in Placed(world) /\ c \in {Player} \cup Tiles \cup Placed(world)
    /\ IF i \in Stacks THEN n \in 1..world.count[i] /\ Free(world) # {} ELSE n = 1
    /\ Becomes(InternalMoveItem(world, i, c, index, n), i, {})
    /\ UNCHANGED <<supply, minted, made>>

\* A script or an NPC gives the player an item.
Receive(i, n) ==
    LET ret == InternalPlayerAddItem([world EXCEPT !.count[i] = n], i)
    IN  /\ i \notin Placed(world)
        /\ IF i \in Stacks
           THEN /\ n <= supply.units /\ supply' = [supply EXCEPT !.units = @ - n]
                /\ minted' = minted + n /\ UNCHANGED made
           ELSE /\ n = 1 /\ i \in supply.items /\ supply' = [supply EXCEPT !.items = @ \ {i}]
                /\ made' = made \cup {i} /\ UNCHANGED minted
        /\ Becomes(ret.world, i, ret.faults)

\* An item is used up (a bag is never).
Consume(i, n) ==
    /\ i \in Placed(world) \ Bags
    /\ IF i \in Stacks
       THEN n \in 1..world.count[i] /\ minted' = minted - n /\ UNCHANGED made
       ELSE n = 1 /\ made' = made \ {i} /\ UNCHANGED minted
    /\ Becomes(InternalRemoveItem(world, i, n), i, {})
    /\ UNCHANGED supply

\* A trade begins or ends.
Offer(i) ==
    /\ tradeItem = None /\ i \in Inside(world, Player)
    /\ tradeItem' = i
    /\ UNCHANGED <<world, classic, supply, minted, made, faults>>

CloseTrade ==
    /\ tradeItem # None
    /\ tradeItem' = None
    /\ UNCHANGED <<world, classic, supply, minted, made, faults>>

ItemsNext ==
    \/ \E i \in Items, c \in {Player} \cup Bags \cup Tiles :
          \E index \in Indices(c), n \in 1..MaxStack : PlayerMoveItem(i, c, index, n)
    \/ \E i \in Items, n \in 1..MaxStack : Receive(i, n)
    \/ \E i \in Items, n \in 1..MaxStack : Consume(i, n)
    \/ \E i \in Items : Offer(i)
    \/ CloseTrade

ItemsSpec == ItemsInit /\ [][ItemsNext]_itemsVars
-------------------------------------------------------------------------------
\* An item is in exactly the cylinder it points at and there once, no bag is
\* inside itself, no stack is empty or too high: internalMoveItem and its kin
\* neither duplicate an object nor leave a pointer behind, whichever query
\* makes them return early.
PlacedOnce ==
    LET at(i, c) == IF c = Player THEN Cardinality({s \in SlotSet : world.inventory[s] = i})
                    ELSE Cardinality({k \in DOMAIN world.list[c] : world.list[c][k] = i})
    IN  \A i \in Items :
          /\ \A c \in {Player} \cup Bags \cup Tiles :
                at(i, c) = IF world.parent[i] = c THEN 1 ELSE 0
          /\ i \in Bags => i \notin Above(world, world.parent[i])
          /\ i \in Placed(world) \cap Stacks => world.count[i] \in 1..MaxStack

\* Moving changes nothing in how much there is, an item received arrives whole
\* and one removed goes: no unit of a stack and no item is lost or made on the
\* way, unless one of the two faults has happened.
Conserved == faults = {} => minted = Units(world) /\ made = Placed(world) \ Stacks

\* The weights cached in containers and players are those of their contents,
\* however deep the change was; the player's is stale only after a remainder.
WeightAgrees ==
    /\ \A b \in Bags \cap Placed(world) : world.total[b] = Contents(world, b)
    /\ "remainder" \notin faults => world.carried = Contents(world, Player)

\* Who holds an item that needs both hands holds nothing else.
TwoHandedAlone ==
    LET right == world.inventory[RightSlot]
        left == world.inventory[LeftSlot]
    IN  right # None /\ left # None => {right, left} \cap TwoHanded = {}

\* Every move, trade of slots, split and join of stacks keeps each item in one
\* place, the amounts, the cached weights and the rule of the two hands.
ItemsAgree == PlacedOnce /\ Conserved /\ WeightAgrees /\ TwoHandedAlone
===============================================================================
