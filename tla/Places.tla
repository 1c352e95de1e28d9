-------------------------------- MODULE Places --------------------------------
(***************************************************************************)
(* What lies and changes in places: coins in a purse, the flags of tiles    *)
(* with their teleports, trash holders and mailboxes, the light of the      *)
(* world, and a text that is being written (src/src/game.cpp, tile.cpp,     *)
(* teleport.cpp, trashholder.cpp, mailbox.cpp, item.cpp, player.cpp).       *)
(*                                                                          *)
(* place is one of the four, each by itself: place.kind says which.         *)
(***************************************************************************)
EXTENDS Integers, Sequences, FiniteSets, SequencesExt

CONSTANTS
    Purses,      \* the coins a player starts with: sequences of stacks
    PurseRoom,   \* stacks that fit into the player's containers
    Amounts,     \* amounts of money that are paid and earned
    PurseOps,    \* bound: payments in a behaviour
    SpotKinds,   \* what the item types of the tiles' items say
    SpotOps,     \* bound: changes of the two tiles
    NoteOps      \* bound: changes around the text

ASSUME PlacesAssumption ==
    /\ PurseRoom \in Nat \ {0} /\ PurseOps \in Nat /\ SpotOps \in Nat /\ NoteOps \in Nat
    /\ Amounts \subseteq Nat

VARIABLE place
-------------------------------------------------------------------------------
(* Coins.                                                                     *)

CoinWorth == [gold |-> 1, platinum |-> 100, crystal |-> 10000]
Coin(c, n) == [coin |-> c, count |-> n]

\* Item::getWorth
Worth(stack) == CoinWorth[stack.coin] * stack.count

\* Player::getMoney, over everything that is carried.
GetMoney(coins) == FoldLeft(LAMBDA sum, stack : sum + Worth(stack), 0, coins)

\* What the stacks of this coin and the free places still take.
RoomFor(coins, c) ==
    FoldLeft(LAMBDA sum, stack : IF stack.coin = c THEN sum + 100 - stack.count ELSE sum,
             100 * (PurseRoom - Len(coins)), coins)

\* Game::internalAddItem of at most 100 coins: the first stack with room is filled
\* and the rest is added as a new one, or nothing fits and the coins fall to the
\* tile.  A second stack with room is filled before a new one is begun.
PutCoins(p, stack) ==
    LET fill(acc, i) ==
            LET s == acc.coins[i]
                n == IF s.coin # stack.coin THEN 0
                     ELSE IF 100 - s.count < acc.left THEN 100 - s.count ELSE acc.left
            IN  [coins |-> [acc.coins EXCEPT ![i].count = @ + n], left |-> acc.left - n]
        filled == FoldLeft(fill, [coins |-> p.coins, left |-> stack.count],
                           [i \in 1..Len(p.coins) |-> i])
    IN  IF RoomFor(p.coins, stack.coin) < stack.count
        THEN [p EXCEPT !.fallen = @ + Worth(stack)]
        ELSE [p EXCEPT !.coins = IF filled.left = 0 THEN filled.coins
                                 ELSE Append(filled.coins, Coin(stack.coin, filled.left))]

\* Game::addMoney: crystal coins in stacks of at most 100, then platinum, then gold.
AddMoney(p, money) ==
    LET crystals == money \div 10000
        rest == money % 10000
        some(c, n) == IF n = 0 THEN <<>> ELSE <<Coin(c, n)>>
        stacks == [i \in 1..(crystals \div 100) |-> Coin("crystal", 100)]
                  \o some("crystal", crystals % 100)
                  \o some("platinum", rest \div 100)
                  \o some("gold", rest % 100)
    IN  FoldLeft(PutCoins, p, stacks)

\* Game::internalRemoveItem of n coins of the i-th stack.
TakeCoins(p, i, n) ==
    IF n >= p.coins[i].count THEN [p EXCEPT !.coins = RemoveAt(@, i)]
    ELSE [p EXCEPT !.coins[i].count = @ - n]

\* The stack worth least, the first of those that are worth the same.
Least(coins) ==
    CHOOSE i \in DOMAIN coins : \A j \in DOMAIN coins :
        \/ Worth(coins[i]) < Worth(coins[j])
        \/ Worth(coins[i]) = Worth(coins[j]) /\ i <= j

\* One round of the loop of Game::removeMoney over the stacks, the poorest first.
\* The last one is broken: the change is added before the coins are taken, and
\* may come to lie on the very stack they are taken from.
PayFrom(acc, step) ==
    IF acc.money = 0 THEN acc
    ELSE LET i == Least(acc.p.coins)
             stack == acc.p.coins[i]
             count == (acc.money \div CoinWorth[stack.coin]) + 1
             change == CoinWorth[stack.coin] * count - acc.money
         IN  IF Worth(stack) <= acc.money
             THEN [p |-> TakeCoins(acc.p, i, stack.count), money |-> acc.money - Worth(stack)]
             ELSE [p |-> TakeCoins(AddMoney(acc.p, change), i, count), money |-> 0]

\* Game::removeMoney: all of it or nothing.
RemoveMoney(p, money) ==
    IF GetMoney(p.coins) < money THEN p
    ELSE FoldLeft(PayFrom, [p |-> p, money |-> money], p.coins).p

\* Player::removeItemOfType with Game::internalRemoveItems: the stacks of this coin
\* in order, each whole but the last, when there are enough.
RemoveItemOfType(p, c, amount) ==
    LET have == FoldLeft(LAMBDA n, s : IF s.coin = c THEN n + s.count ELSE n, 0, p.coins)
        take(acc, s) ==
            LET i == CHOOSE j \in DOMAIN acc.p.coins :
                        /\ acc.p.coins[j].coin = c
                        /\ \A k \in 1..(j - 1) : acc.p.coins[k].coin # c
            IN  IF acc.left = 0 \/ s.coin # c THEN acc
                ELSE IF s.count > acc.left
                     THEN [p |-> TakeCoins(acc.p, i, acc.left), left |-> 0]
                     ELSE [p |-> TakeCoins(acc.p, i, s.count), left |-> acc.left - s.count]
    IN  IF have < amount THEN p
        ELSE FoldLeft(take, [p |-> p, left |-> amount], p.coins).p

PayFor(money) ==
    /\ place' = [RemoveMoney(place, money) EXCEPT
                    !.total = IF GetMoney(place.coins) < money THEN @ ELSE @ - money,
                    !.ops = @ - 1]

Earn(money) ==
    /\ GetMoney(place.coins) < 2000000
    /\ place' = [AddMoney(place, money) EXCEPT !.total = @ + money, !.ops = @ - 1]

UseUp(c, amount) ==
    LET p == RemoveItemOfType(place, c, amount)
    IN  place' = [p EXCEPT !.ops = @ - 1,
                     !.total = IF p.coins = place.coins THEN @ ELSE @ - amount * CoinWorth[c]]

PurseNext ==
    /\ place.kind = "purse"
    /\ place.ops > 0
    /\ \/ \E money \in Amounts : PayFor(money) \/ Earn(money)
       \/ \E c \in DOMAIN CoinWorth, amount \in {1, 100, 101} : UseUp(c, amount)

\* No coin is made or lost by paying, changing and earning, whatever lies where,
\* and no stack is empty or too high.
MoneyExact ==
    place.kind = "purse" =>
        /\ GetMoney(place.coins) + place.fallen = place.total
        /\ Len(place.coins) <= PurseRoom
        /\ \A i \in DOMAIN place.coins : place.coins[i].count \in 1..100
-------------------------------------------------------------------------------
(* Tiles and their flags.  Tile 1's teleports lead to tile 2, tile 2's nowhere.*)

Spots == {1, 2}

\* Item::hasProperty, for the properties a tile keeps a flag for.
PropertiesOf(k) ==
    LET it == SpotKinds[k]
    IN  (IF it.solid THEN {"BLOCKSOLID"} ELSE {})
        \cup (IF it.solid /\ ~ it.moveable THEN {"IMMOVABLEBLOCKSOLID"} ELSE {})
        \cup (IF it.path THEN {"BLOCKPATH"} ELSE {})
        \cup (IF it.path /\ ~ it.moveable THEN {"IMMOVABLEBLOCKPATH"} ELSE {})
        \cup (IF it.path /\ it.is # "MAGICFIELD" THEN {"NOFIELDBLOCKPATH"} ELSE {})
        \cup (IF it.path /\ it.is # "MAGICFIELD" /\ ~ it.moveable
              THEN {"IMMOVABLENOFIELDBLOCKPATH"} ELSE {})

\* The flags that stand for one item: teleports, fields, mailboxes, trash holders,
\* beds, depots, walls to hang things on, changes of floor.
OwnFlag(k) == {SpotKinds[k].is} \ {"nothing"}

\* Tile::setTileFlags; IMMOVABLEBLOCKPATH is not among the flags it sets.
SetTileFlags(flags, k) ==
    flags \cup (PropertiesOf(k) \ {"IMMOVABLEBLOCKPATH"}) \cup OwnFlag(k)

\* Mutant of ResetTileFlags: what the other items have is not asked.
ResetTileFlagsBlind(flags, k, others) ==
    (flags \ PropertiesOf(k)) \ OwnFlag(k)

\* Tile::resetTileFlags: a property stays when another item has it; the flag of
\* the item itself goes.
ResetTileFlags(flags, k, others) ==
    (flags \ (PropertiesOf(k) \ UNION {PropertiesOf(o.kind) : o \in others})) \ OwnFlag(k)

RemoveFromSpot(p, s, x) ==
    [p EXCEPT !.things[s] = @ \ {x},
              !.flags[s] = ResetTileFlags(@, x.kind, p.things[s] \ {x})]

\* Tile::addThing: a field replaces the fields that lie there, or is released when
\* one of them may not be replaced.
LieOnSpot(p, s, x) ==
    LET fields == {o \in p.things[s] : SpotKinds[o.kind].is = "MAGICFIELD"}
        lasting == {o \in fields : ~ SpotKinds[o.kind].replaceable}
        cleared == FoldLeft(LAMBDA q, o : RemoveFromSpot(q, s, o), p, SetToSeq(fields))
        base == IF SpotKinds[x.kind].is = "MAGICFIELD" THEN cleared ELSE p
    IN  IF SpotKinds[x.kind].is = "MAGICFIELD" /\ lasting # {} THEN p
        ELSE [base EXCEPT !.things[s] = @ \cup {x}, !.flags[s] = SetTileFlags(@, x.kind)]

\* A tile refuses what comes from elsewhere when something solid stands on it.
Takes(p, s) == "BLOCKSOLID" \notin p.flags[s]

\* TrashHolder::addThing and Mailbox::addThing for a thing that came to lie at s; a
\* letter may have no receiver that exists.
Swallowed(p, s, x, delivered) ==
    LET k == SpotKinds[x.kind]
    IN  IF x \notin p.things[s] THEN p
        ELSE CASE "TRASHHOLDER" \in p.flags[s] ->
                    IF k.moveable THEN RemoveFromSpot(p, s, x) ELSE p
               [] "TRASHHOLDER" \notin p.flags[s] /\ "MAILBOX" \in p.flags[s] ->
                    IF k.letter /\ delivered
                    THEN [RemoveFromSpot(p, s, x) EXCEPT !.sent = @ \cup {x}] ELSE p
               [] OTHER -> p

\* Tile::postAddNotification with Teleport::addThing: the teleport comes before the
\* trash holder and the mailbox; a thing that cannot be moved stays.
PostAdd(p, s, x, delivered) ==
    LET there == LieOnSpot(RemoveFromSpot(p, s, x), 2, x)
    IN  CASE "TELEPORT" \in p.flags[s] /\ s = 1 /\ x \in p.things[s]
              /\ SpotKinds[x.kind].moveable /\ Takes(p, 2) ->
                 IF "TELEPORT" \in there.flags[2] THEN there
                 ELSE Swallowed(there, 2, x, delivered)
          [] "TELEPORT" \notin p.flags[s] -> Swallowed(p, s, x, delivered)
          [] OTHER -> p

Change1 == [place EXCEPT !.ops = @ - 1]

\* A thing is created on a tile.
CreateAt(s, k, delivered) ==
    LET x == [id |-> place.ops, kind |-> k]
    IN  place' = PostAdd(LieOnSpot(Change1, s, x), s, x, delivered)

\* Game::internalRemoveItem
Uncreate(s, x) ==
    /\ x \in place.things[s]
    /\ place' = RemoveFromSpot(Change1, s, x)

\* Tile::updateThing and Tile::replaceThing: the old kind's flags go while the item
\* is among the others, and the new kind's come.
TurnInto(s, x, k) ==
    /\ x \in place.things[s]
    /\ LET p == RemoveFromSpot(Change1, s, x)
       IN  place' = [p EXCEPT !.things[s] = @ \cup {[x EXCEPT !.kind = k]},
                              !.flags[s] = SetTileFlags(@, k)]

\* Map::clean: what was not on the map when it was loaded and may be picked up goes.
CleanMap ==
    place' = FoldLeft(LAMBDA p, x : RemoveFromSpot(RemoveFromSpot(p, 1, x), 2, x), Change1,
                SetToSeq({x \in place.things[1] \cup place.things[2] :
                            SpotKinds[x.kind].moveable}))

SpotNext ==
    /\ place.kind = "spots"
    /\ place.ops > 0
    /\ \/ \E s \in Spots, k \in DOMAIN SpotKinds, delivered \in BOOLEAN : CreateAt(s, k, delivered)
       \/ \E s \in Spots : \E x \in place.things[s] :
             Uncreate(s, x) \/ \E k \in DOMAIN SpotKinds : TurnInto(s, x, k)
       \/ CleanMap

\* The flags every walk and every throw relies on say what lies on the tile: those
\* of a property exactly (IMMOVABLEBLOCKPATH is never set), those of an item never
\* without it.  A thing lies on one tile, or was sent.
FlagsTrue ==
    place.kind = "spots" => \A s \in Spots :
        LET kinds == {x.kind : x \in place.things[s]}
        IN  /\ place.flags[s] \cap UNION {PropertiesOf(k) : k \in DOMAIN SpotKinds}
                  = UNION {PropertiesOf(k) : k \in kinds} \ {"IMMOVABLEBLOCKPATH"}
            /\ place.flags[s] \cap UNION {OwnFlag(k) : k \in DOMAIN SpotKinds}
                  \subseteq UNION {OwnFlag(k) : k \in kinds}
            /\ place.things[1] \cap place.things[2] = {}
            /\ place.sent \cap (place.things[1] \cup place.things[2]) = {}
-------------------------------------------------------------------------------
(* The light of the world.                                                    *)

LIGHT_LEVEL_DAY == 250
LIGHT_LEVEL_NIGHT == 40
SUNRISE == 430
SUNSET == 1305
LightHourDelta == (1440 * 10) \div 3600

Between(a, b) == IF a > b THEN a - b ELSE b - a

\* Game::checkLight, every ten seconds.
CheckLight ==
    /\ place.kind = "light"
    /\ LET h == place.hour + LightHourDelta
           hour == IF h > 1440 THEN h - 1440 ELSE h
           state == CASE Between(hour, SUNRISE) < 2 * LightHourDelta -> "SUNRISE"
                      [] Between(hour, SUNSET) < 2 * LightHourDelta -> "SUNSET"
                      [] OTHER -> place.state
           step == (LIGHT_LEVEL_DAY - LIGHT_LEVEL_NIGHT) \div 30
           level == CASE state = "SUNRISE" -> place.level + step
                      [] state = "SUNSET" -> place.level - step
                      [] OTHER -> place.level
       IN  place' = CASE level <= LIGHT_LEVEL_NIGHT ->
                            [place EXCEPT !.hour = hour, !.level = LIGHT_LEVEL_NIGHT,
                                          !.state = "NIGHT"]
                      [] level >= LIGHT_LEVEL_DAY ->
                            [place EXCEPT !.hour = hour, !.level = LIGHT_LEVEL_DAY,
                                          !.state = "DAY"]
                      [] OTHER -> [place EXCEPT !.hour = hour, !.level = level,
                                                !.state = state]

\* The light follows the hour: full from two hours after sunrise until sunset, none
\* from two hours after sunset until sunrise.
LightFollowsHour ==
    place.kind = "light" =>
        /\ place.hour \in (SUNRISE + 120)..(SUNSET - 8) => place.level = LIGHT_LEVEL_DAY
        /\ place.hour >= SUNSET + 120 \/ place.hour <= SUNRISE - 8
              => place.level = LIGHT_LEVEL_NIGHT
-------------------------------------------------------------------------------
(* A text that is being written: the window is open while the item moves.     *)

\* Player::setWriteItem: the window's number goes up, the item is held.
SetWriteItem(p, holds) ==
    [p EXCEPT !.window = @ + 1, !.holds = holds,
              !.refs = @ + (IF holds THEN 1 ELSE 0) - (IF p.holds THEN 1 ELSE 0)]

\* Actions::internalUseItem on something that can be written on.
OpenText ==
    /\ place.at \in {"mine", "near"}
    /\ LET p == SetWriteItem(place, TRUE)
       IN  place' = [p EXCEPT !.shown = @ \cup {p.window}, !.ops = @ - 1]

\* The item is carried about, given away, or removed by a script.
TextMoves(where) ==
    /\ place.at # "removed"
    /\ place' = [place EXCEPT !.at = where, !.ops = @ - 1,
                    !.refs = IF where = "removed" THEN @ - 1 ELSE @]

\* Game::playerWriteItem: an answer to any window the client was ever shown.
PlayerWriteItem(id, scripted) ==
    LET p == [place EXCEPT !.ops = @ - 1]
        good == /\ id = place.window
                /\ place.holds
                /\ place.at \in {"mine", "near"}
    IN  place' = IF ~ good THEN p
                 ELSE SetWriteItem([p EXCEPT !.written = IF scripted THEN @ ELSE
                                                @ \cup {<<id, place.at>>}], FALSE)

NoteNext ==
    /\ place.kind = "note"
    /\ place.ops > 0
    /\ \/ OpenText
       \/ \E where \in {"mine", "near", "far", "other", "removed"} : TextMoves(where)
       \/ \E id \in place.shown, scripted \in BOOLEAN : PlayerWriteItem(id, scripted)

\* Each window is answered once, and the item lives exactly as long as it lies
\* somewhere or a window holds it.
TextHeld ==
    place.kind = "note" =>
        /\ place.refs = (IF place.at = "removed" THEN 0 ELSE 1) + (IF place.holds THEN 1 ELSE 0)
        /\ \A w, v \in place.written : w[1] = v[1] => w = v
-------------------------------------------------------------------------------
PlacesInit ==
    place \in
        {[kind |-> "purse", coins |-> c, fallen |-> 0, total |-> GetMoney(c), ops |-> PurseOps] :
            c \in Purses}
        \cup {[kind |-> "spots", things |-> [s \in Spots |-> {}], flags |-> [s \in Spots |-> {}],
               sent |-> {}, ops |-> SpotOps],
              [kind |-> "light", hour |-> SUNRISE + ((SUNSET - SUNRISE) \div 2),
               level |-> LIGHT_LEVEL_DAY, state |-> "DAY"],
              [kind |-> "note", at |-> "mine", refs |-> 1, holds |-> FALSE, window |-> 0,
               shown |-> {}, written |-> {}, ops |-> NoteOps]}

PlacesNext == PurseNext \/ SpotNext \/ CheckLight \/ NoteNext

\* Money, flags, light and texts are what they should be.
PlacesAgree ==
    /\ MoneyExact
    /\ FlagsTrue
    /\ LightFollowsHour
    /\ TextHeld
===============================================================================
