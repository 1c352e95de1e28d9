--------------------------------- MODULE Trade ---------------------------------
(***************************************************************************)
(* Trading between players (src/src/game.cpp, playerRequestTrade to        *)
(* internalCloseTrade; src/src/player.cpp, the on... notifications), with  *)
(* the moves of items that may disturb it.                                 *)
(*                                                                         *)
(* Every handler runs whole in the dispatcher thread, so it is one step;   *)
(* TRADE_TRANSFER exists only inside playerAcceptTrade.  Items lie in      *)
(* cylinders: on tiles, in bags, in the inventory of a player.  Weight,    *)
(* the kinds of inventory slots and line of sight are not modelled; where  *)
(* they decide, the model allows both answers.                             *)
(***************************************************************************)
EXTENDS Integers, FiniteSets, FiniteSetsExt

CONSTANTS
    Players,
    Things,        \* items that neither stack nor hold others
    Bags,          \* containers
    Coins,         \* stackable items, all of one kind
    Tiles,
    Coord,         \* where the tiles are, on a line
    Capacity,      \* places in each bag and in each player's inventory
    MaxStack,      \* 100 in the code
    MaxTradeItems, \* 100 in the code
    MaxMoves       \* bound on the number of item moves

Items == Things \cup Bags \cup Coins
Cylinders == Players \cup Bags \cup Tiles
NoPlayer == "NoPlayer"
NoItem == "NoItem"
Nowhere == "Nowhere"

ASSUME TradeAssumption ==
    /\ Coord \in [Tiles -> Int]
    /\ Capacity \in [Players \cup Bags -> Nat]
    /\ MaxStack \in Nat \ {0}
    /\ MaxTradeItems \in Nat
    /\ MaxMoves \in Nat
    /\ NoPlayer \notin Players
    /\ NoItem \notin Items
    /\ Nowhere \notin Cylinders \cup Items
    /\ Bags \cap (Things \cup Coins) = {}
    /\ Items \cap (Players \cup Tiles) = {}
    /\ Players \cap Tiles = {}
    /\ IsFiniteSet(Items)

VARIABLES
    online,       \* Game::players
    pos,          \* Creature::position of each player
    parent,       \* Item::parent
    count,        \* Item::count
    tradeState,   \* Player::tradeState
    tradePartner, \* Player::tradePartner
    tradeItem,    \* Player::tradeItem
    tradeItems,   \* the keys of Game::tradeItems
    refs,         \* references that trades hold on each item
    moves,        \* ghost: item moves so far
    shown         \* ghost: what each player's offer held when it was shown

tradeVars == <<tradeState, tradePartner, tradeItem, tradeItems, refs>>
vars == <<online, pos, parent, count, tradeVars, moves, shown>>

TradeStates == {"NONE", "INITIATED", "ACCEPT", "ACKNOWLEDGE"}
-------------------------------------------------------------------------------
\* The bags that x lies in when every item lies where par says: the least set
\* that has the bag x is in and with each bag the one that bag is in.
BagsAround(par, x) ==
    {b \in Bags : \A S \in SUBSET Bags :
        ({par[x]} \cup {par[d] : d \in S}) \cap Bags \subseteq S => b \in S}

\* The cylinders above x.
Holders(par, x) == {par[x]} \cup {par[b] : b \in BagsAround(par, x)}

\* Container::isHoldingItem
IsHolding(par, b, x) == b \in Bags /\ b \in Holders(par, x)

\* What x consists of: itself and all it holds, with the counts of stacks.
Contents(par, cnt, x) ==
    {<<y, cnt[y]>> : y \in {z \in Items : z = x \/ IsHolding(par, x, z)}}

Apart(a, b) == IF a < b THEN b - a ELSE a - b
InRange(a, b, r) == Apart(Coord[a], Coord[b]) <= r

\* Thing::getPosition: a cylinder is where its top parent is.
Position(par, c) ==
    LET tops == ({c} \cup (IF c \in Items THEN Holders(par, c) ELSE {}))
                    \cap (Tiles \cup Players)
        top == CHOOSE t \in tops : TRUE
    IN  IF top \in Players THEN pos[top] ELSE top

Placed(par, x) == Holders(par, x) \cap (Tiles \cup online) # {}

\* p can point at item x: it is his, or lies on the ground, within one step.
Reaches(p, x) ==
    /\ Placed(parent, x)
    /\ Holders(parent, x) \cap (Players \ {p}) = {}
    /\ InRange(Position(parent, x), pos[p], 1)
-------------------------------------------------------------------------------
Init ==
    /\ online \subseteq Players
    /\ pos \in [Players -> Tiles]
    /\ parent \in [Items -> Players \cup Tiles \cup {Nowhere}]
    /\ \A p \in Players : Cardinality({x \in Items : parent[x] = p}) <= Capacity[p]
    /\ count \in [Items -> 1..MaxStack]
    /\ \A x \in Items \ Coins : count[x] = 1
    /\ tradeState = [p \in Players |-> "NONE"]
    /\ tradePartner = [p \in Players |-> NoPlayer]
    /\ tradeItem = [p \in Players |-> NoItem]
    /\ tradeItems = {}
    /\ refs = [x \in Items |-> 0]
    /\ moves \in 0..MaxMoves
    /\ shown = [p \in Players |-> {}]

\* internalCloseTrade called for each player of S resets him and his partner.
Ending(S) == {p \in Players : p \in S \/ \E q \in S : tradePartner[q] = p}

\* What is found in tradeItems, released and erased when the players of E end.
Erased(E) == {x \in tradeItems : \E p \in E : tradeItem[p] = x}

\* The trades of E come to an end.
EndTrades(E) ==
    /\ tradeState' = [p \in Players |-> IF p \in E THEN "NONE" ELSE tradeState[p]]
    /\ tradePartner' = [p \in Players |-> IF p \in E THEN NoPlayer ELSE tradePartner[p]]
    /\ tradeItem' = [p \in Players |-> IF p \in E THEN NoItem ELSE tradeItem[p]]
    /\ tradeItems' = tradeItems \ Erased(E)
    /\ refs' = [x \in Items |-> IF x \in Erased(E) THEN refs[x] - 1 ELSE refs[x]]
    /\ shown' = [p \in Players |-> IF p \in E THEN {} ELSE shown[p]]

CloseTrades(S) == EndTrades(Ending(S))
-------------------------------------------------------------------------------
\* The players whom a change in cylinder c is told to.
Spectators(par, c) ==
    CASE c \in Players -> {c}
      [] c \in Bags -> {q \in online : InRange(pos[q], Position(par, c), 2)}
      [] OTHER -> online

\* Player::checkTradeState(x): x is what q offers, or lies in it.
TradeTouched(par, q, x) ==
    tradeItem[q] # NoItem /\ (tradeItem[q] = x \/ IsHolding(par, tradeItem[q], x))

\* What onRemoveContainerItem, onRemoveInventoryItem and onRemoveTileItem test
\* after checkTradeState: the item q offers goes away in x, or lies deeper in
\* the container that x leaves.
TradeTaken(par, q, x) ==
    /\ tradeItem[q] # NoItem
    /\ IF par[x] \in Bags
       THEN par[tradeItem[q]] # par[x] /\ IsHolding(par, par[x], tradeItem[q])
       ELSE IsHolding(par, x, tradeItem[q])

\* The trades that end when x is taken out of its cylinder,
OnRemove(par, x) ==
    {q \in Spectators(par, par[x]) : TradeTouched(par, q, x) \/ TradeTaken(par, q, x)}

\* Mutant of OnUpdate: a change of count is not noticed.
OnUpdateNobody(par, x) == {}

\* when the count of x changes where it is (onUpdateContainerItem, ...),
OnUpdate(par, x) == {q \in Spectators(par, par[x]) : TradeTouched(par, q, x)}

\* and when x has been added where par has it: only containers tell.
OnAdd(par, x) ==
    IF par[x] \in Bags
    THEN {q \in Spectators(par, par[x]) : TradeTouched(par, q, x)} ELSE {}

HasRoom(par, c) ==
    c \notin Tiles => Cardinality({x \in Items : par[x] = c}) < Capacity[c]

\* Container::queryAdd: never into itself or into what it holds.
Fits(par, x, c) == c # x /\ (c \in Bags => ~IsHolding(par, x, c))

\* playerMoveItem and internalMoveItem of a whole item to another cylinder; an
\* exchange of two items is two such steps.
MoveItem(p, x, c) ==
    /\ p \in online
    /\ moves < MaxMoves
    /\ Reaches(p, x)
    /\ c # parent[x]
    /\ c \in Players => c = p
    /\ c \in Bags => Reaches(p, c)
    /\ Fits(parent, x, c)
    /\ HasRoom(parent, c)
    /\ parent' = [parent EXCEPT ![x] = c]
    /\ CloseTrades(OnRemove(parent, x) \cup OnAdd(parent', x))
    /\ moves' = moves + 1
    /\ UNCHANGED <<online, pos, count>>

\* internalMoveItem of n coins of stack x onto stack y.
MoveCoins(p, x, y, n) ==
    /\ p \in online
    /\ moves < MaxMoves
    /\ x # y
    /\ Reaches(p, x)
    /\ Reaches(p, y)
    /\ n \in 1..count[x]
    /\ count[y] + n <= MaxStack
    /\ count' = [count EXCEPT ![x] = @ - n, ![y] = @ + n]
    /\ parent' = [parent EXCEPT ![x] = IF n = count[x] THEN Nowhere ELSE @]
    /\ CloseTrades(OnUpdate(parent, y)
           \cup (IF n = count[x] THEN OnRemove(parent, x) ELSE OnUpdate(parent, x)))
    /\ moves' = moves + 1
    /\ UNCHANGED <<online, pos>>

\* internalRemoveItem: an item is used up, decays away or is taken by a script.
RemoveItem(x) ==
    /\ moves < MaxMoves
    /\ Placed(parent, x)
    /\ parent' = [parent EXCEPT ![x] = Nowhere]
    /\ CloseTrades(OnRemove(parent, x))
    /\ moves' = moves + 1
    /\ UNCHANGED <<online, pos, count>>
-------------------------------------------------------------------------------
\* Player::onCreatureMove for the player himself, with the item's position
\* after the move.
MovedAway(p, to) ==
    \/ /\ tradeItem[p] # NoItem
       /\ p \notin Holders(parent, tradeItem[p])
       /\ ~InRange(Position(parent, tradeItem[p]), to, 1)
    \/ tradePartner[p] # NoPlayer /\ ~InRange(pos[tradePartner[p]], to, 2)

\* The player walks, is pushed or teleported to another tile.
Move(p, to) ==
    /\ p \in online
    /\ to # pos[p]
    /\ pos' = [pos EXCEPT ![p] = to]
    /\ CloseTrades(IF MovedAway(p, to) THEN {p} ELSE {})
    /\ UNCHANGED <<online, parent, count, moves>>

\* Player::onRemoveCreature; he takes what he carries with him.
Logout(p) ==
    /\ p \in online
    /\ online' = online \ {p}
    /\ CloseTrades(IF tradePartner[p] # NoPlayer THEN {p} ELSE {})
    /\ UNCHANGED <<pos, parent, count, moves>>

Login(p) ==
    /\ p \notin online
    /\ online' = online \cup {p}
    /\ UNCHANGED <<pos, parent, count, tradeVars, moves, shown>>
-------------------------------------------------------------------------------

\* "This item is already being traded."
AlreadyTraded(x) ==
    \E i \in tradeItems : i = x \/ IsHolding(parent, x, i) \/ IsHolding(parent, i, x)

\* The guards of internalStartTrade.
MayStart(p, q) ==
    /\ \/ tradeState[p] = "NONE"
       \/ tradeState[p] = "ACKNOWLEDGE" /\ tradePartner[p] = q
    /\ tradeState[q] = "NONE" \/ tradePartner[q] = p

\* playerRequestTrade with internalStartTrade: an offer, or the counter-offer.
RequestTrade(p, q, x) ==
    /\ p \in online /\ q \in online /\ p # q
    /\ InRange(pos[q], pos[p], 2)
    /\ Reaches(p, x)
    /\ ~AlreadyTraded(x)
    /\ Cardinality(Contents(parent, count, x)) <= MaxTradeItems
    /\ MayStart(p, q)
    /\ tradePartner' = [tradePartner EXCEPT ![p] = q,
                           ![q] = IF tradeState[q] = "NONE" THEN p ELSE @]
    /\ tradeState' = [tradeState EXCEPT ![p] = "INITIATED",
                         ![q] = IF @ = "NONE" THEN "ACKNOWLEDGE" ELSE @]
    /\ tradeItem' = [tradeItem EXCEPT ![p] = x]
    /\ tradeItems' = tradeItems \cup {x}
    /\ refs' = [refs EXCEPT ![x] = @ + 1]
    /\ shown' = [shown EXCEPT ![p] = Contents(parent, count, x)]
    /\ UNCHANGED <<online, pos, parent, count, moves>>

\* playerCloseTrade
CloseTrade(p) ==
    /\ p \in online
    /\ tradeState[p] # "NONE"
    /\ CloseTrades({p})
    /\ UNCHANGED <<online, pos, parent, count, moves>>
-------------------------------------------------------------------------------
\* The bags of r that Player::queryDestination searches: not the one he offers
\* nor what is in it.  When it does not stack items, it leaves out that one only
\* if it is in the inventory itself.
Searched(par, r, stack) ==
    {b \in Bags : /\ r \in Holders(par, b)
                  /\ LET t == tradeItem[r]
                     IN  t \in Bags /\ (stack \/ par[t] = r)
                            => b # t /\ ~IsHolding(par, t, b)}

\* Where queryDestination may put x as an item of its own.
EmptyPlaces(par, r, x, stack) ==
    {c \in {r} \cup Searched(par, r, stack) : HasRoom(par, c) /\ Fits(par, x, c)}

\* The stacks of r it may add the coins x to.
Stacks(par, cnt, r, x) ==
    {y \in Coins : /\ par[y] \in {r} \cup Searched(par, r, TRUE)
                   /\ y # x /\ y # tradeItem[r] /\ cnt[y] < MaxStack}

\* Player::queryMaxCount for coins: all there is room for.
MaxCount(par, cnt, r, x) ==
    LET cs == {r} \cup {b \in Bags : r \in Holders(par, b)}
        free(c) == Capacity[c] - Cardinality({y \in Items : par[y] = c})
        ys == {y \in Coins : par[y] \in cs /\ y # x}
    IN  MapThenSumSet(free, cs) * MaxStack
            + MapThenSumSet(LAMBDA y : MaxStack - cnt[y], ys)

\* internalAddItem(r, x, INDEX_WHEREEVER, 0, true) finds room.
TestAdd(r, x) ==
    /\ x # NoItem
    /\ \/ EmptyPlaces(parent, r, x, x \in Coins) # {}
       \/ x \in Coins /\ Stacks(parent, count, r, x) # {}
    /\ x \in Coins => MaxCount(parent, count, r, x) >= count[x]

\* Both items are there and there is room for each.
TestsPass(p, q) == TestAdd(q, tradeItem[p]) /\ TestAdd(p, tradeItem[q])

\* internalMoveItem(_, r, INDEX_WHEREEVER, x, all, _, FLAG_IGNOREAUTOSTACK) puts
\* x into c.  The flag is dropped once the destination is a bag, so coins join
\* a stack y that lies there; what does not fit on it stays a stack of its own.
MovedTo(par, cnt, x, c) ==
    LET ys == IF x \in Coins /\ c \in Bags
              THEN {y \in Coins : y # x /\ par[y] = c /\ cnt[y] < MaxStack} ELSE {}
        joined(y) == Min({MaxStack - cnt[y], cnt[x]})
    IN  IF ys = {} THEN {[par |-> [par EXCEPT ![x] = c], cnt |-> cnt]}
        ELSE {[par |-> [par EXCEPT ![x] = IF joined(y) = cnt[x] THEN Nowhere ELSE c],
               cnt |-> [cnt EXCEPT ![x] = @ - joined(y), ![y] = @ + joined(y)]]
              : y \in ys}

\* The trades that such a move ends.
Disturbed(par, cnt, x, m) ==
    OnRemove(par, x) \cup OnAdd(m.par, x)
        \cup UNION {OnUpdate(par, y) : y \in {z \in Coins : m.cnt[z] > cnt[z]}}

\* Mutant of IntoOffer: the parameter is not looked at.
IntoOfferNever(c, offer) == FALSE

\* The check of internalMoveItem on its tradeItem parameter.
IntoOffer(c, offer) == c = offer \/ (c \in Bags /\ IsHolding(parent, offer, c))

\* The second move, after the first one has led to m1 and disturbed D1.  Its
\* return value is not looked at.
SecondMove(p, q, m1, D1) ==
    LET i2 == tradeItem[q]
        places == EmptyPlaces(m1.par, p, i2, FALSE)
    IN  \/ /\ places = {}
           /\ parent' = m1.par
           /\ count' = m1.cnt
           /\ EndTrades({p, q} \cup Ending(D1 \ {p, q}))
        \/ \E d \in places : \E m2 \in MovedTo(m1.par, m1.cnt, i2, d) :
              /\ parent' = m2.par
              /\ count' = m2.cnt
              /\ EndTrades({p, q} \cup Ending(
                    (D1 \cup Disturbed(m1.par, m1.cnt, i2, m2)) \ {p, q}))

\* The part of playerAcceptTrade that moves the two items.
Exchange(p, q) ==
    /\ TestsPass(p, q)
    /\ \E c \in EmptyPlaces(parent, q, tradeItem[p], FALSE) :
          /\ ~IntoOffer(c, tradeItem[q])
          /\ \E m1 \in MovedTo(parent, count, tradeItem[p], c) :
                SecondMove(p, q, m1, Disturbed(parent, count, tradeItem[p], m1))

\* "Trade could not be completed": an item is missing, there is no room or not
\* enough capacity, or the first move fails.
ExchangeFails(p, q) ==
    /\ EndTrades({p, q})
    /\ UNCHANGED <<parent, count>>

\* playerAcceptTrade
AcceptTrade(p) ==
    LET q == tradePartner[p]
    IN  /\ p \in online
        /\ tradeState[p] \in {"ACKNOWLEDGE", "INITIATED"}
        /\ q # NoPlayer
        /\ \/ /\ tradeState[q] # "ACCEPT"
              /\ tradeState' = [tradeState EXCEPT ![p] = "ACCEPT"]
              /\ UNCHANGED <<parent, count, tradePartner, tradeItem, tradeItems,
                             refs, shown>>
           \/ /\ tradeState[q] = "ACCEPT"
              /\ Exchange(p, q) \/ ExchangeFails(p, q)
        /\ UNCHANGED <<online, pos, moves>>

Next ==
    \/ \E p, q \in Players, x \in Items : RequestTrade(p, q, x)
    \/ \E p \in Players : AcceptTrade(p)
    \/ \E p \in Players : CloseTrade(p)
    \/ \E p \in Players, x \in Items, c \in Cylinders : MoveItem(p, x, c)
    \/ \E p \in Players, x, y \in Coins, n \in 1..MaxStack : MoveCoins(p, x, y, n)
    \/ \E x \in Items : RemoveItem(x)
    \/ \E p \in Players, to \in Tiles : Move(p, to)
    \/ \E p \in Players : Logout(p)
    \/ \E p \in Players : Login(p)

Spec == Init /\ [][Next]_vars
-------------------------------------------------------------------------------
TypeOK ==
    /\ online \subseteq Players
    /\ pos \in [Players -> Tiles]
    /\ parent \in [Items -> Cylinders \cup {Nowhere}]
    /\ count \in [Items -> 0..MaxStack]
    /\ tradeState \in [Players -> TradeStates]
    /\ tradePartner \in [Players -> Players \cup {NoPlayer}]
    /\ tradeItem \in [Players -> Items \cup {NoItem}]
    /\ tradeItems \subseteq Items
    /\ refs \in [Items -> Nat]
    /\ moves \in 0..MaxMoves

\* Two players who trade agree that they do: whoever has a partner is that
\* partner's partner, and nobody waits for an answer from somebody who has left
\* or who trades with a third.
Paired ==
    \A p \in Players :
        LET q == tradePartner[p]
        IN  /\ tradeState[p] = "NONE" <=> q = NoPlayer
            /\ q # NoPlayer => q # p /\ tradePartner[q] = p /\ q \in online
            /\ tradeItem[p] # NoItem => q # NoPlayer

\* No item is on offer twice, by itself or inside another offer.
OffersApart ==
    \A p, q \in Players :
        p # q /\ tradeItem[p] # NoItem /\ tradeItem[q] # NoItem =>
            /\ tradeItem[p] # tradeItem[q]
            /\ ~IsHolding(parent, tradeItem[p], tradeItem[q])

\* What a player offers is what the window shows, to the last coin in the last
\* bag, for as long as the trade is open.
OfferIsShown ==
    \A p \in Players :
        tradeItem[p] # NoItem => Contents(parent, count, tradeItem[p]) = shown[p]

\* x ends up with r, as it is or joined to another stack.
Got(r, x) == x # NoItem /\ parent'[x] # parent[x]
                 /\ (parent'[x] = Nowhere \/ r \in Holders(parent', x))

\* The "safe-trade functions" of player.h: an accepted trade gives each player
\* the other's item, or neither.
SafeTrade ==
    [][\A p \in Players : AcceptTrade(p) =>
          LET q == tradePartner[p]
          IN  Got(q, tradeItem[p]) <=> Got(p, tradeItem[q])]_vars

\* Partners agree, offers are apart and shown as they are, whatever else moves.
OffersAgree == Paired /\ OffersApart /\ OfferIsShown
===============================================================================
