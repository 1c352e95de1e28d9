------------------------------ MODULE TradeProofs ------------------------------
(***************************************************************************)
(* Proofs about Trade: partners agree, no item is on offer twice, and what *)
(* is offered is what was shown, however items move, for any players,      *)
(* items, bags within bags and tiles.                                      *)
(***************************************************************************)
EXTENDS Trade, TLAPS

\* What the cylinders are.
LEMMA Kinds ==
    /\ \A x \in Items : x \in Cylinders => x \in Bags
    /\ \A b \in Bags : b \in Items /\ b \notin Players /\ b \notin Tiles
    /\ \A p \in Players : p \notin Tiles
    /\ Nowhere \notin Bags /\ Nowhere \notin Players /\ Nowhere \notin Tiles
BY TradeAssumption DEF Items, Cylinders

-------------------------------------------------------------------------------
(* Bags within bags.                                                         *)

\* A place for every item.
Placing == [Items -> Cylinders \cup {Nowhere}]

\* The bags around x are closed: with each bag, the one that bag is in.
LEMMA AroundClosed ==
    ASSUME NEW par, NEW x
    PROVE  /\ BagsAround(par, x) \subseteq Bags
           /\ par[x] \in Bags => par[x] \in BagsAround(par, x)
           /\ \A b \in BagsAround(par, x) :
                 par[b] \in Bags => par[b] \in BagsAround(par, x)
BY DEF BagsAround

\* They are the least such set.
LEMMA AroundLeast ==
    ASSUME NEW par, NEW x, NEW S \in SUBSET Bags,
           par[x] \in Bags => par[x] \in S,
           \A b \in S : par[b] \in Bags => par[b] \in S
    PROVE  BagsAround(par, x) \subseteq S
BY DEF BagsAround

\* The bags among the holders are the bags around.
LEMMA HoldersBags ==
    ASSUME NEW par, NEW x, NEW b \in Bags
    PROVE  b \in Holders(par, x) <=> b \in BagsAround(par, x)
<1>1. ASSUME b \in Holders(par, x) PROVE b \in BagsAround(par, x)
  BY <1>1, AroundClosed DEF Holders
<1>2. ASSUME b \in BagsAround(par, x), b \notin Holders(par, x) PROVE FALSE
  <2> DEFINE S == {d \in BagsAround(par, x) : d \in Holders(par, x)}
  <2>1. S \in SUBSET Bags
    BY AroundClosed
  <2>2. par[x] \in Bags => par[x] \in S
    BY AroundClosed DEF Holders
  <2>3. \A d \in S : par[d] \in Bags => par[d] \in S
    BY AroundClosed DEF Holders
  <2> HIDE DEF S
  <2>4. BagsAround(par, x) \subseteq S
    BY <2>1, <2>2, <2>3, AroundLeast
  <2> QED BY <1>2, <2>4 DEF S
<1> QED BY <1>1, <1>2

\* What holds x is what x is in and what holds that.
LEMMA HoldersStep ==
    ASSUME NEW par, NEW x, par[x] \in Bags
    PROVE  Holders(par, x) = {par[x]} \cup Holders(par, par[x])
<1> DEFINE c == par[x]
           S == {c} \cup BagsAround(par, c)
<1>1. BagsAround(par, x) \subseteq S
  <2>1. S \in SUBSET Bags
    BY AroundClosed
  <2>2. \A b \in S : par[b] \in Bags => par[b] \in S
    BY AroundClosed
  <2>3. par[x] \in S
    OBVIOUS
  <2> HIDE DEF S
  <2> QED BY <2>1, <2>2, <2>3, AroundLeast
<1>2. c \in BagsAround(par, x)
  BY AroundClosed
<1>3. BagsAround(par, c) \subseteq BagsAround(par, x)
  <2>1. BagsAround(par, x) \in SUBSET Bags
    BY AroundClosed
  <2>2. /\ par[c] \in Bags => par[c] \in BagsAround(par, x)
        /\ \A b \in BagsAround(par, x) : par[b] \in Bags => par[b] \in BagsAround(par, x)
    BY <1>2, AroundClosed
  <2> HIDE DEF c
  <2> QED BY <2>1, <2>2, AroundLeast
<1> QED BY <1>1, <1>2, <1>3 DEF Holders

\* What is not in a bag has nothing above but that.
LEMMA HoldersTop ==
    ASSUME NEW par, NEW x, par[x] \notin Bags
    PROVE  Holders(par, x) = {par[x]} /\ BagsAround(par, x) = {}
<1>1. BagsAround(par, x) \subseteq {}
  <2>1. {} \in SUBSET Bags
    OBVIOUS
  <2> QED BY <2>1, AroundLeast
<1> QED BY <1>1 DEF Holders

\* The holders are closed: what a holding bag is in holds as well.
LEMMA HoldersClosed ==
    ASSUME NEW par, NEW x, NEW b \in Bags, b \in Holders(par, x)
    PROVE  par[b] \in Holders(par, x)
BY HoldersBags DEF Holders

\* Something that holds x is the parent of x or of a bag that holds x.
LEMMA HoldersUp ==
    ASSUME NEW par, NEW x, NEW h \in Holders(par, x)
    PROVE  h = par[x] \/ \E b \in Bags : b \in Holders(par, x) /\ h = par[b]
BY HoldersBags, AroundClosed DEF Holders

\* A property of bags that goes from the bag x is in up to the next one holds
\* of every bag that holds x.
LEMMA HoldersInduct ==
    ASSUME NEW par, NEW x, NEW S,
           par[x] \in Bags => par[x] \in S,
           \A b \in Bags : b \in S /\ b \in Holders(par, x) /\ par[b] \in Bags => par[b] \in S
    PROVE  \A b \in Bags : b \in Holders(par, x) => b \in S
<1> DEFINE T == {b \in BagsAround(par, x) : b \in S}
<1>1. T \in SUBSET Bags
  BY AroundClosed
<1>2. par[x] \in Bags => par[x] \in T
  BY AroundClosed
<1>3. \A b \in T : par[b] \in Bags => par[b] \in T
  BY AroundClosed, HoldersBags
<1> HIDE DEF T
<1>4. BagsAround(par, x) \subseteq T
  BY <1>1, <1>2, <1>3, AroundLeast
<1> QED BY <1>4, HoldersBags DEF T

\* What holds a bag that holds x holds x.
LEMMA HoldersTrans ==
    ASSUME NEW par, NEW x, NEW b \in Bags, b \in Holders(par, x)
    PROVE  Holders(par, b) \subseteq Holders(par, x)
<1> DEFINE S == {d \in Bags : Holders(par, d) \subseteq Holders(par, x)}
<1>1. par[x] \in Bags => par[x] \in S
  BY HoldersStep
<1>2. \A d \in Bags : d \in S /\ d \in Holders(par, x) /\ par[d] \in Bags => par[d] \in S
  BY HoldersStep
<1> HIDE DEF S
<1>3. b \in S
  BY <1>1, <1>2, HoldersInduct
<1> QED BY <1>3 DEF S

\* Two bags that hold x: they are the same or one holds the other.
LEMMA HoldersLinear ==
    ASSUME NEW par, NEW x, NEW a \in Bags, a \in Holders(par, x),
           NEW b \in Bags, b \in Holders(par, x)
    PROVE  a = b \/ a \in Holders(par, b) \/ b \in Holders(par, a)
<1> DEFINE S == {d \in Bags : a = d \/ a \in Holders(par, d) \/ d \in Holders(par, a)}
<1>1. par[x] \in Bags => par[x] \in S
  BY HoldersStep
<1>2. \A d \in Bags : d \in S /\ d \in Holders(par, x) /\ par[d] \in Bags => par[d] \in S
  <2> SUFFICES ASSUME NEW d \in Bags, d \in S, par[d] \in Bags
               PROVE  par[d] \in S
    OBVIOUS
  <2>1. CASE a = d
    BY <2>1, HoldersStep
  <2>2. CASE a \in Holders(par, d)
    BY <2>2, HoldersStep
  <2>3. CASE d \in Holders(par, a)
    BY <2>3, HoldersClosed
  <2> QED BY <2>1, <2>2, <2>3
<1> HIDE DEF S
<1>3. b \in S
  BY <1>1, <1>2, HoldersInduct
<1> QED BY <1>3 DEF S

-------------------------------------------------------------------------------
(* Where things are.                                                         *)

\* The tile or player x is with.
Tops(par, x) == Holders(par, x) \cap (Tiles \cup Players)

\* A bag that holds x is where x is.
LEMMA TopsOfHolder ==
    ASSUME NEW par, NEW x, NEW b \in Bags, b \in Holders(par, x)
    PROVE  Tops(par, b) = Tops(par, x)
<1> DEFINE S == {d \in Bags : Tops(par, d) = Tops(par, x)}
<1>0. \A y : par[y] \in Bags => Tops(par, y) = Tops(par, par[y])
  BY HoldersStep, Kinds DEF Tops
<1>1. par[x] \in Bags => par[x] \in S
  BY <1>0
<1>2. \A d \in Bags : d \in S /\ d \in Holders(par, x) /\ par[d] \in Bags => par[d] \in S
  BY <1>0
<1> HIDE DEF S
<1>3. b \in S
  BY <1>1, <1>2, HoldersInduct
<1> QED BY <1>3 DEF S

\* Nothing is in two places.
LEMMA TopsOne ==
    ASSUME NEW par, NEW x, NEW u \in Tops(par, x)
    PROVE  Tops(par, x) = {u}
<1>1. u \notin Bags
  BY Kinds DEF Tops
<1>2. CASE u = par[x]
  BY <1>1, <1>2, HoldersTop DEF Tops
<1>3. CASE u # par[x]
  <2>1. PICK b \in Bags : b \in Holders(par, x) /\ u = par[b]
    BY <1>3, HoldersUp DEF Tops
  <2>2. Tops(par, b) \subseteq {u}
    BY <1>1, <2>1, HoldersTop DEF Tops
  <2> QED BY <2>1, <2>2, TopsOfHolder
<1> QED BY <1>2, <1>3

\* What is somewhere is not in itself.
LEMMA NotInItself ==
    ASSUME NEW par, NEW x \in Bags, x \in Holders(par, x)
    PROVE  Tops(par, x) = {}
<1> SUFFICES ASSUME NEW u \in Tops(par, x) PROVE FALSE
  OBVIOUS
<1>1. u \notin Bags
  BY Kinds DEF Tops
<1> DEFINE S == {d \in Bags : x \in Holders(par, d)}
<1>2. par[x] \in Bags => par[x] \in S
  BY HoldersStep
<1>3. \A d \in Bags : d \in S /\ d \in Holders(par, x) /\ par[d] \in Bags => par[d] \in S
  BY HoldersStep
<1> HIDE DEF S
<1>4. \A b \in Bags : b \in Holders(par, x) => b \in S
  BY <1>2, <1>3, HoldersInduct
<1>5. u # par[x]
  BY <1>1, HoldersTop
<1>6. PICK b \in Bags : b \in Holders(par, x) /\ u = par[b]
  BY <1>5, HoldersUp DEF Tops
<1>7. x \in Holders(par, b)
  BY <1>4, <1>6 DEF S
<1> QED BY <1>1, <1>6, <1>7, HoldersTop
-------------------------------------------------------------------------------
(* One item x is put into c.                                                 *)

\* What x does not hold has the same things above it.
LEMMA MoveOutside ==
    ASSUME NEW par \in Placing, NEW x \in Items, NEW c,
           NEW y \in Items, y # x, x \notin Holders(par, y)
    PROVE  Holders([par EXCEPT ![x] = c], y) = Holders(par, y)
<1> DEFINE new == [par EXCEPT ![x] = c]
<1>1. \A z \in Items : z # x => new[z] = par[z]
  BY DEF Placing
<1>2. new[y] = par[y]
  BY <1>1
<1>3. \A b \in Bags : b \in Holders(par, y) => new[b] = par[b]
  BY <1>1, Kinds
<1> HIDE DEF new
<1>4. \A b \in Bags : b \in Holders(new, y) => b \in Holders(par, y)
  <2> DEFINE S == {d \in Bags : d \in Holders(par, y)}
  <2>1. new[y] \in Bags => new[y] \in S
    BY <1>2 DEF Holders
  <2>2. \A b \in Bags : b \in S /\ b \in Holders(new, y) /\ new[b] \in Bags => new[b] \in S
    BY <1>3, HoldersClosed
  <2> HIDE DEF S
  <2>3. \A b \in Bags : b \in Holders(new, y) => b \in S
    BY <2>1, <2>2, HoldersInduct
  <2> QED BY <2>3 DEF S
<1>5. \A b \in Bags : b \in Holders(par, y) => b \in Holders(new, y)
  <2> DEFINE S == {d \in Bags : d \in Holders(new, y)}
  <2>1. par[y] \in Bags => par[y] \in S
    BY <1>2 DEF Holders
  <2>2. \A b \in Bags : b \in S /\ b \in Holders(par, y) /\ par[b] \in Bags => par[b] \in S
    BY <1>3, HoldersClosed
  <2> HIDE DEF S
  <2>3. \A b \in Bags : b \in Holders(par, y) => b \in S
    BY <2>1, <2>2, HoldersInduct
  <2> QED BY <2>3 DEF S
<1>6. BagsAround(new, y) = BagsAround(par, y)
  BY <1>4, <1>5, HoldersBags, AroundClosed
<1>7. \A b \in BagsAround(par, y) : new[b] = par[b]
  BY <1>3, HoldersBags, AroundClosed
<1>8. Holders(new, y) = Holders(par, y)
  BY <1>2, <1>6, <1>7 DEF Holders
<1> QED BY <1>8 DEF new

\* An item t that x does not hold, and that neither held x nor comes to hold it,
\* stays where it is with what it holds.
LEMMA MoveKeeps ==
    ASSUME NEW par \in Placing, NEW x \in Items, NEW c \in Cylinders \cup {Nowhere},
           NEW t \in Items, t # x, x \notin Holders(par, t),
           ~IsHolding(par, t, x), ~IsHolding([par EXCEPT ![x] = c], t, x)
    PROVE  /\ Holders([par EXCEPT ![x] = c], t) = Holders(par, t)
           /\ \A z \in Items : IsHolding([par EXCEPT ![x] = c], t, z) <=> IsHolding(par, t, z)
<1> DEFINE new == [par EXCEPT ![x] = c]
<1>0. new \in Placing
  BY DEF Placing
<1>1. par = [new EXCEPT ![x] = par[x]]
  BY DEF Placing
<1>2. \A z \in Items : z # x /\ x \notin Holders(par, z) => Holders(new, z) = Holders(par, z)
  BY MoveOutside
<1>3. \A z \in Items : z # x /\ x \notin Holders(new, z) => Holders(par, z) = Holders(new, z)
  <2> HIDE DEF new
  <2> SUFFICES ASSUME NEW z \in Items, z # x, x \notin Holders(new, z)
               PROVE  Holders(par, z) = Holders(new, z)
    OBVIOUS
  <2>1. Holders([new EXCEPT ![x] = par[x]], z) = Holders(new, z)
    BY <1>0, MoveOutside
  <2> QED BY <1>1, <2>1
<1> HIDE DEF new
<1>4. Holders(new, t) = Holders(par, t)
  BY <1>2
<1>5. ~IsHolding(new, t, x)
  BY DEF new
<1>6. ASSUME NEW z \in Items PROVE IsHolding(new, t, z) <=> IsHolding(par, t, z)
  <2>1. CASE z = x
    BY <1>5, <2>1
  <2>2. CASE z # x /\ x \notin Holders(par, z)
    BY <1>2, <2>2 DEF IsHolding
  <2>3. CASE z # x /\ x \in Holders(par, z)
    <3>1. x \in Bags
      <4>1. x \in Cylinders \cup {Nowhere}
        BY <2>3, HoldersUp, Kinds DEF Placing
      <4> QED BY <4>1, Kinds, TradeAssumption
    <3>2. x \in Holders(new, z)
      BY <2>3, <1>3
    <3>3. ~IsHolding(par, t, z)
      BY <2>3, <3>1, HoldersLinear DEF IsHolding
    <3>4. ~IsHolding(new, t, z)
      BY <1>4, <1>5, <3>1, <3>2, HoldersLinear DEF IsHolding
    <3> QED BY <3>3, <3>4
  <2> QED BY <2>1, <2>2, <2>3
<1> QED BY <1>4, <1>6 DEF new
-------------------------------------------------------------------------------
(* Who notices.                                                              *)

\* Players stand on tiles; those in the game are players.
Standing == online \subseteq Players /\ pos \in [Players -> Tiles]

\* The offer of q is at hand: he carries it, or it lies on a tile next to him.
\* So whatever happens to it he is told.
AtHand(par, q) ==
    \E u \in Tops(par, tradeItem[q]) : u = q \/ (u \in Tiles /\ InRange(u, pos[q], 1))

\* Player q is in the game and offers an item at hand.
Offering(par, q) == q \in online /\ tradeItem[q] \in Items /\ AtHand(par, q)

\* Who is within one step is within two, the other way round too.
LEMMA InRangeFacts ==
    ASSUME NEW a \in Tiles, NEW b \in Tiles
    PROVE  /\ InRange(a, a, 1) /\ InRange(a, a, 2)
           /\ InRange(a, b, 1) => InRange(b, a, 1) /\ InRange(b, a, 2)
<1>1. Coord[a] \in Int /\ Coord[b] \in Int
  BY TradeAssumption
<1> QED BY <1>1 DEF InRange, Apart

\* An item is where the tile or player is that it is with.
LEMMA PositionTop ==
    ASSUME NEW par, NEW x \in Items, NEW u \in Tops(par, x)
    PROVE  Position(par, x) = IF u \in Players THEN pos[u] ELSE u
<1>1. Tops(par, x) = {u}
  BY TopsOne
<1>2. ({x} \cup (IF x \in Items THEN Holders(par, x) ELSE {})) \cap (Tiles \cup Players) = {u}
  BY <1>1, TradeAssumption DEF Tops
<1>3. (CHOOSE t \in {u} : TRUE) = u
  OBVIOUS
<1> QED BY <1>2, <1>3 DEF Position

\* Who has an offer at hand stands on a tile and is within two steps of it.
LEMMA OfferNear ==
    ASSUME Standing, NEW par, NEW q \in Players, Offering(par, q)
    PROVE  InRange(pos[q], Position(par, tradeItem[q]), 2)
<1>1. PICK u \in Tops(par, tradeItem[q]) : u = q \/ (u \in Tiles /\ InRange(u, pos[q], 1))
  BY DEF Offering, AtHand
<1>2. Position(par, tradeItem[q]) = IF u \in Players THEN pos[u] ELSE u
  BY PositionTop DEF Offering
<1>3. pos[q] \in Tiles
  BY DEF Standing
<1>4. CASE u = q
  BY <1>2, <1>3, <1>4, InRangeFacts
<1>5. CASE u \in Tiles /\ InRange(u, pos[q], 1)
  BY <1>2, <1>3, <1>5, InRangeFacts, Kinds
<1> QED BY <1>1, <1>4, <1>5

\* A change in a cylinder above the offer of q, or in a bag at the same place, is
\* told to q.
LEMMA OfferSeen ==
    ASSUME Standing, NEW par, NEW q \in Players, Offering(par, q), NEW c,
           c \in Players => c \in Holders(par, tradeItem[q]),
           c \in Bags => Tops(par, c) = Tops(par, tradeItem[q])
    PROVE  q \in Spectators(par, c)
<1> DEFINE t == tradeItem[q]
<1>1. CASE c \in Players
  <2>1. PICK u \in Tops(par, t) : u = q \/ u \in Tiles
    BY DEF Offering, AtHand
  <2>2. c \in Tops(par, t) /\ c \notin Tiles
    BY <1>1, Kinds DEF Tops
  <2>3. Tops(par, t) = {u}
    BY TopsOne
  <2>4. c = q
    BY <2>1, <2>2, <2>3
  <2>5. Spectators(par, c) = {c}
    BY <1>1, Kinds DEF Spectators
  <2> QED BY <2>4, <2>5
<1>2. CASE c \in Bags
  <2>1. c \in Items /\ c \notin Players
    BY <1>2, Kinds
  <2>2. PICK u : u \in Tops(par, t)
    BY DEF Offering, AtHand
  <2>3. Position(par, c) = Position(par, t)
    BY <1>2, <2>1, <2>2, PositionTop DEF Offering
  <2>4. InRange(pos[q], Position(par, c), 2)
    BY <2>3, OfferNear
  <2> QED BY <1>2, <2>1, <2>4 DEF Spectators, Offering
<1>3. CASE c \notin Players /\ c \notin Bags
  BY <1>3 DEF Spectators, Offering
<1> QED BY <1>1, <1>2, <1>3

\* A change of the offer, or of what lies in it, is told to its owner.
LEMMA TouchedSeen ==
    ASSUME Standing, NEW par, NEW q \in Players, Offering(par, q), NEW y \in Items,
           y = tradeItem[q] \/ IsHolding(par, tradeItem[q], y)
    PROVE  q \in Spectators(par, par[y]) /\ TradeTouched(par, q, y)
<1> DEFINE t == tradeItem[q]
<1>0. TradeTouched(par, q, y)
  BY TradeAssumption DEF TradeTouched, Offering
<1>1. CASE y = t
  <2>1. par[y] \in Holders(par, t)
    BY <1>1 DEF Holders
  <2>2. par[y] \in Bags => Tops(par, par[y]) = Tops(par, t)
    BY <2>1, TopsOfHolder
  <2> QED BY <1>0, <2>1, <2>2, OfferSeen
<1>2. CASE t \in Bags /\ t \in Holders(par, y)
  <2>1. par[y] \in Bags
    BY <1>2, HoldersTop
  <2>2. Tops(par, par[y]) = Tops(par, y)
    BY <2>1, TopsOfHolder DEF Holders
  <2>3. Tops(par, t) = Tops(par, y)
    BY <1>2, TopsOfHolder
  <2> QED BY <1>0, <2>1, <2>2, <2>3, OfferSeen, Kinds
<1> QED BY <1>1, <1>2 DEF IsHolding

\* That a bag goes away with the offer in it is told to its owner.
LEMMA TakenSeen ==
    ASSUME Standing, NEW par, NEW q \in Players, Offering(par, q), NEW x \in Bags,
           x \in Holders(par, tradeItem[q])
    PROVE  q \in OnRemove(par, x)
<1> DEFINE t == tradeItem[q]
<1>1. par[x] \in Holders(par, t)
  BY HoldersClosed
<1>2. par[x] \in Bags => Tops(par, par[x]) = Tops(par, t)
  BY <1>1, TopsOfHolder
<1>3. q \in Spectators(par, par[x])
  BY <1>1, <1>2, OfferSeen
<1>4. t # NoItem
  BY TradeAssumption DEF Offering
<1>5. CASE par[x] \in Bags
  <2>1. Tops(par, x) # {}
    BY TopsOfHolder DEF Offering, AtHand
  <2>2. x \notin Holders(par, x)
    BY <2>1, NotInItself
  <2>3. x # par[x] /\ x \notin Holders(par, par[x])
    BY <1>5, <2>2, HoldersStep
  <2>4. par[t] # par[x]
    <3> SUFFICES ASSUME par[t] = par[x] PROVE FALSE
      OBVIOUS
    <3>1. Holders(par, t) = {par[x]} \cup Holders(par, par[x])
      BY <1>5, HoldersStep
    <3> QED BY <2>3, <3>1
  <2> QED BY <1>1, <1>3, <1>4, <1>5, <2>4 DEF OnRemove, TradeTaken, IsHolding
<1>6. CASE par[x] \notin Bags
  BY <1>3, <1>4, <1>6 DEF OnRemove, TradeTaken, IsHolding
<1> QED BY <1>5, <1>6

\* Who is not told that x has been put into c keeps his offer as it is.
LEMMA UntoldKeeps ==
    ASSUME Standing, NEW par \in Placing, NEW x \in Items, NEW c \in Cylinders \cup {Nowhere},
           NEW q \in Players, Offering(par, q),
           q \notin OnRemove(par, x), q \notin OnAdd([par EXCEPT ![x] = c], x)
    PROVE  /\ x # tradeItem[q] /\ ~IsHolding(par, tradeItem[q], x)
           /\ Holders([par EXCEPT ![x] = c], tradeItem[q]) = Holders(par, tradeItem[q])
           /\ \A z \in Items : IsHolding([par EXCEPT ![x] = c], tradeItem[q], z)
                                  <=> IsHolding(par, tradeItem[q], z)
           /\ Offering([par EXCEPT ![x] = c], q)
<1> DEFINE t == tradeItem[q]
           new == [par EXCEPT ![x] = c]
<1>0. t \in Items
  BY DEF Offering
<1>1. x # t /\ ~IsHolding(par, t, x)
  BY TouchedSeen DEF OnRemove
<1>2. x \notin Holders(par, t)
  <2> SUFFICES ASSUME x \in Holders(par, t) PROVE FALSE
    OBVIOUS
  <2>1. x \in Cylinders \cup {Nowhere}
    BY <1>0, HoldersUp, Kinds DEF Placing
  <2>2. x \in Bags
    BY <2>1, Kinds, TradeAssumption
  <2> QED BY <2>2, TakenSeen
<1>3. Holders(new, t) = Holders(par, t)
  BY <1>0, <1>1, <1>2, MoveOutside
<1>4. Offering(new, q)
  <2> HIDE DEF new
  <2>1. Tops(new, t) = Tops(par, t)
    BY <1>3 DEF Tops
  <2> QED BY <2>1 DEF Offering, AtHand
<1>5. ~IsHolding(new, t, x)
  <2> SUFFICES ASSUME IsHolding(new, t, x) PROVE FALSE
    OBVIOUS
  <2>1. q \in Spectators(new, new[x]) /\ TradeTouched(new, q, x)
    BY <1>4, TouchedSeen
  <2> HIDE DEF new
  <2>2. new[x] \in Bags
    <3> SUFFICES ASSUME new[x] \notin Bags PROVE FALSE
      OBVIOUS
    <3>1. Holders(new, x) = {new[x]}
      BY HoldersTop
    <3> QED BY <3>1 DEF IsHolding
  <2>3. q \notin OnAdd(new, x)
    BY DEF new
  <2> QED BY <2>3, <2>1, <2>2 DEF OnAdd
<1> QED BY <1>0, <1>1, <1>2, <1>3, <1>4, <1>5, MoveKeeps
-------------------------------------------------------------------------------
(* The inductive invariant.                                                  *)

\* Who has been asked to trade has not made his offer yet.
Acknowledged ==
    \A p \in Players : tradeState[p] = "ACKNOWLEDGE" => tradeItem[p] = NoItem

\* The game's table has exactly the items on offer, and holds one reference on each.
Books ==
    \A x \in Items :
        /\ x \in tradeItems <=> \E p \in Players : tradeItem[p] = x
        /\ refs[x] = IF x \in tradeItems THEN 1 ELSE 0

\* Every offer is at hand.
OfferAtHand ==
    \A p \in Players : tradeItem[p] # NoItem => AtHand(parent, p)

\* shown has a value for each player.
ShownTypes == shown = [p \in Players |-> shown[p]]

TradeInv ==
    /\ TypeOK
    /\ ShownTypes
    /\ Paired
    /\ Acknowledged
    /\ Books
    /\ OffersApart
    /\ OfferIsShown
    /\ OfferAtHand

\* Who offers an item is in the game, as his partner's partner.
LEMMA OffererOnline ==
    ASSUME TradeInv, NEW q \in Players, tradeItem[q] # NoItem
    PROVE  Offering(parent, q)
<1>1. tradePartner[q] \in Players /\ tradePartner[tradePartner[q]] = q
  BY TradeAssumption DEF TradeInv, Paired, TypeOK
<1>2. q \in online
  BY <1>1, TradeAssumption DEF TradeInv, Paired
<1>3. tradeItem[q] \in Items
  BY DEF TradeInv, TypeOK
<1> QED BY <1>2, <1>3 DEF Offering, TradeInv, OfferAtHand

\* The offer of q, if his trade goes on, is what it was and is still at hand.
OfferStays(q) ==
    LET t == tradeItem[q]
    IN  /\ Holders(parent', t) = Holders(parent, t)
        /\ \A z \in Items : IsHolding(parent', t, z) <=> IsHolding(parent, t, z)
        /\ \A z \in Items : z = t \/ IsHolding(parent, t, z) => count'[z] = count[z]
        /\ \E u \in Tops(parent, t) : u = q \/ (u \in Tiles /\ InRange(u, pos'[q], 1))

\* When trades end, of both partners always, and the offers of the others stay as
\* they are, the invariant is kept.
LEMMA EndTradesInv ==
    ASSUME TradeInv, NEW E \in SUBSET Players, EndTrades(E),
           \A q \in E : tradePartner[q] # NoPlayer => tradePartner[q] \in E,
           online' \subseteq Players, pos' \in [Players -> Tiles], parent' \in Placing,
           count' \in [Items -> 0..MaxStack], moves' \in 0..MaxMoves,
           \A q \in online : q \notin online' => q \in E \/ tradePartner[q] = NoPlayer,
           \A q \in Players \ E : tradeItem[q] # NoItem => OfferStays(q)
    PROVE  TradeInv'
<1>1. \A p \in Players :
        /\ p \in E => /\ tradeState'[p] = "NONE" /\ tradePartner'[p] = NoPlayer
                      /\ tradeItem'[p] = NoItem
        /\ p \notin E => /\ tradeState'[p] = tradeState[p]
                         /\ tradePartner'[p] = tradePartner[p]
                         /\ tradeItem'[p] = tradeItem[p] /\ shown'[p] = shown[p]
  BY DEF EndTrades
<1>2. /\ tradeItems' = tradeItems \ Erased(E)
      /\ \A x \in Items : refs'[x] = IF x \in Erased(E) THEN refs[x] - 1 ELSE refs[x]
      /\ \A x : x \in Erased(E) <=> x \in tradeItems /\ \E p \in E : tradeItem[p] = x
  BY DEF EndTrades, Erased
<1>3. TypeOK'
  <2>1. tradeState' \in [Players -> TradeStates]
    BY DEF EndTrades, TradeInv, TypeOK, TradeStates
  <2>2. /\ tradePartner' \in [Players -> Players \cup {NoPlayer}]
        /\ tradeItem' \in [Players -> Items \cup {NoItem}]
        /\ tradeItems' \subseteq Items
    BY DEF EndTrades, TradeInv, TypeOK
  <2>3. refs' \in [Items -> Nat]
    <3>1. \A x \in Items : refs[x] \in Nat
      BY DEF TradeInv, TypeOK
    <3>2. \A x \in Items : x \in Erased(E) => refs[x] = 1
      BY <1>2 DEF TradeInv, Books
    <3>3. \A x \in Items : (IF x \in Erased(E) THEN refs[x] - 1 ELSE refs[x]) \in Nat
      BY <3>1, <3>2
    <3> QED BY <3>3 DEF EndTrades
  <2> QED BY <2>1, <2>2, <2>3 DEF TypeOK, Placing
<1>3a. ShownTypes'
  BY DEF EndTrades, ShownTypes
<1>4. Paired'
  <2> SUFFICES ASSUME NEW p \in Players
               PROVE  /\ tradeState'[p] = "NONE" <=> tradePartner'[p] = NoPlayer
                      /\ tradePartner'[p] # NoPlayer =>
                            /\ tradePartner'[p] # p
                            /\ tradePartner'[tradePartner'[p]] = p
                            /\ tradePartner'[p] \in online'
                      /\ tradeItem'[p] # NoItem => tradePartner'[p] # NoPlayer
    BY DEF Paired
  <2>1. CASE p \in E
    BY <1>1, <2>1
  <2>2. CASE p \notin E
    <3> DEFINE q == tradePartner[p]
    <3>1. /\ tradeState[p] = "NONE" <=> q = NoPlayer
          /\ q # NoPlayer => q # p /\ tradePartner[q] = p /\ q \in online
          /\ tradeItem[p] # NoItem => q # NoPlayer
      BY DEF TradeInv, Paired
    <3>2. q # NoPlayer => q \in Players /\ p # NoPlayer
      BY TradeAssumption DEF TradeInv, TypeOK
    <3>3. q # NoPlayer => q \notin E
      BY <2>2, <3>1, <3>2
    <3> QED BY <1>1, <2>2, <3>1, <3>2, <3>3
  <2> QED BY <2>1, <2>2
<1>5. Acknowledged'
  BY <1>1 DEF TradeInv, Acknowledged
<1>6. Books'
  <2> SUFFICES ASSUME NEW x \in Items
               PROVE  /\ x \in tradeItems' <=> \E p \in Players : tradeItem'[p] = x
                      /\ refs'[x] = IF x \in tradeItems' THEN 1 ELSE 0
    BY DEF Books
  <2>1. /\ x \in tradeItems <=> \E p \in Players : tradeItem[p] = x
        /\ refs[x] = IF x \in tradeItems THEN 1 ELSE 0
    BY DEF TradeInv, Books
  <2>2. \A p, r \in Players : tradeItem[p] = x /\ tradeItem[r] = x => p = r
    BY TradeAssumption DEF TradeInv, OffersApart
  <2>3. x # NoItem
    BY TradeAssumption
  <2>4. x \in tradeItems' <=> \E p \in Players : tradeItem'[p] = x
    BY <1>1, <1>2, <2>1, <2>2, <2>3
  <2>5. refs'[x] = IF x \in tradeItems' THEN 1 ELSE 0
    BY <1>2, <2>1
  <2> QED BY <2>4, <2>5
<1>7. ASSUME NEW p \in Players, tradeItem'[p] # NoItem
      PROVE  p \notin E /\ tradeItem'[p] = tradeItem[p] /\ OfferStays(p) /\ tradeItem[p] \in Items
  BY <1>1, <1>7 DEF TradeInv, TypeOK
<1>8. OffersApart'
  <2> SUFFICES ASSUME NEW p \in Players, NEW q \in Players, p # q,
                      tradeItem'[p] # NoItem, tradeItem'[q] # NoItem
               PROVE  /\ tradeItem'[p] # tradeItem'[q]
                      /\ ~IsHolding(parent', tradeItem'[p], tradeItem'[q])
    BY DEF OffersApart
  <2>1. OfferStays(p) /\ tradeItem'[p] = tradeItem[p] /\ tradeItem'[q] = tradeItem[q]
        /\ tradeItem[q] \in Items
    BY <1>7
  <2>2. tradeItem[p] # tradeItem[q] /\ ~IsHolding(parent, tradeItem[p], tradeItem[q])
    BY <2>1 DEF TradeInv, OffersApart
  <2> QED BY <2>1, <2>2 DEF OfferStays
<1>9. OfferIsShown'
  <2> SUFFICES ASSUME NEW p \in Players, tradeItem'[p] # NoItem
               PROVE  Contents(parent', count', tradeItem'[p]) = shown'[p]
    BY DEF OfferIsShown
  <2> DEFINE t == tradeItem[p]
  <2>1. OfferStays(p) /\ tradeItem'[p] = t /\ shown'[p] = shown[p] /\ t # NoItem
    BY <1>1, <1>7
  <2>2. {z \in Items : z = t \/ IsHolding(parent', t, z)}
            = {z \in Items : z = t \/ IsHolding(parent, t, z)}
    BY <2>1 DEF OfferStays
  <2>3. \A z \in {y \in Items : y = t \/ IsHolding(parent, t, y)} : count'[z] = count[z]
    BY <2>1 DEF OfferStays
  <2>4. Contents(parent', count', t) = Contents(parent, count, t)
    BY <2>2, <2>3 DEF Contents
  <2> QED BY <2>1, <2>4 DEF TradeInv, OfferIsShown
<1>10. OfferAtHand'
  <2> SUFFICES ASSUME NEW p \in Players, tradeItem'[p] # NoItem
               PROVE  AtHand(parent, p)'
    BY DEF OfferAtHand
  <2>1. OfferStays(p) /\ tradeItem'[p] = tradeItem[p]
    BY <1>7
  <2>2. Tops(parent', tradeItem[p]) = Tops(parent, tradeItem[p])
    BY <2>1 DEF OfferStays, Tops
  <2> QED BY <2>1, <2>2 DEF OfferStays, AtHand, InRange
<1> QED BY <1>3, <1>3a, <1>4, <1>5, <1>6, <1>8, <1>9, <1>10 DEF TradeInv
-------------------------------------------------------------------------------
(* Steps that end trades.                                                    *)

\* Trades end for both partners.
LEMMA EndingClosed ==
    ASSUME TradeInv, NEW S \in SUBSET Players
    PROVE  /\ Ending(S) \in SUBSET Players
           /\ S \subseteq Ending(S)
           /\ \A q \in Ending(S) : tradePartner[q] # NoPlayer => tradePartner[q] \in Ending(S)
<1>1. Ending(S) \in SUBSET Players /\ S \subseteq Ending(S)
  BY DEF Ending
<1>2. ASSUME NEW q \in Ending(S), tradePartner[q] # NoPlayer
      PROVE  tradePartner[q] \in Ending(S)
  <2>1. q \in Players /\ tradePartner[q] \in Players
    BY <1>1, <1>2 DEF TradeInv, TypeOK
  <2>2. CASE q \in S
    BY <2>1, <2>2 DEF Ending
  <2>3. CASE \E r \in S : tradePartner[r] = q
    <3>1. PICK r \in S : tradePartner[r] = q
      BY <2>3
    <3>2. q # NoPlayer
      BY <2>1, TradeAssumption
    <3>3. tradePartner[q] = r
      BY <3>1, <3>2 DEF TradeInv, Paired
    <3> QED BY <3>1, <3>3 DEF Ending
  <2> QED BY <2>2, <2>3 DEF Ending
<1> QED BY <1>1, <1>2

\* Only players are told.
LEMMA ToldPlayers ==
    ASSUME TradeInv, NEW par, NEW x
    PROVE  /\ OnRemove(par, x) \in SUBSET Players
           /\ OnAdd(par, x) \in SUBSET Players
           /\ OnUpdate(par, x) \in SUBSET Players
<1>1. ASSUME NEW c PROVE Spectators(par, c) \in SUBSET Players
  <2>1. online \in SUBSET Players
    BY DEF TradeInv, TypeOK
  <2>2. CASE c \in Players
    BY <2>2, Kinds DEF Spectators
  <2>3. CASE c \in Bags
    BY <2>1, <2>3, Kinds DEF Spectators
  <2>4. CASE c \notin Players /\ c \notin Bags
    BY <2>1, <2>4 DEF Spectators
  <2> QED BY <2>2, <2>3, <2>4
<1> QED BY <1>1 DEF OnRemove, OnAdd, OnUpdate

\* An offer stays when one item is put elsewhere and its owner is not told.
LEMMA PutStays ==
    ASSUME TradeInv, NEW x \in Items, NEW c \in Cylinders \cup {Nowhere},
           parent' = [parent EXCEPT ![x] = c], pos' = pos,
           NEW q \in Players, tradeItem[q] # NoItem,
           q \notin OnRemove(parent, x), q \notin OnAdd(parent', x),
           \A z \in Items : (z = tradeItem[q] \/ IsHolding(parent, tradeItem[q], z))
                              /\ z # x => count'[z] = count[z]
    PROVE  OfferStays(q)
<1>1. Offering(parent, q)
  BY OffererOnline
<1>2. Standing /\ parent \in Placing
  BY DEF TradeInv, TypeOK, Standing, Placing
<1>3. q \notin OnAdd([parent EXCEPT ![x] = c], x)
  OBVIOUS
<1>4. /\ x # tradeItem[q] /\ ~IsHolding(parent, tradeItem[q], x)
      /\ Holders([parent EXCEPT ![x] = c], tradeItem[q]) = Holders(parent, tradeItem[q])
      /\ \A z \in Items : IsHolding([parent EXCEPT ![x] = c], tradeItem[q], z)
                             <=> IsHolding(parent, tradeItem[q], z)
  BY <1>1, <1>2, <1>3, UntoldKeeps
<1>5. \E u \in Tops(parent, tradeItem[q]) :
         u = q \/ (u \in Tiles /\ InRange(u, pos'[q], 1))
  BY <1>1 DEF Offering, AtHand
<1> QED BY <1>4, <1>5 DEF OfferStays

\* An offer stays when no item is put elsewhere and no count in it changes.
LEMMA StillStays ==
    ASSUME TradeInv, parent' = parent, pos' = pos,
           NEW q \in Players, tradeItem[q] # NoItem,
           \A z \in Items : z = tradeItem[q] \/ IsHolding(parent, tradeItem[q], z)
                              => count'[z] = count[z]
    PROVE  OfferStays(q)
<1>1. Offering(parent, q)
  BY OffererOnline
<1>2. \E u \in Tops(parent, tradeItem[q]) :
         u = q \/ (u \in Tiles /\ InRange(u, pos'[q], 1))
  BY <1>1 DEF Offering, AtHand
<1> QED BY <1>2 DEF OfferStays

\* An item is moved.
LEMMA MoveItemInv ==
    ASSUME TradeInv, NEW p \in Players, NEW x \in Items, NEW c \in Cylinders,
           MoveItem(p, x, c)
    PROVE  TradeInv'
<1> DEFINE S == OnRemove(parent, x) \cup OnAdd(parent', x)
           E == Ending(S)
<1>1. /\ parent' = [parent EXCEPT ![x] = c] /\ moves < MaxMoves /\ moves' = moves + 1
      /\ online' = online /\ pos' = pos /\ count' = count /\ EndTrades(E)
  BY DEF MoveItem, CloseTrades
<1>2. S \in SUBSET Players
  BY ToldPlayers
<1>3. /\ E \in SUBSET Players /\ S \subseteq E
      /\ \A q \in E : tradePartner[q] # NoPlayer => tradePartner[q] \in E
  BY <1>2, EndingClosed
<1>4. \A q \in Players \ E : tradeItem[q] # NoItem => OfferStays(q)
  <2> SUFFICES ASSUME NEW q \in Players, q \notin E, tradeItem[q] # NoItem
               PROVE  OfferStays(q)
    OBVIOUS
  <2>1. q \notin OnRemove(parent, x) /\ q \notin OnAdd(parent', x)
    BY <1>3
  <2> QED BY <1>1, <2>1, PutStays
<1>5. /\ online' \subseteq Players /\ pos' \in [Players -> Tiles] /\ parent' \in Placing
      /\ count' \in [Items -> 0..MaxStack] /\ moves' \in 0..MaxMoves
  BY <1>1, TradeAssumption DEF TradeInv, TypeOK, Placing
<1> HIDE DEF E
<1> QED BY <1>1, <1>3, <1>4, <1>5, EndTradesInv

\* Coins are moved from one stack onto another.
LEMMA MoveCoinsInv ==
    ASSUME TradeInv, NEW p \in Players, NEW x \in Coins, NEW y \in Coins,
           NEW n \in 1..MaxStack, MoveCoins(p, x, y, n)
    PROVE  TradeInv'
<1> DEFINE S == OnUpdate(parent, y)
                  \cup (IF n = count[x] THEN OnRemove(parent, x) ELSE OnUpdate(parent, x))
           E == Ending(S)
<1>0. x \in Items /\ y \in Items
  BY DEF Items
<1>1. /\ x # y /\ n \in 1..count[x] /\ count[y] + n <= MaxStack
      /\ count' = [count EXCEPT ![x] = @ - n, ![y] = @ + n]
      /\ parent' = [parent EXCEPT ![x] = IF n = count[x] THEN Nowhere ELSE @]
      /\ moves < MaxMoves /\ moves' = moves + 1
      /\ online' = online /\ pos' = pos /\ EndTrades(E)
  BY DEF MoveCoins, CloseTrades
<1>2. S \in SUBSET Players
  BY ToldPlayers
<1>3. /\ E \in SUBSET Players /\ S \subseteq E
      /\ \A q \in E : tradePartner[q] # NoPlayer => tradePartner[q] \in E
  BY <1>2, EndingClosed
<1>4. \A q \in Players \ E : tradeItem[q] # NoItem => OfferStays(q)
  <2> SUFFICES ASSUME NEW q \in Players, q \notin E, tradeItem[q] # NoItem
               PROVE  OfferStays(q)
    OBVIOUS
  <2> DEFINE t == tradeItem[q]
  <2>1. q \notin OnUpdate(parent, y)
    BY <1>3
  <2>2. Offering(parent, q) /\ Standing
    BY OffererOnline DEF TradeInv, TypeOK, Standing
  <2>3. y # t /\ ~IsHolding(parent, t, y)
    BY <1>0, <2>1, <2>2, TouchedSeen DEF OnUpdate
  <2>4. \A z \in Items : z # x /\ z # y => count'[z] = count[z]
    BY <1>1 DEF TradeInv, TypeOK
  <2>5. CASE n = count[x]
    <3>1. parent' = [parent EXCEPT ![x] = Nowhere] /\ q \notin OnRemove(parent, x)
      BY <1>1, <1>3, <2>5
    <3>2. q \notin OnAdd(parent', x)
      <4>1. parent'[x] \notin Bags
        BY <1>0, <3>1, Kinds DEF TradeInv, TypeOK
      <4> QED BY <4>1 DEF OnAdd
    <3> QED BY <1>0, <1>1, <2>3, <2>4, <3>1, <3>2, PutStays
  <2>6. CASE n # count[x]
    <3>1. parent' = parent /\ q \notin OnUpdate(parent, x)
      BY <1>0, <1>1, <1>3, <2>6 DEF TradeInv, TypeOK
    <3>2. x # t /\ ~IsHolding(parent, t, x)
      BY <1>0, <2>2, <3>1, TouchedSeen DEF OnUpdate
    <3> QED BY <1>1, <2>3, <2>4, <3>1, <3>2, StillStays
  <2> QED BY <2>5, <2>6
<1>5. count' \in [Items -> 0..MaxStack]
  <2>1. count[x] \in 0..MaxStack /\ count[y] \in 0..MaxStack
    BY <1>0 DEF TradeInv, TypeOK
  <2>2. count[x] - n \in 0..MaxStack /\ count[y] + n \in 0..MaxStack
    BY <1>1, <2>1, TradeAssumption
  <2> QED BY <1>0, <1>1, <2>2 DEF TradeInv, TypeOK
<1>6. /\ online' \subseteq Players /\ pos' \in [Players -> Tiles] /\ parent' \in Placing
      /\ moves' \in 0..MaxMoves
  <2>1. (IF n = count[x] THEN Nowhere ELSE parent[x]) \in Cylinders \cup {Nowhere}
    BY <1>0 DEF TradeInv, TypeOK
  <2>2. parent' \in Placing
    BY <1>1, <2>1 DEF TradeInv, TypeOK, Placing
  <2> QED BY <1>1, <2>2, TradeAssumption DEF TradeInv, TypeOK
<1> HIDE DEF E
<1> QED BY <1>1, <1>3, <1>4, <1>5, <1>6, EndTradesInv

\* An item is gone.
LEMMA RemoveItemInv ==
    ASSUME TradeInv, NEW x \in Items, RemoveItem(x)
    PROVE  TradeInv'
<1> DEFINE S == OnRemove(parent, x)
           E == Ending(S)
<1>1. /\ parent' = [parent EXCEPT ![x] = Nowhere] /\ moves < MaxMoves /\ moves' = moves + 1
      /\ online' = online /\ pos' = pos /\ count' = count /\ EndTrades(E)
  BY DEF RemoveItem, CloseTrades
<1>2. S \in SUBSET Players
  BY ToldPlayers
<1>3. /\ E \in SUBSET Players /\ S \subseteq E
      /\ \A q \in E : tradePartner[q] # NoPlayer => tradePartner[q] \in E
  BY <1>2, EndingClosed
<1>4. \A q \in Players \ E : tradeItem[q] # NoItem => OfferStays(q)
  <2> SUFFICES ASSUME NEW q \in Players, q \notin E, tradeItem[q] # NoItem
               PROVE  OfferStays(q)
    OBVIOUS
  <2>1. q \notin OnRemove(parent, x)
    BY <1>3
  <2>2. q \notin OnAdd(parent', x)
    <3>1. parent'[x] \notin Bags
      BY <1>1, Kinds DEF TradeInv, TypeOK
    <3> QED BY <3>1 DEF OnAdd
  <2> QED BY <1>1, <2>1, <2>2, PutStays
<1>5. /\ online' \subseteq Players /\ pos' \in [Players -> Tiles] /\ parent' \in Placing
      /\ count' \in [Items -> 0..MaxStack] /\ moves' \in 0..MaxMoves
  BY <1>1, TradeAssumption DEF TradeInv, TypeOK, Placing
<1> HIDE DEF E
<1> QED BY <1>1, <1>3, <1>4, <1>5, EndTradesInv

\* A player walks: his own offer is looked at where it lies, the offers of others
\* do not move with him.
LEMMA MoveInv ==
    ASSUME TradeInv, NEW p \in Players, NEW to \in Tiles, Move(p, to)
    PROVE  TradeInv'
<1> DEFINE S == IF MovedAway(p, to) THEN {p} ELSE {}
           E == Ending(S)
<1>1. /\ pos' = [pos EXCEPT ![p] = to] /\ moves' = moves /\ parent' = parent
      /\ online' = online /\ count' = count /\ EndTrades(E)
  BY DEF Move, CloseTrades
<1>2. S \in SUBSET Players
  OBVIOUS
<1>3. /\ E \in SUBSET Players /\ S \subseteq E
      /\ \A q \in E : tradePartner[q] # NoPlayer => tradePartner[q] \in E
  BY <1>2, EndingClosed
<1>4. \A q \in Players \ E : tradeItem[q] # NoItem => OfferStays(q)
  <2> SUFFICES ASSUME NEW q \in Players, q \notin E, tradeItem[q] # NoItem
               PROVE  OfferStays(q)
    OBVIOUS
  <2> DEFINE t == tradeItem[q]
  <2>1. Offering(parent, q)
    BY OffererOnline
  <2>2. PICK u \in Tops(parent, t) : u = q \/ (u \in Tiles /\ InRange(u, pos[q], 1))
    BY <2>1 DEF Offering, AtHand
  <2>3. u = q \/ (u \in Tiles /\ InRange(u, pos'[q], 1))
    <3>1. CASE q # p
      BY <1>1, <2>2, <3>1 DEF TradeInv, TypeOK
    <3>2. CASE q = p /\ u \in Tiles
      <4>1. ~MovedAway(p, to)
        BY <1>3, <3>2
      <4>2. Tops(parent, t) = {u} /\ p \notin Tiles
        BY TopsOne, Kinds
      <4>3. p \notin Holders(parent, t)
        BY <3>2, <4>2 DEF Tops
      <4>4. Position(parent, t) = u
        BY <2>1, <3>2, PositionTop, Kinds DEF Offering
      <4>5. InRange(u, to, 1)
        BY <3>2, <4>1, <4>3, <4>4 DEF MovedAway
      <4>6. pos'[q] = to
        BY <1>1, <3>2 DEF TradeInv, TypeOK
      <4> QED BY <3>2, <4>5, <4>6
    <3> QED BY <2>2, <3>1, <3>2
  <2> QED BY <1>1, <2>3 DEF OfferStays
<1>5. /\ online' \subseteq Players /\ pos' \in [Players -> Tiles] /\ parent' \in Placing
      /\ count' \in [Items -> 0..MaxStack] /\ moves' \in 0..MaxMoves
  BY <1>1 DEF TradeInv, TypeOK, Placing
<1> HIDE DEF E
<1> QED BY <1>1, <1>3, <1>4, <1>5, EndTradesInv

\* A player leaves the game.
LEMMA LogoutInv ==
    ASSUME TradeInv, NEW p \in Players, Logout(p)
    PROVE  TradeInv'
<1> DEFINE S == IF tradePartner[p] # NoPlayer THEN {p} ELSE {}
           E == Ending(S)
<1>1. /\ online' = online \ {p} /\ pos' = pos /\ moves' = moves /\ parent' = parent
      /\ count' = count /\ EndTrades(E)
  BY DEF Logout, CloseTrades
<1>2. S \in SUBSET Players
  OBVIOUS
<1>3. /\ E \in SUBSET Players /\ S \subseteq E
      /\ \A q \in E : tradePartner[q] # NoPlayer => tradePartner[q] \in E
  BY <1>2, EndingClosed
<1>4. \A q \in Players \ E : tradeItem[q] # NoItem => OfferStays(q)
  BY <1>1, StillStays
<1>5. \A q \in online : q \notin online' => q \in E \/ tradePartner[q] = NoPlayer
  BY <1>1, <1>3
<1>6. /\ online' \subseteq Players /\ pos' \in [Players -> Tiles] /\ parent' \in Placing
      /\ count' \in [Items -> 0..MaxStack] /\ moves' \in 0..MaxMoves
  BY <1>1 DEF TradeInv, TypeOK, Placing
<1> HIDE DEF E
<1> QED BY <1>1, <1>3, <1>4, <1>5, <1>6, EndTradesInv

\* A player closes the trade.
LEMMA CloseTradeInv ==
    ASSUME TradeInv, NEW p \in Players, CloseTrade(p)
    PROVE  TradeInv'
<1> DEFINE E == Ending({p})
<1>1. /\ online' = online /\ pos' = pos /\ moves' = moves /\ parent' = parent
      /\ count' = count /\ EndTrades(E)
  BY DEF CloseTrade, CloseTrades
<1>2. /\ E \in SUBSET Players
      /\ \A q \in E : tradePartner[q] # NoPlayer => tradePartner[q] \in E
  BY EndingClosed
<1>3. \A q \in Players \ E : tradeItem[q] # NoItem => OfferStays(q)
  BY <1>1, StillStays
<1>4. /\ online' \subseteq Players /\ pos' \in [Players -> Tiles] /\ parent' \in Placing
      /\ count' \in [Items -> 0..MaxStack] /\ moves' \in 0..MaxMoves
  BY <1>1 DEF TradeInv, TypeOK, Placing
<1> HIDE DEF E
<1> QED BY <1>1, <1>2, <1>3, <1>4, EndTradesInv
-------------------------------------------------------------------------------
(* Steps of a trade.                                                         *)

\* An item that a player reaches and offers is at hand.
LEMMA ReachedAtHand ==
    ASSUME TradeInv, NEW p \in Players, NEW x \in Items, Reaches(p, x)
    PROVE  \E u \in Tops(parent, x) : u = p \/ (u \in Tiles /\ InRange(u, pos[p], 1))
<1>1. PICK u : u \in Holders(parent, x) /\ u \in Tiles \cup online
  BY DEF Reaches, Placed
<1>2. u \in Tops(parent, x)
  BY <1>1 DEF Tops, TradeInv, TypeOK
<1>3. CASE u \in Players
  BY <1>1, <1>2, <1>3 DEF Reaches
<1>4. CASE u \notin Players
  <2>1. u \in Tiles /\ Position(parent, x) = u
    BY <1>1, <1>2, <1>4, PositionTop DEF TradeInv, TypeOK
  <2> QED BY <1>2, <2>1 DEF Reaches
<1> QED BY <1>3, <1>4

\* An offer or a counter-offer.
LEMMA RequestTradeInv ==
    ASSUME TradeInv, NEW p \in Players, NEW q \in Players, NEW x \in Items,
           RequestTrade(p, q, x)
    PROVE  TradeInv'
<1>1. /\ p \in online /\ q \in online /\ p # q /\ Reaches(p, x) /\ ~AlreadyTraded(x)
      /\ MayStart(p, q)
      /\ tradePartner' = [tradePartner EXCEPT ![p] = q,
                             ![q] = IF tradeState[q] = "NONE" THEN p ELSE @]
      /\ tradeState' = [tradeState EXCEPT ![p] = "INITIATED",
                           ![q] = IF @ = "NONE" THEN "ACKNOWLEDGE" ELSE @]
      /\ tradeItem' = [tradeItem EXCEPT ![p] = x]
      /\ tradeItems' = tradeItems \cup {x}
      /\ refs' = [refs EXCEPT ![x] = @ + 1]
      /\ shown' = [shown EXCEPT ![p] = Contents(parent, count, x)]
      /\ online' = online /\ pos' = pos /\ parent' = parent /\ count' = count
      /\ moves' = moves
  BY DEF RequestTrade
<1>2. x \notin tradeItems /\ x # NoItem
  BY <1>1, TradeAssumption DEF AlreadyTraded
<1>3. \A r \in Players : tradeItem[r] # NoItem =>
        /\ tradeItem[r] # x
        /\ ~IsHolding(parent, x, tradeItem[r])
        /\ ~IsHolding(parent, tradeItem[r], x)
  <2>1. \A r \in Players : tradeItem[r] # NoItem => tradeItem[r] \in tradeItems
    BY DEF TradeInv, Books, TypeOK
  <2> QED BY <1>1, <2>1 DEF AlreadyTraded
<1>4. tradeItem[p] = NoItem
  BY <1>1 DEF MayStart, TradeInv, Paired, Acknowledged
<1>5. tradePartner[p] = q \/ tradePartner[p] = NoPlayer
  BY <1>1 DEF MayStart, TradeInv, Paired
<1>6. /\ tradePartner'[p] = q /\ tradePartner'[q] = p
      /\ \A r \in Players : r # p /\ r # q => tradePartner'[r] = tradePartner[r]
      /\ tradeState'[p] = "INITIATED" /\ tradeState'[q] # "NONE"
      /\ tradeState'[q] = "ACKNOWLEDGE" =>
            tradeState[q] = "ACKNOWLEDGE" \/ tradeState[q] = "NONE"
      /\ \A r \in Players : r # p /\ r # q => tradeState'[r] = tradeState[r]
      /\ tradeItem'[p] = x /\ \A r \in Players : r # p => tradeItem'[r] = tradeItem[r]
      /\ \A r \in Players : r # p => shown'[r] = shown[r]
      /\ shown'[p] = Contents(parent, count, x)
  <2>1. /\ tradePartner'[p] = q
        /\ tradePartner'[q] = IF tradeState[q] = "NONE" THEN p ELSE tradePartner[q]
        /\ \A r \in Players : r # p /\ r # q => tradePartner'[r] = tradePartner[r]
    BY <1>1 DEF TradeInv, TypeOK
  <2>2. /\ tradeState'[p] = "INITIATED"
        /\ tradeState'[q] = IF tradeState[q] = "NONE" THEN "ACKNOWLEDGE" ELSE tradeState[q]
        /\ \A r \in Players : r # p /\ r # q => tradeState'[r] = tradeState[r]
    BY <1>1 DEF TradeInv, TypeOK
  <2>3. tradePartner'[q] = p
    BY <1>1, <2>1 DEF MayStart
  <2>4. tradeItem'[p] = x /\ \A r \in Players : r # p => tradeItem'[r] = tradeItem[r]
    BY <1>1 DEF TradeInv, TypeOK
  <2>5. /\ \A r \in Players : r # p => shown'[r] = shown[r]
        /\ shown'[p] = Contents(parent, count, x)
    BY <1>1 DEF TradeInv, ShownTypes
  <2> QED BY <2>1, <2>2, <2>3, <2>4, <2>5
<1>7. TypeOK'
  <2>1. tradePartner' \in [Players -> Players \cup {NoPlayer}]
    BY <1>1 DEF TradeInv, TypeOK
  <2>2. tradeState' \in [Players -> TradeStates]
    BY <1>1 DEF TradeInv, TypeOK, TradeStates
  <2>3. tradeItem' \in [Players -> Items \cup {NoItem}] /\ tradeItems' \subseteq Items
    BY <1>1 DEF TradeInv, TypeOK
  <2>4. refs' \in [Items -> Nat]
    BY <1>1 DEF TradeInv, TypeOK
  <2> QED BY <1>1, <2>1, <2>2, <2>3, <2>4 DEF TradeInv, TypeOK
<1>7a. ShownTypes'
  BY <1>1 DEF TradeInv, ShownTypes
<1>8. Paired'
  <2> SUFFICES ASSUME NEW r \in Players
               PROVE  /\ tradeState'[r] = "NONE" <=> tradePartner'[r] = NoPlayer
                      /\ tradePartner'[r] # NoPlayer =>
                            /\ tradePartner'[r] # r
                            /\ tradePartner'[tradePartner'[r]] = r
                            /\ tradePartner'[r] \in online
                      /\ tradeItem'[r] # NoItem => tradePartner'[r] # NoPlayer
    BY <1>1 DEF Paired
  <2>1. p # NoPlayer /\ q # NoPlayer
    BY TradeAssumption
  <2>2. CASE r = p \/ r = q
    <3>0. p # q /\ p \in online /\ q \in online
      BY <1>1
    <3>1. CASE r = p
      BY <1>6, <2>1, <3>0, <3>1
    <3>2. CASE r = q
      BY <1>6, <2>1, <3>0, <3>2
    <3> QED BY <2>2, <3>1, <3>2
  <2>3. CASE r # p /\ r # q
    <3> DEFINE s == tradePartner[r]
    <3>1. /\ tradeState[r] = "NONE" <=> s = NoPlayer
          /\ s # NoPlayer => s # r /\ tradePartner[s] = r /\ s \in online
          /\ tradeItem[r] # NoItem => s # NoPlayer
      BY DEF TradeInv, Paired
    <3>2. s # NoPlayer => s \in Players
      BY DEF TradeInv, TypeOK
    <3>3. r # NoPlayer
      BY TradeAssumption
    <3>4. s # p
      BY <1>5, <2>1, <2>3, <3>1, <3>3
    <3>5. s # q
      <4> SUFFICES ASSUME s = q PROVE FALSE
        OBVIOUS
      <4>1. tradePartner[q] = r
        BY <2>1, <3>1
      <4>2. tradeState[q] # "NONE"
        BY <3>3, <4>1 DEF TradeInv, Paired
      <4> QED BY <1>1, <2>3, <4>1, <4>2 DEF MayStart
    <3> QED BY <1>6, <2>3, <3>1, <3>2, <3>4, <3>5
  <2> QED BY <2>2, <2>3
<1>9. Acknowledged'
  <2>1. tradeState[q] = "NONE" \/ tradeState[q] = "ACKNOWLEDGE" => tradeItem[q] = NoItem
    BY DEF TradeInv, Paired, Acknowledged
  <2> QED BY <1>1, <1>6, <2>1 DEF TradeInv, Acknowledged
<1>10. Books'
  <2> SUFFICES ASSUME NEW y \in Items
               PROVE  /\ y \in tradeItems' <=> \E r \in Players : tradeItem'[r] = y
                      /\ refs'[y] = IF y \in tradeItems' THEN 1 ELSE 0
    BY DEF Books
  <2>1. /\ y \in tradeItems <=> \E r \in Players : tradeItem[r] = y
        /\ refs[y] = IF y \in tradeItems THEN 1 ELSE 0
    BY DEF TradeInv, Books
  <2>2. y # NoItem
    BY TradeAssumption
  <2>3. refs'[y] = IF y = x THEN refs[y] + 1 ELSE refs[y]
    BY <1>1 DEF TradeInv, TypeOK
  <2>4. y \in tradeItems' <=> \E r \in Players : tradeItem'[r] = y
    BY <1>1, <1>4, <1>6, <2>1, <2>2
  <2> QED BY <1>1, <1>2, <2>1, <2>3, <2>4
<1>11. OffersApart'
  BY <1>1, <1>3, <1>6 DEF TradeInv, OffersApart
<1>12. OfferIsShown'
  BY <1>1, <1>6 DEF TradeInv, OfferIsShown
<1>13. OfferAtHand'
  <2> SUFFICES ASSUME NEW r \in Players, tradeItem'[r] # NoItem
               PROVE  \E u \in Tops(parent, tradeItem'[r]) :
                         u = r \/ (u \in Tiles /\ InRange(u, pos[r], 1))
    BY <1>1 DEF OfferAtHand, AtHand, InRange, Tops
  <2>1. CASE r = p
    BY <1>1, <1>6, <2>1, ReachedAtHand
  <2>2. CASE r # p
    BY <1>6, <2>2 DEF TradeInv, OfferAtHand, AtHand
  <2> QED BY <2>1, <2>2
<1> QED BY <1>7, <1>7a, <1>8, <1>9, <1>10, <1>11, <1>12, <1>13 DEF TradeInv
-------------------------------------------------------------------------------
(* The exchange: two moves, each of which may join coins to a stack.         *)

\* The smaller of two numbers.
LEMMA MinTwo ==
    ASSUME NEW a \in Nat, NEW b \in Nat
    PROVE  Min({a, b}) \in Nat /\ Min({a, b}) <= a /\ Min({a, b}) <= b
<1>1. \E m \in {a, b} : \A n \in {a, b} : m <= n
  <2>1. CASE a <= b
    BY <2>1
  <2>2. CASE b <= a
    BY <2>2
  <2> QED BY <2>1, <2>2
<1>2. Min({a, b}) \in {a, b} /\ \A n \in {a, b} : Min({a, b}) <= n
  BY <1>1 DEF Min
<1> QED BY <1>2

\* new is old with x put somewhere else.
PutSomewhere(old, new, x) ==
    \E d \in Cylinders \cup {Nowhere} : new = [old EXCEPT ![x] = d]

\* A move puts x somewhere and changes no count but that of x and, upwards, that of
\* the stack it joins.
LEMMA MovedToForm ==
    ASSUME NEW par \in Placing, NEW cnt \in [Items -> 0..MaxStack],
           NEW x \in Items, NEW c \in Cylinders, NEW m \in MovedTo(par, cnt, x, c)
    PROVE  /\ m.cnt \in [Items -> 0..MaxStack]
           /\ PutSomewhere(par, m.par, x)
           /\ \A z \in Items : m.cnt[z] # cnt[z] =>
                 z = x \/ (z \in Coins /\ m.cnt[z] > cnt[z])
<1> DEFINE ys == IF x \in Coins /\ c \in Bags
                 THEN {y \in Coins : y # x /\ par[y] = c /\ cnt[y] < MaxStack} ELSE {}
           joined(y) == Min({MaxStack - cnt[y], cnt[x]})
<1>1. CASE ys = {}
  <2>1. m = [par |-> [par EXCEPT ![x] = c], cnt |-> cnt]
    BY <1>1 DEF MovedTo
  <2> QED BY <2>1 DEF PutSomewhere
<1>2. CASE ys # {}
  <2>1. PICK y \in ys :
          m = [par |-> [par EXCEPT ![x] = IF joined(y) = cnt[x] THEN Nowhere ELSE c],
               cnt |-> [cnt EXCEPT ![x] = @ - joined(y), ![y] = @ + joined(y)]]
    BY <1>2 DEF MovedTo
  <2>2. y \in Coins /\ y \in Items /\ y # x /\ cnt[y] < MaxStack
    BY <1>2, <2>1 DEF Items
  <2> DEFINE j == joined(y)
  <2>3. cnt[x] \in 0..MaxStack /\ cnt[y] \in 0..MaxStack /\ MaxStack \in Nat
    BY <2>2, TradeAssumption
  <2>4. j \in Nat /\ j <= MaxStack - cnt[y] /\ j <= cnt[x]
    <3>1. MaxStack - cnt[y] \in Nat /\ cnt[x] \in Nat
      BY <2>3
    <3> QED BY <3>1, MinTwo
  <2> HIDE DEF j
  <2>5. /\ m.par = [par EXCEPT ![x] = IF j = cnt[x] THEN Nowhere ELSE c]
        /\ m.cnt = [cnt EXCEPT ![x] = @ - j, ![y] = @ + j]
    BY <2>1 DEF j
  <2>6. cnt[x] - j \in 0..MaxStack /\ cnt[y] + j \in 0..MaxStack
    BY <2>3, <2>4
  <2>7. m.cnt \in [Items -> 0..MaxStack]
    BY <2>2, <2>5, <2>6
  <2>8. m.cnt[y] = cnt[y] + j /\ \A z \in Items : z # x /\ z # y => m.cnt[z] = cnt[z]
    BY <2>2, <2>5
  <2>9. m.cnt[y] # cnt[y] => m.cnt[y] > cnt[y]
    BY <2>3, <2>4, <2>8
  <2>10. PutSomewhere(par, m.par, x)
    BY <2>5 DEF PutSomewhere
  <2> QED BY <2>2, <2>7, <2>8, <2>9, <2>10
<1> QED BY <1>1, <1>2

\* The offer of q is the same with par and cnt as with old and oldCnt.
SameOffer(q, old, oldCnt, par, cnt) ==
    LET t == tradeItem[q]
    IN  /\ Holders(par, t) = Holders(old, t)
        /\ \A z \in Items : IsHolding(par, t, z) <=> IsHolding(old, t, z)
        /\ \A z \in Items : z = t \/ IsHolding(old, t, z) => cnt[z] = oldCnt[z]

\* Whom a move does not disturb keeps his offer.
LEMMA UndisturbedKeeps ==
    ASSUME Standing, NEW par \in Placing, NEW cnt \in [Items -> 0..MaxStack],
           NEW x \in Items, NEW c \in Cylinders, NEW m \in MovedTo(par, cnt, x, c),
           NEW q \in Players, Offering(par, q), q \notin Disturbed(par, cnt, x, m)
    PROVE  SameOffer(q, par, cnt, m.par, m.cnt) /\ Offering(m.par, q)
<1> DEFINE t == tradeItem[q]
<1>0. PutSomewhere(par, m.par, x)
  BY MovedToForm
<1>1. PICK d \in Cylinders \cup {Nowhere} : m.par = [par EXCEPT ![x] = d]
  BY <1>0 DEF PutSomewhere
<1>2. /\ q \notin OnRemove(par, x) /\ q \notin OnAdd(m.par, x)
      /\ \A y \in Coins : m.cnt[y] > cnt[y] => q \notin OnUpdate(par, y)
  BY DEF Disturbed
<1>3. q \notin OnAdd([par EXCEPT ![x] = d], x)
  BY <1>1, <1>2
<1>4. /\ x # t /\ ~IsHolding(par, t, x)
      /\ Holders([par EXCEPT ![x] = d], t) = Holders(par, t)
      /\ \A z \in Items : IsHolding([par EXCEPT ![x] = d], t, z) <=> IsHolding(par, t, z)
      /\ Offering([par EXCEPT ![x] = d], q)
  BY <1>2, <1>3, UntoldKeeps
<1>5. ASSUME NEW z \in Items, z = t \/ IsHolding(par, t, z) PROVE m.cnt[z] = cnt[z]
  <2> SUFFICES ASSUME m.cnt[z] # cnt[z] PROVE FALSE
    OBVIOUS
  <2>1. z # x
    BY <1>4, <1>5
  <2>2. z \in Coins /\ m.cnt[z] > cnt[z]
    BY <2>1, MovedToForm
  <2>3. q \in OnUpdate(par, z)
    BY <1>5, TouchedSeen DEF OnUpdate
  <2> QED BY <1>2, <2>2, <2>3
<1> QED BY <1>1, <1>4, <1>5 DEF SameOffer

\* Offers that stay the same over two moves stay the same.
LEMMA SameOfferTwice ==
    ASSUME NEW q, NEW par0, NEW cnt0, NEW par1, NEW cnt1, NEW par2, NEW cnt2,
           SameOffer(q, par0, cnt0, par1, cnt1), SameOffer(q, par1, cnt1, par2, cnt2)
    PROVE  SameOffer(q, par0, cnt0, par2, cnt2)
BY DEF SameOffer

\* The offers of those who are not disturbed by an exchange, and the types of what
\* it leaves.
LEMMA SameOfferStays ==
    ASSUME TradeInv, NEW q \in Players, tradeItem[q] # NoItem, pos' = pos,
           SameOffer(q, parent, count, parent', count')
    PROVE  OfferStays(q)
<1>1. Offering(parent, q)
  BY OffererOnline
<1>2. \E u \in Tops(parent, tradeItem[q]) :
         u = q \/ (u \in Tiles /\ InRange(u, pos'[q], 1))
  BY <1>1 DEF Offering, AtHand
<1> QED BY <1>2 DEF OfferStays, SameOffer

\* The second move of an exchange, after the first.
LEMMA SecondMoveInv ==
    ASSUME TradeInv, NEW p \in Players, NEW q \in Players, tradePartner[p] = q,
           tradeItem[p] # NoItem, tradeItem[q] # NoItem, NEW c \in Cylinders,
           NEW m1 \in MovedTo(parent, count, tradeItem[p], c),
           SecondMove(p, q, m1, Disturbed(parent, count, tradeItem[p], m1)),
           online' = online, pos' = pos, moves' = moves
    PROVE  TradeInv'
<1> DEFINE x == tradeItem[p]
           y == tradeItem[q]
           D1 == Disturbed(parent, count, x, m1)
<1>0. /\ Standing /\ parent \in Placing /\ count \in [Items -> 0..MaxStack]
      /\ x \in Items /\ y \in Items /\ online \subseteq Players /\ pos \in [Players -> Tiles]
      /\ moves \in 0..MaxMoves
  BY DEF TradeInv, TypeOK, Standing, Placing
<1>1. tradePartner[q] = p
  BY TradeAssumption DEF TradeInv, Paired
<1>2. m1.par \in Placing /\ m1.cnt \in [Items -> 0..MaxStack]
  <2>1. /\ m1.cnt \in [Items -> 0..MaxStack]
        /\ PutSomewhere(parent, m1.par, x)
    BY <1>0, MovedToForm
  <2> QED BY <1>0, <2>1 DEF Placing, PutSomewhere
<1>3. \A r \in Players : tradeItem[r] # NoItem /\ r \notin D1 =>
        SameOffer(r, parent, count, m1.par, m1.cnt) /\ Offering(m1.par, r)
  BY <1>0, OffererOnline, UndisturbedKeeps
<1>4. D1 \in SUBSET Players
  BY ToldPlayers DEF Disturbed
<1>5. ASSUME NEW D \in SUBSET Players, EndTrades({p, q} \cup Ending(D \ {p, q})),
             parent' \in Placing, count' \in [Items -> 0..MaxStack],
             \A r \in Players : r \notin D /\ tradeItem[r] # NoItem =>
                SameOffer(r, parent, count, parent', count')
      PROVE  TradeInv'
  <2> DEFINE E == {p, q} \cup Ending(D \ {p, q})
  <2>1. D \ {p, q} \in SUBSET Players
    OBVIOUS
  <2>2. /\ E \in SUBSET Players /\ D \subseteq E
        /\ \A r \in E : tradePartner[r] # NoPlayer => tradePartner[r] \in E
    BY <1>1, <2>1, EndingClosed
  <2>3. \A r \in Players \ E : tradeItem[r] # NoItem => OfferStays(r)
    BY <1>5, <2>2, SameOfferStays
  <2>4. EndTrades(E)
    BY <1>5
  <2> HIDE DEF E
  <2> QED BY <1>0, <1>5, <2>2, <2>3, <2>4, EndTradesInv
<1> HIDE DEF D1
<1>6. CASE /\ parent' = m1.par
           /\ count' = m1.cnt
           /\ EndTrades({p, q} \cup Ending(D1 \ {p, q}))
  BY <1>2, <1>3, <1>4, <1>5, <1>6
<1>7. CASE \E d \in EmptyPlaces(m1.par, p, y, FALSE) : \E m2 \in MovedTo(m1.par, m1.cnt, y, d) :
              /\ parent' = m2.par
              /\ count' = m2.cnt
              /\ EndTrades({p, q} \cup Ending(
                    (D1 \cup Disturbed(m1.par, m1.cnt, y, m2)) \ {p, q}))
  <2>0. PICK d \in EmptyPlaces(m1.par, p, y, FALSE) :
          \E m2 \in MovedTo(m1.par, m1.cnt, y, d) :
              /\ parent' = m2.par
              /\ count' = m2.cnt
              /\ EndTrades({p, q} \cup Ending(
                    (D1 \cup Disturbed(m1.par, m1.cnt, y, m2)) \ {p, q}))
    BY <1>7
  <2>1. PICK m2 \in MovedTo(m1.par, m1.cnt, y, d) :
              /\ parent' = m2.par
              /\ count' = m2.cnt
              /\ EndTrades({p, q} \cup Ending(
                    (D1 \cup Disturbed(m1.par, m1.cnt, y, m2)) \ {p, q}))
    BY <2>0
  <2> DEFINE D2 == Disturbed(m1.par, m1.cnt, y, m2)
  <2>2. d \in Cylinders
    BY DEF EmptyPlaces, Searched, Cylinders
  <2>3. m2.par \in Placing /\ m2.cnt \in [Items -> 0..MaxStack]
    <3>1. /\ m2.cnt \in [Items -> 0..MaxStack]
          /\ PutSomewhere(m1.par, m2.par, y)
      BY <1>0, <1>2, <2>1, <2>2, MovedToForm
    <3> QED BY <1>2, <3>1 DEF Placing, PutSomewhere
  <2>4. D1 \cup D2 \in SUBSET Players
    BY <1>4, ToldPlayers DEF Disturbed
  <2>5. \A r \in Players : r \notin D1 \cup D2 /\ tradeItem[r] # NoItem =>
          SameOffer(r, parent, count, m2.par, m2.cnt)
    <3> SUFFICES ASSUME NEW r \in Players, r \notin D1, r \notin D2, tradeItem[r] # NoItem
                 PROVE  SameOffer(r, parent, count, m2.par, m2.cnt)
      OBVIOUS
    <3>1. SameOffer(r, parent, count, m1.par, m1.cnt) /\ Offering(m1.par, r)
      BY <1>3
    <3>2. SameOffer(r, m1.par, m1.cnt, m2.par, m2.cnt)
      BY <1>0, <1>2, <2>1, <2>2, <3>1, UndisturbedKeeps
    <3> QED BY <3>1, <3>2, SameOfferTwice
  <2>6. EndTrades({p, q} \cup Ending((D1 \cup D2) \ {p, q}))
    BY <2>1
  <2> HIDE DEF D2
  <2> QED BY <1>5, <2>1, <2>3, <2>4, <2>5, <2>6
<1> QED BY <1>6, <1>7 DEF SecondMove, D1

\* A player accepts: he waits for the other, or the items change hands, or the
\* trade fails and ends.
LEMMA AcceptTradeInv ==
    ASSUME TradeInv, NEW p \in Players, AcceptTrade(p)
    PROVE  TradeInv'
<1> DEFINE q == tradePartner[p]
<1>1. /\ p \in online /\ tradeState[p] \in {"ACKNOWLEDGE", "INITIATED"} /\ q # NoPlayer
      /\ online' = online /\ pos' = pos /\ moves' = moves
  BY DEF AcceptTrade
<1>2. q \in Players /\ tradePartner[q] = p
  BY <1>1 DEF TradeInv, TypeOK, Paired
<1>3. CASE /\ tradeState' = [tradeState EXCEPT ![p] = "ACCEPT"]
           /\ UNCHANGED <<parent, count, tradePartner, tradeItem, tradeItems, refs, shown>>
  <2>1. \A r \in Players : tradeState'[r] = IF r = p THEN "ACCEPT" ELSE tradeState[r]
    BY <1>3 DEF TradeInv, TypeOK
  <2>2. TypeOK'
    <3>1. tradeState' \in [Players -> TradeStates]
      BY <1>3 DEF TradeInv, TypeOK, TradeStates
    <3> QED BY <1>1, <1>3, <3>1 DEF TradeInv, TypeOK
  <2>3. Paired'
    BY <1>1, <1>3, <2>1 DEF TradeInv, Paired
  <2>4. Acknowledged'
    BY <1>3, <2>1 DEF TradeInv, Acknowledged
  <2>5. Books' /\ ShownTypes'
    BY <1>3 DEF TradeInv, Books, ShownTypes
  <2>6. OffersApart' /\ OfferIsShown'
    BY <1>3 DEF TradeInv, OffersApart, OfferIsShown
  <2>7. OfferAtHand'
    BY <1>1, <1>3 DEF TradeInv, OfferAtHand, AtHand, InRange
  <2> QED BY <2>2, <2>3, <2>4, <2>5, <2>6, <2>7 DEF TradeInv
<1>4. CASE ExchangeFails(p, q)
  <2> DEFINE E == {p, q}
  <2>1. EndTrades(E) /\ parent' = parent /\ count' = count
    BY <1>4 DEF ExchangeFails
  <2>2. /\ E \in SUBSET Players
        /\ \A r \in E : tradePartner[r] # NoPlayer => tradePartner[r] \in E
    BY <1>2
  <2>3. \A r \in Players \ E : tradeItem[r] # NoItem => OfferStays(r)
    BY <1>1, <2>1, StillStays
  <2>4. /\ online' \subseteq Players /\ pos' \in [Players -> Tiles] /\ parent' \in Placing
        /\ count' \in [Items -> 0..MaxStack] /\ moves' \in 0..MaxMoves
    BY <1>1, <2>1 DEF TradeInv, TypeOK, Placing
  <2> HIDE DEF E
  <2> QED BY <1>1, <2>1, <2>2, <2>3, <2>4, EndTradesInv
<1>5. CASE Exchange(p, q)
  <2> HIDE DEF q
  <2>1. tradeItem[p] # NoItem /\ tradeItem[q] # NoItem
    BY <1>5 DEF Exchange, TestsPass, TestAdd
  <2>2. PICK c \in EmptyPlaces(parent, q, tradeItem[p], FALSE) :
          \E m1 \in MovedTo(parent, count, tradeItem[p], c) :
             SecondMove(p, q, m1, Disturbed(parent, count, tradeItem[p], m1))
    BY <1>5 DEF Exchange
  <2>3. PICK m1 \in MovedTo(parent, count, tradeItem[p], c) :
          SecondMove(p, q, m1, Disturbed(parent, count, tradeItem[p], m1))
    BY <2>2
  <2>4. c \in Cylinders
    BY <1>2 DEF EmptyPlaces, Searched, Cylinders
  <2>5. tradePartner[p] = q
    BY DEF q
  <2> QED BY <1>1, <1>2, <2>1, <2>3, <2>4, <2>5, SecondMoveInv
<1> QED BY <1>3, <1>4, <1>5 DEF AcceptTrade
-------------------------------------------------------------------------------
\* Nobody trades when the server starts.
LEMMA InitTradeInv == Init => TradeInv
<1> SUFFICES ASSUME Init PROVE TradeInv
  OBVIOUS
<1>1. \A p \in Players : /\ tradeState[p] = "NONE" /\ tradePartner[p] = NoPlayer
                         /\ tradeItem[p] = NoItem
  BY DEF Init
<1>2. TypeOK
  <2>1. parent \in [Items -> Cylinders \cup {Nowhere}]
    BY DEF Init, Cylinders
  <2>2. count \in [Items -> 0..MaxStack]
    <3>1. 1..MaxStack \subseteq 0..MaxStack
      BY TradeAssumption
    <3> QED BY <3>1 DEF Init
  <2>3. /\ tradeState \in [Players -> TradeStates]
        /\ tradePartner \in [Players -> Players \cup {NoPlayer}]
        /\ tradeItem \in [Players -> Items \cup {NoItem}]
        /\ tradeItems \subseteq Items /\ refs \in [Items -> Nat]
    BY DEF Init, TradeStates
  <2> QED BY <2>1, <2>2, <2>3 DEF Init, TypeOK
<1>3. Paired /\ Acknowledged /\ OffersApart /\ OfferIsShown /\ OfferAtHand
  BY <1>1 DEF Paired, Acknowledged, OffersApart, OfferIsShown, OfferAtHand
<1>4. Books /\ ShownTypes
  BY <1>1, TradeAssumption DEF Init, Books, ShownTypes
<1> QED BY <1>2, <1>3, <1>4 DEF TradeInv

\* A step that leaves trades, places and items alone, while players may come.
LEMMA QuietInv ==
    ASSUME TradeInv, online \subseteq online', online' \subseteq Players,
           UNCHANGED <<pos, parent, count, tradeVars, moves, shown>>
    PROVE  TradeInv'
<1> USE DEF tradeVars
<1>1. TypeOK' /\ ShownTypes'
  BY DEF TradeInv, TypeOK, ShownTypes
<1>2. Paired'
  BY DEF TradeInv, Paired
<1>3. Acknowledged' /\ Books'
  BY DEF TradeInv, Acknowledged, Books
<1>4. OffersApart' /\ OfferIsShown'
  BY DEF TradeInv, OffersApart, OfferIsShown
<1>5. OfferAtHand'
  BY DEF TradeInv, OfferAtHand, AtHand, InRange
<1> QED BY <1>1, <1>2, <1>3, <1>4, <1>5 DEF TradeInv

\* Every step keeps the invariant.
LEMMA NextTradeInv == TradeInv /\ [Next]_vars => TradeInv'
<1> SUFFICES ASSUME TradeInv, [Next]_vars PROVE TradeInv'
  OBVIOUS
<1>1. CASE \E p, q \in Players, x \in Items : RequestTrade(p, q, x)
  BY <1>1, RequestTradeInv
<1>2. CASE \E p \in Players : AcceptTrade(p)
  BY <1>2, AcceptTradeInv
<1>3. CASE \E p \in Players : CloseTrade(p)
  BY <1>3, CloseTradeInv
<1>4. CASE \E p \in Players, x \in Items, c \in Cylinders : MoveItem(p, x, c)
  BY <1>4, MoveItemInv
<1>5. CASE \E p \in Players, x, y \in Coins, n \in 1..MaxStack : MoveCoins(p, x, y, n)
  BY <1>5, MoveCoinsInv
<1>6. CASE \E x \in Items : RemoveItem(x)
  BY <1>6, RemoveItemInv
<1>7. CASE \E p \in Players, to \in Tiles : Move(p, to)
  BY <1>7, MoveInv
<1>8. CASE \E p \in Players : Logout(p)
  BY <1>8, LogoutInv
<1>9. CASE \E p \in Players : Login(p)
  BY <1>9, QuietInv DEF Login, TradeInv, TypeOK
<1>10. CASE UNCHANGED vars
  BY <1>10, QuietInv DEF vars, TradeInv, TypeOK
<1> QED BY <1>1, <1>2, <1>3, <1>4, <1>5, <1>6, <1>7, <1>8, <1>9, <1>10 DEF Next

\* The invariant of trading holds for ever; with it the table of items on offer
\* and its references are exact, so no item is released twice or never
\* (tradeItems, internalCloseTrade of game.cpp).
THEOREM TradeInvariant == Spec => []TradeInv
BY InitTradeInv, NextTradeInv, PTL DEF Spec

\* Partners agree that they trade, no item is on offer twice, alone or inside
\* another offer, and an open offer is what its window shows, to the last coin in
\* the last bag, whatever is moved, joined, removed or carried away (game.cpp,
\* the on... notifications of player.cpp).
THEOREM OffersAlwaysAgree == Spec => []OffersAgree
<1>1. TradeInv => OffersAgree
  BY DEF TradeInv, OffersAgree
<1> QED BY <1>1, TradeInvariant, PTL
===============================================================================
