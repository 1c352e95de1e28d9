-------------------------------- MODULE MCTrade --------------------------------
(* Trade in three scenes: two players with two bags and a thing (offers inside *)
(* offers, offers that move), two players with a bag and two stacks of coins   *)
(* (counts, joined stacks), three players with a bag and a thing (who trades   *)
(* with whom).  Players, items and tiles that are not in the scene are not used. *)
EXTENDS Trade, TLC

CONSTANTS p1, p2, p3, sword, bag, bag2, coins1, coins2, t0, t1, t3,
          Tight  \* one place in each inventory and no bag, to see trades fail

VARIABLE scene

Scene(players, items, tiles, n) ==
    [players |-> players, items |-> items, tiles |-> tiles, moves |-> n]

Scenes ==
    IF Tight THEN {Scene({p1, p2}, {sword, coins1, coins2}, {t1}, 3)}
    ELSE {Scene({p1, p2}, {sword, bag, bag2}, Tiles, 2),
          Scene({p1, p2}, {bag, coins1, coins2}, {t1}, 2),
          Scene({p1, p2, p3}, {sword, bag}, Tiles, 1)}

\* Two places in each inventory and in each bag, unless Tight.
MCCapacity == [c \in Players \cup Bags |-> IF Tight THEN 1 ELSE 2]

\* From t1 both others are near enough to trade with; from t0, t3 is not.
MCCoord == t0 :> 0 @@ t1 :> 1 @@ t3 :> 3

MCInit ==
    /\ scene \in Scenes
    /\ online = scene.players
    /\ moves = MaxMoves - scene.moves
    /\ \E place \in [scene.items -> scene.players \cup scene.tiles],
          size \in [scene.items \cap Coins -> 1..MaxStack],
          stand \in [scene.players -> scene.tiles] :
          /\ parent = [x \in Items |-> IF x \in scene.items THEN place[x] ELSE Nowhere]
          /\ count = [x \in Items |-> IF x \in scene.items \cap Coins THEN size[x] ELSE 1]
          /\ pos = [p \in Players |-> IF p \in scene.players THEN stand[p] ELSE t1]
    /\ Init

MCNext ==
    /\ Next
    /\ online' \subseteq scene.players
    /\ {pos'[p] : p \in Players} \subseteq scene.tiles
    /\ {parent'[x] : x \in Items} \cap Tiles \subseteq scene.tiles
    /\ UNCHANGED scene

MCSpec == MCInit /\ [][MCNext]_<<scene, vars>>
MCSymmetry == Permutations({p1, p2}) \cup Permutations(Coins)
===============================================================================
