------------------------------- MODULE Paths -------------------------------
(***************************************************************************)
(* How a creature finds its way: the search of Map::getPathMatching over   *)
(* AStarNodes, the line of sight of Map::checkSightLine, and the cache of  *)
(* walkable tiles a monster carries with it (Creature::localMapCache).     *)
(*                                                                         *)
(* One step of the search takes one node, as one turn of the loop does;    *)
(* one step of a ray is one turn of its loop.  Cells are pairs <<x, y>> of *)
(* one floor.                                                              *)
(***************************************************************************)
EXTENDS Integers, Sequences, FiniteSets, FiniteSetsExt, SequencesExt

CONSTANTS GridW, GridH,     \* the cells <<x, y>> with x < GridW, y < GridH
          Scenes,           \* what stands on the grid, who goes where
          NodeLimit,        \* MAX_NODES
          ClosedLimit,      \* 100, the bound of a search without a distance
          Offsets,          \* the lines of sight that are followed
          CacheR,           \* maxWalkCacheWidth and maxWalkCacheHeight
          PathOps           \* bound on the moves around a cache

VARIABLES ps, ray, pc

pathVars == <<ps, ray, pc>>

Cells == (0 .. GridW - 1) \X (0 .. GridH - 1)

AbsOf(n) == IF n < 0 THEN -n ELSE n
SignOf(n) == IF n > 0 THEN 1 ELSE IF n = 0 THEN 0 ELSE -1
Plus(c, d) == <<c[1] + d[1], c[2] + d[2]>>
Apart(a, b) == Max({AbsOf(a[1] - b[1]), AbsOf(a[2] - b[2])})

-----------------------------------------------------------------------------
(* The line of sight.                                                      *)

\* The signs and coefficients Map::checkSightLine computes before its loop.
RayLine(at, to) ==
    LET mx == SignOf(to[1] - at[1])
        my == SignOf(to[2] - at[2])
        A == to[2] - at[2]
        B == at[1] - to[1]
        C == -(A * to[1] + B * to[2])
    IN  <<mx, my, A, B, C>>

\* One turn of the loop.
RayTurn(r) ==
    LET mx == r.k[1]
        my == r.k[2]
        Off(x, y) == AbsOf(r.k[3] * x + r.k[4] * y + r.k[5])
        hor == Off(r.at[1] + mx, r.at[2])
        ver == Off(r.at[1], r.at[2] + my)
        cross == Off(r.at[1] + mx, r.at[2] + my)
        down == r.at[2] # r.to[2] /\ (r.at[1] = r.to[1] \/ hor > ver \/ hor > cross)
        y == IF down THEN r.at[2] + my ELSE r.at[2]
        over == r.at[1] # r.to[1] /\ (y = r.to[2] \/ ver > hor \/ ver > cross)
    IN  [r EXCEPT !.at = <<IF over THEN r.at[1] + mx ELSE r.at[1], y>>, !.turns = @ + 1]

NewRay(from, to) == [at |-> from, from |-> from, to |-> to, k |-> RayLine(from, to), turns |-> 0]

\* Map::checkSightLine on one floor: every cell after the first is asked.
CheckSightLine(walls, from, to) ==
    LET n == AbsOf(from[1] - to[1]) + AbsOf(from[2] - to[2])
        end == FoldLeft(LAMBDA r, k : IF r.at = to \/ (r.at \in walls /\ r.turns > 0) THEN r
                                      ELSE RayTurn(r),
                        NewRay(from, to), [k \in 1 .. n |-> k])
    IN  from = to \/ (end.at = to /\ to \notin walls)

\* Map::isSightClear: two converging rays.
IsSightClear(walls, a, b) == CheckSightLine(walls, a, b) \/ CheckSightLine(walls, b, a)

-----------------------------------------------------------------------------
(* The condition a path must meet (FrozenPathingConditionCall).            *)

\* Without fullPathSearch only the near side of the target counts.
IsInRange(s, c) ==
    LET Reach(d, sign) == IF s.full \/ sign * d >= 0 THEN s.max ELSE 0
        dx == s.start[1] - s.target[1]
        dy == s.start[2] - s.target[2]
    IN  /\ c[1] <= s.target[1] + Reach(dx, 1) /\ c[1] >= s.target[1] - Reach(dx, -1)
        /\ c[2] <= s.target[2] + Reach(dy, 1) /\ c[2] >= s.target[2] - Reach(dy, -1)

\* What the condition makes of a cell, given the best distance so far.
Suits(s, c, best) ==
    LET d == Apart(s.target, c) IN
    /\ IsInRange(s, c)
    /\ IsSightClear(s.walls, c, s.target)
    /\ d >= s.min /\ d <= s.max
    /\ s.max = 1 \/ d = s.max \/ d > best

BestAfter(s, c, best) ==
    IF s.max = 1 THEN best
    ELSE IF Apart(s.target, c) = s.max THEN 0 ELSE Apart(s.target, c)

-----------------------------------------------------------------------------
(* The search.                                                             *)

\* Map::canWalkTo: a tile that takes the creature; its own always does.
CanWalkTo(s, c) == c \in Cells /\ c \notin s.walls \cup s.holes

\* AStarNodes::getMapWalkCost and getTileWalkCost
WalkCost(s, a, b) ==
    (IF AbsOf(a[1] - b[1]) = AbsOf(a[2] - b[2]) THEN 25 ELSE 10)
      + (IF b \in s.occupied THEN 30 ELSE 0) + (IF b \in s.fields THEN 180 ELSE 0)

\* The five neighbours that are not behind, in the order of dirNeighbors;
\* `back` points to the parent.
dirNeighbors(back) ==
    CASE back = <<0, -1>>  -> << <<-1, 0>>, <<0, 1>>, <<1, 0>>, <<1, 1>>, <<-1, 1>> >>
      [] back = <<1, 0>>   -> << <<-1, 0>>, <<0, 1>>, <<0, -1>>, <<-1, -1>>, <<-1, 1>> >>
      [] back = <<0, 1>>   -> << <<-1, 0>>, <<1, 0>>, <<0, -1>>, <<-1, -1>>, <<1, -1>> >>
      [] back = <<-1, 0>>  -> << <<0, 1>>, <<1, 0>>, <<0, -1>>, <<1, -1>>, <<1, 1>> >>
      [] back = <<-1, 1>>  -> << <<1, 0>>, <<0, -1>>, <<-1, -1>>, <<1, -1>>, <<1, 1>> >>
      [] back = <<1, 1>>   -> << <<-1, 0>>, <<0, -1>>, <<-1, -1>>, <<1, -1>>, <<-1, 1>> >>
      [] back = <<-1, -1>> -> << <<0, 1>>, <<1, 0>>, <<1, -1>>, <<1, 1>>, <<-1, 1>> >>
      [] back = <<1, -1>>  -> << <<-1, 0>>, <<0, 1>>, <<-1, -1>>, <<1, 1>>, <<-1, 1>> >>

allNeighbors == << <<-1, 0>>, <<0, 1>>, <<1, 0>>, <<0, -1>>,
                   <<-1, -1>>, <<1, -1>>, <<1, 1>>, <<-1, 1>> >>

\* A slip in the table: after a step to the south the neighbours are those of
\* a step to the north.
NeighboursTurned(nodes, k) ==
    IF nodes[k].parent = 0 THEN allNeighbors
    ELSE LET p == nodes[nodes[k].parent].at
             back == <<p[1] - nodes[k].at[1], p[2] - nodes[k].at[2]>>
         IN  dirNeighbors(IF back = <<0, -1>> THEN <<0, 1>> ELSE back)
Neighbours(nodes, k) ==
    IF nodes[k].parent = 0 THEN allNeighbors
    ELSE LET p == nodes[nodes[k].parent].at IN
         dirNeighbors(<<p[1] - nodes[k].at[1], p[2] - nodes[k].at[2]>>)

\* AStarNodes::getBestNode: the cheapest open node, the oldest of equals.
OpenNodes(nodes) == {k \in DOMAIN nodes : nodes[k].open}
BestNode(nodes) ==
    CHOOSE k \in OpenNodes(nodes) :
        \A m \in OpenNodes(nodes) :
            nodes[k].f < nodes[m].f \/ (nodes[k].f = nodes[m].f /\ k <= m)

\* One neighbour of node k: a new node, a node now reached more cheaply (which
\* is opened again), or nothing.  The table of nodes may be full.
Relax(p, k, d) ==
    LET s == p.scene
        c == Plus(p.nodes[k].at, d)
        old == {m \in DOMAIN p.nodes : p.nodes[m].at = c}
        newf == p.nodes[k].f + WalkCost(s, p.nodes[k].at, c)
        m == CHOOSE x \in old : TRUE
    IN  IF \/ p.stop
           \/ s.search # 0 /\ Apart(s.start, c) > s.search
           \/ s.keep /\ ~IsInRange(s, c)
           \/ old = {} /\ ~CanWalkTo(s, c)
           \/ old # {} /\ p.nodes[m].f <= newf
        THEN p
        ELSE IF old # {}
             THEN [p EXCEPT !.nodes[m] = [at |-> c, parent |-> k, f |-> newf, open |-> TRUE]]
        ELSE IF Len(p.nodes) >= NodeLimit
             THEN [p EXCEPT !.stop = TRUE, !.full = TRUE]
        ELSE [p EXCEPT !.nodes = Append(@, [at |-> c, parent |-> k, f |-> newf, open |-> TRUE])]

ClosedNodes(nodes) == Cardinality(DOMAIN nodes) - Cardinality(OpenNodes(nodes))

\* One turn of the loop of Map::getPathMatching.
SearchTurn(p) ==
    LET s == p.scene
        k == BestNode(p.nodes)
        suits == Suits(s, p.nodes[k].at, p.best)
        seen == IF suits THEN [p EXCEPT !.found = k, !.best = BestAfter(s, p.nodes[k].at, p.best)]
                ELSE p
        around == FoldLeft(LAMBDA q, d : Relax(q, k, d), seen, Neighbours(p.nodes, k))
    IN  IF s.search = 0 /\ ClosedNodes(p.nodes) >= ClosedLimit
        THEN [p EXCEPT !.done = TRUE, !.full = TRUE]
        ELSE IF OpenNodes(p.nodes) = {} THEN [p EXCEPT !.done = TRUE]
        ELSE IF suits /\ seen.best = 0 THEN [seen EXCEPT !.done = TRUE]
        ELSE IF around.stop /\ around.found = 0 THEN [around EXCEPT !.done = TRUE]
        ELSE [around EXCEPT !.nodes[k].open = FALSE, !.stop = FALSE]

NewSearch(s) ==
    [scene |-> s, nodes |-> << [at |-> s.start, parent |-> 0, f |-> 0, open |-> TRUE] >>,
     found |-> 0, best |-> 0, stop |-> FALSE, full |-> FALSE, done |-> FALSE]

\* The directions handed back: from the found node to the first, turned round.
PathOf(p) ==
    LET chain == FoldLeft(LAMBDA ks, x : IF ks[1] = 0 \/ p.nodes[ks[1]].parent = 0 THEN ks
                                         ELSE <<p.nodes[ks[1]].parent>> \o ks,
                          <<p.found>>, p.nodes)
    IN  [n \in 1 .. Len(chain) - 1 |->
            LET a == p.nodes[chain[n]].at
                b == p.nodes[chain[n + 1]].at
            IN  <<b[1] - a[1], b[2] - a[2]>>]

-----------------------------------------------------------------------------
(* The cache of walkable tiles.                                            *)

Window == (-CacheR .. CacheR) \X (-CacheR .. CacheR)

\* Tile::queryAdd for the monster that carries the cache.
TakesMonster(q, c) == c \in Cells /\ c \notin q.blocked /\ c # q.at

\* Creature::updateTileCache: the cell d of the window asked again.
UpdateCells(q, ds) ==
    [q EXCEPT !.cache = [d \in Window |->
        IF d \in ds THEN TakesMonster(q, Plus(q.at, d)) ELSE q.cache[d]]]

\* Creature::onCreatureMove of the monster itself, from `old`.  The rows are
\* shifted first and the new one asked; then the columns, of the rows from
\* starty on: getDistanceY is never negative, so that also after a step to
\* the south the first row is left out and the last, just asked, is shifted.
ShiftRows(q, dy) ==
    IF dy = 0 THEN q
    ELSE UpdateCells([q EXCEPT !.cache = [d \in Window |->
                         IF Plus(d, <<0, dy>>) \in Window THEN q.cache[Plus(d, <<0, dy>>)]
                         ELSE q.cache[d]]],
                     {d \in Window : d[2] = dy * CacheR})

ShiftColumns(q, dx, starty) ==
    IF dx = 0 THEN q
    ELSE UpdateCells([q EXCEPT !.cache = [d \in Window |->
                         IF d[2] >= starty - CacheR /\ Plus(d, <<dx, 0>>) \in Window
                         THEN q.cache[Plus(d, <<dx, 0>>)]
                         ELSE q.cache[d]]],
                     {d \in Window : d[1] = dx * CacheR})

CacheMove(q, to) ==
    LET d == <<to[1] - q.at[1], to[2] - q.at[2]>>
        moved == [q EXCEPT !.at = to,
                           !.skewed = @ \/ (d[2] = 1 /\ d[1] # 0)]
        shifted == ShiftColumns(ShiftRows(moved, d[2]), d[1], AbsOf(d[2]))
    IN  UpdateCells(shifted, {<<-d[1], -d[2]>>} \cap Window)

\* Creature::updateMapCache
UpdateMapCache(q) == [UpdateCells(q, Window) EXCEPT !.skewed = FALSE]

\* Something comes to a tile or leaves it (onAddTileItem, onRemoveTileItem,
\* onCreatureMove of another).
TileChanges(q, c) ==
    LET changed == [q EXCEPT !.blocked = IF c \in @ THEN @ \ {c} ELSE @ \cup {c}] IN
    UpdateCells(changed, {<<c[1] - q.at[1], c[2] - q.at[2]>>} \cap Window)

-----------------------------------------------------------------------------
Idle == [ops |-> PathOps, at |-> <<0, 0>>, blocked |-> {}, skewed |-> TRUE,
         cache |-> [d \in Window |-> FALSE]]
NoScene == [NewSearch([start |-> <<0, 0>>]) EXCEPT !.done = TRUE]
NoRay == NewRay(<<0, 0>>, <<0, 0>>)

PathInit ==
    \/ /\ \E s \in Scenes : ps = NewSearch(s)
       /\ ray = NoRay /\ pc = Idle
    \/ /\ \E d \in Offsets : ray = NewRay(<<0, 0>>, d)
       /\ ps = NoScene /\ pc = Idle
    \/ /\ \E at \in Cells : pc = UpdateMapCache([Idle EXCEPT !.ops = 0, !.at = at])
       /\ ps = NoScene /\ ray = NoRay

Search == ~ps.done /\ ps' = SearchTurn(ps) /\ UNCHANGED <<ray, pc>>

Look == ray.at # ray.to /\ ray' = RayTurn(ray) /\ UNCHANGED <<ps, pc>>

MonsterStep ==
    /\ pc.ops < PathOps
    /\ \E c \in Cells :
          /\ Apart(c, pc.at) = 1 /\ TakesMonster(pc, c)
          /\ pc' = [CacheMove(pc, c) EXCEPT !.ops = @ + 1]
    /\ UNCHANGED <<ps, ray>>

MonsterTeleport ==
    /\ pc.ops < PathOps
    /\ \E c \in Cells :
          /\ Apart(c, pc.at) > 1 /\ TakesMonster(pc, c)
          /\ pc' = [UpdateMapCache([pc EXCEPT !.at = c]) EXCEPT !.ops = @ + 1]
    /\ UNCHANGED <<ps, ray>>

TileChange ==
    /\ pc.ops < PathOps
    /\ \E c \in Cells \ {pc.at} : pc' = [TileChanges(pc, c) EXCEPT !.ops = @ + 1]
    /\ UNCHANGED <<ps, ray>>

PathNext == Search \/ Look \/ MonsterStep \/ MonsterTeleport \/ TileChange

PathSpec == PathInit /\ [][PathNext]_pathVars

-----------------------------------------------------------------------------
(* What must hold.                                                         *)

\* The cheapest way to every cell, by relaxing all steps as often as there
\* are cells: the reference the search is measured by.
TooFar == 100000
Cheapest(s) ==
    LET Allowed(c) == /\ CanWalkTo(s, c)
                      /\ s.search # 0 => Apart(s.start, c) <= s.search
                      /\ s.keep => IsInRange(s, c)
        Better(g) == [c \in Cells |->
            IF c = s.start THEN 0
            ELSE IF ~Allowed(c) THEN TooFar
            ELSE Min({g[c]} \cup {g[b] + WalkCost(s, b, c) : b \in {x \in Cells : Apart(x, c) = 1}})]
    IN  FoldLeft(LAMBDA g, k : LET h == Better(g) IN IF h = g THEN g ELSE h,
                 [c \in Cells |-> IF c = s.start THEN 0 ELSE TooFar],
                 [k \in 1 .. Cardinality(Cells) |-> k])

\* The cells the condition accepts, whatever was found before.
Goals(s) == {c \in Cells : Suits(s, c, 0)}

\* A search that ends without running into a limit finds a way exactly when
\* there is one; the directions it hands back lead over walkable tiles to a
\* cell that suits, at the least possible cost, and of the possible distances
\* to the target the largest is kept.
SearchIsRight ==
    ps.done /\ ps # NoScene /\ ~ps.full =>
        LET s == ps.scene
            cost == Cheapest(s)
            open == {c \in Goals(s) : cost[c] < TooFar}
            path == PathOf(ps)
            end == ps.nodes[ps.found].at
            cells == [n \in 0 .. Len(path) |->
                        FoldLeft(LAMBDA c, d : Plus(c, d), s.start, SubSeq(path, 1, n))]
            best == {c \in open : \A o \in open :
                        s.max > 1 => Apart(c, s.target) >= Apart(o, s.target)}
        IN  /\ (ps.found = 0) <=> (open = {})
            /\ ps.found # 0 =>
                 /\ cells[Len(path)] = end
                 /\ \A n \in 1 .. Len(path) : CanWalkTo(s, cells[n]) /\ Apart(cells[n - 1], cells[n]) = 1
                 /\ end \in best
                 /\ \A o \in best : cost[o] >= ps.nodes[ps.found].f
                 /\ cost[end] = ps.nodes[ps.found].f

\* A line of sight gets nearer with every turn, so that its loop ends, and it
\* never leaves the rectangle between its ends.
RaysArrive ==
    /\ ray.turns <= AbsOf(ray.to[1]) + AbsOf(ray.to[2])
         - AbsOf(ray.to[1] - ray.at[1]) - AbsOf(ray.to[2] - ray.at[2])
    /\ \A i \in {1, 2} : ray.at[i] \in Min({0, ray.to[i]}) .. Max({0, ray.to[i]})

\* The cache says of every cell around whether the tile takes the monster,
\* until the monster steps to the south-east or south-west.
CacheAgrees ==
    ~pc.skewed =>
        \A d \in Window \ {<<0, 0>>} : pc.cache[d] = TakesMonster(pc, Plus(pc.at, d))

\* The search, the line of sight and the cache each compute what they are
\* for (Map::getPathMatching, Map::checkSightLine, Creature::onCreatureMove).
PathsAgree == SearchIsRight /\ RaysArrive /\ CacheAgrees
=============================================================================
