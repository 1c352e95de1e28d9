----------------------------- MODULE ClientView -----------------------------
(* What a client is told of the map (protocolgame.cpp, the send methods of     *)
(* player.h, tile.cpp, Map::moveCreature): the stacks of two tiles in sight    *)
(* and the creatures the client knows, the part of the map it was sent as its  *)
(* player walks, and the coding of tiles that are not there. Messages arrive   *)
(* in the order they are written. The client is external: it puts a new thing  *)
(* in front of the things of its own and later classes and keeps StackLimit.   *)
EXTENDS Integers, Sequences, FiniteSets, SequencesExt

CONSTANTS Things,       \* items
          KindOf,       \* item -> "ground", "border", "splash", "door", "field", "wall" (a field that stays), "thing"
          Beasts,       \* creatures, not players
          StackLimit,   \* 10
          KnownLimit,   \* 150
          MaxSkip,      \* 0xFE
          Heights, Walks, Rows, ViewSteps     \* floors, steps and lengths of rows tried; bound on operations

VARIABLES cv, vSteps
clientVars == <<cv, vSteps>>

Nowhere == 0
Seen == {1, 2}      \* the tiles in sight
Away == 3

-----------------------------------------------------------------------------
(* The tile: ground, top items, creatures with the newest last, down items *)
EmptyTile == [ground |-> <<>>, top |-> <<>>, who |-> <<>>, down |-> <<>>]
TopOrder(i) == CASE KindOf[i] = "border" -> 1 [] KindOf[i] = "splash" -> 2 [] KindOf[i] = "door" -> 3
AlwaysOnTop(i) == KindOf[i] \in {"border", "splash", "door"}
IsField(i) == KindOf[i] \in {"field", "wall"}

CanSeeCreature(s, c) == c \notin s.hidden
InSight(s, t) == SelectSeq(Reverse(s.tile[t].who), LAMBDA c : CanSeeCreature(s, c))
Stack(s, t) == s.tile[t].ground \o s.tile[t].top \o InSight(s, t) \o s.tile[t].down
ThingCount(s, t) == Len(s.tile[t].ground) + Len(s.tile[t].top) + Len(s.tile[t].who) + Len(s.tile[t].down)

Face(s, x) == <<x, IF x \in Things THEN s.look[x] ELSE 0>>
Cut(q) == SubSeq(q, 1, IF Len(q) < StackLimit THEN Len(q) ELSE StackLimit)
TileDescription(s, t) == LET d == Cut(Stack(s, t)) IN SubSeq([n \in 1..Len(d) |-> Face(s, d[n])], 1, Len(d))

(* counted from 0; -1 is out of the client's sight *)
Limited(n) == IF n >= StackLimit THEN -1 ELSE n
StackposOfItem(s, t, i) == Limited(IndexFirstSubSeq(<<i>>, Stack(s, t)) - 1)
ClientIndexForward(s, t, c) ==                                  \* a variant: creatures counted oldest first
    LET w == s.tile[t].who
    IN  Len(s.tile[t].ground) + Len(s.tile[t].top)
          + Cardinality({n \in 1..(CHOOSE n \in 1..Len(w) : w[n] = c) - 1 : CanSeeCreature(s, w[n])})
ClientIndexOfCreature(s, t, c) ==
    LET w == Reverse(s.tile[t].who)
    IN  Len(s.tile[t].ground) + Len(s.tile[t].top)
          + Cardinality({n \in 1..(CHOOSE n \in 1..Len(w) : w[n] = c) - 1 : CanSeeCreature(s, w[n])})
StackposOfCreature(s, t, c) == Limited(ClientIndexOfCreature(s, t, c))

-----------------------------------------------------------------------------
(* The client *)
Class(x) == IF x \notin Things THEN 4 ELSE IF AlwaysOnTop(x) THEN TopOrder(x) ELSE IF KindOf[x] = "ground" THEN 0 ELSE 5
ClientAdds(s, t, x) ==
    LET v  == s.view[t]
        at == IF \E n \in 1..Len(v) : Class(v[n][1]) >= Class(x)
              THEN CHOOSE n \in 1..Len(v) : Class(v[n][1]) >= Class(x) /\ \A k \in 1..n - 1 : Class(v[k][1]) < Class(x)
              ELSE Len(v) + 1
    IN  [s EXCEPT !.view[t] = Cut(InsertAt(v, at, Face(s, x)))]
(* a message about a thing the client has not got *)
ClientHas(s, t, n) == n + 1 \in 1..Len(s.view[t])
ClientRemoves(s, t, n) == IF ClientHas(s, t, n) THEN [s EXCEPT !.view[t] = RemoveAt(@, n + 1)] ELSE [s EXCEPT !.lost = @ \/ t \notin s.stale]
ClientMoves(s, t, n, to) ==
    IF ClientHas(s, t, n)
    THEN ClientAdds(ClientRemoves([s EXCEPT !.stale = IF t \in @ THEN @ \cup {to} ELSE @], t, n), to, s.view[t][n + 1][1])
    ELSE ClientRemoves([s EXCEPT !.stale = @ \cup {to}], t, n)
ClientUpdates(s, t, n, x) == IF ClientHas(s, t, n) THEN [s EXCEPT !.view[t][n + 1] = Face(s, x)] ELSE [s EXCEPT !.lost = @ \/ t \notin s.stale]

-----------------------------------------------------------------------------
(* Messages. s.order is the order of knownCreatureSet, which has no other.     *)
CanSeeIt(s, c) == s.at[c] \in Seen /\ CanSeeCreature(s, c)
CheckCreatureAsKnown(s, c) ==
    LET all    == s.known \cup {c}
        first(S) == s.order[CHOOSE n \in 1..Len(s.order) : s.order[n] \in S /\ \A k \in 1..n - 1 : s.order[k] \notin S]
        unseen == {x \in all : ~CanSeeIt(s, x)}
        gone   == IF unseen # {} THEN first(unseen) ELSE first(all \ {c})
    IN  IF c \in s.known \/ Cardinality(all) <= KnownLimit
        THEN [s EXCEPT !.known = all, !.client = @ \cup {c}, !.lost = @ \/ (c \in s.known /\ c \notin s.client)]
        ELSE [s EXCEPT !.known = all \ {gone}, !.client = (@ \ {gone}) \cup {c}, !.crowd = @ \/ unseen = {}]

SendAddCreature(s, t, c, pos) == IF t \notin Seen \/ pos = -1 THEN s ELSE ClientAdds(CheckCreatureAsKnown(s, c), t, c)
SendRemoveTileThing(s, t, pos) == IF t \notin Seen \/ pos = -1 \/ pos >= StackLimit THEN s ELSE ClientRemoves(s, t, pos)
SendUpdateTile(s, t) ==
    LET k == FoldLeft(CheckCreatureAsKnown, s, SelectSeq(Cut(Stack(s, t)), LAMBDA x : x \in Beasts))
    IN  [k EXCEPT !.view[t] = TileDescription(s, t), !.stale = @ \ {t}]
OnAddTileItem(s, t, i) == IF StackposOfItem(s, t, i) = -1 THEN s ELSE ClientAdds(s, t, i)
OnUpdateTileItem(s, t, i) == IF StackposOfItem(s, t, i) = -1 THEN s ELSE ClientUpdates(s, t, StackposOfItem(s, t, i), i)

(* a stack that was cut off has more to show *)
PostRemoveNotification(s, t) == IF t \in Seen /\ ThingCount(s, t) > StackLimit - 2 THEN SendUpdateTile(s, t) ELSE s

-----------------------------------------------------------------------------
(* Tile operations *)
RemoveThing(s, t, i) ==
    LET pos == IF KindOf[i] = "ground" THEN 0 ELSE StackposOfItem(s, t, i)
        cut(q) == SelectSeq(q, LAMBDA x : x # i)
        u == [s EXCEPT !.tile[t] = [@ EXCEPT !.ground = cut(@), !.top = cut(@), !.down = cut(@)], !.at[i] = Nowhere]
    IN  SendRemoveTileThing(u, t, pos)
RemoveOld(s, t, i) == PostRemoveNotification(RemoveThing(s, t, i), t)

AddThing(s, t, i) ==
    LET here  == s.tile[t]
        put(u) == [u EXCEPT !.at[i] = t]
        old   == SelectSeq(here.top, LAMBDA x : KindOf[x] = "splash")
        clean == IF KindOf[i] = "splash" /\ old # <<>> THEN RemoveOld(s, t, old[1]) ELSE s
        top   == clean.tile[t].top
        slot  == IF \E n \in 1..Len(top) : TopOrder(i) <= TopOrder(top[n])
                 THEN CHOOSE n \in 1..Len(top) : TopOrder(i) <= TopOrder(top[n]) /\ \A k \in 1..n - 1 : TopOrder(i) > TopOrder(top[k])
                 ELSE Len(top) + 1
        stays == \E n \in 1..Len(here.down) : KindOf[here.down[n]] = "wall"
        free  == IF IsField(i)
                 THEN FoldLeft(LAMBDA u, x : IF KindOf[x] = "field" THEN RemoveOld(u, t, x) ELSE u, s, here.down)
                 ELSE s
    IN  CASE KindOf[i] = "ground" /\ here.ground = <<>> -> OnAddTileItem(put([s EXCEPT !.tile[t].ground = <<i>>]), t, i)
          [] KindOf[i] = "ground" /\ here.ground # <<>> ->
                PostRemoveNotification(OnUpdateTileItem(put([s EXCEPT !.tile[t].ground = <<i>>, !.at[here.ground[1]] = Nowhere]), t, i), t)
          [] AlwaysOnTop(i) -> OnAddTileItem(put([clean EXCEPT !.tile[t].top = InsertAt(@, slot, i)]), t, i)
          [] IsField(i) /\ stays -> s
          [] OTHER -> OnAddTileItem(put([free EXCEPT !.tile[t].down = <<i>> \o @]), t, i)

UpdateThing(s, t, i) == OnUpdateTileItem([s EXCEPT !.look[i] = 1 - @], t, i)
ReplaceThing(s, t, old, i) ==
    LET swap(q) == [n \in 1..Len(q) |-> IF q[n] = old THEN i ELSE q[n]]
        u == [s EXCEPT !.tile[t] = [@ EXCEPT !.ground = swap(@), !.top = swap(@), !.down = swap(@)], !.at[i] = t, !.at[old] = Nowhere]
    IN  PostRemoveNotification(OnUpdateTileItem(u, t, i), t)

-----------------------------------------------------------------------------
(* Creatures *)
Leave(s, t, c) == IF t \in Seen THEN [s EXCEPT !.tile[t].who = SelectSeq(@, LAMBDA x : x # c), !.at[c] = Nowhere]
                  ELSE [s EXCEPT !.at[c] = Nowhere]
Arrive(s, t, c) == IF t \in Seen THEN [s EXCEPT !.tile[t].who = Append(@, c), !.at[c] = t] ELSE [s EXCEPT !.at[c] = t]

MapMoveCreature(s, c, from, to, teleport) ==
    LET old == IF ~CanSeeCreature(s, c) THEN -1 ELSE IF from = Away THEN 0 ELSE ClientIndexOfCreature(s, from, c)
        u   == Arrive(Leave(s, from, c), to, c)
        new == IF to = Away THEN -1 ELSE StackposOfCreature(u, to, c)
        told == IF old = -1 THEN u
                ELSE IF from = Away \/ to = Away THEN SendAddCreature(SendRemoveTileThing(u, from, old), to, c, new)
                ELSE IF teleport \/ old >= StackLimit THEN SendAddCreature(SendRemoveTileThing(u, from, old), to, c, new)
                ELSE ClientMoves(u, from, old, to)
    IN  PostRemoveNotification(told, from)
PlaceCreature(s, c, t) == LET u == Arrive(s, t, c) IN SendAddCreature(u, t, c, IF t \in Seen THEN StackposOfCreature(u, t, c) ELSE -1)
RemoveCreature(s, c, t) ==
    LET pos == IF CanSeeCreature(s, c) /\ t \in Seen THEN StackposOfCreature(s, t, c) ELSE -1
    IN  PostRemoveNotification(SendRemoveTileThing(Leave([s EXCEPT !.hidden = @ \ {c}], t, c), t, pos), t)
(* The condition is set before the clients are told; the tile is not sent      *)
(* again, and the client puts who comes back in front of everyone.             *)
ChangeVisible(s, c, t) ==
    LET u   == [s EXCEPT !.hidden = IF c \in @ THEN @ \ {c} ELSE @ \cup {c}]
        pos == IF t \in Seen THEN StackposOfCreature(u, t, c) ELSE -1
        off == t \in Seen /\ IF c \in u.hidden THEN Len(Stack(s, t)) > StackLimit ELSE ~IsPrefix(<<c>>, InSight(u, t))
        v   == [u EXCEPT !.stale = IF off THEN @ \cup {t} ELSE @]
    IN  IF c \in u.hidden THEN SendRemoveTileThing(v, t, pos) ELSE SendAddCreature(v, t, c, pos)

-----------------------------------------------------------------------------
(* The map around the player: floors, described column by column *)
Floors(z) == IF z > 7 THEN z - 2..(IF z + 2 > 15 THEN 15 ELSE z + 2) ELSE 0..7
GetMapDescription(x, y, z, w, h) ==
    UNION {{<<x + nx + z - nz, y + ny + z - nz, nz>> : nx \in 0..w - 1, ny \in 0..h - 1} : nz \in Floors(z)}
FullDescription(p) == GetMapDescription(p[1] - 8, p[2] - 6, p[3], 18, 14)
CanSee(me, p) ==
    /\ IF me[3] <= 7 THEN p[3] <= 7 ELSE p[3] >= me[3] - 2 /\ p[3] <= me[3] + 2
    /\ LET o == me[3] - p[3]
       IN  /\ p[1] >= me[1] - 8 + o /\ p[1] <= me[1] + 9 + o
           /\ p[2] >= me[2] - 6 + o /\ p[2] <= me[2] + 7 + o

(* sendMoveCreature of the player; a change of floor is a teleport *)
Strips(old, new) ==
    (IF old[2] > new[2] THEN GetMapDescription(old[1] - 8, new[2] - 6, new[3], 18, 1)
     ELSE IF old[2] < new[2] THEN GetMapDescription(old[1] - 8, new[2] + 7, new[3], 18, 1) ELSE {})
    \cup
    (IF old[1] < new[1] THEN GetMapDescription(new[1] + 9, new[2] - 6, new[3], 1, 14)
     ELSE IF old[1] > new[1] THEN GetMapDescription(new[1] - 8, new[2] - 6, new[3], 1, 14) ELSE {})
WalkEye(d, dz) ==
    LET old == cv.pos
        new == <<old[1] + d[1], old[2] + d[2], old[3] + dz>>
        sent == IF dz # 0 THEN FullDescription(new) ELSE Strips(old, new)
    IN  cv' = [cv EXCEPT !.pos = new, !.have = {p \in @ \cup sent : CanSee(new, p)}]

(* GetFloorDescription over a row of tiles, the skip carried from row to row;  *)
(* "t" stands for the things of a tile.                                        *)
Encode(row) ==
    LET step(a, there) ==
            IF there THEN [out |-> (IF a.skip >= 0 THEN Append(a.out, a.skip) ELSE a.out) \o <<-1>>, skip |-> 0]
            ELSE IF a.skip = MaxSkip THEN [out |-> Append(a.out, MaxSkip + 1), skip |-> -1]
            ELSE [a EXCEPT !.skip = @ + 1]
        e == FoldLeft(step, [out |-> <<>>, skip |-> -1], row)
    IN  IF e.skip >= 0 THEN Append(e.out, e.skip) ELSE e.out
(* the client: things or none, and the number of tiles to leave out after them *)
Decode(bytes) ==
    LET gap(n) == [k \in 1..n |-> FALSE]
        step(a, b) == IF b = -1 THEN [out |-> Append(a.out, TRUE), open |-> TRUE]
                      ELSE [out |-> a.out \o gap(IF a.open THEN b ELSE b + 1), open |-> FALSE]
    IN  FoldLeft(step, [out |-> <<>>, open |-> FALSE], bytes).out

-----------------------------------------------------------------------------
Scene(ground, things, order) ==
    LET s == [kind |-> "tiles", tile |-> [t \in Seen |-> IF t = 1 THEN [EmptyTile EXCEPT !.ground = ground, !.down = things] ELSE EmptyTile],
              view |-> [t \in Seen |-> <<>>], look |-> [i \in Things |-> 0], hidden |-> {}, known |-> {}, client |-> {},
              at |-> [x \in Things \cup Beasts |-> IF x \in Range(ground \o things) THEN 1 ELSE Nowhere],
              order |-> order, stale |-> {}, lost |-> FALSE, crowd |-> FALSE]
    IN  [s EXCEPT !.view[1] = TileDescription(s, 1)]

ClientInit ==
    /\ vSteps = ViewSteps
    /\ \/ \E g \in {<<>>, <<CHOOSE i \in Things : KindOf[i] = "ground">>}, order \in SetToSeqs(Beasts),
             d \in UNION {SetToSeqs(S) : S \in SUBSET {i \in Things : KindOf[i] = "thing"}} : cv = Scene(g, d, order)
       \/ \E z \in Heights : cv = [kind |-> "eye", pos |-> <<100, 100, z>>, have |-> FullDescription(<<100, 100, z>>)]
       \/ \E n \in Rows : \E row \in [1..n -> BOOLEAN] : cv = [kind |-> "row", row |-> row]

Do(s) == vSteps > 0 /\ vSteps' = vSteps - 1 /\ cv' = s
Tiles == cv.kind = "tiles"
Lying(i, t) == Tiles /\ cv.at[i] = t
Twin(i, j) == KindOf[i] = KindOf[j]

AddItem(i, t) == Tiles /\ cv.at[i] = Nowhere /\ Do(AddThing(cv, t, i))
RemoveItem(i, t) == Lying(i, t) /\ Do(RemoveOld(cv, t, i))
UpdateItem(i, t) == Lying(i, t) /\ Do(UpdateThing(PostRemoveNotification(cv, t), t, i))
TransformItem(i, j, t) ==
    /\ Lying(i, t) /\ cv.at[j] = Nowhere /\ KindOf[i] # "wall" /\ KindOf[j] # "wall"
    /\ IF AlwaysOnTop(i) # AlwaysOnTop(j) THEN Do(AddThing(RemoveOld(cv, t, i), t, j)) ELSE Twin(i, j) /\ Do(ReplaceThing(cv, t, i, j))
MoveBeast(c, to, teleport) ==
    Tiles /\ cv.at[c] \notin {Nowhere, to} /\ Do(MapMoveCreature(cv, c, cv.at[c], to, teleport \/ (to # Away => cv.tile[to].ground = <<>>)))
Appear(c, t) == Tiles /\ cv.at[c] = Nowhere /\ Do(PlaceCreature(cv, c, t))
Vanish(c) == Tiles /\ cv.at[c] # Nowhere /\ Do(RemoveCreature(cv, c, cv.at[c]))
Hide(c) == Tiles /\ cv.at[c] # Nowhere /\ Do(ChangeVisible(cv, c, cv.at[c]))
WalkView(d, dz) == cv.kind = "eye" /\ cv.pos[3] + dz \in Heights /\ (dz = 0 => d # <<0, 0>>) /\ vSteps > 0 /\ vSteps' = vSteps - 1 /\ WalkEye(d, dz)

ClientNext ==
    \/ \E d \in Walks, dz \in {-1, 0, 1} : WalkView(d, dz)
    \/ \E t \in Seen, i \in Things :
          AddItem(i, t) \/ RemoveItem(i, t) \/ UpdateItem(i, t) \/ \E j \in Things : TransformItem(i, j, t)
    \/ \E c \in Beasts : Vanish(c) \/ Hide(c)
          \/ \E t \in Seen \cup {Away} : Appear(c, t) \/ \E teleport \in BOOLEAN : MoveBeast(c, t, teleport)

-----------------------------------------------------------------------------
(* The client's tiles are the server's, down to the last thing that fits,      *)
(* after any adding, removing, transforming, moving, hiding and appearing, but *)
(* for a tile where someone hid while the stack was cut off, or came back      *)
(* behind someone, until it is sent again; no message names a thing the client has not got; both sides have the *)
(* same set of known creatures, and as long as not more than KnownLimit are in *)
(* sight, every creature shown is known. A walking player has been sent what   *)
(* canSee counts as seen, on every floor, and rows with gaps arrive as they    *)
(* are.                                                                        *)
ViewAgrees ==
    CASE cv.kind = "tiles" ->
            /\ \A t \in Seen \ cv.stale : cv.view[t] = TileDescription(cv, t)
            /\ ~cv.lost
            /\ cv.known = cv.client
            /\ cv.crowd \/ \A t \in Seen : \A n \in 1..Len(cv.view[t]) : cv.view[t][n][1] \in Beasts => cv.view[t][n][1] \in cv.client
      [] cv.kind = "eye" -> cv.have = FullDescription(cv.pos) /\ \A p \in cv.have : CanSee(cv.pos, p)
      [] OTHER -> Decode(Encode(cv.row)) = cv.row
=============================================================================
