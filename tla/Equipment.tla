----------------------------- MODULE Equipment -----------------------------
(***************************************************************************)
(* What a player wears and what it does for him, how items wear out, and   *)
(* which movement event is fired for a step or an item (movement.cpp, the  *)
(* decay lists of game.cpp, the notifications of player.cpp).              *)
(*                                                                         *)
(* Time is counted in EVENT_DECAYINTERVALs.  An item is a number; `worn`   *)
(* is the wardrobe, its abilities and the decay lists; `walk` is one round *)
(* of MoveEvents::onCreatureMove over a tile its scripts may change.       *)
(***************************************************************************)
EXTENDS Integers, Sequences, FiniteSets, SequencesExt, Folds

CONSTANTS EquipSlots,       \* the inventory slots considered
          ItemKinds,   \* item types: name -> record (see TypeOK)
          Goods,       \* the kinds of the items there are at the start, a sequence
          Present,     \* sets of them that are there together
          Buckets,     \* EVENT_DECAY_BUCKETS
          WornOps,     \* moves, uses and logins considered
          WornTicks,   \* rounds of checkDecay considered
          TileItems,   \* the items of the tile stepped on, bottom index first
          Registered   \* orders in which the move events may be registered

VARIABLES worn, walk

wornVars == <<worn, walk>>

ASSUME EquipmentConstants ==
    /\ Buckets \in Nat \ {0}
    /\ \A n \in DOMAIN Goods : Goods[n] \in DOMAIN ItemKinds

Wares == DOMAIN Goods
Kind(w, i) == ItemKinds[w.item[i].kind]
Ghost == 0     \* in a decay list: an item of a player object that is gone

-----------------------------------------------------------------------------
(* Decay.                                                                  *)

\* How often an item is in the decay lists.
Entries(w, i) == Len(SelectSeq(w.fresh, LAMBDA k : k = i))
                 + FoldFunctionOnSet(+, 0, [b \in DOMAIN w.bucket |->
                       Len(SelectSeq(w.bucket[b], LAMBDA k : k = i))], DOMAIN w.bucket)

\* Item::canDecay; an item carried by nobody and lying nowhere is removed.
CanDecay(w, i) == /\ i # Ghost
                  /\ w.item[i].place # "gone"
                  /\ Kind(w, i).decayTo # "never"
                  /\ Kind(w, i).time # 0

\* Item::setID
SetID(w, i, kind) ==
    LET old == w.item[i]
        was == Kind(w, i)
        it == ItemKinds[kind]
        kept == IF it.time = 0 /\ ~it.stops /\ it.decayTo = "never"
                THEN [old EXCEPT !.kind = kind, !.decaying = FALSE, !.left = -1]
                ELSE [old EXCEPT !.kind = kind]
        fresh == it.time > 0 /\ (~was.stops \/ kept.left = -1)
    IN  [w EXCEPT !.item[i] =
            [(IF fresh THEN [kept EXCEPT !.decaying = FALSE, !.left = it.time] ELSE kept)
                EXCEPT !.since = -1]]

\* The abilities of one kind of item, put on (sign 1) or taken off (-1).
\* Suppressions are bits, conditions are told apart by the slot.
Bestow(w, kind, slot, sign) ==
    LET ab == ItemKinds[kind].ab IN
    [w EXCEPT !.skill = @ + sign * ab.skill,
              !.stat = @ + sign * (ab.stat + w.base * ab.percent),
              !.conditions = IF ~ab.invisible THEN @
                             ELSE IF sign = 1 THEN @ \cup {slot} ELSE @ \ {slot},
              !.suppressed = IF ~ab.suppress THEN @ ELSE sign = 1]

\* MoveEvent::configureEvent: the slots an event is for.
SlotsNamed(name) == IF name \in {"hand", "shield"} THEN {"right", "left"}
                    ELSE IF name = "" THEN EquipSlots ELSE {name}

\* MoveEvents::getEvent with a slot: the event registered for kind and slot.
HasEvent(kind, what, slot) ==
    \E e \in ItemKinds[kind].events : e[1] = what /\ slot \in SlotsNamed(e[2])

\* As movements.xml registers them: what can be put on can be taken off, in
\* the form it has when worn, and that form stays as it is.
ASSUME KindsPaired ==
    \A k \in DOMAIN ItemKinds, s \in EquipSlots :
        LET it == ItemKinds[k]
            form == IF it.equipTo = "" THEN k ELSE it.equipTo
        IN  HasEvent(k, "equip", s) =>
                /\ HasEvent(form, "equip", s)
                /\ HasEvent(form, "deequip", s)
                /\ ItemKinds[form].equipTo = ""

MayWear(w, kind) == w.level >= ItemKinds[kind].needs

\* Game::transformItem of an item that keeps its type of item: the place is
\* told that the old one is gone and that a new one came.
DeEquipNoted(w, i, slot) ==
    IF HasEvent(w.item[i].kind, "deequip", slot) /\ w.ability[slot]
    THEN Bestow([w EXCEPT !.ability[slot] = FALSE], w.item[i].kind, slot, -1)
    ELSE w

EquipPlain(w, i, slot) ==
    IF ~HasEvent(w.item[i].kind, "equip", slot) \/ w.ability[slot] \/ ~MayWear(w, w.item[i].kind) THEN w
    ELSE Bestow([w EXCEPT !.ability[slot] = TRUE], w.item[i].kind, slot, 1)

\* The new kind was chosen so that it does not change again when put on or
\* taken off: a chain of two changes would be a third kind.
TransformItem(w, i, kind) ==
    LET at == w.item[i].place IN
    IF w.item[i].kind = kind \/ at = "gone" THEN w
    ELSE IF at \in EquipSlots THEN EquipPlain(SetID(DeEquipNoted(w, i, at), i, kind), i, at)
    ELSE SetID(w, i, kind)

\* Player::removeThing and the notification, for an item that leaves for good.
RemoveItem(w, i) ==
    LET at == w.item[i].place
        out == [w EXCEPT !.item[i].place = "gone"]
    IN  IF at \in EquipSlots THEN DeEquipNoted(out, i, at) ELSE out

\* Game::startDecay of an item with time left.
EnterDecay(w, i) ==
    IF ~CanDecay(w, i) \/ w.item[i].decaying THEN w
    ELSE [w EXCEPT !.item[i].decaying = TRUE, !.item[i].since = 0,
                   !.item[i].whole = w.item[i].left, !.fresh = <<i>> \o @]

\* Game::internalDecayItem; `early` notes how long before its time the item
\* ends, when it was in the lists once.
InternalDecayItem(w, i) ==
    LET x == w.item[i]
        told == IF x.since < 0 \/ Entries(w, i) > 0 THEN w
                ELSE [w EXCEPT !.early = x.whole - x.since]
    IN  IF Kind(w, i).decayTo = "nothing" THEN RemoveItem(told, i)
        ELSE EnterDecay(TransformItem(told, i, Kind(w, i).decayTo), i)

\* Game::startDecay
StartDecay(w, i) ==
    IF CanDecay(w, i) /\ ~w.item[i].decaying /\ w.item[i].left <= 0
    THEN InternalDecayItem(w, i)
    ELSE EnterDecay(w, i)

\* One item of the bucket whose turn it is.  What is left after the visit,
\* whole rounds of less than a second, is not waited for.
DecayOne(w, i, b) ==
    LET drop == [w EXCEPT !.bucket[b] = Tail(@)]      \* the loop stands at the head
        full == Buckets
        left == w.item[i].left
        rest == IF left > full THEN left - full ELSE 0
        less == [drop EXCEPT !.item[i].left = rest]
    IN  IF ~CanDecay(w, i)
        THEN IF i = Ghost THEN drop ELSE [drop EXCEPT !.item[i].decaying = FALSE]
        ELSE IF rest < full THEN InternalDecayItem(less, i)
        ELSE [less EXCEPT !.bucket[b] = Append(@, i)]

\* Game::checkDecay and Game::cleanup at its end.
CheckDecay(w) ==
    LET b == (w.last + 1) % Buckets
        aged == [w EXCEPT !.item = [i \in Wares |->
                    IF w.item[i].since >= 0 THEN [w.item[i] EXCEPT !.since = @ + 1] ELSE w.item[i]]]
        done == FoldLeft(LAMBDA v, i : DecayOne(v, i, b), aged, w.bucket[b])
        BucketFor(v, i) ==
            IF v.item[i].left >= Buckets THEN b ELSE (b + 1 + v.item[i].left \div Buckets) % Buckets
        Sorted(v) ==
            FoldLeft(LAMBDA u, i : IF i = Ghost THEN u
                                   ELSE [u EXCEPT !.bucket[BucketFor(u, i)] = Append(@, i)],
                     [v EXCEPT !.fresh = <<>>, !.last = b], v.fresh)
    IN  Sorted(done)

-----------------------------------------------------------------------------
(* Putting on and taking off.                                              *)

\* MoveEvent::EquipItem: an item that changes when worn is changed first,
\* and the change itself puts the new kind on.
EquipItemLate(w, i, slot) ==
    IF ~HasEvent(w.item[i].kind, "equip", slot) \/ w.ability[slot] \/ ~MayWear(w, w.item[i].kind) THEN w
    ELSE IF Kind(w, i).equipTo = "" THEN EquipPlain(w, i, slot)
    ELSE LET v == StartDecay(TransformItem(w, i, Kind(w, i).equipTo), i)
         IN  Bestow(v, v.item[i].kind, slot, 1)
EquipItem(w, i, slot) ==
    LET it == Kind(w, i) IN
    IF ~HasEvent(w.item[i].kind, "equip", slot) \/ w.ability[slot] \/ ~MayWear(w, w.item[i].kind) THEN w
    ELSE IF it.equipTo = "" THEN EquipPlain(w, i, slot)
    ELSE LET v == TransformItem(w, i, it.equipTo)
         IN  Bestow(StartDecay(v, i), w.item[i].kind, slot, 1)

\* MoveEvent::DeEquipItem; the item is already elsewhere.
DeEquipItem(w, i, slot) ==
    LET it == Kind(w, i) IN
    IF ~HasEvent(w.item[i].kind, "deequip", slot) \/ ~w.ability[slot] THEN w
    ELSE LET off == [w EXCEPT !.ability[slot] = FALSE]
             v == IF it.deequipTo = "" THEN off
                  ELSE StartDecay(TransformItem(off, i, it.deequipTo), i)
         IN  Bestow(v, w.item[i].kind, slot, -1)

In(w, slot) == {i \in Wares : w.item[i].place = slot}

\* Game::internalMoveItem from a slot to the ground.
OffTo(w, i) == LET at == w.item[i].place IN
               DeEquipItem([w EXCEPT !.item[i].place = "ground"], i, at)

\* Game::internalMoveItem of an item on the ground to a slot.  Who is in the
\* slot is put on the ground first, before it is asked whether the new item
\* may be worn: Player::queryAdd answers for a free slot only.
PutOn(w, i, slot) ==
    LET there == In(w, slot)
        free == IF there = {} THEN w ELSE OffTo(w, CHOOSE j \in there : TRUE)
        kind == w.item[i].kind
        ok == ~HasEvent(kind, "equip", slot) \/ free.ability[slot] \/ MayWear(free, kind)
    IN  IF ok THEN EquipItem([free EXCEPT !.item[i].place = slot], i, slot) ELSE free

\* Logout and login: the player's items are new objects with the old attributes
\* (a state of decay becomes DECAYING_PENDING), those in the decay lists
\* belong to the object that is gone; Player::onCreatureAppear.
Relogged(w) ==
    LET mine == {i \in Wares : w.item[i].place \in EquipSlots}
        Swap(s) == [k \in DOMAIN s |-> IF s[k] \in mine THEN Ghost ELSE s[k]]
        loaded == [w EXCEPT !.item = [i \in Wares |-> IF i \in mine
                                         THEN [w.item[i] EXCEPT !.decaying = FALSE, !.since = -1]
                                         ELSE w.item[i]],
                            !.fresh = Swap(@),
                            !.bucket = [b \in DOMAIN w.bucket |-> Swap(w.bucket[b])],
                            !.ability = [s \in EquipSlots |-> FALSE],
                            !.skill = 0, !.stat = 0, !.conditions = {}, !.suppressed = FALSE,
                            !.grown = FALSE]
        One(v, i) == EquipItem(StartDecay(v, i), i, v.item[i].place)
    IN  FoldLeft(LAMBDA v, i : IF v.item[i].place \in EquipSlots THEN One(v, i) ELSE v,
                 loaded, SetToSeq(mine))

-----------------------------------------------------------------------------
(* Which event is fired.                                                   *)

\* MoveEvents::addEvent: a list per key, in order.
AddEvent(m, e) == [m EXCEPT ![e.key] = Append(@, e.id)]

\* MoveEvents::registerEvent of all entries: a range of ids is one entry
\* under several keys.
Registry(order) ==
    LET keys == UNION {e.keys : e \in ToSet(order)}
        One(m, e) == FoldLeft(LAMBDA n, k : AddEvent(n, [key |-> k, id |-> e.id]), m, SetToSeq(e.keys))
    IN  FoldLeft(One, [k \in keys |-> <<>>], order)

\* MoveEvents::getEvent: by unique id, else action id, else item id.
GetEvent(m, item) ==
    LET keys == SelectSeq(item.keys, LAMBDA k : k \in DOMAIN m) IN
    IF keys = <<>> THEN 0 ELSE m[keys[1]][1]

\* MoveEvents::getEvent of a tile, by its position.
GetTileEvent(m) == IF "pos" \in DOMAIN m THEN m["pos"][1] ELSE 0

Told(fired, name, event) == IF event = 0 THEN fired ELSE Append(fired, [item |-> name, event |-> event])

\* The head of MoveEvents::onCreatureMove, and of onItemMove, which fires the
\* event of the moved item as well.
FireTile ==
    LET own == SelectSeq(walk.tile, LAMBDA x : x.name = walk.moved)
        tile == Told(<<>>, "tile", GetTileEvent(walk.events))
    IN  /\ walk.i = 0
        /\ walk.end > 0
        /\ walk' = [walk EXCEPT !.i = 1,
                       !.fired = IF own = <<>> THEN tile
                                 ELSE Told(tile, walk.moved, GetEvent(walk.events, own[1]))]
        /\ UNCHANGED worn

\* The loop of both: the bounds are read once, the thing at the index every
\* time; a script may take its item away or lay one down, which comes first
\* on the tile.
FireNext(effect) ==
    LET things == walk.tile
        here == IF walk.i \in DOMAIN things THEN things[walk.i] ELSE [name |-> "", keys |-> <<>>]
        event == IF here.name = walk.moved THEN 0 ELSE GetEvent(walk.events, here)
    IN  /\ walk.i \in 1 .. walk.end
        /\ event = 0 => effect = "none"
        /\ walk' = [walk EXCEPT
                !.i = @ + 1,
                !.fired = Told(@, here.name, event),
                !.tile = IF effect = "take" THEN RemoveAt(things, walk.i)
                         ELSE IF effect = "lay" THEN <<[name |-> "new", keys |-> <<>>]>> \o things
                         ELSE things,
                !.laid = @ \/ effect = "lay",
                !.taken = @ \/ effect = "take"]
        /\ UNCHANGED worn

-----------------------------------------------------------------------------

NoSteps == [tile |-> <<>>, whole |-> <<>>, events |-> Registry(<<>>), order |-> <<>>,
            i |-> 0, moved |-> "none", end |-> 0, fired |-> <<>>, laid |-> FALSE, taken |-> FALSE]

Wardrobe(there, ops) ==
    [item |-> [n \in Wares |->
                  [kind |-> Goods[n], place |-> IF n \in there THEN "ground" ELSE "gone", decaying |-> FALSE,
                   left |-> IF ItemKinds[Goods[n]].time > 0 THEN ItemKinds[Goods[n]].time ELSE -1,
                   since |-> -1, whole |-> 0]],
     ability |-> [s \in EquipSlots |-> FALSE], level |-> 2, base |-> 1, grown |-> FALSE,
     skill |-> 0, stat |-> 0, conditions |-> {}, suppressed |-> FALSE,
     fresh |-> <<>>, bucket |-> [b \in 0 .. Buckets - 1 |-> <<>>], last |-> 0,
     early |-> 0, ops |-> ops, ticks |-> 0]

\* Either clothes and time, or one step onto a tile.
WornInit ==
    \/ /\ \E there \in Present : worn = Wardrobe(there, 0)
       /\ walk = NoSteps
    \/ /\ worn = [Wardrobe({}, WornOps) EXCEPT !.ticks = WornTicks]
       /\ \E t \in TileItems, order \in Registered, moved \in {"none", "b"} :
              walk = [NoSteps EXCEPT !.moved = moved, !.tile = t, !.whole = t, !.end = Len(t),
                                     !.events = Registry(order), !.order = order]

Op(w) == /\ worn.ops < WornOps
         /\ worn' = [w EXCEPT !.ops = @ + 1]
         /\ UNCHANGED walk

\* Player::queryAdd: the kind of item must fit the slot.
Wear(i, slot) == /\ worn.item[i].place = "ground"
                 /\ slot \in Kind(worn, i).fits
                 /\ Op(PutOn(worn, i, slot))
TakeOff(i) == /\ worn.item[i].place \in EquipSlots
              /\ Op(OffTo(worn, i))

\* Action::increaseItemId and decreaseItemId: a lamp is lit or put out.
UseItem(i) == /\ worn.item[i].place # "gone"
              /\ Kind(worn, i).usedTo # ""
              /\ Op(StartDecay(TransformItem(worn, i, Kind(worn, i).usedTo), i))

Relogin == Op(Relogged(worn))

\* A level is won or lost (see Progress).
ChangeLevel == Op([worn EXCEPT !.level = 3 - @, !.base = 3 - @,
                               !.grown = @ \/ \E s \in EquipSlots : worn.ability[s]])

DecayRound == /\ worn.ticks < WornTicks
              /\ worn' = [CheckDecay(worn) EXCEPT !.ticks = @ + 1]
              /\ UNCHANGED walk

WornNext == \/ \E i \in Wares, s \in EquipSlots : Wear(i, s)
            \/ \E i \in Wares : TakeOff(i)
            \/ \E i \in Wares : UseItem(i)
            \/ Relogin
            \/ ChangeLevel
            \/ DecayRound
            \/ FireTile
            \/ \E e \in {"none", "take", "lay"} : FireNext(e)

-----------------------------------------------------------------------------
(* Properties.                                                             *)

Enabled(w) == {i \in Wares : w.item[i].place \in EquipSlots /\ w.ability[w.item[i].place]}
Given(w, f(_)) == FoldFunctionOnSet(+, 0, [i \in Wares |-> f(Kind(w, i).ab)], Enabled(w))

\* What a player has from his equipment is what the worn items give whose
\* ability is on, after any order of changing clothes, wearing out, use,
\* login and change of level; a slot without an item gives nothing.
EffectsAreWorn ==
    LET w == worn IN
    /\ \A s \in EquipSlots : w.ability[s] => In(w, s) # {}
    /\ w.skill = Given(w, LAMBDA ab : ab.skill)
    /\ ~w.grown => w.stat = Given(w, LAMBDA ab : ab.stat + w.base * ab.percent)
    /\ w.conditions = {w.item[i].place : i \in {j \in Enabled(w) : Kind(w, j).ab.invisible}}
    /\ w.suppressed = (\E i \in Enabled(w) : Kind(w, i).ab.suppress)
    /\ \A i \in Wares : w.item[i].place \in EquipSlots /\ Kind(w, i).equipTo # "" => ~MayWear(w, w.item[i].kind) \/ w.grown

\* An item that decays is in the lists, and waits for nobody else's turn: an
\* undisturbed one ends in the second of its duration, at most one round late.
DecayIsTimely ==
    LET w == worn IN
    /\ \A i \in Wares : w.item[i].decaying /\ CanDecay(w, i) => Entries(w, i) >= 1
    /\ \A i \in Wares : w.item[i].decaying => w.item[i].left > 0
    /\ w.early \in -1 .. Buckets - 1

\* A step, or an item moved, fires the event first registered under the most
\* specific key of every item of the tile, once each, as long as no script
\* changes the tile meanwhile; after an item is laid down some fire twice and
\* the last not at all, after one is taken away the next goes unnoticed, but
\* nothing fires twice.
StepsFire ==
    LET First(k) == CHOOSE n \in DOMAIN walk.order :
                        /\ k \in walk.order[n].keys
                        /\ \A m \in 1 .. n - 1 : k \notin walk.order[m].keys
        Known(k) == \E n \in DOMAIN walk.order : k \in walk.order[n].keys
        Most(item) == LET has == {n \in DOMAIN item.keys : Known(item.keys[n])} IN
                      IF has = {} THEN 0
                      ELSE walk.order[First(item.keys[CHOOSE n \in has : \A m \in has : n <= m])].id
        item(name) == CHOOSE x \in ToSet(walk.whole) : x.name = name
        due == {x.name : x \in {y \in ToSet(walk.whole) : Most(y) # 0}}
        told == {walk.fired[n].item : n \in DOMAIN walk.fired} \ {"tile"}
    IN  /\ \A n \in DOMAIN walk.fired : walk.fired[n].item # "tile" =>
               walk.fired[n].event = Most(item(walk.fired[n].item))
        /\ walk.i > walk.end /\ ~walk.taken /\ ~walk.laid => due \subseteq told
        /\ ~walk.laid => \A m, n \in DOMAIN walk.fired : m # n => walk.fired[m].item # walk.fired[n].item

EquipmentAgrees == EffectsAreWorn /\ DecayIsTimely /\ StepsFire
=============================================================================
