------------------------------ MODULE Hunting ------------------------------
(***************************************************************************)
(* How a monster goes after its prey: which way it steps when it keeps its *)
(* distance or flees, dances around the target or wanders, how it turns to *)
(* the target, whom it picks, and when it strikes (monster.cpp).           *)
(*                                                                         *)
(* `hunt` is one decision on a small grid: a position, a target, the tiles *)
(* the monster can enter.  `beat` is the clock of its attacks, in units of *)
(* half a second, across rounds of Game::checkCreatures.                   *)
(***************************************************************************)
EXTENDS Integers, Sequences, FiniteSets, SequencesExt

CONSTANTS Span,          \* offsets of the target are -Span..Span
          FreeTiles,     \* the sets of enterable neighbours considered
          Preys,         \* the lists of targets considered
          Blocks,        \* MonsterType::attackSpells
          Round,         \* EVENT_CREATURE_THINK_INTERVAL
          MeleePause,    \* 1500 ms
          ChallengeTime, \* 8000 ms
          MonsterChangeSpeed,   \* MonsterType::changeTargetSpeed
          HuntMaxNow

VARIABLES hunt, beat

huntVars == <<hunt, beat>>

Compass == (-1 .. 1) \X (-1 .. 1) \ {<<0, 0>>}
Straight == {d \in Compass : d[1] = 0 \/ d[2] = 0}
North == <<0, -1>>
South == <<0, 1>>
West == <<-1, 0>>
East == <<1, 0>>
Opposite(d) == <<-d[1], -d[2]>>
Abs2(n) == IF n < 0 THEN -n ELSE n
LargerGap(a, b) == IF a > b THEN a ELSE b

\* The target lies at `off` from the monster; how far, before and after a step.
FarOff(off) == LargerGap(Abs2(off[1]), Abs2(off[2]))
After(off, d) == <<off[1] - d[1], off[2] - d[2]>>

-----------------------------------------------------------------------------
(* Where to step.  Every operator is the set of directions that may be     *)
(* chosen; the empty set stands for no step.                               *)

\* Monster::getRandomStep
RandomStep(free) == Straight \cap free

\* The first set of choices that is not empty.
FirstOf(options) ==
    LET some == {k \in DOMAIN options : options[k] # {}} IN
    IF some = {} THEN {} ELSE options[CHOOSE k \in some : \A m \in some : k <= m]

If(cond, ds) == IF cond THEN ds ELSE {}

\* Monster::getDistanceStep, the target diagonal to the monster at p: away
\* along either side, away diagonally, a fleeing one towards either side,
\* and last along a side from which another way opens.
FromCorner(free, p, flee) ==
    LET h == <<p[1], 0>>
        v == <<0, p[2]>>
        along == If(h \in free /\ <<p[1], -p[2]>> \in free, {h})
        down == If(v \in free /\ <<-p[1], p[2]>> \in free, {v})
    IN  FirstOf(<< {Opposite(h), Opposite(v)} \cap free,
                   {Opposite(p)} \cap free,
                   If(flee, {h, v} \cap free) >>
                \o (IF p = <<1, 1>> THEN <<down, along>> ELSE <<along, down>>))

\* The target straight ahead at p, `lean` being its offset to the side: away,
\* then to a side that is not the target's, a fleeing one to any side, then
\* diagonally away, and a fleeing one towards the target after all.  `a` is
\* the side asked first among the diagonals.
FromSide(free, p, lean, a, flee) ==
    LET b == Opposite(a)
        aa == <<a[1] - p[1], a[2] - p[2]>>
        bb == <<b[1] - p[1], b[2] - p[2]>>
        low == IF p[1] = 0 THEN West ELSE North
        high == Opposite(low)
    IN  FirstOf(<< {Opposite(p)} \cap free,
                   If(lean = 0, IF {low, high} \subseteq free THEN {low, high} ELSE {}),
                   If(lean >= 0, {low} \cap free),
                   If(lean <= 0, {high} \cap free),
                   If(flee, {low, high} \cap free),
                   If({aa, bb} \cap free # {},
                      FirstOf(<< IF {aa, bb} \subseteq free THEN {aa, bb} ELSE {},
                                 {a} \cap free, {aa} \cap free,
                                 {b} \cap free, {bb} \cap free >>)),
                   If(flee, {p} \cap free) >>)

\* Which side is asked first: west, but south when the target is to the west
\* and north when it is to the east.
AskedFirst(p) == IF p[1] = 0 THEN West ELSE IF p = West THEN South ELSE North

SignOf2(n) == IF n > 0 THEN 1 ELSE IF n < 0 THEN -1 ELSE 0

\* Monster::getDistanceStep once it decides itself.
DistanceStep(free, off, flee) ==
    LET dx == Abs2(off[1])
        dy == Abs2(off[2])
    IN  IF off = <<0, 0>> THEN RandomStep(free)
        ELSE IF dx = dy THEN FromCorner(free, <<SignOf2(off[1]), SignOf2(off[2])>>, flee)
        ELSE IF dy > dx THEN LET p == <<0, SignOf2(off[2])>> IN
                             FromSide(free, p, off[1], AskedFirst(p), flee)
        ELSE LET p == <<SignOf2(off[1]), 0>> IN FromSide(free, p, off[2], AskedFirst(p), flee)

\* Monster::getDanceStep: a straight step that keeps the distance, and with
\* keepAttack the range of an attack; with keepDistance not past the target.
DanceStep(free, off, range, keepAttack, keepDistance) ==
    {d \in Straight \cap free :
        /\ keepDistance => off[1] * d[1] + off[2] * d[2] <= 0
        /\ FarOff(After(off, d)) = FarOff(off)
        /\ keepAttack /\ FarOff(off) <= range => FarOff(After(off, d)) <= range}

\* Monster::updateLookDirection
LookDirection(dir, off) ==
    LET dx == Abs2(off[1])
        dy == Abs2(off[2])
        h == IF off[1] < 0 THEN West ELSE East
        v == IF off[2] < 0 THEN North ELSE South
    IN  IF dx > dy THEN h
        ELSE IF dx < dy THEN v
        ELSE IF dir = Opposite(v) THEN h
        ELSE IF dir = Opposite(h) THEN v
        ELSE dir

\* Monster::searchTarget: of the targets it may attack the nearest, the
\* weakest, the one that hurt it most (the first of the list is taken as it
\* is, its own damage not counted), or any.
Attackable(list, range) == SelectSeq(list, LAMBDA c : range = 1 \/ c.far <= range)

SearchTarget(list, range, how) ==
    LET ok == Attackable(list, range)
        all == DOMAIN ok
        hurt == {k \in all : k > 1 /\ ok[k].damage > 0}
    IN  IF ok = <<>> THEN {}
        ELSE CASE how = "nearest" -> {k \in all : \A m \in all : ok[k].far <= ok[m].far}
               [] how = "hp" -> {CHOOSE k \in all : \A m \in all :
                                    ok[k].hp < ok[m].hp \/ (ok[k].hp = ok[m].hp /\ k <= m)}
               [] how = "damage" ->
                    IF hurt = {} THEN {1}
                    ELSE {CHOOSE k \in hurt : \A m \in hurt :
                             ok[k].damage > ok[m].damage \/ (ok[k].damage = ok[m].damage /\ k <= m)}
               [] how = "random" -> all

-----------------------------------------------------------------------------
(* When to strike.                                                         *)

\* Monster::canUseSpell: the answer, and what it does to the clock.
CanUseSpell(b, block, interval, reset) ==
    LET swung == IF b.extra THEN [b EXCEPT !.lastMelee = b.now] ELSE b
        paused == ~b.extra /\ block.melee /\ b.now - b.lastMelee < MeleePause
        timed == ~block.melee \/ ~b.extra
        No(x, r, inRange) == [b |-> x, reset |-> r, use |-> FALSE, inRange |-> inRange]
    IN  IF block.melee /\ b.flees THEN No(b, reset, TRUE)
        ELSE IF paused THEN No(b, reset, TRUE)
        ELSE IF timed /\ block.speed > b.ticks THEN No(swung, FALSE, TRUE)
        ELSE IF timed /\ b.ticks % block.speed >= interval THEN No(swung, reset, TRUE)
        ELSE IF block.range # 0 /\ b.far > block.range THEN No(swung, reset, FALSE)
        ELSE [b |-> swung, reset |-> reset, use |-> TRUE, inRange |-> TRUE]

\* Monster::doAttacking: `lucky` the blocks whose chance comes up, `kills` the
\* one that ends the target (0 for none).
DoAttacking(b0, interval, lucky, kills) ==
    LET Block(acc, k) ==
            LET block == Blocks[k]
                can == CanUseSpell(acc.b, block, interval, acc.reset)
                cast == can.use /\ k \in lucky
                used == [can.b EXCEPT !.uses = [@ EXCEPT ![k] = <<@[2], can.b.now>>],
                                      !.attacks = kills # k,
                                      !.extra = @ /\ (~block.melee \/ kills = k)]
                then == IF cast THEN used ELSE can.b
            IN  IF ~acc.b.attacks THEN acc
                ELSE [b |-> IF then.attacks /\ ~can.inRange /\ block.melee
                            THEN [then EXCEPT !.extra = TRUE] ELSE then,
                      reset |-> can.reset]
        done == FoldLeft(Block, [b |-> [b0 EXCEPT !.ticks = @ + interval], reset |-> interval # 0],
                         [k \in DOMAIN Blocks |-> k])
    IN  IF ~b0.attacks THEN b0
        ELSE IF done.reset THEN [done.b EXCEPT !.ticks = 0] ELSE done.b

\* Monster::onThinkTarget: whether it looks for another target now.
ThinkTarget(b) ==
    LET cooled == b.cooldown - Round
        over == b.cooldown > 0 /\ cooled <= 0
        may == b.cooldown <= 0 \/ over
        ticks == (IF over THEN MonsterChangeSpeed ELSE b.change) + Round
    IN  IF ~may THEN [b |-> [b EXCEPT !.cooldown = cooled], search |-> FALSE]
        ELSE IF ticks >= MonsterChangeSpeed
             THEN [b |-> [b EXCEPT !.change = 0, !.cooldown = MonsterChangeSpeed], search |-> TRUE]
        ELSE [b |-> [b EXCEPT !.change = ticks, !.cooldown = 0], search |-> FALSE]

\* A target that was not struck yet.
LongAgo == -1000
OnNewTarget(b) ==
    [b EXCEPT !.attacks = TRUE, !.uses = [k \in DOMAIN Blocks |-> <<LongAgo, LongAgo>>]]

\* Monster::challengeCreature
ChallengeCreature(b) ==
    [OnNewTarget(b) EXCEPT !.cooldown = ChallengeTime, !.change = 0, !.challenged = b.now,
                           !.onChallenger = TRUE]

-----------------------------------------------------------------------------
Still == [now |-> HuntMaxNow, next |-> HuntMaxNow + 1, ticks |-> 0, extra |-> FALSE,
          lastMelee |-> LongAgo, far |-> 1, flees |-> FALSE, attacks |-> FALSE, swing |-> FALSE,
          uses |-> [k \in DOMAIN Blocks |-> <<LongAgo, LongAgo>>],
          cooldown |-> 0, change |-> 0, challenged |-> LongAgo, onChallenger |-> FALSE, freed |-> FALSE]
Awake == [Still EXCEPT !.now = 0, !.next = Round, !.attacks = TRUE]
Resting == [kind |-> "rest", off |-> <<0, 0>>, free |-> {}, flee |-> FALSE, dir |-> North,
            list |-> <<>>, range |-> 1, how |-> "", step |-> {}]

HuntInit ==
    \/ /\ hunt = Resting
       /\ beat \in {Awake, [Awake EXCEPT !.now = 1]}
    \/ /\ beat = Still
       /\ \E off \in (-Span .. Span) \X (-Span .. Span), free \in FreeTiles,
             kind \in {"distance", "dance"}, flee \in BOOLEAN :
            hunt = [Resting EXCEPT !.kind = kind, !.off = off, !.free = free, !.flee = flee]
    \/ /\ beat = Still
       /\ \E off \in (-Span .. Span) \X (-Span .. Span), dir \in Straight :
            hunt = [Resting EXCEPT !.kind = "look", !.off = off, !.dir = dir]
    \/ /\ beat = Still
       /\ \E list \in Preys, range \in {1, 3}, how \in {"nearest", "hp", "damage", "random"} :
            hunt = [Resting EXCEPT !.kind = "search", !.list = list, !.range = range, !.how = how]

\* The decision is taken: a step, a turn or a target (its place in the list).
Decide ==
    /\ hunt.kind \in {"distance", "dance", "look", "search"}
    /\ LET ds == CASE hunt.kind = "distance" -> DistanceStep(hunt.free, hunt.off, hunt.flee)
                   [] hunt.kind = "dance" -> DanceStep(hunt.free, hunt.off, 2, ~hunt.flee, ~hunt.flee)
                   [] hunt.kind = "look" -> {LookDirection(hunt.dir, hunt.off)}
                   [] hunt.kind = "search" -> {<<k>> : k \in SearchTarget(hunt.list, hunt.range, hunt.how)}
       IN  \/ \E d \in ds : hunt' = [hunt EXCEPT !.kind = "did " \o @, !.step = {d}]
           \/ ds = {} /\ hunt' = [hunt EXCEPT !.kind = "did " \o @]
    /\ UNCHANGED beat

\* A round of Game::checkCreatures: onThink, then onAttacking.
ThinkRound ==
    /\ beat.now = beat.next
    /\ \E lucky \in SUBSET DOMAIN Blocks, kills \in {0} \cup DOMAIN Blocks, change \in BOOLEAN :
         LET t == ThinkTarget(beat)
             chosen == IF t.search /\ change
                       THEN [OnNewTarget(t.b) EXCEPT !.onChallenger = FALSE] ELSE t.b
         IN  /\ kills # 0 => kills \in lucky
             /\ beat' = [DoAttacking(chosen, Round, lucky, kills) EXCEPT !.next = @ + Round]
    /\ UNCHANGED hunt

\* The target moves; a monster that missed its swing has one at once.
TargetMoves ==
    /\ beat.now < HuntMaxNow /\ beat.attacks
    /\ \E far \in {1, 2, 4} :
          far # beat.far /\ beat' = [beat EXCEPT !.far = far, !.swing = beat.extra]
    /\ UNCHANGED hunt

ExtraSwing ==
    /\ beat.swing
    /\ \E lucky \in SUBSET DOMAIN Blocks :
          beat' = [DoAttacking(beat, 0, lucky, 0) EXCEPT !.swing = FALSE]
    /\ UNCHANGED hunt

\* It is challenged, or loses its way to the target and looks for another.
Challenge ==
    /\ beat.now < HuntMaxNow /\ ~beat.onChallenger
    /\ beat' = ChallengeCreature(beat)
    /\ UNCHANGED hunt

LosesPath ==
    /\ beat.now < HuntMaxNow /\ ~beat.freed /\ beat.onChallenger
    /\ beat' = [OnNewTarget(beat) EXCEPT !.onChallenger = FALSE, !.freed = TRUE]
    /\ UNCHANGED hunt

Wounded ==
    /\ beat.now < HuntMaxNow
    /\ beat' = [beat EXCEPT !.flees = ~@]
    /\ UNCHANGED hunt

NewTarget ==
    /\ ~beat.attacks /\ beat.now < HuntMaxNow
    /\ beat' = OnNewTarget(beat)
    /\ UNCHANGED hunt

HuntTick ==
    /\ beat.now < HuntMaxNow /\ beat.now < beat.next /\ ~beat.swing
    /\ beat' = [beat EXCEPT !.now = @ + 1]
    /\ UNCHANGED hunt

HuntNext == Decide \/ ThinkRound \/ TargetMoves \/ ExtraSwing \/ Challenge \/ LosesPath
            \/ Wounded \/ NewTarget \/ HuntTick

HuntSpec == HuntInit /\ [][HuntNext]_huntVars

-----------------------------------------------------------------------------
(* What must hold.                                                         *)

\* A step that keeps the distance goes where the monster can stand and never
\* nearer to the target, unless it flees and every tile that is not nearer is
\* barred; it stands still only when no tile leads away, those diagonal to a
\* target at the corner excepted, which are not asked
\* (Monster::getDistanceStep).
StepsKeepAway ==
    hunt.kind = "did distance" /\ hunt.off # <<0, 0>> =>
        LET Nearer(d) == FarOff(After(hunt.off, d)) < FarOff(hunt.off)
            farther == {d \in hunt.free : FarOff(After(hunt.off, d)) > FarOff(hunt.off)}
            Asked2 == IF Abs2(hunt.off[1]) = Abs2(hunt.off[2])
                      THEN Straight \cup {<<-SignOf2(hunt.off[1]), -SignOf2(hunt.off[2])>>}
                      ELSE Compass
        IN  /\ \A d \in hunt.step :
                  /\ d \in hunt.free
                  /\ Nearer(d) => hunt.flee /\ \A e \in hunt.free : Nearer(e) \/ e \notin Straight
            /\ hunt.step = {} => farther \cap Asked2 = {}

\* A dancing monster keeps its distance to the tile, so that its attack still
\* reaches (Monster::getDanceStep).
DanceKeepsDistance ==
    hunt.kind = "did dance" =>
        \A d \in hunt.step : d \in hunt.free /\ FarOff(After(hunt.off, d)) = FarOff(hunt.off)

\* A monster that turned to its target faces it: the target is before it, not
\* behind or beside (Monster::updateLookDirection).
FacesTarget ==
    hunt.kind = "did look" /\ hunt.off # <<0, 0>> =>
        \A d \in hunt.step : d[1] * hunt.off[1] + d[2] * hunt.off[2] > 0

\* Whom it picks is one it can attack (Monster::searchTarget).
PicksWithinReach ==
    hunt.kind = "did search" =>
        \A d \in hunt.step : hunt.range # 1 => Attackable(hunt.list, hunt.range)[d[1]].far <= hunt.range

\* No attack strikes the same target again before its own time is over, by
\* rounds, by extra swings or by both: a melee block not within the pause of a
\* swing (Monster::canUseSpell).  A swing that kills keeps the extra swing for
\* the next target.
BlowsAreSpaced ==
    \A k \in DOMAIN Blocks :
        beat.uses[k][2] - beat.uses[k][1] >=
            (IF Blocks[k].melee THEN (IF MeleePause < Blocks[k].speed THEN MeleePause ELSE Blocks[k].speed)
             ELSE Blocks[k].speed) \/ beat.uses[k][2] = LongAgo

\* A challenged monster stays with the challenger for the time of the
\* challenge, a round less at most, unless it loses its way
\* (Monster::challengeCreature, onThinkTarget).
ChallengeHolds ==
    beat.challenged # LongAgo /\ ~beat.freed /\ ~beat.onChallenger =>
        beat.now - beat.challenged >= ChallengeTime - Round

\* The monster's steps, turns, choices and blows are the ones its design
\* promises.
HuntAgrees == StepsKeepAway /\ DanceKeepsDistance /\ FacesTarget /\ PicksWithinReach
              /\ BlowsAreSpaced /\ ChallengeHolds
=============================================================================
