------------------------------ MODULE Creatures ------------------------------
(***************************************************************************)
(* Creatures in the world: who sees, follows, attacks and owns whom.       *)
(*                                                                         *)
(* A creature is told what happens near it by the game (onCreatureAppear,  *)
(* onCreatureMove, onRemoveCreature, one spectator after the other).  A    *)
(* monster keeps the opponents and friends it knows of in counted lists,   *)
(* every creature the one it attacks, the one it follows and its master in *)
(* raw pointers, and the game the creatures that have to think in lists of *)
(* its own.  A monster without a target sleeps: it is off these lists and  *)
(* relies on the next event to wake it.                                    *)
(*                                                                         *)
(* Each task of the dispatcher is one action.  The creatures that have to  *)
(* think are spread over the lists of the game at random; here each list   *)
(* holds one, so checkCreatures looks at one creature and cleans up.       *)
(*                                                                         *)
(* The map is a line, all creatures are on one floor, visible, without     *)
(* conditions and outside protection zones; monsters are hostile and may   *)
(* change their target; whether a way is found is a free choice.           *)
(* SpectatorVec is an unordered set: order, chosen for each task from      *)
(* Orders, is that in which spectators are told.  A summon has no summons  *)
(* (convinceCreature destroys them, onThinkDefense makes none), so what    *)
(* the code does for the summons of summons is not repeated here.          *)
(***************************************************************************)
EXTENDS Integers, Sequences, FiniteSets, SequencesExt

CONSTANTS
    Players,
    Monsters,
    Ground,   \* the positions, a set of integers
    Sight,    \* how far a monster sees
    View,     \* how far a player sees, and the range of getSpectators
    Leash,    \* how far a summon may be from its master
    Homes,    \* [Monsters -> Ground \cup {None}]: where its spawn is
    Radius,   \* how far from there a monster may be (despawnRadius)
    Owners,   \* the creatures that summon
    Doors,    \* [Creatures -> SUBSET Ground]: where creatures come from
    Residents, \* sets of creatures that may be in the game from the start
    Orders,   \* orders in which spectators may be told
    MaxDeeds, \* bound on events, the checks of creatures aside
    None

Creatures == Players \cup Monsters
Nowhere == CHOOSE p \in Ground : TRUE

ASSUME CreaturesAssumption ==
    /\ Players \cap Monsters = {} /\ None \notin Creatures
    /\ Sight \in Nat /\ View \in Nat /\ Leash \in Nat
    /\ Sight <= View /\ View <= Leash
    /\ Orders \subseteq SetToSeqs(Creatures)

VARIABLES
    game,   \* record, see CreaturesInit
    deeds,  \* bound: events so far
    lulled  \* ghost: monsters sent home and put to sleep, not moved since

creaturesVars == <<game, deeds, lulled>>

Dist(p, q) == IF p < q THEN q - p ELSE p - q
InGame(g, c) == g.where[c] = "in"
InOrder(order, S) == SelectSeq(order, LAMBDA c : c \in S)

\* Creature::canSee, Monster::canSee; a removed creature keeps its position.
CanSeePos(g, x, p) == Dist(g.pos[x], p) <= (IF x \in Players THEN View ELSE Sight)
CanSee(g, x, c) == CanSeePos(g, x, g.pos[c])

\* Map::getSpectators
Spectators(g, p) == {c \in Creatures : InGame(g, c) /\ Dist(g.pos[c], p) <= View}
-------------------------------------------------------------------------------
(* References *)

\* Creature::~Creature and Monster::~Monster of all creatures nobody holds.
Destroy(g) ==
    LET dying == {c \in Creatures : g.where[c] \in {"in", "removed"} /\ g.refs[c] = 0}
        held(c, list) == Cardinality({d \in dying : c \in list[d]})
        orphans == UNION {g.summons[d] : d \in dying}
        unless(S, f) == [c \in Creatures |-> IF c \in S THEN None ELSE f[c]]
        blank(f, v) == [c \in Creatures |-> IF c \in dying THEN v ELSE f[c]]
    IN  IF dying = {} THEN g
        ELSE [g EXCEPT !.where = blank(@, "freed"),
                       !.refs = [c \in Creatures |-> @[c] - held(c, g.summons)
                                     - held(c, g.targets) - held(c, g.friends)],
                       !.master = unless(orphans \cup dying, @),
                       !.attacked = unless(orphans \cup dying, @),
                       !.follow = unless(dying, @),
                       !.summons = blank(@, {}), !.targets = blank(@, {}),
                       !.friends = blank(@, {}), !.pos = blank(@, Nowhere),
                       !.alive = blank(@, FALSE), !.idle = blank(@, FALSE),
                       !.inRange = blank(@, FALSE), !.check = blank(@, FALSE)]

\* The destructor of one creature may be the end of others.
Sweep(g) == FoldLeft(LAMBDA h, c : Destroy(h), g, [k \in 1..Cardinality(Creatures) |-> k])

\* incrementReferenceCounter, decrementReferenceCounter of a set of creatures
Hold(g, S) == [g EXCEPT !.refs = [c \in Creatures |-> IF c \in S THEN @[c] + 1 ELSE @[c]]]
Drop(g, S) ==
    Sweep([g EXCEPT !.refs = [c \in Creatures |-> IF c \in S THEN @[c] - 1 ELSE @[c]]])

\* Game::ReleaseCreature and Game::cleanup.  The reference Tile::postAddNotification
\* takes and releases is left out: it only makes a creature live longer.
ReleaseCreature(g, c) == [g EXCEPT !.release[c] = @ + 1]
Cleanup(g) ==
    Sweep([g EXCEPT !.refs = [c \in Creatures |-> @[c] - g.release[c]],
                    !.release = [c \in Creatures |-> 0]])

\* Game::addCreatureCheck, Game::removeCreatureCheck
AddCreatureCheck(g, c) ==
    LET h == [g EXCEPT !.check[c] = TRUE, !.listed[c] = TRUE]
    IN  IF g.listed[c] THEN h ELSE Hold(h, {c})
RemoveCreatureCheck(g, c) == IF g.listed[c] THEN [g EXCEPT !.check[c] = FALSE] ELSE g

\* Creature::addSummon, Creature::removeSummon
AddSummon(g, x, s) == Hold([g EXCEPT !.master[s] = x, !.summons[x] = @ \cup {s}], {s})
RemoveSummon(g, x, s) ==
    IF s \in g.summons[x]
    THEN Drop([g EXCEPT !.master[s] = None, !.summons[x] = @ \ {s}], {s})
    ELSE g

\* Monster::clearTargetList, Monster::clearFriendList
ClearLists(g, m) ==
    Drop(Drop([g EXCEPT !.targets[m] = {}, !.friends[m] = {}], g.targets[m]), g.friends[m])
-------------------------------------------------------------------------------
(* What a monster knows *)

\* Monster::isFriend; parties are left out.
OwnerOf(g, c) == IF c \in Players THEN c ELSE g.master[c]
IsFriend(g, m, c) ==
    IF g.master[m] \in Players THEN OwnerOf(g, c) = g.master[m]
    ELSE c \in Monsters /\ g.master[c] = None

\* Monster::isOpponent
IsOpponent(g, m, c) ==
    IF g.master[m] \in Players THEN c # g.master[m] ELSE OwnerOf(g, c) \in Players

\* Monster::setIdle
SetIdle(g, m, idle) ==
    IF ~InGame(g, m) \/ ~g.alive[m] THEN g
    ELSE IF ~idle THEN AddCreatureCheck([g EXCEPT !.idle[m] = FALSE], m)
    ELSE RemoveCreatureCheck(ClearLists([g EXCEPT !.idle[m] = TRUE], m), m)

\* Monster::updateIdleStatus
UpdateIdleStatus(g, m) ==
    SetIdle(g, m, IF g.master[m] = None THEN g.targets[m] = {}
                  ELSE ~g.inRange[m] \/ (g.master[m] \in Monsters /\ g.idle[g.master[m]]))

\* Monster::onCreatureFound with addFriend and addTarget
OnCreatureFound(g, m, c) ==
    LET newFriend == {d \in {c} : IsFriend(g, m, d)} \ g.friends[m]
        newTarget == {d \in {c} : IsOpponent(g, m, d)} \ g.targets[m]
    IN  UpdateIdleStatus(Hold(Hold([g EXCEPT !.friends[m] = @ \cup newFriend,
                                             !.targets[m] = @ \cup newTarget],
                                   newFriend), newTarget), m)

\* Monster::updateTargetList: out goes who is dead or out of sight, in comes who
\* is there.
UpdateTargetList(g, m, order) ==
    LET lost(S) == {c \in S : ~g.alive[c] \/ ~CanSee(g, m, c)}
        h == Drop(Drop([g EXCEPT !.friends[m] = @ \ lost(@), !.targets[m] = @ \ lost(@)],
                       lost(g.friends[m])), lost(g.targets[m]))
        seen == {c \in Spectators(g, g.pos[m]) \ {m} : CanSee(g, m, c)}
    IN  FoldLeft(LAMBDA k, c : OnCreatureFound(k, m, c), h, InOrder(order, seen))

\* The monster looks around: updateTargetList and updateIdleStatus.
LookAround(g, m, order) == UpdateIdleStatus(UpdateTargetList(g, m, order), m)

\* Monster::onCreatureEnter, Monster::onCreatureLeave
MasterInRange(g, m, c, near) ==
    IF g.master[m] = c THEN UpdateIdleStatus([g EXCEPT !.inRange[m] = near], m) ELSE g

OnCreatureEnter(g, m, c) == OnCreatureFound(MasterInRange(g, m, c, TRUE), m, c)

RemoveFriend(g, m, c) ==
    IF IsFriend(g, m, c) /\ c \in g.friends[m]
    THEN Drop([g EXCEPT !.friends[m] = @ \ {c}], {c}) ELSE g
RemoveTarget(g, m, c) ==
    IF IsOpponent(g, m, c) /\ c \in g.targets[m]
    THEN Drop([g EXCEPT !.targets[m] = @ \ {c}], {c}) ELSE g
OnCreatureLeave(g, m, c) ==
    LET asleep(h) == IF IsOpponent(h, m, c) /\ h.targets[m] = {} THEN UpdateIdleStatus(h, m)
                     ELSE h
    IN  asleep(RemoveTarget(RemoveFriend(MasterInRange(g, m, c, FALSE), m, c), m, c))
-------------------------------------------------------------------------------
(* Attacking and following *)

\* Creature::setAttackedCreature without the summons, Creature::setFollowCreature:
\* who is out of sight is not taken.
Attackable(g, x, c) == c = None \/ CanSee(g, x, c)
Attack(g, x, c) == [g EXCEPT !.attacked[x] = IF Attackable(g, x, c) THEN c ELSE None]
Follow(g, x, c) ==
    [g EXCEPT !.follow[x] = IF c = None \/ c = @ \/ CanSee(g, x, c) THEN c ELSE None]

\* Creature::setAttackedCreature: the summons attack with their master.
AttackWithSummons(g, x, c) ==
    IF Attackable(g, x, c)
    THEN FoldLeft(LAMBDA h, s : Attack(h, s, c), Attack(g, x, c), SetToSeq(g.summons[x]))
    ELSE Attack(g, x, c)

\* Player::setAttackedCreature and Player::setFollowCreature: a player who stops to
\* attack stops to follow, and if he cannot follow he stops to attack.
SetAttackedCreature(g, x, c, chase) ==
    LET chasing(h) == IF x \in Monsters \/ ~Attackable(g, x, c) THEN h
                      ELSE Follow(h, x, IF chase THEN c ELSE None)
    IN  chasing(AttackWithSummons(g, x, c))
SetFollowCreature(g, x, c) ==
    LET unless(h) == IF x \in Players /\ h.follow[x] # c THEN AttackWithSummons(h, x, None) ELSE h
    IN  unless(Follow(g, x, c))

\* Creature::onCreatureDisappear
OnCreatureDisappear(g, x, c) ==
    LET follows(h) == IF h.follow[x] = c THEN SetFollowCreature(h, x, None) ELSE h
    IN  follows(IF g.attacked[x] = c THEN SetAttackedCreature(g, x, None, FALSE) ELSE g)

\* Monster::selectTarget
SelectTarget(g, m, c) ==
    IF InGame(g, c) /\ c \in g.targets[m]
    THEN SetFollowCreature(SetAttackedCreature(g, m, c, FALSE), m, c)
    ELSE g
-------------------------------------------------------------------------------
(* What spectators are told *)

\* Player::onCreatureAppear does nothing here.
OnCreatureAppear(g, x, c, order) ==
    IF x \in Players THEN g
    ELSE IF x # c THEN OnCreatureEnter(g, x, c)
    ELSE LookAround([g EXCEPT !.inRange[x] =
                        IF g.master[x] = None THEN @ ELSE CanSee(g, x, g.master[x])], x, order)

\* Monster::onRemoveCreature; a summon that leaves tells its master first.
LeaveMaster(g, x) ==
    IF g.master[x] # None /\ InGame(g, g.master[x]) THEN RemoveSummon(g, g.master[x], x) ELSE g
MonsterOnRemoveCreature(g, x, c) ==
    IF x \in Players THEN g
    ELSE IF x = c THEN SetIdle(g, x, TRUE) ELSE OnCreatureLeave(g, x, c)

\* Mutant of OnRemoveCreature: the creatures that attack it are not told.
OnRemoveCreatureQuiet(g, x, c) ==
    MonsterOnRemoveCreature(IF x = c THEN LeaveMaster(g, x) ELSE g, x, c)

\* Creature::onRemoveCreature and Monster::onRemoveCreature
OnRemoveCreature(g, x, c) ==
    LET gone(h) == IF x = c THEN LeaveMaster(h, x) ELSE h
    IN  MonsterOnRemoveCreature(gone(OnCreatureDisappear(g, x, c)), x, c)

\* Game::removeCreature of one creature
RemoveOne(g, c, order) ==
    LET told == FoldLeft(LAMBDA h, x : OnRemoveCreature(h, x, c), g,
                         InOrder(order, Spectators(g, g.pos[c])))
    IN  IF ~InGame(g, c) THEN g
        ELSE RemoveCreatureCheck(ReleaseCreature([told EXCEPT !.where[c] = "removed"], c), c)

\* Game::removeCreature: the summons follow.
RemoveCreature(g, c, order) ==
    IF ~InGame(g, c) THEN g
    ELSE FoldLeft(LAMBDA h, d : RemoveOne(h, d, order), g, <<c>> \o InOrder(order, g.summons[c]))

\* Creature::onCreatureMove: summons that are left behind vanish, who is out of
\* sight is neither followed nor attacked any longer.
DespawnSummons(g, c, order) ==
    FoldLeft(LAMBDA h, s : RemoveCreature(h, s, order), g,
             InOrder(order, {s \in g.summons[c] : Dist(g.pos[s], g.pos[c]) > Leash}))

LoseSight(g, x, c, y) ==
    IF y # None /\ c \in {x, y} /\ ~CanSee(g, x, y) THEN OnCreatureDisappear(g, x, y) ELSE g

CreatureOnCreatureMove(g, x, c, order) ==
    LET followLost(h) == LoseSight(h, x, c, h.follow[x])
        attackLost(h) == LoseSight(h, x, c, h.attacked[x])
    IN  attackLost(followLost(IF x = c THEN DespawnSummons(g, c, order) ELSE g))

\* The end of Monster::onCreatureMove: an opponent stands in the way to the one that
\* is followed, or there was nobody to follow.
InTheWay(g, m, order) ==
    LET f == g.pos[g.follow[m]]
        next == IF f > g.pos[m] THEN g.pos[m] + 1 ELSE g.pos[m] - 1
    IN  InOrder(order, {y \in Creatures : InGame(g, y) /\ g.pos[y] = next})

Reconsider(g, m, c, order) ==
    IF g.master[m] # None THEN g
    ELSE IF g.follow[m] = None
    THEN IF IsOpponent(g, m, c) THEN SelectTarget(g, m, c) ELSE g
    ELSE IF /\ Dist(g.pos[m], g.pos[g.follow[m]]) > 1
            /\ InTheWay(g, m, order) # <<>>
            /\ IsOpponent(g, m, Head(InTheWay(g, m, order)))
    THEN SelectTarget(g, m, Head(InTheWay(g, m, order))) ELSE g

\* Monster::onCreatureMove for the monster itself and for another creature
MonsterMoved(g, m, order) ==
    LookAround([g EXCEPT !.inRange[m] =
                   IF g.master[m] = None THEN @ ELSE CanSee(g, m, g.master[m])], m, order)

MonsterSawMove(g, m, c, old, order) ==
    LET sees == CanSee(g, m, c)
        saw == CanSeePos(g, m, old)
        h == IF sees /\ ~saw THEN OnCreatureEnter(g, m, c)
             ELSE IF ~sees /\ saw THEN OnCreatureLeave(g, m, c) ELSE g
        near(k) == IF sees /\ k.master[m] = c THEN [k EXCEPT !.inRange[m] = TRUE] ELSE k
    IN  Reconsider(UpdateIdleStatus(near(h), m), m, c, order)

OnCreatureMove(g, x, c, old, order) ==
    LET monster(h) == IF x \in Players THEN h
                      ELSE IF x = c THEN MonsterMoved(h, x, order)
                      ELSE MonsterSawMove(h, x, c, old, order)
    IN  monster(CreatureOnCreatureMove(g, x, c, order))

\* Map::moveCreature
MoveCreature(g, c, to, order) ==
    FoldLeft(LAMBDA h, x : OnCreatureMove(h, x, c, g.pos[c], order), [g EXCEPT !.pos[c] = to],
             InOrder(order, Spectators(g, g.pos[c]) \cup Spectators(g, to)))

\* Game::placeCreature
PlaceCreature(g, c, p, order) ==
    LET h == Hold([g EXCEPT !.where[c] = "in", !.pos[c] = p], {c})
    IN  AddCreatureCheck(FoldLeft(LAMBDA k, x : OnCreatureAppear(k, x, c, order), h,
                                  InOrder(order, Spectators(h, p))), c)
-------------------------------------------------------------------------------
\* A creature as its constructor leaves it
Created ==
    LET every(v) == [c \in Creatures |-> v]
    IN  [where |-> every("new"), pos |-> every(Nowhere), alive |-> every(TRUE),
         master |-> every(None), summons |-> every({}), targets |-> every({}),
         friends |-> every({}), attacked |-> every(None), follow |-> every(None),
         idle |-> [c \in Creatures |-> c \in Monsters], inRange |-> every(FALSE),
         check |-> every(FALSE), listed |-> every(FALSE), refs |-> every(0),
         release |-> every(0)]

\* Some creatures are already there.
CreaturesInit ==
    /\ \E door \in [Creatures -> Ground], present \in Residents, order \in Orders :
          /\ \A c \in Creatures : door[c] \in Doors[c]
          /\ game = FoldLeft(LAMBDA g, c : PlaceCreature(g, c, door[c], order), Created,
                             InOrder(order, present))
    /\ deeds = 0
    /\ lulled = {}

\* A monster that was put to sleep at home looks around when it is moved.
Becomes(g) ==
    /\ game' = g
    /\ lulled' = {m \in lulled : g.pos[m] = game.pos[m] /\ InGame(g, m)}

Deed == deeds < MaxDeeds /\ deeds' = deeds + 1

\* A spawn, a raid or a login
Enter(c, p) ==
    /\ game.where[c] = "new" /\ p \in Doors[c]
    /\ \E order \in Orders : Becomes(PlaceCreature(game, c, p, order))
    /\ Deed

\* Spells::Summon, Monster::onThinkDefense: if there is no place for the summon it
\* is dropped again.
Summon(x, s) ==
    LET g == AddSummon(game, x, s)
    IN  /\ InGame(game, x) /\ x \in Owners /\ game.where[s] = "new"
        /\ x \in Monsters => game.alive[x] /\ game.attacked[x] # None /\ game.master[x] = None
        /\ \/ \E order \in Orders : Becomes(PlaceCreature(g, s, game.pos[x], order))
           \/ Becomes([RemoveSummon(g, x, s) EXCEPT !.where[s] = "freed"])
        /\ Deed

\* Creature::changeHealth and Monster::changeHealth: a monster that is hurt wakes up.
ChangeHealth(g, c, survives) ==
    LET hurt(h) == [h EXCEPT !.alive[c] = @ /\ survives]
    IN  hurt(IF c \in Monsters THEN SetIdle(g, c, FALSE) ELSE g)

\* Monster::death and Monster::convinceCreature: the summons die.
DestroySummons(g, m) ==
    LET left(h, S) == Drop([h EXCEPT !.master = [c \in Creatures |-> IF c \in S THEN None ELSE @[c]],
                                     !.summons[m] = {}], S)
    IN  left(FoldLeft(LAMBDA h, s : ChangeHealth(h, s, FALSE), g, SetToSeq(g.summons[m])),
             g.summons[m])

\* Monster::convinceCreature with Monster::onCreatureConvinced
ConvinceCreature(g, m, p, order) ==
    LET owned == AddSummon(IF g.master[m] = None THEN g ELSE RemoveSummon(g, g.master[m], m), p, m)
        calm == SetAttackedCreature(Follow(owned, m, None), m, None, FALSE)
        mine == [DestroySummons(calm, m) EXCEPT !.inRange[m] = TRUE]
        told(h, x) == IF x \in Monsters /\ (IsFriend(h, x, m) \/ IsOpponent(h, x, m))
                      THEN LookAround(h, x, order) ELSE h
    IN  FoldLeft(told, LookAround(mine, m, order),
                 InOrder(order, Spectators(g, g.pos[m]) \cup Spectators(g, g.pos[p])))

Convince(p, m) ==
    /\ InGame(game, p) /\ InGame(game, m) /\ CanSee(game, p, m)
    /\ game.master[m] \notin Players
    /\ \E order \in Orders : Becomes(ConvinceCreature(game, m, p, order))
    /\ Deed

\* A logout, a despawn
Leave(c) ==
    /\ InGame(game, c)
    /\ \E order \in Orders : Becomes(RemoveCreature(game, c, order))
    /\ Deed

\* Game::checkCreatureWalk moves a creature by one step and cleans up; scripts and
\* other creatures move it as well, anywhere, and do not.
CheckCreatureWalk(c, p) ==
    /\ Deed /\ InGame(game, c) /\ game.alive[c] /\ ~game.idle[c] /\ Dist(game.pos[c], p) = 1
    /\ \E order \in Orders : Becomes(Cleanup(MoveCreature(game, c, p, order)))

Teleport(c, p) ==
    /\ Deed /\ InGame(game, c) /\ game.pos[c] # p
    /\ \E order \in Orders : Becomes(MoveCreature(game, c, p, order))

\* Creature::drainHealth; a creature that does not survive dies when it is looked at
\* next.
DrainHealth(c, survives) ==
    /\ InGame(game, c) /\ game.alive[c]
    /\ Becomes(ChangeHealth(game, c, survives))
    /\ Deed

\* Game::playerSetAttackedCreature, Game::playerFollowCreature
PlayerAttacks(p, c, chase) ==
    /\ Deed /\ InGame(game, p) /\ (c # None => InGame(game, c)) /\ c # p
    /\ Becomes(SetAttackedCreature(game, p, c, chase))

PlayerFollows(p, c) ==
    /\ Deed /\ InGame(game, p) /\ InGame(game, c) /\ c # p
    /\ Becomes(SetFollowCreature(SetAttackedCreature(game, p, None, FALSE), p, c))

\* Creature::goToFollowCreature of a summon that finds no way, by updateCreatureWalk
\* or onThink: onFollowCreatureComplete drops the target.
NoWay(m) ==
    LET f == game.follow[m]
    IN  /\ InGame(game, m) /\ game.alive[m] /\ game.master[m] # None /\ f \in game.targets[m]
        /\ Becomes(Drop([game EXCEPT !.targets[m] = @ \ {f}], {f}))
        /\ Deed
-------------------------------------------------------------------------------
(* Game::checkCreatures *)

Looked(g) == Becomes(Cleanup(g)) /\ UNCHANGED deeds

\* It is not to be checked any longer and leaves the list.
Unlist(c) ==
    /\ game.listed[c] /\ ~game.check[c]
    /\ Looked(ReleaseCreature([game EXCEPT !.listed[c] = FALSE], c))

Thinks(c) == game.listed[c] /\ game.check[c] /\ game.alive[c]

\* ~Monster::isInSpawnRange; one that was convinced has no spawn any longer.
Strayed(m) ==
    Homes[m] # None /\ game.master[m] = None /\ Dist(game.pos[m], Homes[m]) > Radius

PlayerThinks(p) == Thinks(p) /\ Looked(game)

\* Monster::onThink, at home: a summon attacks with its master or follows him, a wild
\* monster may look for a target.
Thoughts(g, m) ==
    LET master == g.master[m]
    IN  IF g.idle[m] THEN {g}
        ELSE IF master = None THEN {g} \cup {SelectTarget(g, m, c) : c \in g.targets[m]}
        ELSE IF g.attacked[m] = None
        THEN {IF g.attacked[master] # None THEN SelectTarget(g, m, g.attacked[master])
              ELSE SetFollowCreature(g, m, master)}
        ELSE {SetFollowCreature(g, m, IF g.attacked[m] = m THEN None ELSE g.attacked[m])}

MonsterThinks(m) ==
    /\ Thinks(m) /\ ~Strayed(m)
    /\ \E g \in Thoughts(UpdateIdleStatus(game, m), m) : Looked(g)

\* Monster::onThink, too far away: it is sent home and put to sleep.
SentHome(m) ==
    /\ Thinks(m) /\ Strayed(m)
    /\ \E order \in Orders :
          game' = Cleanup(SetIdle(MoveCreature(game, m, Homes[m], order), m, TRUE))
    /\ lulled' = lulled \cup {m}
    /\ UNCHANGED deeds

\* Creature::onDeath with Monster::death
Death(g, c) ==
    LET calm == AttackWithSummons(g, c, None)
        h == IF c \in Players THEN g ELSE ClearLists(DestroySummons(calm, c), c)
    IN  IF h.master[c] = None THEN h ELSE RemoveSummon(h, h.master[c], c)

Dies(c) ==
    /\ game.listed[c] /\ game.check[c] /\ ~game.alive[c]
    /\ \E order \in Orders : Looked(RemoveCreature(Death(game, c), c, order))
-------------------------------------------------------------------------------
CreaturesNext ==
    \/ \E c \in Creatures, p \in Ground : Enter(c, p) \/ CheckCreatureWalk(c, p) \/ Teleport(c, p)
    \/ \E x \in Creatures, s \in Monsters : Summon(x, s)
    \/ \E p \in Players, m \in Monsters : Convince(p, m)
    \/ \E c \in Creatures : Leave(c) \/ DrainHealth(c, TRUE) \/ DrainHealth(c, FALSE)
    \/ \E p \in Players, c \in Creatures \cup {None}, chase \in BOOLEAN : PlayerAttacks(p, c, chase)
    \/ \E p \in Players, c \in Creatures : PlayerFollows(p, c)
    \/ \E m \in Monsters : NoWay(m) \/ MonsterThinks(m) \/ SentHome(m)
    \/ \E p \in Players : PlayerThinks(p)
    \/ \E c \in Creatures : Unlist(c) \/ Dies(c)

CreaturesSpec == CreaturesInit /\ [][CreaturesNext]_creaturesVars
-------------------------------------------------------------------------------
\* Whoever a creature in the game follows, attacks or obeys is in the game, and
\* nobody who is still in memory knows of a creature that is not: the raw pointers
\* are cleared whenever the other one dies, leaves or goes out of sight, and each
\* entry of a list is worth exactly one reference.
PointersLive ==
    /\ \A x \in Creatures : InGame(game, x) =>
          \A y \in {game.attacked[x], game.follow[x], game.master[x]} \ {None} : InGame(game, y)
    /\ \A x \in Creatures : game.where[x] # "freed" =>
          \A y \in game.targets[x] \cup game.friends[x] \cup game.summons[x] \cup
                   ({game.master[x]} \ {None}) : game.where[y] # "freed"

\* A wild monster that is alive and has an opponent in its sight knows of him, is
\* awake and will be made to think, whatever came, went, was summoned or convinced
\* around it, unless it was put to sleep when it was sent home.  And whoever is out of
\* health will be looked at, and buried.
NeverAsleep ==
    /\ \A c \in Creatures :
        InGame(game, c) /\ ~game.alive[c] => game.check[c] /\ game.listed[c]
    /\ \A m \in Monsters \ lulled :
        (InGame(game, m) /\ game.alive[m] /\ game.master[m] = None) =>
            \A c \in Creatures \ {m} :
                InGame(game, c) /\ CanSee(game, m, c) /\ IsOpponent(game, m, c) =>
                    /\ c \in game.targets[m]
                    /\ ~game.idle[m] /\ game.check[m] /\ game.listed[m]

\* Each reference that is counted belongs to somebody who holds it.
RefsAgree ==
    \A c \in Creatures : game.where[c] \notin {"new", "freed"} =>
        LET holders(list) == Cardinality({x \in Creatures : c \in list[x]})
            one(b) == IF b THEN 1 ELSE 0
        IN  game.refs[c] = holders(game.targets) + holders(game.friends) + holders(game.summons)
                + one(game.listed[c]) + one(InGame(game, c)) + game.release[c]

\* What creatures know of each other is true: no pointer to one who is gone, no
\* reference too many or too few, no monster asleep beside its opponent.
CreaturesAgree == PointersLive /\ RefsAgree /\ NeverAsleep
===============================================================================
