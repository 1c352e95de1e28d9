------------------------------- MODULE Combat -------------------------------
(* Fights: whom one may attack, what a hit does, what follows from it         *)
(* (combat.cpp, the combat functions of game.cpp, creature.cpp, player.cpp).  *)
(* Players, their summons and monsters stand on spots of the map that lie in  *)
(* one of the four zones. Scripts and rolls are choices; conditions (module   *)
(* Conditions) appear as the damage over time they do, parties not at all.    *)
EXTENDS Integers, Sequences, FiniteSets, SequencesExt, FiniteSetsExt, Functions

CONSTANTS Fights,        \* the situations: [kind, master, low, zone, world, at, temple, steps], see FightInit
          FightMaxHp, FightMaxMp,
          MonsterExp,    \* MonsterType::experience
          KillsToRed     \* ConfigManager::KILLS_TO_RED; FRAG_TIME is the unit of frags

VARIABLES fight,         \* the situation
          fi,            \* the fighters
          stack,         \* the creatures of each spot, newest first
          field,         \* the owner of the magic field on a spot
          hits,          \* the direct hits of the last step, as pairs attacker, victim
          fOps           \* the steps left of this behaviour

fVars == <<fight, fi, stack, field, hits, fOps>>

Nobody == "nobody"
Fighters == DOMAIN fight.kind
IsPlayer(c) == fight.kind[c] = "player"
MasterOf(c) == fight.master[c]
PlayersSummon(c) == MasterOf(c) # Nobody /\ IsPlayer(MasterOf(c))
SpotOf(st, c) == CHOOSE p \in DOMAIN st : \E i \in DOMAIN st[p] : st[p][i] = c
Zone(c) == fight.zone[SpotOf(stack, c)]
Here(s, c) == c # Nobody /\ s[c].here

-----------------------------------------------------------------------------
(* Who may attack whom *)
IsPlayerCombat(t) == IsPlayer(t) \/ PlayersSummon(t)
IsInPvpZone(a, t) == Zone(a) = "pvp" /\ Zone(t) = "pvp"
IsProtected(a, t) == a \in fight.low \/ t \in fight.low      \* by level or for want of a vocation

CanDoCombat(a, t) ==
    a # Nobody =>
      /\ IsPlayer(t) /\ IsPlayer(a) =>
            ~IsProtected(a, t) /\ Zone(t) # "nopvp" /\ (Zone(a) = "nopvp" => Zone(t) = "protection")
      /\ IsPlayer(t) /\ PlayersSummon(a) => Zone(t) # "nopvp" /\ ~IsProtected(MasterOf(a), t)
      /\ ~IsPlayer(t) /\ IsPlayer(a) => ~(PlayersSummon(t) /\ Zone(t) = "nopvp")
      /\ ~IsPlayer(t) /\ ~IsPlayer(a) => PlayersSummon(t) \/ PlayersSummon(a)
      /\ fight.world = "nopvp" /\ IsPlayerCombat(a) /\ IsPlayerCombat(t) => IsInPvpZone(a, t)

CanDoCombatOn(spot, aggressive) == aggressive => fight.zone[spot] # "protection"

(* secure mode is on, as the client starts: only marked players are attacked *)
GetSkull(s, c) == s[c].skull
HasAttacked(s, c, other) == other \in s[c].attacked
SkullClient(s, viewer, c) ==
    IF fight.world # "pvp" THEN "none"
    ELSE IF GetSkull(s, c) = "none" /\ HasAttacked(s, c, viewer) THEN "yellow"
    ELSE GetSkull(s, c)

CanTargetCreature(s, p, t) ==
    /\ p # t
    /\ Zone(p) # "protection" /\ Zone(t) # "protection"
    /\ IsPlayerCombat(t) => Zone(p) # "nopvp" /\ Zone(t) # "nopvp"
    /\ IsPlayer(t) => /\ ~IsProtected(p, t)
                      /\ s[p].secure => IsInPvpZone(p, t) \/ SkullClient(s, p, t) # "none"
    /\ CanDoCombat(p, t)

-----------------------------------------------------------------------------
(* The marks of a fight *)
AddInFightTicks(s, c) == IF IsPlayer(c) THEN [s EXCEPT ![c].infight = TRUE] ELSE s
AddAttacked(s, p, t) == IF p = t THEN s ELSE [s EXCEPT ![p].attacked = @ \cup {t}]

(* Player::onAttackedCreature; the configuration allows to fight back. *)
OnAttackedCreature(s, a, t) ==
    IF ~IsPlayer(a) \/ Zone(t) = "pvp" THEN s
    ELSE IF a = t \/ ~IsPlayer(t) THEN AddInFightTicks(s, a)
    ELSE LET s1 == IF fight.world = "enforced" THEN [s EXCEPT ![a].pz = TRUE] ELSE s
             s2 == IF GetSkull(s1, a) = "none" /\ SkullClient(s1, a, t) = "yellow" THEN AddAttacked(s1, a, t)
                   ELSE IF HasAttacked(s1, t, a) THEN s1
                   ELSE LET s3 == AddAttacked([s1 EXCEPT ![a].pz = TRUE], a, t)
                        IN  IF GetSkull(s3, t) = "none" /\ GetSkull(s3, a) = "none"
                            THEN [s3 EXCEPT ![a].skull = "white"] ELSE s3
         IN  AddInFightTicks(s2, a)

(* Player::onEndCondition *)
EndFight(s, p) ==
    [s EXCEPT ![p].infight = FALSE, ![p].pz = FALSE, ![p].attacked = {},
              ![p].skull = IF @ = "red" THEN @ ELSE "none"]

AddUnjustifiedDead(s, p) ==
    IF fight.world = "enforced" THEN s
    ELSE [s EXCEPT ![p].frags = @ + 1, ![p].skull = IF s[p].frags + 1 > KillsToRed - 1 THEN "red" ELSE @]

-----------------------------------------------------------------------------
(* What a hit does *)
AddDamagePoints(s, a, t, n) ==
    IF a = Nobody \/ n <= 0 THEN s ELSE [s EXCEPT ![t].damage[a] = @ + n, ![t].last = a]

Unaccounted(s, a, t, n) == IF a = Nobody THEN [s EXCEPT ![t].gained = @ - n] ELSE s    \* losses nobody is to blame for

DrainHealth(s, a, t, n) == AddDamagePoints(Unaccounted([s EXCEPT ![t].hp = Max({0, @ - n})], a, t, n), a, t, n)

DrainMana(s, a, t, n) ==
    AddDamagePoints(AddInFightTicks(Unaccounted([s EXCEPT ![t].mp = Max({0, @ - n})], a, t, n), t), a, t, n)

GainHealth(s, t, n) ==
    LET g == Min({n, FightMaxHp - s[t].hp}) IN [s EXCEPT ![t].hp = @ + g, ![t].gained = @ + g]

(* blockHit: left is what immunity, shield, armour and absorption leave. *)
BlockHit(s, a, t, n, left, checks) ==
    LET s1 == IF checks THEN [s EXCEPT ![t].blocks = Max({0, @ - 1})] ELSE s
        s2 == IF a = Nobody THEN s1 ELSE OnAttackedCreature(s1, a, t)
    IN  [s |-> AddInFightTicks(s2, t), blocked |-> left = 0 /\ (n > 0 \/ checks)]

(* Game::combatBlockHit: only a hit of two kinds can be blocked altogether. *)
CombatBlockHit(s, a, t, h) ==
    LET b1 == BlockHit(s, a, t, h.primary, h.left, h.checks)
        b2 == BlockHit(b1.s, a, t, h.secondary, h.left2, FALSE)
    IN  IF h.heal THEN [s |-> s, blocked |-> FALSE]
        ELSE IF h.secondary = 0 THEN [s |-> b1.s, blocked |-> FALSE]
        ELSE [s |-> b2.s, blocked |-> b1.blocked /\ b2.blocked]

(* Game::combatChangeHealth: first the mana shield, then a script that may     *)
(* change what is left, then the health; a script may also keep one alive.     *)
CombatChangeHealth(s, a, t, h, n1, n2) ==
    IF h.heal THEN [ok |-> s[t].hp > 0, s |-> IF s[t].hp > 0 THEN GainHealth(s, t, n1) ELSE s]
    ELSE LET m   == IF s[t].shield THEN Min({s[t].mp, n1 + n2}) ELSE 0
             s1  == IF m # 0 THEN DrainMana(s, a, t, m) ELSE s
             p1  == IF n1 - m < 0 THEN 0 ELSE n1 - m
             p2  == IF n1 - m < 0 THEN Max({0, n2 + n1 - m}) ELSE n2
             q1  == IF h.script = "less" THEN 0 ELSE p1
             q2  == IF q1 >= s1[t].hp THEN 0 ELSE Min({p2, s1[t].hp - q1})
             all == Min({q1, s1[t].hp}) + q2
             vetoed == all > 0 /\ all >= s1[t].hp /\ h.script = "alive"
         IN  [ok |-> ~vetoed, s |-> IF all = 0 \/ vetoed THEN s1 ELSE DrainHealth(s1, a, t, all)]

Afflict(s, a, t, h) == IF h.burns THEN [s EXCEPT ![t].burn = a] ELSE s
Dispel(s, t, h) == IF h.dispels THEN [s EXCEPT ![t].burn = Nobody] ELSE s

Half(n, a, t) == IF a # Nobody /\ IsPlayer(a) /\ IsPlayer(t) THEN n \div 2 ELSE n

CombatHealthFunc(s, a, t, h) ==
    LET b == CombatBlockHit(s, a, t, h)
        n(x) == IF h.heal THEN x ELSE Half(x, a, t)
        r == CombatChangeHealth(b.s, a, t, h, n(IF h.heal THEN h.primary ELSE h.left), n(h.left2))
    IN  IF b.blocked THEN b.s ELSE IF ~r.ok THEN r.s ELSE Dispel(Afflict(r.s, a, t, h), t, h)

(* Game::combatChangeMana by way of CombatManaFunc. *)
CombatManaFunc(s, a, t, h) ==
    LET loss == Min({s[t].mp, Half(h.primary, a, t)})
        b    == BlockHit(s, a, t, loss, Min({loss, h.left}), FALSE)
    IN  IF b.blocked THEN b.s
        ELSE LET left == Min({loss, h.left})
             IN  Dispel(Afflict(IF left <= 0 THEN b.s ELSE DrainMana(b.s, a, t, left), a, t, h), t, h)

HitFunc(s, a, t, h) == IF h.mana THEN CombatManaFunc(s, a, t, h) ELSE CombatHealthFunc(s, a, t, h)

(* doCombatHealth and its kin: the direct attack. *)
DoCombat(s, a, t, h) == IF h.heal \/ (a # t /\ CanDoCombat(a, t)) THEN HitFunc(s, a, t, h) ELSE s

(* Combat::CombatFunc. With targetCasterOrTopMost one creature of a tile is hit: *)
(* the caster on his own tile, the bottom one elsewhere; once one has been       *)
(* found, the search on the following tiles stops at the first creature.         *)
OnTile(acc, a, spot, h) ==
    LET list == stack[spot]
        Step(r, c) ==
          IF r.stop THEN r
          ELSE LET found == ~h.topMost \/ ~r.continue
                            \/ (IF SpotOf(stack, a) = spot THEN c = a ELSE c = Last(list))
               IN  IF ~found THEN r
                   ELSE LET may == h.heal \/ (a # c /\ CanDoCombat(a, c))
                        IN  [s        |-> IF may THEN HitFunc(r.s, a, c, h) ELSE r.s,
                             continue |-> r.continue /\ ~h.topMost,
                             hit      |-> IF may THEN r.hit \cup {<<a, c>>} ELSE r.hit,
                             stop     |-> may /\ h.topMost]
    IN  IF CanDoCombatOn(spot, ~h.heal) THEN [FoldLeft(Step, acc, list) EXCEPT !.stop = FALSE] ELSE acc

CombatFunc(s, a, spots, h) ==
    FoldLeft(LAMBDA r, spot : OnTile(r, a, spot, h), [s |-> s, continue |-> TRUE, hit |-> {}, stop |-> FALSE], spots)

-----------------------------------------------------------------------------
(* The shape of an area spell for each direction, as AreaCombat builds it from   *)
(* a list of rows: 1 is hit, 2 is the centre, 3 both.                           *)
CreateArea(list, rows) ==
    LET cols  == Len(list) \div rows
        Row(i) == (i - 1) \div cols
        Col(i) == (i - 1) % cols
        centre == {i \in DOMAIN list : list[i] \in {2, 3}}
    IN  [rows |-> rows, cols |-> cols, on |-> {<<Row(i), Col(i)>> : i \in {j \in DOMAIN list : list[j] \in {1, 3}}},
         cy |-> IF centre = {} THEN 0 ELSE Row(Max(centre)), cx |-> IF centre = {} THEN 0 ELSE Col(Max(centre))]

Larger(area) == 2 * Max({area.rows, area.cols})

(* copyArea: the angle in quarter turns; the output is indexed without a check. *)
Rotated(area, quarters) ==
    LET size == Larger(area)
        mid  == size \div 2 - 1
        cos  == CASE quarters = 1 -> 0 [] quarters = 2 -> -1 [] quarters = 3 -> 0
        sin  == CASE quarters = 1 -> 1 [] quarters = 2 -> 0  [] quarters = 3 -> -1
    IN  [rows |-> size, cols |-> size, cy |-> mid, cx |-> mid,
         on |-> {<<(p[2] - area.cx) * sin + (p[1] - area.cy) * cos + mid, (p[2] - area.cx) * cos - (p[1] - area.cy) * sin + mid>> : p \in area.on}]

Mirrored(area, size) ==
    [rows |-> size, cols |-> size, cy |-> area.cy, cx |-> area.rows - 1 - area.cx,
     on |-> {<<p[1], area.cols - 1 - p[2]>> : p \in area.on}]

Flipped(area, size) ==
    [rows |-> size, cols |-> size, cy |-> area.cols - 1 - area.cy, cx |-> area.cx,
     on |-> {<<area.rows - 1 - p[1], p[2]>> : p \in area.on}]

SetupArea(list, rows) ==
    LET area == CreateArea(list, rows)
    IN  [north |-> area, east |-> Rotated(area, 1), south |-> Rotated(area, 2), west |-> Rotated(area, 3)]

SetupExtArea(list, rows) ==
    LET area == CreateArea(list, rows)
        sw   == Flipped(area, Larger(area))
    IN  [northwest |-> area, northeast |-> Mirrored(area, Larger(area)), southwest |-> sw, southeast |-> Mirrored(sw, Larger(area))]

(* A wave: it starts at the last row and is wider by two every spread rows. *)
WaveList(length, spread) ==
    LET cols == IF spread = 0 THEN 1 ELSE (length \div spread) * 2 + 1
        narrowed(y) == IF spread = 0 THEN 0 ELSE (y - 1) \div spread
        cell(y, x) == IF y = length /\ x = cols \div 2 + 1 THEN 3
                      ELSE IF x > narrowed(y) /\ x <= cols - narrowed(y) THEN 1 ELSE 0
    IN  [i \in 1..length * cols |-> cell((i - 1) \div cols + 1, ((i - 1) % cols) + 1)]

(* getList: the tiles that are hit, relative to the target. *)
AreaTiles(area) == {<<p[2] - area.cx, p[1] - area.cy>> : p \in area.on}

-----------------------------------------------------------------------------
(* setAttackedCreature: whoever chooses a target, or leaves it, does so for his *)
(* summons too; all are in sight. Choosing marks already, before any hit. (A    *)
(* summon has no summons, and marks nobody but the target.)                     *)
SetTarget(s, c, t) ==
    LET chosen == [x \in Fighters |-> IF c \in {x, MasterOf(x)} THEN [s[x] EXCEPT !.target = t] ELSE s[x]]
    IN  IF t = Nobody THEN chosen ELSE AddInFightTicks(OnAttackedCreature(chosen, c, t), t)

Forget(s, c) == SetTarget(s, c, Nobody)

OnChangeZone(s, c, zone) == IF zone = "protection" THEN Forget(s, c) ELSE s

AttackedChangesZoneIgnored(s, c, zone) == s              \* a variant for monsters and players who do not notice
AttackedChangesZone(s, c, zone) ==
    IF \/ zone = "protection"
       \/ IsPlayer(c) /\ zone = "nopvp" /\ IsPlayer(s[c].target)
       \/ IsPlayer(c) /\ zone = "normal" /\ fight.world = "nopvp" /\ IsPlayer(s[c].target)
    THEN Forget(s, c) ELSE s

(* Creature::onCreatureMove of everyone in sight, as far as zones go. *)
Moved(s, c, from, to) ==
    LET zone(x) == IF x = c THEN fight.zone[to] ELSE Zone(x)
        One(acc, x) ==
          LET own == IF x = c THEN OnChangeZone(acc, x, fight.zone[to]) ELSE acc
          IN  IF own[x].target # Nobody /\ c \in {x, own[x].target}
              THEN AttackedChangesZone(own, x, zone(own[x].target)) ELSE own
    IN  IF fight.zone[from] = fight.zone[to] THEN s
        ELSE FoldSet(LAMBDA x, acc : One(acc, x), s, {x \in Fighters : s[x].here})

(* Tile::queryAdd for a step. *)
MayEnter(c, to) ==
    LET zone == fight.zone[to] IN
    /\ stack[to] = << >>
    /\ ~IsPlayer(c) => zone # "protection"
    /\ IsPlayer(c) /\ fi[c].pz => /\ (zone = "pvp") = (Zone(c) = "pvp")
                                  /\ zone \in {"nopvp", "protection"} => zone = Zone(c)

(* MagicField::onStepInField: the owner is blamed for a fresh field, or if he  *)
(* hit this creature lately; and for one that is meant to do no harm.          *)
StepIn(s, c, to, blamed) ==
    LET o == field[to]
        harmless == /\ Here(s, o)
                    /\ \/ IsPlayerCombat(o) /\ (fight.world = "nopvp" \/ fight.zone[to] = "nopvp")
                       \/ IsPlayer(o) /\ IsPlayer(c) /\ IsProtected(o, c)
    IN  IF o = Nobody THEN s ELSE [s EXCEPT ![c].burn = IF harmless \/ blamed THEN o ELSE "anyone"]

Unstack(st, cs) == [p \in DOMAIN st |-> SelectSeq(st[p], LAMBDA x : x \notin cs)]
Relocate(st, c, to) == [Unstack(st, {c}) EXCEPT ![to] = <<c>> \o @]

-----------------------------------------------------------------------------
(* Death *)
(* the share of the experience of one attacker: floor(ratio * value) *)
Share(s, t, a) ==
    LET all == MapThenSumSet(LAMBDA x : s[t].damage[x], Fighters)
    IN  IF all = 0 \/ IsPlayer(t) THEN 0 ELSE (MonsterExp * s[t].damage[a]) \div all

(* onGainExperience: a summon passes half of it on. *)
FightGain(s, a, n) ==
    IF IsPlayer(a) THEN [s EXCEPT ![a].exp = @ + n]
    ELSE IF PlayersSummon(a) THEN [s EXCEPT ![MasterOf(a)].exp = @ + n \div 2] ELSE s

(* Player::onKilledCreature, by way of the master of a summon *)
OnKilledCreature(s, k, t, lastHit) ==
    LET p == IF IsPlayer(k) THEN k ELSE MasterOf(k)
        last == lastHit \/ ~IsPlayer(k)
        murder == HasAttacked(s, p, t) /\ ~HasAttacked(s, t, p) /\ p # t
        s1 == IF murder /\ GetSkull(s, t) = "none" THEN AddUnjustifiedDead(s, p) ELSE s
    IN  IF p = Nobody \/ ~IsPlayer(p) \/ ~IsPlayer(t) THEN s
        ELSE IF Zone(t) = "pvp" THEN [s EXCEPT ![t].skillLoss = FALSE]
        ELSE IF IsInPvpZone(p, t) \/ ~murder THEN s
        ELSE IF last /\ s1[p].infight THEN [s1 EXCEPT ![p].pz = TRUE] ELSE s1

MostDamage(s, t, recent) ==
    LET in == {x \in Fighters : s[x].here /\ x \in recent /\ s[t].damage[x] > 0}
    IN  IF in = {} THEN Nobody ELSE CHOOSE x \in in : \A y \in in : s[t].damage[y] <= s[t].damage[x]

(* Player::death: persistent conditions end, among them the fight. *)
FightDeath(s, t) ==
    IF ~IsPlayer(t) THEN s
    ELSE LET full == [s EXCEPT ![t].hp = FightMaxHp, ![t].gained = @ + FightMaxHp - s[t].hp, ![t].skillLoss = TRUE,
                                  ![t].burn = Nobody, ![t].shield = FALSE]
         IN  IF s[t].skillLoss THEN [full EXCEPT ![t].mp = FightMaxMp, ![t].gained = @ + FightMaxMp - s[t].mp] ELSE full

(* Game::removeCreature: the summons go too, and who had one of them for a target *)
(* leaves it (onCreatureDisappear).                                             *)
Gone(t) == {x \in Fighters : x = t \/ MasterOf(x) = t}
Removed(s, t) ==
    LET left == FoldSet(LAMBDA x, acc : Forget(acc, x), s, {x \in Fighters : s[x].target \in Gone(t)})
    IN  [x \in Fighters |-> [left[x] EXCEPT !.here = @ /\ x \notin Gone(t)]]

(* Creature::onDeath *)
OnDeath(s, t, recent) ==
    LET last   == IF Here(s, s[t].last) THEN s[t].last ELSE Nobody
        s1     == IF last # Nobody THEN OnKilledCreature(s, last, t, TRUE) ELSE s
        most   == MostDamage(s1, t, recent)
        sharer == {x \in Fighters : s[x].here /\ x # t /\ s[t].damage[x] > 0}
        s2     == FoldSet(LAMBDA x, acc : FightGain(acc, x, Share(s1, t, x)), s1, sharer)
        apart  == /\ most # Nobody /\ most # last
                  /\ last # Nobody => most # MasterOf(last) /\ MasterOf(most) # last
                  /\ last = Nobody => MasterOf(most) # Nobody
                  /\ last # Nobody /\ MasterOf(last) # Nobody => MasterOf(most) # MasterOf(last)
        s3     == IF apart THEN OnKilledCreature(s2, most, t, FALSE) ELSE s2
    IN  [s |-> FightDeath(s3, t), spared |-> ~s3[t].skillLoss]

-----------------------------------------------------------------------------
(* The hits tried: with one or two kinds of damage, rolls and scripts. *)
Plain == [primary |-> 1, secondary |-> 0, left |-> 1, left2 |-> 0, checks |-> TRUE, heal |-> FALSE, mana |-> FALSE,
          burns |-> FALSE, dispels |-> FALSE, topMost |-> FALSE, script |-> "none"]
Blows == {[Plain EXCEPT !.left = 0, !.burns = TRUE],
          [Plain EXCEPT !.primary = 2, !.left = 2, !.secondary = 2, !.left2 = 2],
          [Plain EXCEPT !.left = 0, !.secondary = 1, !.left2 = 0, !.burns = TRUE],
          [Plain EXCEPT !.primary = 4, !.left = 4, !.script = "less"], [Plain EXCEPT !.primary = 4, !.left = 4, !.script = "alive"],
          [Plain EXCEPT !.mana = TRUE, !.primary = 2, !.left = 1]}
Bursts == {[Plain EXCEPT !.primary = 2, !.left = 2, !.checks = FALSE], [Plain EXCEPT !.topMost = TRUE],
           [Plain EXCEPT !.heal = TRUE, !.topMost = TRUE, !.dispels = TRUE], [Plain EXCEPT !.mana = TRUE]}

Alive(c) == fi[c].here /\ fi[c].hp > 0
FightStep == fOps > 0 /\ fOps' = fOps - 1 /\ UNCHANGED fight

SetAttackedCreature(p, t) ==
    /\ FightStep /\ IsPlayer(p) /\ fi[p].here
    /\ t # Nobody => fi[t].here
    /\ fi' = SetTarget(fi, p, IF t # Nobody /\ CanTargetCreature(fi, p, t) THEN t ELSE Nobody)
    /\ hits' = {} /\ UNCHANGED <<stack, field>>

SetFightModes(p) ==
    /\ FightStep /\ IsPlayer(p) /\ fi[p].here
    /\ fi' = [fi EXCEPT ![p].secure = ~@] /\ hits' = {} /\ UNCHANGED <<stack, field>>

(* Monster::selectTarget: an opponent; a summon follows its master. *)
SelectTarget(m, t) ==
    /\ FightStep /\ ~IsPlayer(m) /\ Alive(m) /\ m # t /\ fi[t].here /\ Zone(t) # "protection"
    /\ IF MasterOf(m) = Nobody THEN IsPlayerCombat(t) ELSE t = fi[MasterOf(m)].target
    /\ fi' = SetTarget(fi, m, t) /\ hits' = {} /\ UNCHANGED <<stack, field>>

(* checkCreatureAttack and checkCreatures: onAttacking, then doAttacking *)
OnAttacking(a, h) ==
    /\ FightStep /\ Alive(a) /\ fi[a].target # Nobody
    /\ LET t == fi[a].target
           s == AddInFightTicks(AddInFightTicks(fi, a), t)
       IN  /\ fi' = DoCombat(s, a, t, h)
           /\ hits' = IF a # t /\ CanDoCombat(a, t) THEN {<<a, t>>} ELSE {}
    /\ UNCHANGED <<stack, field>>

(* A spell or rune over an area; it may leave a field (combatTileEffects). *)
AreaSpell(a, spots, h, leaves) ==
    /\ FightStep /\ Alive(a)
    /\ LET r == CombatFunc(fi, a, spots, h)
           owner == IF IsPlayer(a) THEN a ELSE MasterOf(a)
           marks == leaves /\ owner # Nobody /\ IsPlayer(owner) /\ fight.world # "nopvp"
       IN  /\ fi' = IF marks THEN AddInFightTicks(r.s, owner) ELSE r.s
           /\ hits' = IF h.heal THEN {} ELSE r.hit
           /\ field' = [p \in DOMAIN field |->
                          IF leaves /\ p \in Range(spots) /\ CanDoCombatOn(p, TRUE) THEN a ELSE field[p]]
    /\ UNCHANGED stack

(* One tick of damage over time; its owner may be gone. *)
Burn(t, h) ==
    /\ FightStep /\ Alive(t) /\ fi[t].burn # Nobody
    /\ LET a == IF fi[t].burn \in Fighters /\ Here(fi, fi[t].burn) THEN fi[t].burn ELSE Nobody
           b == CombatBlockHit(fi, a, t, [h EXCEPT !.checks = FALSE])
       IN  fi' = IF b.blocked THEN b.s ELSE CombatChangeHealth(b.s, a, t, h, h.left, h.left2).s
    /\ hits' = {} /\ UNCHANGED <<stack, field>>

Move(c, to, blamed) ==
    /\ stack' = Relocate(stack, c, to)
    /\ fi' = StepIn(Moved(fi, c, SpotOf(stack, c), to), c, to, blamed)
    /\ hits' = {} /\ UNCHANGED field

Walk(c, to, blamed) == FightStep /\ Alive(c) /\ MayEnter(c, to) /\ Move(c, to, blamed)
Teleport(c, to) == FightStep /\ Alive(c) /\ SpotOf(stack, c) # to /\ Move(c, to, TRUE)

FightEnds(p) ==
    /\ FightStep /\ IsPlayer(p) /\ fi[p].here /\ fi[p].infight
    /\ fi' = EndFight(fi, p) /\ hits' = {} /\ UNCHANGED <<stack, field>>

(* checkSkullTicks: the frags run out and with them the red skull. *)
SkullTicks(p) ==
    /\ FightStep /\ IsPlayer(p) /\ fi[p].here /\ fight.world # "enforced" /\ (fi[p].frags > 0 \/ fi[p].skull = "red")
    /\ fi' = [fi EXCEPT ![p].frags = Max({0, @ - 1}),
                        ![p].skull = IF @ = "red" /\ fi[p].frags <= 1 /\ ~fi[p].infight THEN "none" ELSE @]
    /\ hits' = {} /\ UNCHANGED <<stack, field>>

(* checkCreatures finds a creature without health; recent: who hit it lately.   *)
(* In the arena there is no corpse: the player stays in the game, and if a      *)
(* player killed him he is brought to his temple.                              *)
Dies(t, recent) ==
    /\ FightStep /\ fi[t].here /\ fi[t].hp = 0
    /\ LET k == OnDeath(fi, t, recent)
           s == IF IsPlayer(t) /\ fi[t].infight THEN EndFight(k.s, t) ELSE k.s
       IN  IF ~(IsPlayer(t) /\ Zone(t) = "pvp")
           THEN fi' = Removed(s, t) /\ stack' = Unstack(stack, Gone(t))
           ELSE IF k.spared
           THEN fi' = Moved(s, t, SpotOf(stack, t), fight.temple) /\ stack' = Relocate(stack, t, fight.temple)
           ELSE fi' = s /\ UNCHANGED stack
    /\ hits' = {} /\ UNCHANGED field

FightInit ==
    /\ fight \in Fights
    /\ stack = [p \in DOMAIN fight.zone |-> SetToSeq({c \in DOMAIN fight.at : fight.at[c] = p})]
    /\ field = [p \in DOMAIN fight.zone |-> Nobody]
    /\ hits = {} /\ fOps = fight.steps
    /\ fi = [c \in DOMAIN fight.kind |->
               [hp |-> FightMaxHp, mp |-> FightMaxMp, shield |-> IsPlayer(c), blocks |-> 1, here |-> TRUE, target |-> Nobody, secure |-> FALSE,
                damage |-> [x \in DOMAIN fight.kind |-> 0], last |-> Nobody, gained |-> 0, burn |-> Nobody, infight |-> FALSE, pz |-> FALSE,
                attacked |-> {}, skull |-> "none", frags |-> 0, exp |-> 0, skillLoss |-> TRUE]]

FightNext ==
    \/ \E p \in Fighters, t \in Fighters \cup {Nobody} : SetAttackedCreature(p, t)
    \/ \E p \in Fighters : SetFightModes(p) \/ FightEnds(p) \/ SkullTicks(p)
    \/ \E m, t \in Fighters : SelectTarget(m, t)
    \/ \E a \in Fighters, h \in Blows : OnAttacking(a, h)
    \/ \E a \in Fighters, h \in Bursts, spots \in SetToSeqs(DOMAIN fight.zone) : AreaSpell(a, spots, h, FALSE)
    \/ \E a \in Fighters, spot \in DOMAIN fight.zone : AreaSpell(a, <<spot>>, Plain, TRUE)
    \/ \E t \in Fighters, h \in {Plain, [Plain EXCEPT !.left = 0]} : Burn(t, h)
    \/ \E c \in Fighters, to \in DOMAIN fight.zone : (\E blamed \in BOOLEAN : Walk(c, to, blamed)) \/ Teleport(c, to)
    \/ \E t \in Fighters, recent \in {{}, Fighters} : Dies(t, recent)

-----------------------------------------------------------------------------
(* A direct hit never reaches one who stands in a protection zone, however the  *)
(* two have moved since the attack began; and no player is hit by another, or   *)
(* by another's summon, who is protected from him by level, by the zone or by   *)
(* the kind of world.                                                           *)
HarmIsAllowed ==
    \A <<a, t>> \in hits :
      LET p == IF IsPlayer(a) THEN a ELSE MasterOf(a) IN
      /\ Zone(t) # "protection"
      /\ p # Nobody /\ IsPlayer(p) /\ IsPlayer(t) =>
            ~IsProtected(p, t) /\ Zone(t) # "nopvp" /\ (fight.world = "nopvp" => Zone(t) = "pvp")

(* Every point of health or mana a creature has lost is charged to the one who  *)
(* took it, through mana shields, scripts, healing and deaths in the arena; and *)
(* what the dead monsters were worth is never handed out twice.                 *)
RewardsFollowDamage ==
    /\ \A t \in Fighters :
          MapThenSumSet(LAMBDA a : fi[t].damage[a], Fighters) = FightMaxHp + FightMaxMp + fi[t].gained - fi[t].hp - fi[t].mp
    /\ MapThenSumSet(LAMBDA p : fi[p].exp, Fighters) <= MonsterExp * Cardinality({m \in Fighters : ~IsPlayer(m) /\ ~fi[m].here})

(* Pz-lock, white skull and the list of those one attacked last as long as the   *)
(* fight, and no longer: a player at peace is unmarked.                         *)
MarkedWhileFighting ==
    \A p \in Fighters : IsPlayer(p) /\ fi[p].here /\ ~fi[p].infight =>
       ~fi[p].pz /\ fi[p].attacked = {} /\ fi[p].skull # "white"

Inside(area) == \A p \in area.on : p[1] \in 0..area.rows - 1 /\ p[2] \in 0..area.cols - 1
Turn(tiles) == {<<-p[2], p[1]>> : p \in tiles}
SmallLists == UNION {{<<r, l>> : l \in {f \in [1..r * c -> 0..3] : \E i \in 1..r * c : f[i] >= 2 /\ \A j \in 1..r * c : j # i => f[j] <= 1}} : r \in 1..2, c \in 1..3}
                \cup {<<n, WaveList(n, k)>> : n \in 1..5, k \in 0..3}

(* An area spell has the same shape in every direction, turned about the centre  *)
(* (mirrored for the diagonals of a square area), and never writes outside its  *)
(* matrix; a wave starts one tile wide. A fact about functions: it is evaluated *)
(* in the initial states only.                                                  *)
AreasTurn ==
    fOps = fight.steps =>
        /\ \A <<r, l>> \in SmallLists :
              LET a == SetupArea(l, r) IN
              /\ AreaTiles(a.east) = Turn(AreaTiles(a.north)) /\ AreaTiles(a.south) = Turn(AreaTiles(a.east))
              /\ AreaTiles(a.west) = Turn(AreaTiles(a.south))
              /\ \A d \in DOMAIN a : Inside(a[d])
        /\ \A <<r, l>> \in {x \in SmallLists : Len(x[2]) = x[1] * x[1]} :
              LET a == SetupExtArea(l, r) IN
              /\ AreaTiles(a.northeast) = {<<-p[1], p[2]>> : p \in AreaTiles(a.northwest)}
              /\ AreaTiles(a.southwest) = {<<p[1], -p[2]>> : p \in AreaTiles(a.northwest)}
              /\ AreaTiles(a.southeast) = {<<-p[1], -p[2]>> : p \in AreaTiles(a.northwest)}
              /\ \A d \in DOMAIN a : Inside(a[d])

\* Fights hurt only whom they may, pay only for what was done, mark only those
\* who fight, and reach the tiles of the turned area.
FightsAgree == HarmIsAllowed /\ RewardsFollowDamage /\ MarkedWhileFighting /\ AreasTurn
=============================================================================
