------------------------------- MODULE Spells -------------------------------
(* What a player pays for magic and for weapons: spells.cpp and weapons.cpp.  *)
(* A spell is said or a rune is used, the conditions are checked, the effect  *)
(* (a script, or a function of InstantSpell or RuneSpell) may still fail, and *)
(* only then mana, soul, exhaustion, rune charges and reagents are accounted  *)
(* for. What the effect does to others is not part of this module.            *)
EXTENDS Integers, Sequences, FiniteSets, SequencesExt, FiniteSetsExt, Functions

CONSTANTS SpellBooks,     \* sets of spells and weapons; a behaviour has one of them
          SpellFlags,     \* sets of player flags; a behaviour has one of them
          StartMana, StartSoul, StartCharges, StartReagents, StartAmmo,
          CreatureCost,   \* MonsterType::manaCost of what is summoned or convinced
          SpellMaxNow,    \* the last instant
          SpellMaxDone    \* effects in a behaviour

VARIABLES sNow,           \* OTSYS_TIME in units of a cooldown
          ca,             \* the caster
          sDone           \* how often the effect of each spell came about

sVars == <<sNow, ca, sDone>>

Has(f) == f \in ca.flags

(* Casting happens in an environment the spells only read: whether level, magic *)
(* level, vocation or lesson, weapon and premium time suffice (fit), the zone,  *)
(* the target, what stands there, and whether the script succeeds.              *)
(* At most two of these go wrong at a time.                                     *)
Envs == {[fit |-> "fit" \notin w, protection |-> "protection" \in w, target |-> "target" \notin w, reach |-> "reach" \notin w,
          free |-> "free" \notin w, script |-> "script" \notin w] :
         w \in UNION {kSubset(k, {"fit", "protection", "target", "reach", "free", "script"}) : k \in 0..2}}

(* What is said: the words, alone, with a name, with a quotation, or run on. *)
Said == UNION {{s.words, s.words \o <<" ", "p">>, s.words \o <<" ", "p", "q", "quote">>, s.words \o <<"x">>} :
               s \in {t \in ca.book : t.kind \in {"instant", "conjure"}}}

-----------------------------------------------------------------------------
(* Spells::getInstantSpell: the longest spell whose words begin what was said; *)
(* what follows must be a parameter.                                           *)
InstantSpellFor(said) ==
    LET fits  == {s \in ca.book : s.kind \in {"instant", "conjure"} /\ IsPrefix(s.words, said)}
        best  == {s \in fits : \A t \in fits : Len(t.words) <= Len(s.words)}
        rest(s) == SubSeq(said, Len(s.words) + 1, Len(said))
    IN  {s \in best : rest(s) # << >> => s.hasParam /\ Len(rest(s)) >= 2 /\ Head(rest(s)) = " "}

(* playerSaySpell: one word, or anything in quotes. *)
ParamOK(s, said) == ~s.hasParam \/ Len(said) - Len(s.words) <= 2 \/ Last(said) = "quote"

-----------------------------------------------------------------------------
ManaCost(s) == IF s.mana # 0 THEN s.mana ELSE (StartMana * s.manaPercent) \div 100

SpellCheck(s, e) ==
    /\ ~Has("CannotUseSpells")
    /\ \/ Has("IgnoreSpellCheck")
       \/ /\ s.aggressive => ~e.protection
          /\ Has("HasNoExhaustion") \/ (IF s.aggressive THEN ca.combatExhaust ELSE ca.healExhaust) < sNow
          /\ e.fit
          /\ ca.mana >= ManaCost(s) \/ Has("HasInfiniteMana")
          /\ ca.soul >= s.soul \/ Has("HasInfiniteSoul")

(* Same floor, combat allowed there (free), nobody and nothing in the way. *)
InstantSpellCheck(s, e) == e.reach /\ (s.aggressive => ~e.protection) /\ e.free

RuneSpellCheck(s, e) ==
    /\ SpellCheck(s, e)
    /\ e.reach /\ (s.aggressive => ~e.protection) /\ e.free
    /\ s.needTarget => e.target

AddExhaust(p, s) ==
    IF s.cooldown = 0 THEN p
    ELSE IF s.aggressive THEN [p EXCEPT !.combatExhaust = sNow + s.cooldown - 1]
    ELSE [p EXCEPT !.healExhaust = sNow + s.cooldown - 1]

ChangeMana(p, v) == IF Has("HasInfiniteMana") THEN p ELSE [p EXCEPT !.mana = Max({0, @ - v})]

Pay(p, mana, soul) ==
    LET q == IF mana > 0 THEN ChangeMana([p EXCEPT !.spent = @ + mana], mana) ELSE p
    IN  IF Has("HasInfiniteSoul") THEN q ELSE [q EXCEPT !.soul = Max({0, @ - soul})]

PostCastSpell(p, s) ==
    LET tired == IF Has("HasNoExhaustion") THEN p
                 ELSE [AddExhaust(p, s) EXCEPT !.fighting = @ \/ s.aggressive]
    IN  Pay(tired, ManaCost(s), s.soul)

-----------------------------------------------------------------------------
(* The functions a spell can be bound to. Each yields the caster afterwards,   *)
(* or "no" when it fails.                                                      *)
No == [ok |-> FALSE, p |-> ca]
Yes(p) == [ok |-> TRUE, p |-> p]

HouseEdit(e) == IF e.target THEN Yes(ca) ELSE No            \* the three lists of a house one stands in
HouseKick(e) == IF e.target /\ e.free THEN Yes(ca) ELSE No

SummonMonster(s, e) ==
    IF /\ e.target /\ ca.mana >= CreatureCost /\ ca.summons < 2 /\ e.free
    THEN Yes(Pay([ca EXCEPT !.summons = @ + 1], CreatureCost, s.soul)) ELSE No

Convince(s, e) ==
    IF /\ ca.summons < 2 /\ e.target /\ (ca.mana >= CreatureCost \/ Has("HasInfiniteMana")) /\ e.free
    THEN Yes(Pay([ca EXCEPT !.summons = @ + 1], CreatureCost, s.soul)) ELSE No

Levitate(e) == IF e.free THEN Yes(ca) ELSE No
CreateIllusion(e) == IF e.target THEN Yes([ca EXCEPT !.disguised = TRUE]) ELSE No

(* SearchPlayer: where the other is, seen from here; dx and dy are the offsets  *)
(* of oneself from the other. The slopes are those of the 22.5 degree lines.    *)
Direction(dx, dy) ==
    LET Abs(x)  == IF x < 0 THEN -x ELSE x
        flat    == 10000 * Abs(dy) < 4142 * Abs(dx)
        oblique == ~flat /\ 10000 * Abs(dy) < 24142 * Abs(dx)
    IN  CASE dx # 0 /\ flat                     -> IF dx > 0 THEN "W" ELSE "E"
          [] dx # 0 /\ oblique /\ dx * dy > 0  -> IF dy > 0 THEN "NW" ELSE "SE"
          [] dx # 0 /\ oblique /\ dx * dy <= 0 -> IF dx > 0 THEN "SW" ELSE "NE"
          [] OTHER                             -> IF dy > 0 THEN "N" ELSE "S"

Distance(dx, dy) ==
    CASE dx \in -3..3 /\ dy \in -3..3    -> "beside"
      [] dx * dx + dy * dy >= 75076      -> "very far"
      [] dx * dx + dy * dy >= 10000      -> "far"
      [] OTHER                           -> "close"

(* The direction named is the compass point nearest to where the other is (the  *)
(* y axis points south), and farther away is never called nearer.               *)
Points ==
    [E |-> <<10000, 0>>, W |-> <<-10000, 0>>, N |-> <<0, -10000>>, S |-> <<0, 10000>>,
     NE |-> <<7071, -7071>>, NW |-> <<-7071, -7071>>, SE |-> <<7071, 7071>>, SW |-> <<-7071, 7071>>]
Along(d, dx, dy) == - dx * Points[d][1] - dy * Points[d][2]
ASSUME SearchSpellIsRight ==
    \A dx, dy \in -9..9 : <<dx, dy>> # <<0, 0>> =>
        /\ \A d \in DOMAIN Points : Along(d, dx, dy) <= Along(Direction(dx, dy), dx, dy)
        /\ LET Rank(k) == CHOOSE r \in 1..4 :
                   <<"beside", "close", "far", "very far">>[r] = Distance(k * dx, k * dy)
           IN  \A k \in 1..99 : Rank(k) <= Rank(k + 1)

SearchPlayer(e) == IF e.target /\ e.fit THEN Yes(ca) ELSE No      \* online, and not hidden from this player

(* internalCastSpell *)
Effect(s, e) ==
    CASE s.function = "script"   -> IF e.script THEN Yes(ca) ELSE No
      [] s.function = "house"    -> HouseEdit(e)
      [] s.function = "kick"     -> HouseKick(e)
      [] s.function = "summon"   -> SummonMonster(s, e)
      [] s.function = "convince" -> Convince(s, e)
      [] s.function = "search"   -> SearchPlayer(e)
      [] s.function = "levitate" -> Levitate(e)
      [] s.function = "illusion" -> CreateIllusion(e)

(* conjureItem: the reagent goes first, the item may be dropped at one's feet. *)
ConjureItem(s, e) ==
    IF s.reagent /\ ca.reagents = 0 THEN No
    ELSE IF ~e.free THEN [No EXCEPT !.p.reagents = IF s.reagent THEN @ - 1 ELSE @]
    ELSE Yes(PostCastSpell([ca EXCEPT !.reagents = IF s.reagent THEN @ - 1 ELSE @, !.made = @ + 1], s))

-----------------------------------------------------------------------------
(* What follows: the caster afterwards and whether the effect came about. *)
AfterEffectAlways(s, r) == [r EXCEPT !.p = PostCastSpell(@, s)]     \* a variant that charges for failures
AfterEffect(s, r) == IF r.ok THEN Yes(PostCastSpell(r.p, s)) ELSE r

(* InstantSpell::playerCastInstant. A name that is not found costs the exhaustion, *)
(* unless the spell then goes off in the direction one looks.                      *)
CastInstant(s, e) ==
    IF ~SpellCheck(s, e) THEN No
    ELSE IF s.selfTarget THEN AfterEffect(s, Effect(s, e))
    ELSE IF s.needTarget \/ s.orDirection
         THEN IF e.target THEN (IF e.reach THEN AfterEffect(s, Effect(s, e)) ELSE No)
              ELSE IF s.orDirection
                   THEN (IF InstantSpellCheck(s, e) THEN AfterEffect(s, Effect(s, e)) ELSE No)
              ELSE IF s.hasParam THEN [No EXCEPT !.p = AddExhaust(@, s)] ELSE No
    ELSE IF s.hasParam
         THEN IF s.nameParam /\ ~e.target THEN [No EXCEPT !.p = AddExhaust(@, s)] ELSE AfterEffect(s, Effect(s, e))
    ELSE IF InstantSpellCheck(s, e) THEN AfterEffect(s, Effect(s, e)) ELSE No

(* ConjureSpell::playerCastInstant. A script makes and takes what it wants; *)
(* nothing is accounted for after it.                                       *)
CastConjure(s, e) == IF ~SpellCheck(s, e) THEN No
                     ELSE IF s.function = "script" THEN Effect(s, e)
                     ELSE ConjureItem(s, e)

(* RuneSpell::executeUse: a charge is taken after the payment. *)
UseCharge(p) == [p EXCEPT !.charges = Max({0, @ - 1})]

UseRune(s, e) ==
    IF ~RuneSpellCheck(s, e) THEN No
    ELSE LET r == AfterEffect(s, Effect(s, e))
         IN  IF r.ok THEN Yes(UseCharge(r.p)) ELSE r

Outcome(s, r) ==
    /\ FoldFunction(LAMBDA x, y : x + y, 0, sDone) < SpellMaxDone
    /\ ca' = r.p
    /\ sDone' = IF r.ok THEN [sDone EXCEPT ![s.name] = @ + 1] ELSE sDone

-----------------------------------------------------------------------------
(* Weapons. The modifier is 0 when the weapon cannot be used. *)
WeaponCheck(w, e) ==
    /\ e.reach
    /\ Has("IgnoreWeaponCheck") \/ (ca.mana >= ManaCost(w) /\ ca.soul >= w.soul /\ e.fit)

(* WeaponDistance::useWeapon: the chance to hit in percent. *)
HitChance(skill, distance, limit) ==
    LET Upto(m, num, add) == (Min({skill, m}) * num) \div 100 + add
    IN  CASE limit = 75 /\ distance \in {1, 5} -> Upto(74, 100, 1)
          [] limit = 75 /\ distance = 2 -> Upto(28, 240, 8)
          [] limit = 75 /\ distance = 3 -> Upto(45, 155, 6)
          [] limit = 75 /\ distance = 4 -> Upto(58, 125, 3)
          [] limit = 75 /\ distance = 6 -> Upto(90, 80, 3)
          [] limit = 75 /\ distance = 7 -> Upto(104, 70, 2)
          [] limit = 90 /\ distance \in {1, 5} -> Upto(74, 120, 1)
          [] limit = 90 /\ distance = 2 -> Upto(28, 320, 0)
          [] limit = 90 /\ distance = 3 -> Upto(45, 200, 0)
          [] limit = 90 /\ distance = 4 -> Upto(58, 155, 0)
          [] limit = 90 /\ distance \in {6, 7} -> Upto(90, 100, 0)
          [] limit = 100 /\ distance \in {1, 5} -> Upto(73, 135, 1)
          [] limit = 100 /\ distance = 2 -> Upto(30, 320, 4)
          [] limit = 100 /\ distance = 3 -> Upto(48, 205, 2)
          [] limit = 100 /\ distance = 4 -> Upto(65, 150, 2)
          [] limit = 100 /\ distance = 6 -> Upto(87, 120, -4)
          [] limit = 100 /\ distance = 7 -> Upto(90, 110, 1)
          [] limit \notin {75, 90, 100} -> limit
          [] OTHER -> 0

(* onUsedWeapon: skill, mana and soul, then the missile is used up, loses a     *)
(* charge or lies where it fell.                                               *)
DecrementItemCount(p) == [p EXCEPT !.ammo = @ - 1]

OnUsedWeapon(p, w, breaks) ==
    LET paid == Pay(p, ManaCost(w), w.soul)
    IN  IF breaks \/ w.action = "removecount" THEN DecrementItemCount(paid)
        ELSE IF w.action = "move" THEN [DecrementItemCount(paid) EXCEPT !.thrown = @ + 1]
        ELSE paid

(* A weapon without a limit (melee, wand) does not miss. *)
UseWeapon(w, e, breaks, distance, roll) ==
    IF ~WeaponCheck(w, e) \/ ca.ammo = 0 THEN No
    ELSE Yes([OnUsedWeapon(ca, w, breaks) EXCEPT !.hit = w.limit = 0 \/ HitChance(w.skill, distance, w.limit) >= roll])

-----------------------------------------------------------------------------
SpellInit ==
    /\ sNow = 1
    /\ \E f \in SpellFlags, b \in SpellBooks :
         /\ sDone = [n \in {s.name : s \in b} |-> 0]
         /\ ca = [book |-> b, flags |-> f, mana |-> StartMana, soul |-> StartSoul, spent |-> 0, combatExhaust |-> 0, healExhaust |-> 0,
                  fighting |-> FALSE, charges |-> StartCharges, reagents |-> StartReagents, made |-> 0, summons |-> 0,
                  disguised |-> FALSE, ammo |-> StartAmmo, thrown |-> 0, lastAttack |-> 0, hit |-> FALSE]

SaySpell(said, e) ==
    /\ \E s \in InstantSpellFor(said) :
          /\ ParamOK(s, said)
          /\ Outcome(s, IF s.kind = "conjure" THEN CastConjure(s, e) ELSE CastInstant(s, e))
    /\ UNCHANGED sNow

UseItemRune(s, e) ==
    /\ s.kind = "rune" /\ ca.charges > 0 /\ ~Has("CannotUseSpells")
    /\ Outcome(s, UseRune(s, e))
    /\ UNCHANGED sNow

(* Player::doAttacking: at most once in the attack speed. *)
DoAttacking(w, e, breaks, distance, roll) ==
    /\ w.kind = "weapon" /\ sNow > ca.lastAttack
    /\ LET r == UseWeapon(w, e, breaks, distance, roll)
       IN  Outcome(w, IF r.ok THEN Yes([r.p EXCEPT !.lastAttack = sNow]) ELSE r)
    /\ UNCHANGED sNow

SpellTime == sNow < SpellMaxNow /\ sNow' = sNow + 1 /\ UNCHANGED <<ca, sDone>>

SummonGone == ca.summons > 0 /\ ca' = [ca EXCEPT !.summons = @ - 1] /\ UNCHANGED <<sNow, sDone>>

SpellNext ==
    \/ \E said \in Said, e \in Envs : SaySpell(said, e)
    \/ \E s \in ca.book, e \in Envs : UseItemRune(s, e)
    \/ \E s \in ca.book, e \in Envs, breaks \in BOOLEAN, distance \in {1, 7}, roll \in {1, 100} :
          DoAttacking(s, e, breaks, distance, roll)
    \/ SpellTime \/ SummonGone

-----------------------------------------------------------------------------
Sum(f(_)) == FoldSet(LAMBDA s, acc : acc + sDone[s.name] * f(s), 0, ca.book)
TakesItself(s) == s.function \in {"summon", "convince"}
Scripted(s) == s.kind = "conjure" /\ s.function = "script"

(* The price of a spell. What summons or convinces takes the mana of the       *)
(* creature and the soul of the spell itself, and what the spell costs is      *)
(* taken after it like after any other: its soul is taken twice, and its mana  *)
(* comes on top of the creature's (the spells shipped give both neither).      *)
ManaPrice(s) == IF Scripted(s) THEN 0 ELSE ManaCost(s) + (IF TakesItself(s) THEN CreatureCost ELSE 0)
SoulPrice(s) == IF Scripted(s) THEN 0 ELSE IF TakesItself(s) THEN 2 * s.soul ELSE s.soul

(* What the player has lost is the price of what came about and nothing else:   *)
(* mana, soul, rune charges, reagents and missiles, however often checks and   *)
(* effects fail in between, and the mana counted for the magic level is the    *)
(* price in mana. Only what takes twice can cost more than there is; the rest  *)
(* was there when it was asked for. A failed conjuration may cost a reagent,   *)
(* never more.                                                                 *)
PaidForEffects ==
    LET mana == Sum(ManaPrice)
        soul == Sum(SoulPrice)
        twice == \E s \in ca.book : TakesItself(s) /\ sDone[s.name] > 0 /\ ManaCost(s) + s.soul > 0
    IN  ca.flags = {} =>
          /\ ca.spent = mana
          /\ StartMana - ca.mana = Min({StartMana, mana})
          /\ StartSoul - ca.soul = Min({StartSoul, soul})
          /\ mana > StartMana \/ soul > StartSoul => twice
          /\ StartCharges - ca.charges = Sum(LAMBDA s : IF s.kind = "rune" THEN 1 ELSE 0)
          /\ ca.made = Sum(LAMBDA s : IF s.kind = "conjure" /\ ~Scripted(s) THEN 1 ELSE 0)
          /\ StartReagents - ca.reagents >= Sum(LAMBDA s : IF s.reagent THEN 1 ELSE 0)
          /\ StartAmmo - ca.ammo <= Sum(LAMBDA s : IF s.kind = "weapon" THEN 1 ELSE 0)
=============================================================================
