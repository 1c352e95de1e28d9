-------------------------------- MODULE MCRules --------------------------------
(* What happens in the world around a player: what his client is shown, who    *)
(* may hurt whom and what it brings, and what conditions do.  The parts share  *)
(* no state, so each is explored by itself: part says which.                   *)
EXTENDS ClientView, Combat, Conditions

VARIABLE part

\* ClientView: two grounds, splashes and creatures, a field, a wall and a thing.
MCKindOf == [i \in {"g1", "g2", "s1", "s2", "f1", "w", "t1"} |->
                CASE i \in {"g1", "g2"} -> "ground"
                  [] i \in {"s1", "s2"} -> "splash"
                  [] i = "f1" -> "field"
                  [] i = "w" -> "wall"
                  [] OTHER -> "thing"]
MCThings == DOMAIN MCKindOf
MCWalks == {<<0, 0>>, <<1, 0>>, <<-1, 1>>, <<1, -1>>, <<0, -1>>}
MCRows == 1..7

\* Combat: two players in the street of a world with and without fights between
\* players, a player and a monster at an arena, a summoner against a beginner
\* where fights are enforced, and a summon against a wild monster.
MCFight(kinds, masters, low, world, zone, at, steps) ==
    [kind |-> kinds, master |-> masters, low |-> low, world |-> world,
     zone |-> zone, at |-> at, temple |-> "street", steps |-> steps]
MCFights == {
    MCFight([p |-> "player", q |-> "player"], [p |-> Nobody, q |-> Nobody], {}, "pvp",
            [street |-> "normal", temple |-> "protection"], [p |-> "street", q |-> "street"], 6),
    MCFight([p |-> "player", q |-> "player"], [p |-> Nobody, q |-> Nobody], {}, "nopvp",
            [street |-> "normal", arena |-> "pvp"], [p |-> "arena", q |-> "arena"], 4),
    MCFight([p |-> "player", m |-> "monster"], [p |-> Nobody, m |-> Nobody], {}, "pvp",
            [street |-> "normal", arena |-> "pvp"], [p |-> "arena", m |-> "street"], 5),
    MCFight([p |-> "player", q |-> "player", s |-> "monster"],
            [p |-> Nobody, q |-> Nobody, s |-> "p"], {"q"}, "enforced",
            [street |-> "normal", temple |-> "protection"],
            [p |-> "street", q |-> "street", s |-> "street"], 4),
    MCFight([p |-> "player", m |-> "monster", s |-> "monster"],
            [p |-> Nobody, m |-> Nobody, s |-> "p"], {}, "pvp",
            [street |-> "normal", field |-> "nopvp"],
            [p |-> "street", m |-> "street", s |-> "field"], 3)}

\* Conditions: those that change one thing together, with ids of items and of
\* spells, endless and short ones.
MCOf(t, id, ticks) == CreateCondition(t, id, 0, ticks)
MCFire(lo, hi, first) ==
    SetDamage(SetDamage(SetDamage(SetDamage(MCOf("FIRE", 0, 0), "lo", -lo), "hi", -hi),
                        "first", -first), "per", 1)
MCGroups == {
    {MCOf("HASTE", 0, 2), SetSpeed(MCOf("HASTE", 8, -1), 2), SetSpeed(MCOf("HASTE", 0, 1), -4)},
    {SetAttributes(MCOf("ATTRIBUTES", 0, 2), "pct", 150),
     SetAttributes(MCOf("ATTRIBUTES", 0, 1), "val", 7), MCOf("INFIGHT", 0, 1)},
    {MCOf("INVISIBLE", 0, 2), MCOf("INVISIBLE", 9, -1), [MCOf("OUTFIT", 0, 2) EXCEPT !.val = 1],
     SetLight(MCOf("LIGHT", 0, 4), 2)},
    {MCFire(1, 2, 0), SetDamage(MCFire(3, 3, 2), "delayed", 1),
     SetRegeneration(MCOf("REGENERATION", 0, 2), "val", 1)},
    {PeriodicDamage(SetDamage(MCOf("POISON", 0, 0), "per", 1), 1),
     SetDamage(MCFire(1, 1, 1), "force", 1)}}
MCBases == <<10, 20>>

\* Each part starts in any of its initial states; the variables of the others hold
\* nothing, but for those of the conditions, which an action property reads.
Absent == "absent"

MCInit ==
    /\ part \in {"view", "fight", "conditions"}
    /\ IF part = "view" THEN ClientInit
       ELSE cv = Absent /\ vSteps = Absent
    /\ IF part = "fight" THEN FightInit
       ELSE fight = Absent /\ fi = Absent /\ stack = Absent /\ field = Absent /\ hits = Absent /\ fOps = Absent
    /\ IF part = "conditions" THEN CondInit
       ELSE CondInit /\ cGroup = CHOOSE g \in CondGroups : TRUE

ViewMoves ==
    /\ part = "view"
    /\ ClientNext
    /\ UNCHANGED <<part, fVars, cVars>>

FightMoves ==
    /\ part = "fight"
    /\ FightNext
    /\ UNCHANGED <<part, clientVars, cVars>>

ConditionsMoves ==
    /\ part = "conditions"
    /\ CondNext
    /\ UNCHANGED <<part, clientVars, fVars>>

MCNext ==
    \/ ViewMoves
    \/ FightMoves
    \/ ConditionsMoves

MCSpec == MCInit /\ [][MCNext]_<<part, clientVars, fVars, cVars>>
-------------------------------------------------------------------------------
(* What holds of each part; the component says why it matters.                *)

\* What the client shows is what the server thinks it shows, stack positions and
\* known creatures included (protocolgame.cpp, tile.cpp, player.cpp).
ViewSafe == part = "view" => ViewAgrees

\* Only those who may be hurt are hurt, what a fight brings follows the damage,
\* fighters are marked as long as they fight, and areas turn with the caster
\* (combat.cpp, creature.cpp, player.cpp).
FightsSafe == part = "fight" => FightsAgree

\* A creature differs from its normal self by what its conditions did and by
\* nothing else (condition.cpp).
EffectsSafe == part = "conditions" => EffectsAgree
===============================================================================
