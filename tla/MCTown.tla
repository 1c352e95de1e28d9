-------------------------------- MODULE MCTown --------------------------------
(* What the server keeps for the players: the life of the process with its     *)
(* ports and the bans and premium days they check, the scripts, the channels   *)
(* two players talk in, the house of one of two, the spells one casts and what *)
(* he learns, the way he walks, his coins, letters and the tiles he changes,   *)
(* what he wears, and the way all this is saved.  The parts share no state, so *)
(* each is explored by itself: part says which.                                *)
EXTENDS Server, Scripts, Chat, Houses, Spells, Progress, Walking, Places, Persistence, Equipment

CONSTANTS i1, i2

VARIABLE part

\* Chat: only a belongs to a guild.
MCRow == [p \in Talkers |-> IF p = "a" THEN "g" ELSE None]

\* Server: all ports apart, none at all, the login and the status port shared.
MCPlans == {[game |-> 2, login |-> 1, status |-> 1],
            [game |-> 0, login |-> 0, status |-> 0],
            [game |-> 1, login |-> 1, status |-> 1]}

\* Scripts: event files with entries that are twice there, that fail to load and
\* that share a key.
MCEntry(n, t, k, ok) == [name |-> n, type |-> t, keys |-> k, ok |-> ok]
MCFiles == { << MCEntry("a", "timer", {1, 2}, TRUE), MCEntry("b", "think", {2}, TRUE),
                MCEntry("a", "think", {2, 3}, TRUE) >>,
             << MCEntry("b", "timer", {1}, FALSE), MCEntry("a", "timer", {1}, TRUE) >>,
             << MCEntry("a", "think", {3}, TRUE) >> }
MCThink == [x |-> 2, y |-> 3]

\* Spells: words that begin alike, spells that need a parameter, a target, a
\* reagent, and each function the core itself carries out.
MCSpell(name, words) ==
    [name |-> name, kind |-> "instant", words |-> words, function |-> "script", mana |-> 0,
     manaPercent |-> 0, soul |-> 0, aggressive |-> FALSE, cooldown |-> 1, hasParam |-> FALSE,
     nameParam |-> FALSE, needTarget |-> FALSE, orDirection |-> FALSE, selfTarget |-> FALSE, reagent |-> FALSE,
     action |-> "", limit |-> 0, skill |-> 10]
MCBooks == {
    {[MCSpell("light", <<"u", "l">>) EXCEPT !.mana = 1, !.selfTarget = TRUE],
     [MCSpell("heal friend", <<"u", "l", "s">>) EXCEPT
         !.manaPercent = 20, !.hasParam = TRUE, !.needTarget = TRUE],
     [MCSpell("rune", <<"a", "o">>) EXCEPT
         !.kind = "conjure", !.function = "conjure", !.mana = 2, !.soul = 1, !.reagent = TRUE],
     [MCSpell("search", <<"e", "x">>) EXCEPT !.mana = 1, !.function = "search", !.hasParam = TRUE]},
    {[MCSpell("house", <<"a", "s">>) EXCEPT !.function = "house"],
     [MCSpell("house kick", <<"a", "s", "k">>) EXCEPT
         !.function = "kick", !.hasParam = TRUE, !.nameParam = TRUE],
     [MCSpell("wave", <<"e", "v">>) EXCEPT !.mana = 2, !.aggressive = TRUE],
     [MCSpell("strike", <<"e", "m">>) EXCEPT
         !.mana = 1, !.aggressive = TRUE, !.orDirection = TRUE, !.hasParam = TRUE],
     [MCSpell("enchant", <<"e", "t">>) EXCEPT !.kind = "conjure", !.mana = 1, !.soul = 1]},
    {[MCSpell("levitate", <<"e", "h">>) EXCEPT
         !.mana = 1, !.function = "levitate", !.hasParam = TRUE],
     [MCSpell("illusion", <<"u", "r">>) EXCEPT
         !.mana = 1, !.function = "illusion", !.hasParam = TRUE],
     [MCSpell("summon", <<"u", "r", "m">>) EXCEPT
         !.mana = 1, !.soul = 1, !.function = "summon", !.hasParam = TRUE]},
    {[MCSpell("bomb", <<>>) EXCEPT !.kind = "rune", !.aggressive = TRUE],
     [MCSpell("convince", <<>>) EXCEPT
         !.kind = "rune", !.soul = 1, !.needTarget = TRUE, !.function = "convince"],
     [MCSpell("spear", <<>>) EXCEPT !.kind = "weapon", !.action = "move", !.limit = 75],
     [MCSpell("wand", <<>>) EXCEPT !.kind = "weapon", !.mana = 1, !.action = "removecount"]}}
MCFlags == {{}, {"HasInfiniteMana"}, {"CannotUseSpells"}, {"IgnoreSpellCheck"}}

\* Progress: a player without and one with a vocation.
MCVocation(none, mp, magic) ==
    [none |-> none, hp |-> 5, mp |-> mp, cap |-> 1000, hp0 |-> 150, cap0 |-> 40000,
     manaMult |-> magic, skillMult |-> <<2, 1>>]
MCPlayer(v, level, exp, mag, spent, skill, tries) ==
    [voc |-> v, promoted |-> FALSE, level |-> level, exp |-> exp, levelPct |-> 0,
     hpMax |-> 150 + (level - 1) * v.hp, hp |-> 100, mpMax |-> (level - 1) * v.mp, mp |-> 0,
     cap |-> 400 + ((level - 1) * v.cap) \div 100, mag |-> mag, spent |-> spent, magPct |-> 0,
     skill |-> skill, tries |-> tries, skillPct |-> 0, skillLoss |-> TRUE, bless |-> 0,
     pvpBless |-> FALSE]
MCRows == {MCPlayer(MCVocation(TRUE, 5, <<4, 1>>), 1, 0, 0, 360, 10, 40),
           MCPlayer(MCVocation(FALSE, 30, <<3, 2>>), 8, 4200, 1, 44, 12, 20)}
MCLose == -1

\* Walking: a lever, a rope and a creature to push, near and far; a tile that
\* sends on whoever steps onto it.
MCAsked == {[kind |-> "use", at |-> 3, sprite |-> "lever", to |-> 3],
            [kind |-> "useEx", at |-> 2, sprite |-> "rope", to |-> 4],
            [kind |-> "move", at |-> 3, sprite |-> "lever", to |-> Bag],
            [kind |-> "push", at |-> 2, sprite |-> "lever", to |-> 1],
            [kind |-> "rotate", at |-> 3, sprite |-> "lever", to |-> 3]}
MCThingsOf == [c \in {Bag} \cup Cell |->
                  CASE c = 3 -> "lever" [] c = 2 -> "rope" [] OTHER -> NoItem]
MCPlaces == {[pos |-> 1, beast |-> 4, portal |-> 0, things |-> MCThingsOf],
             [pos |-> 4, beast |-> 2, portal |-> 0, things |-> MCThingsOf],
             [pos |-> 2, beast |-> 4, portal |-> 3, things |-> MCThingsOf]}

\* Places: purses that are empty, exact, full, and that change must be given for.
MCPurses == {<<>>, <<Coin("gold", 30)>>, <<Coin("platinum", 3), Coin("gold", 100)>>,
             <<Coin("platinum", 100), Coin("gold", 60), Coin("crystal", 1)>>,
             <<Coin("gold", 99), Coin("gold", 100), Coin("platinum", 1)>>}
MCSpot(is, solid, path, moveable, replaceable, letter) ==
    [is |-> is, solid |-> solid, path |-> path, moveable |-> moveable,
     replaceable |-> replaceable, letter |-> letter]
MCSpots == [box |-> MCSpot("nothing", TRUE, TRUE, TRUE, FALSE, FALSE),
            wall |-> MCSpot("SUPPORTS_HANGABLE", TRUE, TRUE, FALSE, FALSE, FALSE),
            fire |-> MCSpot("MAGICFIELD", FALSE, TRUE, FALSE, TRUE, FALSE),
            pyre |-> MCSpot("MAGICFIELD", FALSE, TRUE, FALSE, FALSE, FALSE),
            gate |-> MCSpot("TELEPORT", FALSE, FALSE, FALSE, FALSE, FALSE),
            bin |-> MCSpot("TRASHHOLDER", FALSE, FALSE, FALSE, FALSE, FALSE),
            mail |-> MCSpot("MAILBOX", TRUE, TRUE, FALSE, FALSE, FALSE),
            letter |-> MCSpot("nothing", FALSE, FALSE, TRUE, FALSE, TRUE)]

\* Persistence: things of each kind the item table tells apart, with attributes
\* at and beyond the width they are stored in, in two layouts.
MCThing(stack, fluid, charges, moveable, box, decay) ==
    [stack |-> stack, fluid |-> fluid, charges |-> charges, moveable |-> moveable,
     box |-> box, decay |-> decay]
MCKind == [bag |-> MCThing(FALSE, FALSE, 0, TRUE, TRUE, -1),
           box |-> MCThing(FALSE, FALSE, 0, TRUE, TRUE, -1),
           coin |-> MCThing(TRUE, FALSE, 0, TRUE, FALSE, -1),
           rune |-> MCThing(FALSE, FALSE, 3, TRUE, FALSE, -1),
           vial |-> MCThing(FALSE, TRUE, 0, TRUE, FALSE, 5),
           parcel |-> MCThing(FALSE, FALSE, 0, FALSE, TRUE, -1)]
MCNew == [x \in DOMAIN MCKind |-> NewItem(MCKind[x], 0)]
MCAttrs == {[MCNew EXCEPT !.coin.count = 100, !.rune.charges = 300, !.vial.fluid = 7,
                          !.vial.duration = 2, !.vial.state = "yes", !.bag.action = 9,
                          !.box.hit = -5, !.box.unique = 4],
            [MCNew EXCEPT !.coin.count = 1, !.rune.charges = 0, !.coin.charges = 6,
                          !.bag.range = 300, !.rune.hit = 100]}
MCWorn(first, second) ==
    [n \in 1..10 |-> CASE n = 1 -> first [] n = 2 -> second [] OTHER -> "none"]
MCHeld(bag, box) ==
    [x \in DOMAIN MCKind |-> CASE x = "bag" -> bag [] x = "box" -> box [] OTHER -> <<>>]
MCLayouts == {[worn |-> MCWorn("bag", "rune"), chest |-> <<>>,
               cont |-> MCHeld(<<"coin", "box">>, <<"vial">>)],
              [worn |-> MCWorn("box", "none"), chest |-> <<"coin", "bag">>,
               cont |-> MCHeld(<<"rune", "vial">>, <<>>)]}

\* Equipment: two rings of one kind that turn into another while worn, boots that
\* wear out, a lamp that is lit and burns down; tiles and scripts of each key.
MCNoGain == [skill |-> 0, stat |-> 0, percent |-> 0, invisible |-> FALSE, suppress |-> FALSE]
MCWear(fit, events, on, off, decay, time, stops, needs, used, gain) ==
    [fits |-> fit, events |-> events, equipTo |-> on, deequipTo |-> off, decayTo |-> decay,
     time |-> time, stops |-> stops, needs |-> needs, usedTo |-> used, ab |-> gain]
MCItemKinds == [k \in {"ring", "ring on", "boots", "lamp", "lit lamp", "stub"} |->
  CASE k = "ring" -> MCWear({"ring"}, {<<"equip", "ring">>}, "ring on", "", "never", 0, TRUE, 0, "", MCNoGain)
    [] k = "ring on" -> MCWear({"ring"}, {<<"equip", "ring">>, <<"deequip", "ring">>}, "", "ring",
                               "nothing", 9, FALSE, 0, "",
                               [MCNoGain EXCEPT !.invisible = TRUE, !.skill = 2])
    [] k = "boots" -> MCWear({"feet"}, {<<"equip", "feet">>, <<"deequip", "feet">>}, "", "",
                             "stub", 8, FALSE, 2, "",
                             [MCNoGain EXCEPT !.stat = 1, !.percent = 1, !.suppress = TRUE])
    [] k = "lamp" -> MCWear({}, {}, "", "", "never", 0, FALSE, 0, "lit lamp", MCNoGain)
    [] k = "lit lamp" -> MCWear({}, {}, "", "", "stub", 6, FALSE, 0, "lamp", MCNoGain)
    [] k = "stub" -> MCWear({"feet"}, {}, "", "", "never", 0, FALSE, 0, "", MCNoGain)]
MCGoods == <<"ring", "boots", "lamp", "ring">>
MCPresent == {{1, 2}, {1, 4}, {2, 3}}
MCItem(n, ks) == [name |-> n, keys |-> ks]
MCTiles == {<<MCItem("a", <<"uid1", "id1">>), MCItem("b", <<"aid1", "id1">>), MCItem("c", <<"id2">>)>>,
            <<MCItem("a", <<"id1">>), MCItem("b", <<"id3">>)>>}
MCEvent(k, n) == [keys |-> k, id |-> n]
MCOrders == {<<MCEvent({"id1", "id2"}, 1), MCEvent({"aid1"}, 2), MCEvent({"id1"}, 3), MCEvent({"pos"}, 4)>>,
             <<MCEvent({"uid1"}, 1), MCEvent({"id1"}, 2), MCEvent({"id2"}, 3)>>}

\* Each part starts in any of its initial states; the variables of the others hold
\* nothing, but for server, channels, house, progress, walk, running scripts and the
\* connection to the database, whose properties are checked as they are.
Absent == "absent"

MCInit ==
    /\ part \in {"server", "scripts", "chat", "house", "spells", "progress",
                 "walking", "places", "saving", "worn"}
    /\ IF part = "server" THEN ServerInit
       ELSE srv = SrvGone /\ gate = GateGone
    /\ IF part = "scripts" THEN ScriptInit
       ELSE scr = NoScripts /\ book = Absent /\ glob = Absent
    /\ ChatInit
    /\ IF part = "house" THEN HouseInit
       ELSE HouseInit /\ db.owner = NoOne /\ \A p \in Tenants : db.row[p].at = "out"
    /\ IF part = "spells" THEN SpellInit
       ELSE sNow = Absent /\ ca = Absent /\ sDone = Absent
    /\ IF part = "progress" THEN ProgressInit
       ELSE ProgressInit /\ pr.voc.none
    /\ IF part = "walking" THEN WalkInit
       ELSE WalkInit /\ wk.pos = 1
    /\ IF part = "places" THEN PlacesInit
       ELSE place = Absent
    /\ IF part = "saving" THEN PersistInit
       ELSE sess = NoSess /\ hold = Absent
    /\ IF part = "worn" THEN WornInit
       ELSE worn = Absent /\ walk = Absent

MCNext ==
    \/ /\ part = "server" /\ ServerNext
       /\ UNCHANGED <<part, scriptVars, chatVars, houseVars, sVars,
                       prVars, wkVars, place, persistVars, wornVars>>
    \/ /\ part = "scripts" /\ ScriptNext
       /\ UNCHANGED <<part, serverVars, chatVars, houseVars, sVars,
                       prVars, wkVars, place, persistVars, wornVars>>
    \/ /\ part = "chat" /\ ChatNext
       /\ UNCHANGED <<part, serverVars, scriptVars, houseVars, sVars,
                       prVars, wkVars, place, persistVars, wornVars>>
    \/ /\ part = "house" /\ HouseNext
       /\ UNCHANGED <<part, serverVars, scriptVars, chatVars, sVars,
                       prVars, wkVars, place, persistVars, wornVars>>
    \/ /\ part = "spells" /\ SpellNext
       /\ UNCHANGED <<part, serverVars, scriptVars, chatVars, houseVars,
                       prVars, wkVars, place, persistVars, wornVars>>
    \/ /\ part = "progress" /\ ProgressNext
       /\ UNCHANGED <<part, serverVars, scriptVars, chatVars, houseVars,
                       sVars, wkVars, place, persistVars, wornVars>>
    \/ /\ part = "walking" /\ WalkNext
       /\ UNCHANGED <<part, serverVars, scriptVars, chatVars, houseVars,
                       sVars, prVars, place, persistVars, wornVars>>
    \/ /\ part = "places" /\ PlacesNext
       /\ UNCHANGED <<part, serverVars, scriptVars, chatVars, houseVars,
                       sVars, prVars, wkVars, persistVars, wornVars>>
    \/ /\ part = "saving" /\ PersistNext
       /\ UNCHANGED <<part, serverVars, scriptVars, chatVars, houseVars,
                       sVars, prVars, wkVars, place, wornVars>>
    \/ /\ part = "worn" /\ WornNext
       /\ UNCHANGED <<part, serverVars, scriptVars, chatVars, houseVars,
                       sVars, prVars, wkVars, place, persistVars>>

MCSpec == MCInit /\ [][MCNext]_<<part, serverVars, scriptVars, chatVars, houseVars, sVars,
                               prVars, wkVars, place, persistVars, wornVars>>
-------------------------------------------------------------------------------
(* What holds of each part; the component says why it matters.                *)

\* Mana, soul, charges, reagents and missiles pay for the effects that came about
\* and for nothing else (spells.cpp, weapons.cpp).
SpellsSafe == part = "spells" => PaidForEffects

\* Levels, skills, what is collected towards the next one, percentages and maxima
\* agree through gains, losses, deaths and logins (player.cpp, vocation.cpp).
ProgressSafe == part = "progress" => ProgressAgrees

\* Money is paid exactly, the flags of tiles are those of what lies on them, light
\* follows the hour and texts are held while they are edited (game.cpp, tile.cpp).
PlacesSafe == part = "places" => PlacesAgree

\* What is loaded again is what it was: the books of events and the rounds of
\* global events after a reload of their files (baseevents.cpp, creatureevent.cpp,
\* globalevent.cpp), and the things of a player as they were saved, after a logout or
\* a crash (iologindata.cpp, item.cpp).
RestoredSafe ==
    /\ part = "scripts" => EventsAgree
    /\ part = "saving" => ThingsComeBack

\* What worn items change is what the worn items give, decay comes in its time and
\* steps call the scripts meant for them (movement.cpp, game.cpp, item.cpp).
WornSafe == part = "worn" => EquipmentAgrees
===============================================================================
