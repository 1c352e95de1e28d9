-------------------------------- MODULE MCParty --------------------------------
(* Players join in parties, and monsters hunt them: the parties, one monster's *)
(* way of hunting, and the path search and line of sight it goes by.  The parts *)
(* share no state, so each is explored by itself: part says which.             *)
EXTENDS Party, Paths, Hunting

CONSTANTS p1, p2, p3, party1, party2

VARIABLE part

MCSymmetry == Permutations(Players) \cup Permutations(Parties)

\* Paths: one or three walls anywhere, a hole, a field and a creature in the way,
\* targets near and far, with and without a distance to keep.
MCWalls == UNION {kSubset(k, Cells) : k \in {1, 3}}
MCScene(w, s, t, full, m) ==
    [start |-> s, target |-> t, walls |-> w \ {s, t}, holes |-> {<<2, 0>>} \ {s},
     occupied |-> {<<1, 1>>}, fields |-> {<<2, 1>>}, full |-> full,
     min |-> m[1], max |-> m[2], search |-> m[3], keep |-> m[4]]
MCScenes == {MCScene(w, <<0, 0>>, t, f, m) :
                w \in MCWalls, t \in {<<3, 2>>, <<1, 2>>}, f \in BOOLEAN,
                m \in {<<0, 1, 0, FALSE>>, <<1, 2, 12, FALSE>>, <<1, 3, 12, TRUE>>}}
MCOffsets == (-5 .. 5) \X (-5 .. 5)

\* Hunting: up to three free tiles or all, two prey or none, a blow and a shot.
MCFree == {f \in SUBSET Compass : Cardinality(f) <= 3 \/ f = Compass}
MCPreys == [1..2 -> [far : {1, 4}, hp : {1, 2}, damage : {0, 1, 2}]] \cup {<<>>}
MCBlocks == <<[melee |-> TRUE, speed |-> 4, range |-> 1], [melee |-> FALSE, speed |-> 6, range |-> 3]>>

\* Each part starts in any of its initial states; the variables of the others hold
\* nothing, those of the parties their beginning.
Absent == "absent"

MCInit ==
    /\ part \in {"party", "paths", "hunting"}
    /\ Init
    /\ IF part = "paths" THEN PathInit
       ELSE ps = Absent /\ ray = Absent /\ pc = Absent
    /\ IF part = "hunting" THEN HuntInit
       ELSE hunt = Absent /\ beat = Absent

PartyMoves ==
    /\ part = "party"
    /\ Next
    /\ UNCHANGED <<part, pathVars, huntVars>>

PathsMoves ==
    /\ part = "paths"
    /\ PathNext
    /\ UNCHANGED <<part, vars, huntVars>>

HuntingMoves ==
    /\ part = "hunting"
    /\ HuntNext
    /\ UNCHANGED <<part, vars, pathVars>>

MCNext ==
    \/ PartyMoves
    \/ PathsMoves
    \/ HuntingMoves

MCSpec == MCInit /\ [][MCNext]_<<part, vars, pathVars, huntVars>>
-------------------------------------------------------------------------------
(* What holds of each part; the component says why it matters.                *)

\* The path search, the line of sight and the cache of walkable tiles compute what
\* they are for (map.cpp, creature.cpp); a monster steps, turns, chooses and strikes
\* as its design says (monster.cpp).
WaysSafe ==
    /\ part = "paths" => PathsAgree
    /\ part = "hunting" => HuntAgrees
===============================================================================
