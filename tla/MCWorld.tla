-------------------------------- MODULE MCWorld --------------------------------
(* A spawn of two blocks, a list of raids, and a player with two monsters.    *)
(* They share no state, so each is explored by itself: part says which.       *)
EXTENDS Spawn, Raids, Creatures, TLC

CONSTANTS m1, m2, m3, p1, r1, r2, r3

VARIABLE part

MCLength == r1 :> 1 @@ r2 :> 2 @@ r3 :> 3

MCHomes == (m1 :> 0) @@ (m2 :> None)
MCDoors == (p1 :> {0}) @@ (m1 :> {1, 2}) @@ (m2 :> {1, 3})
MCResidents == {{p1, m1}, {p1, m1, m2}}
\* Every two creatures in both orders
MCOrders == {<<p1, m1, m2>>, <<m2, m1, p1>>}

\* A part that is not explored starts in one state.
Init ==
    /\ part \in {"spawn", "raids", "creatures"}
    /\ SpawnInit
    /\ part # "spawn" => spawnedMap = {<<1, m1>>, <<2, m2>>}
    /\ RaidsInit
    /\ IF part = "creatures" THEN CreaturesInit
       ELSE game = Created /\ deeds = 0 /\ lulled = {}

Next ==
    \/ part = "spawn" /\ SpawnNext /\ UNCHANGED <<part, raidsVars, creaturesVars>>
    \/ part = "raids" /\ RaidsNext /\ UNCHANGED <<part, spawnVars, creaturesVars>>
    \/ part = "creatures" /\ CreaturesNext /\ UNCHANGED <<part, spawnVars, raidsVars>>

\* Only the spawn has something that must happen.
Fairness == part = "spawn" => SpawnFairness

Spec == Init /\ [][Next]_<<part, spawnVars, raidsVars, creaturesVars>> /\ Fairness
===============================================================================
