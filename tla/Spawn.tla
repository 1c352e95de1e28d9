--------------------------------- MODULE Spawn ---------------------------------
(***************************************************************************)
(* A spawn and the monsters it creates (src/src/spawn.cpp and the calls    *)
(* monster.cpp makes to it).                                               *)
(*                                                                         *)
(* A spawn has blocks, each for one monster.  It keeps the monsters in a   *)
(* multimap from block to monster, under the key 0 once they have strayed  *)
(* from its zone, and looks for empty blocks in an event that is only      *)
(* scheduled while there may be some.  Positions are reduced to whether    *)
(* they are in the zone, times to the checks until a block is due.         *)
(***************************************************************************)
EXTENDS Naturals, FiniteSets

CONSTANTS
    Blocks,    \* keys of spawnMap, not 0
    SpawnMonsters, \* Monster objects
    Interval,  \* checks between a monster's end and the next one
    Rate       \* ConfigManager::RATE_SPAWN

ASSUME SpawnAssumption ==
    /\ Blocks \subseteq Nat \ {0}
    /\ IsFiniteSet(Blocks)
    /\ Interval \in Nat \ {0}
    /\ Rate \in Nat \ {0}

VARIABLES
    place,           \* where each monster is: "zone", "away" or "removed"
    spawnedMap,      \* Spawn::spawnedMap, pairs <<key, monster>>
    wait,            \* checks until the block is due, from lastSpawn
    checkSpawnEvent, \* whether the check is scheduled
    hasSpawn,        \* monsters whose Monster::spawn is set
    refs,            \* references the spawn has to each monster
    convinced        \* ghost: whether a monster of the spawn was convinced

spawnVars == <<place, spawnedMap, wait, checkSpawnEvent, hasSpawn, refs, convinced>>

Key(e) == e[1]
Of(e) == e[2]
Occupied(map) == {Key(e) : e \in map} \ {0}

\* Blocks whose monsters a startup places, each under a name of its own.
SpawnInit ==
    \E first \in [Blocks -> SpawnMonsters] :
        /\ \A a, b \in Blocks : first[a] = first[b] => a = b
        /\ place = [m \in SpawnMonsters |->
               IF \E b \in Blocks : first[b] = m THEN "zone" ELSE "removed"]
        /\ spawnedMap = {<<b, first[b]>> : b \in Blocks}
        /\ wait = [b \in Blocks |-> Interval]
        /\ checkSpawnEvent = FALSE
        /\ hasSpawn = {first[b] : b \in Blocks}
        /\ refs = [m \in SpawnMonsters |-> IF \E b \in Blocks : first[b] = m THEN 1 ELSE 0]
        /\ convinced = FALSE
-------------------------------------------------------------------------------
\* Spawn::cleanup: the entries that remain, strays under the key 0
Kept(map) ==
    {<<IF place[Of(e)] = "away" THEN 0 ELSE Key(e), Of(e)>> :
        e \in {d \in map : place[Of(d)] # "removed"}}

\* Blocks whose monster cleanup finds removed are due an interval later.
Lost(map) == {Key(e) : e \in {d \in map : place[Of(d)] = "removed"}} \ {0}

\* The references cleanup gives back
GivenBack(m) == Cardinality({e \in spawnedMap : Of(e) = m /\ place[m] = "removed"})

\* Mutant of Reschedules: the check runs once.
ReschedulesNever(map) == FALSE

\* checkSpawn looks again while there are fewer monsters than blocks.
Reschedules(map) == Cardinality(map) < Cardinality(Blocks)

\* checkSpawn; a player near a block (in seen) puts it off, blocks of fails have
\* no room for their monster, and at most Rate blocks are filled.
CheckSpawn(seen, fails) ==
    LET waits == [b \in Blocks |-> IF b \in Lost(spawnedMap) THEN Interval
                                   ELSE IF wait[b] > 0 THEN wait[b] - 1 ELSE 0]
        kept == Kept(spawnedMap)
        due == {b \in Blocks \ Occupied(kept) : waits[b] = 0}
    IN  /\ checkSpawnEvent
        /\ seen \subseteq due /\ fails \subseteq due \ seen
        /\ \E tried \in SUBSET (due \ seen) :
             /\ fails \subseteq tried
             /\ Cardinality(tried) <= Rate
             /\ tried # due \ seen => Cardinality(tried) = Rate
             /\ \A a \in tried, b \in (due \ seen) \ tried : a < b
             /\ \E new \in [tried \ fails -> SpawnMonsters] :
                  LET fresh == {new[b] : b \in tried \ fails}
                      map == kept \cup {<<b, new[b]>> : b \in tried \ fails}
                  IN  /\ Cardinality(fresh) = Cardinality(tried \ fails)
                      /\ \A m \in fresh : place[m] = "removed" /\ refs[m] = 0
                      /\ spawnedMap' = map
                      /\ place' = [m \in SpawnMonsters |-> IF m \in fresh THEN "zone" ELSE place[m]]
                      /\ refs' = [m \in SpawnMonsters |->
                             refs[m] - GivenBack(m) + (IF m \in fresh THEN 1 ELSE 0)]
                      /\ hasSpawn' = hasSpawn \cup fresh
                      /\ checkSpawnEvent' = Reschedules(map)
                      /\ wait' = [b \in Blocks |->
                             IF b \in seen \cup (tried \ fails) THEN Interval ELSE waits[b]]
        /\ UNCHANGED convinced

\* Monster::onRemoveCreature: the monster dies or is removed.
Die(m) ==
    /\ place[m] # "removed"
    /\ place' = [place EXCEPT ![m] = "removed"]
    /\ checkSpawnEvent' = (checkSpawnEvent \/ m \in hasSpawn)
    /\ hasSpawn' = hasSpawn \ {m}
    /\ UNCHANGED <<spawnedMap, wait, refs, convinced>>

\* A monster walks out of the zone or back into it.
Stray(m) ==
    /\ place[m] # "removed"
    /\ place' = [place EXCEPT ![m] = IF @ = "zone" THEN "away" ELSE "zone"]
    /\ UNCHANGED <<spawnedMap, wait, checkSpawnEvent, hasSpawn, refs, convinced>>

\* Spawn::removeMonster
Removed(m) == {e \in spawnedMap : Of(e) = m}

\* Monster::convinceCreature: the monster no longer belongs to the spawn.
Convinced(m) ==
    /\ m \in hasSpawn
    /\ place[m] # "removed"
    /\ spawnedMap' = spawnedMap \ Removed(m)
    /\ refs' = [refs EXCEPT ![m] = @ - 1]
    /\ hasSpawn' = hasSpawn \ {m}
    /\ convinced' = TRUE
    /\ UNCHANGED <<place, wait, checkSpawnEvent>>

SpawnNext ==
    \/ \E seen, fails \in SUBSET Blocks : CheckSpawn(seen, fails)
    \/ \E m \in SpawnMonsters : Die(m)
    \/ \E m \in SpawnMonsters : Stray(m)
    \/ \E m \in SpawnMonsters : Convinced(m)

\* A check that fills block b
Fills(b) ==
    /\ b \notin Occupied(Kept(spawnedMap))
    /\ \E seen, fails \in SUBSET Blocks : CheckSpawn(seen, fails)
    /\ b \in Occupied(spawnedMap')

\* The scheduler runs the check; no player stays near a block, and nothing on
\* its place, for ever; and every monster is killed some day.  A stray that is
\* not keeps a block empty: its entry counts as one of the monsters there are.
SpawnFairness ==
    /\ WF_spawnVars(\E seen, fails \in SUBSET Blocks : CheckSpawn(seen, fails))
    /\ \A b \in Blocks : SF_spawnVars(Fills(b))
    /\ \A m \in SpawnMonsters : WF_spawnVars(Die(m))

SpawnSpec == SpawnInit /\ [][SpawnNext]_spawnVars
SpawnFairSpec == SpawnSpec /\ SpawnFairness
-------------------------------------------------------------------------------
SpawnTypeOK ==
    /\ place \in [SpawnMonsters -> {"zone", "away", "removed"}]
    /\ spawnedMap \subseteq (Blocks \cup {0}) \X SpawnMonsters
    /\ wait \in [Blocks -> 0..Interval]
    /\ checkSpawnEvent \in BOOLEAN
    /\ hasSpawn \subseteq SpawnMonsters
    /\ refs \in [SpawnMonsters -> Nat]
    /\ convinced \in BOOLEAN

\* No block has two monsters, no monster two entries, and the spawn holds one
\* reference for each entry: no monster is freed while the map has it.  And a
\* monster that points at its spawn is in the spawn's map, so removing it brings
\* the check to life that finds its block empty.
OneMonsterPerBlock ==
    /\ \A d, e \in spawnedMap :
          d # e => Of(d) # Of(e) /\ (Key(d) = Key(e) => Key(d) = 0)
    /\ \A m \in SpawnMonsters : refs[m] = Cardinality({e \in spawnedMap : Of(e) = m})
    /\ \A m \in hasSpawn : \E e \in spawnedMap : Of(e) = m

\* Every block gets its monster back, unless somebody convinces monsters.
BlocksRefilled ==
    \A b \in Blocks :
        (\E e \in spawnedMap : Key(e) = b /\ place[Of(e)] = "removed")
            ~> \/ \E e \in spawnedMap : Key(e) = b /\ place[Of(e)] = "zone"
               \/ convinced

\* A spawn block never has two monsters and does not stay empty.
BlocksServed == []OneMonsterPerBlock /\ BlocksRefilled
===============================================================================
