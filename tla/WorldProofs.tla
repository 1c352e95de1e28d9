------------------------------ MODULE WorldProofs ------------------------------
(***************************************************************************)
(* Proofs about what goes on beside the players.                           *)
(*                                                                         *)
(* A spawn block never has two monsters and the spawn's references are     *)
(* those of its map, for any number of blocks and monsters; raids run one  *)
(* at a time, for any number of raids.  Items made by scripts are released *)
(* once and timers run once, for any items, timers and environments; a     *)
(* save is in the database whole or not at all, for any number of failed   *)
(* statements and lost connections.                                        *)
(***************************************************************************)
EXTENDS Spawn, Raids, Scripts, Persistence, FiniteSetTheorems, SequenceTheorems, TLAPS

\* r is a record, or a function, of the fields F.
HasFields(r, F) == DOMAIN r = F /\ r = [f \in F |-> r[f]]


-------------------------------------------------------------------------------
(* Raids                                                                     *)

\* The inductive invariant of Raids
RaidsInv == RaidsTypeOK /\ IsFiniteSet(scheduled) /\ FewChains /\ Stoppable
-------------------------------------------------------------------------------
(* Spawn                                                                     *)

HasEntry(m) == \E e \in spawnedMap : Of(e) = m

\* A monster has one entry, and only the key 0 is used twice.
MapAgrees ==
    \A d, e \in spawnedMap : d # e => Of(d) # Of(e) /\ (Key(d) = Key(e) => Key(d) = 0)

\* The spawn holds one reference to each monster of its map.
RefsOfMap == \A m \in SpawnMonsters : refs[m] = IF HasEntry(m) THEN 1 ELSE 0

\* A monster that points at its spawn lives and is in the map.
PointsBack == \A m \in hasSpawn : HasEntry(m) /\ place[m] # "removed"

SpawnTypes ==
    /\ place \in [SpawnMonsters -> {"zone", "away", "removed"}]
    /\ spawnedMap \subseteq (Blocks \cup {0}) \X SpawnMonsters
    /\ hasSpawn \subseteq SpawnMonsters
    /\ refs \in [SpawnMonsters -> Nat]

\* The inductive invariant of Spawn
SpawnInv == SpawnTypes /\ MapAgrees /\ RefsOfMap /\ PointsBack
-------------------------------------------------------------------------------
USE RaidsAssumption DEF NoRaid

\* There is always an id that no event of a raid has.
LEMMA IdIsFresh ==
    ASSUME NEW r, IsFiniteSet(scheduled)
    PROVE  FreshId(r) \in Nat \ {0}
<1> DEFINE n == Cardinality(scheduled)
           f == [k \in 1..n + 1 |-> <<r, k>>]
<1>1. n \in Nat
  BY FS_CardinalityType
<1>2. IsFiniteSet(1..n + 1) /\ Cardinality(1..n + 1) = n + 1
  BY <1>1, FS_Interval
<1>3. \E k \in 1..n + 1 : <<r, k>> \notin scheduled
  <2> SUFFICES ASSUME \A k \in 1..n + 1 : <<r, k>> \in scheduled PROVE FALSE
    OBVIOUS
  <2>1. f \in Injection(1..n + 1, scheduled)
    <3>1. f \in [1..n + 1 -> scheduled]
      OBVIOUS
    <3>2. DOMAIN f = 1..n + 1 /\ \A a, b \in 1..n + 1 : f[a] = f[b] => a = b
      OBVIOUS
    <3> HIDE DEF f, n
    <3>3. IsInjective(f)
      BY <3>2 DEF IsInjective
    <3> QED BY <3>1, <3>3 DEF Injection
  <2>2. Cardinality(1..n + 1) <= Cardinality(scheduled)
    <3> HIDE DEF f, n
    <3> QED BY <2>1, FS_Injection
  <2> QED BY <1>1, <1>2, <2>2
<1>4. FreshId(r) \in 1..n + 1
  BY <1>3 DEF FreshId
<1> QED BY <1>1, <1>4

\* The inductive invariant of the raids: the events to come are counted by the
\* reloads that left a raid running and by the raid that runs (raids.cpp).
THEOREM RaidsInvariant == RaidsSpec => []RaidsInv
<1>1. RaidsInit => RaidsInv
  <2> SUFFICES ASSUME RaidsInit PROVE RaidsInv
    OBVIOUS
  <2>1. RaidsTypeOK
    <3>1. raidList \subseteq Raid
      BY DEF RaidsInit, Loaded, Raid
    <3>2. nextEvent \in [Raid -> Nat] /\ noted \in [Raid -> Nat]
      BY DEF RaidsInit
    <3>3. running = NoRaid /\ scheduled = {} /\ marginOver = FALSE /\ reloads = 0 /\ forced = {} /\ left = 0
      BY DEF RaidsInit
    <3>4. 0 \in 0..Reloads
      OBVIOUS
    <3> QED BY <3>1, <3>2, <3>3, <3>4 DEF RaidsTypeOK
  <2>2. IsFiniteSet(scheduled) /\ Cardinality(scheduled) = 0
    BY FS_EmptySet DEF RaidsInit
  <2>3. FewChains /\ Stoppable
    BY <2>2 DEF RaidsInit, FewChains, Stoppable
  <2> QED BY <2>1, <2>2, <2>3 DEF RaidsInv
<1>2. RaidsInv /\ [RaidsNext]_raidsVars => RaidsInv'
  <2> SUFFICES ASSUME RaidsInv, [RaidsNext]_raidsVars PROVE RaidsInv'
    OBVIOUS
  <2> USE DEF RaidsInv, RaidsTypeOK
  <2>0. Cardinality(scheduled) \in Nat /\ (Cardinality(scheduled) = 0 => scheduled = {})
    BY FS_CardinalityType, FS_EmptySet
  <2>a. running = NoRaid => Cardinality(scheduled) <= left /\ ~Executing
    <3>1. running = NoRaid => ~Executing
      BY DEF Executing
    <3> QED BY <3>1, <2>0 DEF FewChains
  <2>b. ASSUME NEW r \in Raid, running = NoRaid, running' = r, left' = left,
               \/ scheduled' = scheduled
               \/ scheduled' = scheduled \cup {<<r, FreshId(r)>>}
        PROVE  scheduled' \subseteq Raid \X (Nat \ {0}) /\ IsFiniteSet(scheduled') /\ FewChains'
    <3>1. CASE scheduled' = scheduled
      <4>1. Cardinality(scheduled) <= left
        BY <2>a, <2>b
      <4> HIDE DEF RaidsInv, RaidsTypeOK
      <4>2. left \in Nat /\ left' = left
        BY <2>b DEF RaidsInv, RaidsTypeOK
      <4>3. FewChains'
        BY <3>1, <2>0, <4>1, <4>2 DEF FewChains
      <4> QED BY <3>1, <4>3 DEF RaidsInv, RaidsTypeOK
    <3>2. CASE scheduled' = scheduled \cup {<<r, FreshId(r)>>}
      <4>1. FreshId(r) \in Nat \ {0}
        BY IdIsFresh
      <4>2. IsFiniteSet(scheduled') /\ Cardinality(scheduled') <= Cardinality(scheduled) + 1
            /\ Cardinality(scheduled') \in Nat
        <5> DEFINE e == <<r, FreshId(r)>>
        <5> HIDE DEF e
        <5>1. scheduled' = scheduled \cup {e}
          BY <3>2 DEF e
        <5>2. IsFiniteSet(scheduled \cup {e})
              /\ Cardinality(scheduled \cup {e}) = IF e \in scheduled THEN Cardinality(scheduled) ELSE Cardinality(scheduled) + 1
          BY FS_AddElement
        <5> QED BY <5>1, <5>2, <2>0
      <4>3. Executing'
        <5>1. <<r, FreshId(r)>> \in scheduled' /\ <<r, FreshId(r)>>[1] = r
          BY <3>2
        <5> QED BY <5>1, <2>b DEF Executing
      <4>4. FewChains'
        BY <4>2, <4>3, <2>0, <2>a, <2>b DEF FewChains
      <4> QED BY <4>1, <4>2, <4>4, <3>2
    <3> QED BY <2>b, <3>1, <3>2
  <2>1. ASSUME NEW r \in Raid, CheckRaids(r) PROVE RaidsInv'
    <3>1. scheduled' \subseteq Raid \X (Nat \ {0}) /\ IsFiniteSet(scheduled') /\ FewChains'
      BY <2>1, <2>b DEF CheckRaids, StartRaid
    <3>2. FreshId(r) \in Nat
      BY IdIsFresh
    <3>3. noted' \in [Raid -> Nat]
      BY <2>1, <3>2 DEF CheckRaids, StartRaid, Noted
    <3>4. raidList' \subseteq Raid /\ running' = r /\ UNCHANGED <<nextEvent, marginOver, reloads, forced, left>>
      BY <2>1 DEF CheckRaids
    <3>5. Stoppable'
      <4> SUFFICES ASSUME left = 0, NEW e \in scheduled' PROVE noted'[e[1]] = e[2]
        BY <3>4 DEF Stoppable
      <4>1. scheduled = {}
        BY <2>0, <2>a, <2>1 DEF CheckRaids
      <4>2. e = <<r, FreshId(r)>> /\ noted' = [noted EXCEPT ![r] = FreshId(r)]
        BY <4>1, <2>1 DEF CheckRaids, StartRaid, Noted
      <4> QED BY <4>2
    <3> QED BY <3>1, <3>3, <3>4, <3>5
  <2>2. ASSUME NEW r \in Raid, ForceRaid(r) PROVE RaidsInv'
    <3>1. scheduled' \subseteq Raid \X (Nat \ {0}) /\ IsFiniteSet(scheduled') /\ FewChains'
      BY <2>2, <2>b DEF ForceRaid, Idle
    <3>2. running' = r /\ forced' \subseteq Raid
          /\ UNCHANGED <<raidList, nextEvent, noted, marginOver, reloads, left>>
      BY <2>2 DEF ForceRaid
    <3>3. Stoppable'
      <4> SUFFICES ASSUME left = 0, NEW e \in scheduled' PROVE e[1] \in forced'
        BY <3>2 DEF Stoppable
      <4>1. scheduled = {}
        BY <2>0, <2>a, <2>2 DEF ForceRaid, Idle
      <4>2. e = <<r, FreshId(r)>> /\ forced' = forced \cup {r}
        BY <4>1, <2>2 DEF ForceRaid
      <4> QED BY <4>2
    <3> QED BY <3>1, <3>2, <3>3
  <2>3. ASSUME NEW e \in scheduled, ExecuteRaidEvent(e[1], e[2]) PROVE RaidsInv'
    <3> DEFINE r == e[1]
               k == e[2]
    <3>1. r \in Raid /\ k \in Nat \ {0} /\ e = <<r, k>>
      OBVIOUS
    <3>2. UNCHANGED <<raidList, reloads, left>> /\ forced' = forced \ {r}
      BY <2>3 DEF ExecuteRaidEvent
    <3>3. CASE /\ nextEvent' = [nextEvent EXCEPT ![r] = @ + 1]
               /\ Noted(r, k)
               /\ UNCHANGED <<scheduled, running, marginOver>>
      <4>1. nextEvent' \in [Raid -> Nat] /\ noted' \in [Raid -> Nat]
        BY <3>1, <3>3 DEF Noted
      <4>2. FewChains'
        BY <3>2, <3>3 DEF FewChains, Executing
      <4>3. Stoppable'
        <5> SUFFICES ASSUME left = 0, NEW d \in scheduled, d[1] \in raidList \ forced'
                     PROVE  noted'[d[1]] = d[2]
          BY <3>2, <3>3 DEF Stoppable
        <5>1. Cardinality(scheduled) <= 1
          BY <2>0 DEF FewChains
        <5>2. scheduled \ {e} = {}
          <6>1. IsFiniteSet(scheduled \ {e}) /\ Cardinality(scheduled \ {e}) = Cardinality(scheduled) - 1
            BY FS_RemoveElement
          <6>2. Cardinality(scheduled \ {e}) = 0
            BY <6>1, <5>1, <2>0, FS_CardinalityType
          <6> QED BY <6>1, <6>2, FS_EmptySet
        <5>3. d = e
          BY <5>2
        <5> QED BY <5>3, <3>1, <3>3 DEF Noted
      <4> QED BY <3>2, <3>3, <4>1, <4>2, <4>3
    <3>4. CASE /\ scheduled' = scheduled \ {<<r, k>>}
               /\ noted' = [noted EXCEPT ![r] = IF @ = k THEN 0 ELSE @]
               /\ nextEvent' = [nextEvent EXCEPT ![r] = 0]
               /\ ResetRaid
      <4>1. nextEvent' \in [Raid -> Nat] /\ noted' \in [Raid -> Nat]
        BY <3>1, <3>4
      <4>2. IsFiniteSet(scheduled') /\ Cardinality(scheduled') = Cardinality(scheduled) - 1
            /\ Cardinality(scheduled') \in Nat
        <5>1. scheduled' = scheduled \ {e}
          BY <3>1, <3>4
        <5>2. IsFiniteSet(scheduled \ {e}) /\ Cardinality(scheduled \ {e}) = Cardinality(scheduled) - 1
          BY FS_RemoveElement
        <5>3. Cardinality(scheduled \ {e}) \in Nat
          BY <5>2, FS_CardinalityType
        <5> QED BY <5>1, <5>2, <5>3
      <4>3. Cardinality(scheduled') <= left
        BY <4>2, <2>0 DEF FewChains
      <4>4. FewChains'
        BY <4>2, <4>3, <3>2 DEF FewChains
      <4>5. Stoppable'
        BY <4>2, <4>3, <3>2, FS_EmptySet DEF Stoppable
      <4>6. running' = NoRaid /\ marginOver' = FALSE
        BY <3>4 DEF ResetRaid
      <4> QED BY <3>2, <3>4, <4>1, <4>2, <4>4, <4>5, <4>6
    <3> QED BY <2>3, <3>3, <3>4 DEF ExecuteRaidEvent
  <2>4. CASE Reload
    <3>1. noted' \in [Raid -> Nat] /\ UNCHANGED <<nextEvent, forced>> /\ marginOver' = FALSE
      BY <2>4 DEF Reload
    <3>2. running' = NoRaid /\ reloads' \in 0..Reloads /\ raidList' \subseteq Raid
      <4>1. reloads' \in 0..Reloads /\ running' = NoRaid /\ raidList' = Loaded(reloads + 1)
            /\ reloads' = reloads + 1
        BY <2>4 DEF Reload
      <4> QED BY <4>1 DEF Loaded, Raid
    <3>3. left' \in Nat /\ left' >= left
      BY <2>4 DEF Reload
    <3>4. scheduled' = scheduled \ Stopped /\ scheduled' \in SUBSET scheduled
      BY <2>4 DEF Reload
    <3>5. IsFiniteSet(scheduled') /\ Cardinality(scheduled') <= Cardinality(scheduled)
          /\ Cardinality(scheduled') \in Nat
      BY <3>4, FS_Subset, FS_CardinalityType
    <3>6. Cardinality(scheduled') <= left'
      <4>1. CASE ~Executing
        BY <4>1, <3>3, <3>5, <2>0 DEF FewChains
      <4>2. CASE Executing /\ \E e \in scheduled : e[1] = running /\ OutOfReach(e)
        <5>1. left' = left + 1
          BY <4>2, <2>4 DEF Reload
        <5> QED BY <4>2, <5>1, <3>5, <2>0 DEF FewChains
      <4>3. CASE Executing /\ ~\E e \in scheduled : e[1] = running /\ OutOfReach(e)
        <5>1. PICK e \in scheduled : e[1] = running /\ ~OutOfReach(e)
          BY <4>3 DEF Executing
        <5>2. e \in Stopped
          <6>1. e = <<e[1], e[2]>> /\ e[1] \in raidList /\ noted[e[1]] = e[2]
            BY <5>1 DEF OutOfReach
          <6> QED BY <6>1 DEF Stopped
        <5>3. scheduled' \in SUBSET (scheduled \ {e})
          BY <5>2, <3>4
        <5>4. IsFiniteSet(scheduled \ {e}) /\ Cardinality(scheduled \ {e}) = Cardinality(scheduled) - 1
          BY <5>1, FS_RemoveElement
        <5>5. Cardinality(scheduled') <= Cardinality(scheduled) - 1
          BY <5>3, <5>4, FS_Subset
        <5> QED BY <5>5, <3>3, <3>5, <2>0 DEF FewChains
      <4> QED BY <4>1, <4>2, <4>3
    <3>7. FewChains'
      BY <3>3, <3>5, <3>6 DEF FewChains
    <3>8. Stoppable'
      BY <3>5, <3>6, FS_EmptySet DEF Stoppable
    <3> QED BY <3>1, <3>2, <3>3, <3>4, <3>5, <3>7, <3>8
  <2>5. CASE Wait
    BY <2>5 DEF Wait, FewChains, Executing, Stoppable
  <2>6. CASE UNCHANGED raidsVars
    BY <2>6 DEF raidsVars, FewChains, Executing, Stoppable
  <2> QED BY <2>1, <2>2, <2>3, <2>4, <2>5, <2>6 DEF RaidsNext
<1> QED BY <1>1, <1>2, PTL DEF RaidsSpec

\* One chain of raid events goes on at a time, and one more at most for each reload
\* that could not stop the raid it came upon; until then a reload stops all it
\* deletes but what the command added (checkRaids, forceRaid, Raids::clear).
THEOREM RaidsOneAtATime == RaidsSpec => []OneAtATime
<1>1. RaidsInv => OneAtATime
  BY DEF RaidsInv, OneAtATime
<1> QED BY RaidsInvariant, <1>1, PTL
-------------------------------------------------------------------------------
USE SpawnAssumption

\* How many entries a monster has in a map where it has at most one
LEMMA EntriesOf ==
    ASSUME NEW m, \A d, e \in spawnedMap : Of(d) = m /\ Of(e) = m => d = e
    PROVE  Cardinality({e \in spawnedMap : Of(e) = m}) = IF HasEntry(m) THEN 1 ELSE 0
<1>1. CASE HasEntry(m)
  <2>1. PICK e \in spawnedMap : Of(e) = m
    BY <1>1 DEF HasEntry
  <2>2. {x \in spawnedMap : Of(x) = m} = {e}
    BY <2>1
  <2> QED BY <1>1, <2>2, FS_Singleton
<1>2. CASE ~HasEntry(m)
  <2>1. {x \in spawnedMap : Of(x) = m} = {}
    BY <1>2 DEF HasEntry
  <2> QED BY <1>2, <2>1, FS_EmptySet
<1> QED BY <1>1, <1>2

\* cleanup gives back the reference of a monster that is gone.
LEMMA GivenBackOf ==
    ASSUME MapAgrees, NEW m \in SpawnMonsters
    PROVE  GivenBack(m) = IF HasEntry(m) /\ place[m] = "removed" THEN 1 ELSE 0
<1>1. CASE place[m] = "removed"
  <2>1. {e \in spawnedMap : Of(e) = m /\ place[m] = "removed"} = {e \in spawnedMap : Of(e) = m}
    BY <1>1
  <2>2. Cardinality({e \in spawnedMap : Of(e) = m}) = IF HasEntry(m) THEN 1 ELSE 0
    BY EntriesOf DEF MapAgrees
  <2> QED BY <1>1, <2>1, <2>2 DEF GivenBack
<1>2. CASE place[m] # "removed"
  <2>1. {e \in spawnedMap : Of(e) = m /\ place[m] = "removed"} = {}
    BY <1>2
  <2> QED BY <1>2, <2>1, FS_EmptySet DEF GivenBack
<1> QED BY <1>1, <1>2

\* As many monsters as blocks: each block has a monster of its own.
LEMMA FreshApart ==
    ASSUME NEW B, IsFiniteSet(B), NEW M, NEW new \in [B -> M],
           Cardinality({new[b] : b \in B}) = Cardinality(B)
    PROVE  \A a, b \in B : new[a] = new[b] => a = b
<1> DEFINE T == {new[b] : b \in B}
<1>1. new \in [B -> T]
  OBVIOUS
<1>2. new \in Surjection(B, T)
  BY <1>1 DEF Surjection
<1>3. new \in Injection(B, T)
  BY <1>2, FS_SurjSameCardinalityImpliesInj
<1> QED BY <1>3 DEF Injection, IsInjective

LEMMA SpawnInitInv == SpawnInit => SpawnInv
<1> SUFFICES ASSUME SpawnInit PROVE SpawnInv
  OBVIOUS
<1>1. PICK first \in [Blocks -> SpawnMonsters] :
        /\ \A a, b \in Blocks : first[a] = first[b] => a = b
        /\ place = [m \in SpawnMonsters |->
               IF \E b \in Blocks : first[b] = m THEN "zone" ELSE "removed"]
        /\ spawnedMap = {<<b, first[b]>> : b \in Blocks}
        /\ hasSpawn = {first[b] : b \in Blocks}
        /\ refs = [m \in SpawnMonsters |-> IF \E b \in Blocks : first[b] = m THEN 1 ELSE 0]
  BY DEF SpawnInit
<1>2. SpawnTypes
  BY <1>1 DEF SpawnTypes
<1>3. MapAgrees
  <2> SUFFICES ASSUME NEW d \in spawnedMap, NEW e \in spawnedMap, d # e
               PROVE  Of(d) # Of(e) /\ (Key(d) = Key(e) => Key(d) = 0)
    BY DEF MapAgrees
  <2>1. PICK a \in Blocks : d = <<a, first[a]>>
    BY <1>1
  <2>2. PICK b \in Blocks : e = <<b, first[b]>>
    BY <1>1
  <2>3. a # b /\ first[a] # first[b]
    BY <1>1, <2>1, <2>2
  <2>4. Of(d) = first[a] /\ Key(d) = a /\ Of(e) = first[b] /\ Key(e) = b
    BY <2>1, <2>2 DEF Of, Key
  <2> QED BY <2>3, <2>4
<1>4. ASSUME NEW m PROVE HasEntry(m) <=> \E b \in Blocks : first[b] = m
  <2>1. ASSUME NEW b \in Blocks, first[b] = m PROVE HasEntry(m)
    <3>1. <<b, m>> \in spawnedMap
      BY <1>1, <2>1
    <3> QED BY <3>1 DEF HasEntry, Of
  <2>2. ASSUME HasEntry(m) PROVE \E b \in Blocks : first[b] = m
    BY <1>1, <2>2 DEF HasEntry, Of
  <2> QED BY <2>1, <2>2
<1>5. RefsOfMap
  BY <1>1, <1>4 DEF RefsOfMap
<1>6. PointsBack
  BY <1>1, <1>4 DEF PointsBack
<1> QED BY <1>2, <1>3, <1>5, <1>6 DEF SpawnInv

LEMMA DieInv ==
    ASSUME SpawnInv, NEW m \in SpawnMonsters, Die(m)
    PROVE  SpawnInv'
BY DEF SpawnInv, SpawnTypes, MapAgrees, RefsOfMap, PointsBack, HasEntry, Die

LEMMA StrayInv ==
    ASSUME SpawnInv, NEW m \in SpawnMonsters, Stray(m)
    PROVE  SpawnInv'
BY DEF SpawnInv, SpawnTypes, MapAgrees, RefsOfMap, PointsBack, HasEntry, Stray

\* A convinced monster takes its entry and its reference with it.
LEMMA ConvincedInv ==
    ASSUME SpawnInv, NEW m \in SpawnMonsters, Convinced(m)
    PROVE  SpawnInv'
<1>1. SpawnTypes /\ MapAgrees /\ RefsOfMap /\ PointsBack
  BY DEF SpawnInv
<1>2. /\ spawnedMap' = spawnedMap \ Removed(m) /\ refs' = [refs EXCEPT ![m] = @ - 1]
      /\ hasSpawn' = hasSpawn \ {m} /\ m \in hasSpawn /\ place' = place
  BY DEF Convinced
<1>3. refs[m] = 1
  BY <1>1, <1>2 DEF RefsOfMap, PointsBack
<1>4. \A x : HasEntry(x)' <=> HasEntry(x) /\ x # m
  BY <1>2 DEF HasEntry, Removed
<1>5. refs' = [refs EXCEPT ![m] = 0]
  BY <1>1, <1>2, <1>3 DEF SpawnTypes
<1>6. SpawnTypes'
  BY <1>1, <1>2, <1>5 DEF SpawnTypes
<1>7. MapAgrees'
  BY <1>1, <1>2 DEF MapAgrees
<1>8. RefsOfMap'
  BY <1>1, <1>4, <1>5 DEF RefsOfMap, SpawnTypes
<1>9. PointsBack'
  BY <1>1, <1>2, <1>4 DEF PointsBack
<1> QED BY <1>6, <1>7, <1>8, <1>9 DEF SpawnInv

\* What cleanup keeps: the entries of the monsters that are not removed, each
\* under its key or under 0.
LEMMA KeptEntries ==
    ASSUME SpawnInv, NEW kept, kept = Kept(spawnedMap)
    PROVE  /\ kept \subseteq (Blocks \cup {0}) \X SpawnMonsters
           /\ \A k \in kept : \E e \in spawnedMap :
                 Of(k) = Of(e) /\ (Key(k) = Key(e) \/ Key(k) = 0) /\ place[Of(e)] # "removed"
           /\ \A e \in spawnedMap : place[Of(e)] # "removed" => \E k \in kept : Of(k) = Of(e)
           /\ \A d, e \in kept : d # e => Of(d) # Of(e) /\ (Key(d) = Key(e) => Key(d) = 0)
<1> DEFINE live == {d \in spawnedMap : place[Of(d)] # "removed"}
           new(e) == IF place[Of(e)] = "away" THEN 0 ELSE Key(e)
<1>1. kept = {<<new(e), Of(e)>> : e \in live}
  BY DEF Kept
<1>2. \A e \in spawnedMap : e = <<Key(e), Of(e)>> /\ Key(e) \in Blocks \cup {0}
                            /\ Of(e) \in SpawnMonsters
  BY DEF SpawnInv, SpawnTypes, Key, Of
<1>3. \A e \in live : new(e) \in Blocks \cup {0} /\ (new(e) = Key(e) \/ new(e) = 0)
  BY <1>2
<1> HIDE DEF new
<1>4. \A k \in kept : \E e \in live : k = <<new(e), Of(e)>>
  BY <1>1
<1>5. \A e \in live : <<new(e), Of(e)>> \in kept
  BY <1>1
<1>6. ASSUME NEW x, NEW y PROVE Key(<<x, y>>) = x /\ Of(<<x, y>>) = y
  BY DEF Key, Of
<1>7. kept \subseteq (Blocks \cup {0}) \X SpawnMonsters
  BY <1>2, <1>3, <1>4
<1>8. \A k \in kept : \E e \in spawnedMap :
          Of(k) = Of(e) /\ (Key(k) = Key(e) \/ Key(k) = 0) /\ place[Of(e)] # "removed"
  BY <1>3, <1>4, <1>6
<1>9. \A e \in spawnedMap : place[Of(e)] # "removed" => \E k \in kept : Of(k) = Of(e)
  BY <1>5, <1>6
<1>10. ASSUME NEW d \in kept, NEW e \in kept, d # e
       PROVE  Of(d) # Of(e) /\ (Key(d) = Key(e) => Key(d) = 0)
  <2>1. PICK x \in live : d = <<new(x), Of(x)>>
    BY <1>4
  <2>2. PICK y \in live : e = <<new(y), Of(y)>>
    BY <1>4
  <2>3. x # y
    BY <1>10, <2>1, <2>2
  <2>4. Of(x) # Of(y) /\ (Key(x) = Key(y) => Key(x) = 0)
    BY <2>3 DEF SpawnInv, MapAgrees
  <2> QED BY <1>3, <1>6, <2>1, <2>2, <2>4
<1> QED BY <1>7, <1>8, <1>9, <1>10

\* checkSpawn fills blocks that are empty with monsters that have no entry.
LEMMA CheckSpawnInv ==
    ASSUME SpawnInv, NEW seen \in SUBSET Blocks, NEW fails \in SUBSET Blocks,
           CheckSpawn(seen, fails)
    PROVE  SpawnInv'
<1> DEFINE kept == Kept(spawnedMap)
<1>0. SpawnTypes /\ MapAgrees /\ RefsOfMap /\ PointsBack
  BY DEF SpawnInv
<1> DEFINE Filled(B, new) ==
             LET fresh == {new[b] : b \in B}
                 map == kept \cup {<<b, new[b]>> : b \in B}
             IN  /\ Cardinality(fresh) = Cardinality(B)
                 /\ \A m \in fresh : place[m] = "removed" /\ refs[m] = 0
                 /\ spawnedMap' = map
                 /\ place' = [m \in SpawnMonsters |-> IF m \in fresh THEN "zone" ELSE place[m]]
                 /\ refs' = [m \in SpawnMonsters |->
                        refs[m] - GivenBack(m) + (IF m \in fresh THEN 1 ELSE 0)]
                 /\ hasSpawn' = hasSpawn \cup fresh
<1>a. PICK filled \in SUBSET Blocks :
        /\ \A b \in filled : b \notin Occupied(kept)
        /\ \E new \in [filled -> SpawnMonsters] : Filled(filled, new)
  <2> DEFINE waits == [b \in Blocks |-> IF b \in Lost(spawnedMap) THEN Interval
                                        ELSE IF wait[b] > 0 THEN wait[b] - 1 ELSE 0]
             due == {b \in Blocks \ Occupied(kept) : waits[b] = 0}
  <2>1. PICK tried \in SUBSET (due \ seen) :
          \E new \in [tried \ fails -> SpawnMonsters] :
             LET fresh == {new[b] : b \in tried \ fails}
                 map == kept \cup {<<b, new[b]>> : b \in tried \ fails}
             IN  /\ Cardinality(fresh) = Cardinality(tried \ fails)
                 /\ \A m \in fresh : place[m] = "removed" /\ refs[m] = 0
                 /\ spawnedMap' = map
                 /\ place' = [m \in SpawnMonsters |-> IF m \in fresh THEN "zone" ELSE place[m]]
                 /\ refs' = [m \in SpawnMonsters |->
                        refs[m] - GivenBack(m) + (IF m \in fresh THEN 1 ELSE 0)]
                 /\ hasSpawn' = hasSpawn \cup fresh
                 /\ checkSpawnEvent' = Reschedules(map)
                 /\ wait' = [b \in Blocks |->
                        IF b \in seen \cup (tried \ fails) THEN Interval ELSE waits[b]]
    BY Zenon DEF CheckSpawn
  <2>2. tried \ fails \in SUBSET Blocks /\ \A b \in tried \ fails : b \notin Occupied(kept)
    OBVIOUS
  <2>3. \E new \in [tried \ fails -> SpawnMonsters] : Filled(tried \ fails, new)
    BY <2>1, Zenon
  <2> HIDE DEF kept, due, Filled
  <2> QED BY <2>2, <2>3
<1>b. PICK new \in [filled -> SpawnMonsters] : Filled(filled, new)
  BY <1>a
<1> DEFINE fresh == {new[b] : b \in filled}
           added == {<<b, new[b]>> : b \in filled}
<1>2. /\ spawnedMap' = kept \cup added
      /\ place' = [m \in SpawnMonsters |-> IF m \in fresh THEN "zone" ELSE place[m]]
      /\ refs' = [m \in SpawnMonsters |->
             refs[m] - GivenBack(m) + (IF m \in fresh THEN 1 ELSE 0)]
      /\ hasSpawn' = hasSpawn \cup fresh
      /\ Cardinality(fresh) = Cardinality(filled)
      /\ \A m \in fresh : place[m] = "removed" /\ refs[m] = 0
  BY <1>b
<1> HIDE DEF Filled
<1>3. \A a, b \in filled : new[a] = new[b] => a = b
  <2>1. IsFiniteSet(filled)
    BY FS_Subset
  <2> QED BY <1>2, <2>1, FreshApart
<1>4. fresh \subseteq SpawnMonsters
      /\ \A m \in fresh : place[m] = "removed" /\ ~HasEntry(m)
  BY <1>0, <1>2 DEF RefsOfMap
<1>5. /\ kept \subseteq (Blocks \cup {0}) \X SpawnMonsters
      /\ \A k \in kept : \E e \in spawnedMap :
            Of(k) = Of(e) /\ place[Of(e)] # "removed"
      /\ \A e \in spawnedMap : place[Of(e)] # "removed" => \E k \in kept : Of(k) = Of(e)
      /\ \A d, e \in kept : d # e => Of(d) # Of(e) /\ (Key(d) = Key(e) => Key(d) = 0)
  BY KeptEntries
<1>6. \A d \in added : Of(d) \in fresh /\ Key(d) \in filled /\ Of(d) = new[Key(d)]
  <2> SUFFICES ASSUME NEW b \in filled, NEW d, d = <<b, new[b]>>
               PROVE  Of(d) \in fresh /\ Key(d) \in filled /\ Of(d) = new[Key(d)]
    OBVIOUS
  <2>1. Of(d) = new[b] /\ Key(d) = b
    BY DEF Of, Key
  <2> QED BY <2>1
<1>7. \A m \in fresh : \E d \in added : Of(d) = m
  <2> SUFFICES ASSUME NEW b \in filled PROVE \E d \in added : Of(d) = new[b]
    OBVIOUS
  <2>1. <<b, new[b]>> \in added /\ Of(<<b, new[b]>>) = new[b]
    BY DEF Of
  <2> QED BY <2>1
<1>8. \A d \in kept : Of(d) \notin fresh /\ Key(d) \notin filled
  <2> SUFFICES ASSUME NEW d \in kept PROVE Of(d) \notin fresh /\ Key(d) \notin filled
    OBVIOUS
  <2>1. Of(d) \notin fresh
    BY <1>4, <1>5
  <2>2. Key(d) \in Occupied(kept) \/ Key(d) = 0
    BY DEF Occupied
  <2>3. \A b \in filled : b # 0
    OBVIOUS
  <2> QED BY <1>a, <2>1, <2>2, <2>3
<1> HIDE DEF kept
<1>9. \A m \in SpawnMonsters :
          HasEntry(m)' <=> m \in fresh \/ (HasEntry(m) /\ place[m] # "removed")
  <2> SUFFICES ASSUME NEW m \in SpawnMonsters
               PROVE  HasEntry(m)' <=> m \in fresh \/ (HasEntry(m) /\ place[m] # "removed")
    OBVIOUS
  <2>1. HasEntry(m)' <=> \E e \in kept \cup added : Of(e) = m
    BY <1>2 DEF HasEntry
  <2>2. (\E e \in added : Of(e) = m) <=> m \in fresh
    <3> HIDE DEF fresh, added
    <3> QED BY <1>6, <1>7
  <2>3. (\E e \in kept : Of(e) = m) <=> HasEntry(m) /\ place[m] # "removed"
    BY <1>5 DEF HasEntry
  <2> HIDE DEF fresh, added
  <2> QED BY <2>1, <2>2, <2>3
<1>10. \A m \in SpawnMonsters : refs'[m] = IF HasEntry(m)' THEN 1 ELSE 0
  <2> SUFFICES ASSUME NEW m \in SpawnMonsters PROVE refs'[m] = IF HasEntry(m)' THEN 1 ELSE 0
    OBVIOUS
  <2>1. refs'[m] = refs[m] - GivenBack(m) + (IF m \in fresh THEN 1 ELSE 0)
    BY <1>2
  <2>2. refs[m] = IF HasEntry(m) THEN 1 ELSE 0
    BY <1>0 DEF RefsOfMap
  <2>3. GivenBack(m) = IF HasEntry(m) /\ place[m] = "removed" THEN 1 ELSE 0
    BY <1>0, GivenBackOf
  <2>4. m \in fresh => ~HasEntry(m)
    BY <1>4
  <2>5. HasEntry(m)' <=> m \in fresh \/ (HasEntry(m) /\ place[m] # "removed")
    BY <1>9
  <2> HIDE DEF fresh
  <2> QED BY <2>1, <2>2, <2>3, <2>4, <2>5
<1>11. MapAgrees'
  <2> SUFFICES ASSUME NEW d \in kept \cup added, NEW e \in kept \cup added, d # e
               PROVE  Of(d) # Of(e) /\ (Key(d) = Key(e) => Key(d) = 0)
    BY <1>2 DEF MapAgrees
  <2>1. CASE d \in kept /\ e \in kept
    BY <1>5, <2>1
  <2>2. CASE d \in added /\ e \in added
    <3>1. d = <<Key(d), new[Key(d)]>> /\ e = <<Key(e), new[Key(e)]>>
          /\ Key(d) \in filled /\ Key(e) \in filled
      BY <2>2 DEF Key
    <3>2. Key(d) # Key(e)
      BY <3>1
    <3> QED BY <1>3, <1>6, <2>2, <3>1, <3>2
  <2>3. CASE (d \in kept /\ e \in added) \/ (d \in added /\ e \in kept)
    <3> HIDE DEF fresh, added
    <3> QED BY <1>6, <1>8, <2>3
  <2> QED BY <2>1, <2>2, <2>3
<1>12. SpawnTypes'
  <2>1. place' \in [SpawnMonsters -> {"zone", "away", "removed"}]
    BY <1>0, <1>2 DEF SpawnTypes
  <2>2. spawnedMap' \subseteq (Blocks \cup {0}) \X SpawnMonsters
    BY <1>2, <1>5
  <2>3. hasSpawn' \subseteq SpawnMonsters
    BY <1>0, <1>2, <1>4 DEF SpawnTypes
  <2>4. refs' \in [SpawnMonsters -> Nat]
    <3>1. refs' = [m \in SpawnMonsters |-> refs'[m]]
      BY <1>2
    <3>2. \A m \in SpawnMonsters : refs'[m] \in Nat
      BY <1>10
    <3> QED BY <3>1, <3>2
  <2> QED BY <2>1, <2>2, <2>3, <2>4 DEF SpawnTypes
<1>13. PointsBack'
  <2> SUFFICES ASSUME NEW m \in hasSpawn' PROVE HasEntry(m)' /\ place'[m] # "removed"
    BY DEF PointsBack
  <2>1. m \in SpawnMonsters
    BY <1>12 DEF SpawnTypes
  <2>2. m \in fresh \/ (HasEntry(m) /\ place[m] # "removed")
    BY <1>0, <1>2 DEF PointsBack
  <2>3. place'[m] = IF m \in fresh THEN "zone" ELSE place[m]
    BY <1>2, <2>1
  <2> HIDE DEF fresh
  <2> QED BY <1>9, <2>1, <2>2, <2>3
<1> QED BY <1>10, <1>11, <1>12, <1>13 DEF SpawnInv, RefsOfMap

\* The invariant of a spawn (Spawn::checkSpawn, cleanup, removeMonster).
THEOREM SpawnInvariant == SpawnSpec => []SpawnInv
<1>1. SpawnInv /\ [SpawnNext]_spawnVars => SpawnInv'
  <2> SUFFICES ASSUME SpawnInv, [SpawnNext]_spawnVars PROVE SpawnInv'
    OBVIOUS
  <2>1. ASSUME NEW seen \in SUBSET Blocks, NEW fails \in SUBSET Blocks,
               CheckSpawn(seen, fails)
        PROVE  SpawnInv'
    BY <2>1, CheckSpawnInv
  <2>2. ASSUME NEW m \in SpawnMonsters, Die(m) \/ Stray(m) \/ Convinced(m) PROVE SpawnInv'
    BY <2>2, DieInv, StrayInv, ConvincedInv
  <2>3. CASE UNCHANGED spawnVars
    BY <2>3 DEF spawnVars, SpawnInv, SpawnTypes, MapAgrees, RefsOfMap, PointsBack, HasEntry
  <2> QED BY <2>1, <2>2, <2>3 DEF SpawnNext
<1> QED BY SpawnInitInv, <1>1, PTL DEF SpawnSpec

\* No block has two monsters, no monster two entries, and the spawn holds one
\* reference for each entry, whatever dies, strays and is convinced between two
\* checks (Spawn::checkSpawn, cleanup, removeMonster): the invariant in
\* BlocksServed.
THEOREM SpawnOnePerBlock == SpawnSpec => []OneMonsterPerBlock
<1>1. SpawnInv => OneMonsterPerBlock
  <2> SUFFICES ASSUME SpawnInv PROVE OneMonsterPerBlock
    OBVIOUS
  <2>1. MapAgrees /\ RefsOfMap /\ PointsBack
    BY DEF SpawnInv
  <2>2. \A m \in SpawnMonsters : refs[m] = Cardinality({e \in spawnedMap : Of(e) = m})
    BY <2>1, EntriesOf DEF MapAgrees, RefsOfMap
  <2> QED BY <2>1, <2>2 DEF OneMonsterPerBlock, MapAgrees, PointsBack, HasEntry
<1> QED BY SpawnInvariant, <1>1, PTL
-------------------------------------------------------------------------------
(* Scripts: environments, items and timers                                   *)

ScriptFields == {"idx", "running", "temp", "item", "timer", "sched", "queue", "refs", "results",
                 "answer", "said", "asserted", "steps"}
Envs == 0 .. EnvMax - 1
Kinds == {"verdict", "amount", "told"}
ItemStates == [place : {"none", "virtual", "placed"}, released : Nat, cut : BOOLEAN]

ScriptTypes ==
    /\ HasFields(scr, ScriptFields)
    /\ scr.idx \in Int /\ scr.running \in Seq(Kinds)
    /\ HasFields(scr.temp, Envs) /\ HasFields(scr.timer, TimerIds)
    /\ scr.item \in [Created -> ItemStates]

\* The environments in use are those up to the index; the others hold nothing.
EnvsInUse ==
    /\ scr.idx = Depth - 1
    /\ Depth <= EnvMax
    /\ \A e \in Envs : e > scr.idx => scr.temp[e] = {}

\* What an environment keeps was made and is not released yet, and no other
\* environment keeps it; what lies nowhere is kept until it is released.
KeptOnce ==
    \A t \in Created :
        /\ \A e \in Envs : t \in scr.temp[e] =>
               /\ scr.item[t].place # "none"
               /\ scr.item[t].released = 0
               /\ \A f \in Envs : t \in scr.temp[f] => e = f
        /\ scr.item[t].place # "virtual" => scr.item[t].released = 0
        /\ scr.item[t].released <= 1
        /\ scr.item[t].place = "virtual" /\ scr.item[t].released = 0 /\ ~scr.item[t].cut =>
               \E e \in Envs : t \in scr.temp[e]

\* Who failed permits nothing.
FailedRefuses == scr.said = "failed" => scr.answer \notin {"granted", "as the script says"}

\* Query results belong to scripts that run.
Answered == (Depth = 0 => scr.results = {}) /\ FailedRefuses

\* The inductive invariant of the scripts' items and timers
ScriptInv == /\ ScriptTypes
             /\ TimersRunOnce
             /\ ~DeepCalls => EnvsInUse /\ KeptOnce /\ Answered

USE ScriptConstants

LEMMA ScriptInitInv == ScriptInit => ScriptInv
<1> SUFFICES ASSUME ScriptInit PROVE ScriptInv
  OBVIOUS
<1>1. scr = NoScripts \/ scr = [NoScripts EXCEPT !.steps = ScriptSteps]
  BY DEF ScriptInit
<1>2. /\ HasFields(scr, ScriptFields) /\ scr.idx = -1 /\ scr.running = <<>> /\ scr.results = {}
      /\ scr.said = "yes" /\ scr.refs = {} /\ scr.temp = [e \in 0 .. EnvMax - 1 |-> {}]
      /\ scr.item = [t \in Created |-> [place |-> "none", released |-> 0, cut |-> FALSE]]
      /\ scr.timer = [n \in TimerIds |-> "new"]
  <2>1. CASE scr = NoScripts
    BY <2>1 DEF NoScripts, HasFields, ScriptFields
  <2>2. CASE scr = [NoScripts EXCEPT !.steps = ScriptSteps]
    BY <2>2 DEF NoScripts, HasFields, ScriptFields
  <2> QED BY <1>1, <2>1, <2>2
<1>3. ScriptTypes
  <2>1. HasFields(scr.temp, Envs) /\ HasFields(scr.timer, TimerIds)
    BY <1>2 DEF HasFields, Envs
  <2>2. scr.item \in [Created -> ItemStates]
    BY <1>2 DEF ItemStates
  <2>3. scr.idx \in Int /\ scr.running \in Seq(Kinds)
    BY <1>2
  <2> QED BY <1>2, <2>1, <2>2, <2>3 DEF ScriptTypes
<1>4. TimersRunOnce
  BY <1>2 DEF TimersRunOnce
<1>5. EnvsInUse /\ Answered
  BY <1>2 DEF EnvsInUse, Answered, FailedRefuses, Depth, Envs
<1>6. KeptOnce
  BY <1>2 DEF KeptOnce, Envs
<1> QED BY <1>3, <1>4, <1>5, <1>6 DEF ScriptInv

LEMMA TimersKept ==
    ASSUME TimersRunOnce, scr'.timer = scr.timer, scr'.refs = scr.refs, scr'.sched = scr.sched,
           scr'.queue = scr.queue
    PROVE  TimersRunOnce'
BY DEF TimersRunOnce

LEMMA Appended ==
    ASSUME NEW S, NEW r \in Seq(S), NEW x \in S
    PROVE  Append(r, x) \in Seq(S) /\ Len(Append(r, x)) = Len(r) + 1 /\ Len(r) \in Nat
OBVIOUS

\* The scripts that run when one more was asked for
Running(kind) == IF scr.idx + 1 < EnvMax THEN Append(scr.running, kind) ELSE scr.running

LEMMA RunningLen ==
    ASSUME ScriptInv, NEW kind \in Kinds
    PROVE  /\ Running(kind) \in Seq(Kinds)
           /\ Len(Running(kind)) = IF scr.idx + 1 < EnvMax THEN Depth + 1 ELSE Depth
<1> DEFINE r == scr.running
           i == scr.idx
           S == Kinds
<1>1. r \in Seq(S) /\ i \in Int /\ kind \in S
  BY DEF ScriptInv, ScriptTypes
<1> HIDE DEF r, i, S
<1>2. Append(r, kind) \in Seq(S) /\ Len(Append(r, kind)) = Len(r) + 1 /\ Len(r) \in Nat
  BY <1>1, Appended
<1>3. Running(kind) = (IF i + 1 < EnvMax THEN Append(r, kind) ELSE r) /\ Depth = Len(r)
  BY DEF r, i, Depth, Running
<1>4. CASE i + 1 < EnvMax
  BY <1>1, <1>2, <1>3, <1>4 DEF i, S
<1>5. CASE ~(i + 1 < EnvMax)
  BY <1>1, <1>2, <1>3, <1>5 DEF i, S
<1> QED BY <1>4, <1>5

\* A script begins and takes the next environment, which holds nothing.
LEMMA BeginInv ==
    ASSUME ScriptInv, NEW kind \in Kinds, ~DeepCalls => Depth < EnvMax, HasFields(scr', ScriptFields),
           scr'.idx = scr.idx + 1, scr'.running = Running(kind),
           scr'.temp = scr.temp, scr'.item = scr.item, scr'.results = scr.results,
           HasFields(scr'.timer, TimerIds), TimersRunOnce',
           ~DeepCalls => FailedRefuses'
    PROVE  ScriptInv'
<1>1. /\ Running(kind) \in Seq(Kinds) /\ Depth \in Nat /\ scr.idx \in Int
      /\ Depth' = IF scr.idx + 1 < EnvMax THEN Depth + 1 ELSE Depth
  <2>1. Depth \in Nat /\ scr.idx \in Int
    BY DEF ScriptInv, ScriptTypes, Depth
  <2>2. Depth' = Len(Running(kind))
    BY DEF Depth
  <2> QED BY <2>1, <2>2, RunningLen
<1>2. ScriptTypes'
  BY <1>1 DEF ScriptInv, ScriptTypes, Envs
<1>3. ASSUME ~DeepCalls PROVE (EnvsInUse /\ KeptOnce /\ Answered)'
  <2>1. EnvsInUse /\ KeptOnce /\ Answered /\ Depth < EnvMax /\ scr.idx = Depth - 1
    BY <1>3 DEF ScriptInv, EnvsInUse
  <2>2. Depth' = Depth + 1
    BY <1>1, <2>1
  <2>3. EnvsInUse'
    BY <1>1, <2>1, <2>2 DEF EnvsInUse, Envs
  <2>4. KeptOnce'
    BY <2>1 DEF KeptOnce, Envs
  <2>5. Depth' # 0
    BY <1>1, <2>2
  <2>6. Answered'
    BY <1>3, <2>5 DEF Answered
  <2> QED BY <2>3, <2>4, <2>6
<1> QED BY <1>2, <1>3 DEF ScriptInv

LEMMA AskInv == ASSUME ScriptInv, NEW kind \in Kinds, Ask(kind) PROVE ScriptInv'
<1> DEFINE s == Reserve(scr, kind)
           answer == IF scr.idx + 1 < EnvMax THEN "none" ELSE Answer(kind, "failed")
           runs == Running(kind)
<1>1. /\ scr' = [[s EXCEPT !.answer = answer] EXCEPT !.steps = @ + 1]
      /\ DeepCalls \/ Depth < EnvMax
  BY DEF Ask, Counted
<1>2. answer \notin {"granted", "as the script says"}
  BY DEF Answer
<1>3. /\ HasFields(s, ScriptFields) /\ s.idx = scr.idx + 1 /\ s.running = runs
      /\ \A f \in ScriptFields \ {"idx", "running"} : s[f] = scr[f]
  BY DEF Reserve, Running, ScriptInv, ScriptTypes, HasFields, ScriptFields
<1> HIDE DEF s, answer, runs
<1>4. /\ HasFields(scr', ScriptFields) /\ scr'.idx = scr.idx + 1 /\ scr'.running = runs
      /\ scr'.answer = answer
      /\ \A f \in ScriptFields \ {"idx", "running", "answer", "steps"} : scr'[f] = scr[f]
  BY <1>1, <1>3 DEF HasFields, ScriptFields
<1>5. /\ scr'.temp = scr.temp /\ scr'.item = scr.item /\ scr'.results = scr.results
      /\ scr'.timer = scr.timer /\ scr'.refs = scr.refs /\ scr'.sched = scr.sched
      /\ scr'.queue = scr.queue
  BY <1>4 DEF ScriptFields
<1>6. TimersRunOnce' /\ HasFields(scr'.timer, TimerIds)
  BY <1>5, TimersKept DEF ScriptInv, ScriptTypes
<1> QED BY <1>1, <1>2, <1>4, <1>5, <1>6, BeginInv DEF runs, FailedRefuses

\* A hook that is not set answers without a script.
LEMMA UnsetInv == ASSUME ScriptInv, NEW kind, EventUnset(kind) PROVE ScriptInv'
<1>1. /\ HasFields(scr', ScriptFields) /\ scr'.said = "unset"
      /\ \A f \in ScriptFields \ {"said", "answer", "steps"} : scr'[f] = scr[f]
  BY DEF EventUnset, Counted, ScriptInv, ScriptTypes, HasFields, ScriptFields
<1>2. /\ scr'.temp = scr.temp /\ scr'.item = scr.item /\ scr'.results = scr.results
      /\ scr'.timer = scr.timer /\ scr'.refs = scr.refs /\ scr'.sched = scr.sched
      /\ scr'.queue = scr.queue /\ scr'.idx = scr.idx /\ scr'.running = scr.running
  BY <1>1 DEF ScriptFields
<1>3. ScriptTypes'
  BY <1>1, <1>2 DEF ScriptInv, ScriptTypes, Envs
<1>4. TimersRunOnce'
  BY <1>2 DEF ScriptInv, TimersRunOnce
<1>5. ASSUME ~DeepCalls PROVE (EnvsInUse /\ KeptOnce /\ Answered)'
  BY <1>1, <1>2, <1>5 DEF ScriptInv, EnvsInUse, KeptOnce, Answered, FailedRefuses, Depth, Envs
<1> QED BY <1>3, <1>4, <1>5 DEF ScriptInv

\* When a script is through, what its environment kept and lies nowhere is
\* released, and nothing else.
LEMMA ReturnInv ==
    ASSUME ScriptInv, NEW said \in {"yes", "no", "failed"}, ReturnScript(said)
    PROVE  ScriptInv'
<1> DEFINE mine == IF scr.idx \in DOMAIN scr.temp THEN scr.temp[scr.idx] ELSE {}
           items == [t \in Created |-> IF t \in mine /\ scr.item[t].place = "virtual"
                                       THEN [scr.item[t] EXCEPT !.released = @ + 1] ELSE scr.item[t]]
           temps == [e \in DOMAIN scr.temp |-> IF e = scr.idx THEN {} ELSE scr.temp[e]]
           answer == Answer(Last(scr.running), said)
           s == ResetEnv(scr)
<1>1. Depth \in Nat \ {0} /\ Front(scr.running) \in Seq(Kinds) /\ Len(Front(scr.running)) = Depth - 1
  <2>1. scr.running \in Seq(Kinds) /\ Len(scr.running) > 0
    BY DEF ReturnScript, Depth, ScriptInv, ScriptTypes
  <2> DEFINE r == scr.running
  <2>2. r \in Seq(Kinds) /\ Len(r) \in Nat \ {0}
    BY <2>1
  <2> HIDE DEF r
  <2>3. SubSeq(r, 1, Len(r) - 1) \in Seq(Kinds) /\ Len(SubSeq(r, 1, Len(r) - 1)) = Len(r) - 1
    <3> DEFINE n == Len(r) - 1
    <3>1. n \in Nat /\ \A i \in 1 .. n : r[i] \in Kinds
      BY <2>2
    <3> HIDE DEF n
    <3>2. n = IF 1 <= n THEN n - 1 + 1 ELSE 0
      BY <3>1
    <3>3. SubSeq(r, 1, n) \in Seq(Kinds) /\ Len(SubSeq(r, 1, n)) = IF 1 <= n THEN n - 1 + 1 ELSE 0
      BY <3>1, SubSeqProperties
    <3> QED BY <3>2, <3>3 DEF n
  <2> QED BY <2>2, <2>3 DEF Front, Depth, r
<1>2. said = "failed" => answer \notin {"granted", "as the script says"}
  BY DEF Answer
<1>3. /\ HasFields(s, ScriptFields) /\ s.item = items /\ s.temp = temps /\ s.results = {}
      /\ s.idx = scr.idx - 1 /\ s.running = Front(scr.running)
      /\ \A f \in ScriptFields \ {"item", "temp", "results", "idx", "running"} : s[f] = scr[f]
  <2>1. s = [scr EXCEPT !.item = items, !.temp = temps, !.results = {}, !.idx = @ - 1,
                        !.running = Front(@)]
    BY DEF ResetEnv
  <2> HIDE DEF s, items, temps
  <2> QED BY <2>1 DEF ScriptInv, ScriptTypes, HasFields, ScriptFields
<1>4. scr' = [s EXCEPT !.asserted = @ \/ ~InRange, !.answer = answer, !.said = said]
  BY DEF ReturnScript
<1> HIDE DEF s, answer, items, temps
<1>5. /\ HasFields(scr', ScriptFields) /\ scr'.answer = answer /\ scr'.said = said
      /\ \A f \in ScriptFields \ {"asserted", "answer", "said"} : scr'[f] = s[f]
  BY <1>3, <1>4 DEF HasFields, ScriptFields
<1>6. /\ scr'.idx = scr.idx - 1 /\ scr'.running = Front(scr.running) /\ scr'.temp = temps
      /\ scr'.item = items /\ scr'.results = {}
      /\ scr'.timer = scr.timer /\ scr'.refs = scr.refs /\ scr'.sched = scr.sched
      /\ scr'.queue = scr.queue
  BY <1>3, <1>5 DEF ScriptFields
<1>7. HasFields(temps, Envs) /\ \A e \in Envs : temps[e] = IF e = scr.idx THEN {} ELSE scr.temp[e]
  BY DEF ScriptInv, ScriptTypes, HasFields, temps
<1>8. ASSUME NEW t \in Created PROVE
        /\ items[t] \in ItemStates /\ scr.item[t].released \in Nat
        /\ items[t].place = scr.item[t].place /\ items[t].cut = scr.item[t].cut
        /\ items[t].released = IF t \in mine /\ scr.item[t].place = "virtual"
                               THEN scr.item[t].released + 1 ELSE scr.item[t].released
  <2> DEFINE x == scr.item[t]
  <2>1. x \in ItemStates /\ items[t] = IF t \in mine /\ x.place = "virtual"
                                       THEN [x EXCEPT !.released = @ + 1] ELSE x
    BY DEF ScriptInv, ScriptTypes, items
  <2> HIDE DEF x, mine
  <2>2. CASE t \in mine /\ x.place = "virtual"
    BY <2>1, <2>2 DEF ItemStates, x
  <2>3. CASE ~(t \in mine /\ x.place = "virtual")
    BY <2>1, <2>3 DEF ItemStates, x
  <2> QED BY <2>2, <2>3
<1>9. ScriptTypes'
  <2>1. scr.idx - 1 \in Int
    BY DEF ScriptInv, ScriptTypes
  <2>2. items \in [Created -> ItemStates]
    BY <1>8 DEF items
  <2> QED BY <1>1, <1>5, <1>6, <1>7, <2>1, <2>2 DEF ScriptInv, ScriptTypes, Envs
<1>10. TimersRunOnce'
  BY <1>6 DEF ScriptInv, TimersRunOnce
<1>11. ASSUME ~DeepCalls PROVE (EnvsInUse /\ KeptOnce /\ Answered)'
  <2>1. EnvsInUse /\ KeptOnce /\ scr.idx \in Envs /\ scr.idx = Depth - 1
    BY <1>1, <1>11 DEF ScriptInv, EnvsInUse, Envs
  <2>2. Depth' = Depth - 1
    BY <1>1, <1>6 DEF Depth
  <2>3. EnvsInUse'
    BY <1>1, <1>6, <1>7, <2>1, <2>2 DEF EnvsInUse, Envs
  <2>4. mine = scr.temp[scr.idx]
    BY <2>1 DEF ScriptInv, ScriptTypes, HasFields
  <2> HIDE DEF mine
  <2>5. KeptOnce'
    BY <1>6, <1>7, <1>8, <2>1, <2>4 DEF KeptOnce, Envs
  <2>6. Answered'
    BY <1>2, <1>5, <1>6 DEF Answered, FailedRefuses
  <2> QED BY <2>3, <2>5, <2>6
<1> QED BY <1>9, <1>10, <1>11 DEF ScriptInv

\* Query results come and go while a script runs.
LEMMA ResultInv ==
    ASSUME ScriptInv, NEW r \in Created, AddResult(r) \/ RemoveResult(r)
    PROVE  ScriptInv'
<1>1. /\ HasFields(scr', ScriptFields) /\ Depth > 0
      /\ \A f \in ScriptFields \ {"results", "steps"} : scr'[f] = scr[f]
  BY DEF AddResult, RemoveResult, Counted, ScriptInv, ScriptTypes, HasFields, ScriptFields
<1>2. /\ scr'.temp = scr.temp /\ scr'.item = scr.item /\ scr'.said = scr.said /\ scr'.answer = scr.answer
      /\ scr'.timer = scr.timer /\ scr'.refs = scr.refs /\ scr'.sched = scr.sched
      /\ scr'.queue = scr.queue /\ scr'.idx = scr.idx /\ scr'.running = scr.running
  BY <1>1 DEF ScriptFields
<1>3. ScriptTypes'
  BY <1>1, <1>2 DEF ScriptInv, ScriptTypes, Envs
<1>4. TimersRunOnce'
  BY <1>2 DEF ScriptInv, TimersRunOnce
<1>5. ASSUME ~DeepCalls PROVE (EnvsInUse /\ KeptOnce /\ Answered)'
  <2>1. Depth' = Depth
    BY <1>2 DEF Depth
  <2>2. Depth # 0
    BY <1>1
  <2> QED BY <1>1, <1>2, <1>5, <2>1, <2>2 DEF ScriptInv, EnvsInUse, KeptOnce, Answered, FailedRefuses, Envs
<1> QED BY <1>3, <1>4, <1>5 DEF ScriptInv

\* An item that a script makes is kept by that script's environment.
LEMMA AddTempInv == ASSUME ScriptInv, NEW t \in Created, AddTempItem(t) PROVE ScriptInv'
<1> DEFINE temps == [e \in DOMAIN scr.temp |-> IF e = scr.idx THEN scr.temp[e] \cup {t} ELSE scr.temp[e]]
           items == [scr.item EXCEPT ![t].place = "virtual"]
<1>1. /\ HasFields(scr', ScriptFields) /\ scr'.item = items /\ scr'.temp = temps
      /\ \A f \in ScriptFields \ {"item", "temp", "asserted", "steps"} : scr'[f] = scr[f]
  <2>1. scr' = [[scr EXCEPT !.item = items, !.temp = temps, !.asserted = @ \/ ~InRange]
                    EXCEPT !.steps = @ + 1]
    BY DEF AddTempItem, Counted
  <2> HIDE DEF items, temps
  <2> QED BY <2>1 DEF ScriptInv, ScriptTypes, HasFields, ScriptFields
<1>2. HasFields(temps, Envs)
      /\ \A e \in Envs : temps[e] = IF e = scr.idx THEN scr.temp[e] \cup {t} ELSE scr.temp[e]
  BY DEF ScriptInv, ScriptTypes, HasFields
<1>3. scr.item[t] \in ItemStates /\ scr.item[t].place = "none" /\ Depth > 0
  BY DEF AddTempItem, ScriptInv, ScriptTypes
<1>4. /\ items \in [Created -> ItemStates]
      /\ items[t].place = "virtual" /\ items[t].released = scr.item[t].released
      /\ \A u \in Created \ {t} : items[u] = scr.item[u]
  BY <1>3 DEF ScriptInv, ScriptTypes, ItemStates
<1> HIDE DEF temps, items
<1>5. /\ scr'.said = scr.said /\ scr'.answer = scr.answer /\ scr'.results = scr.results
      /\ scr'.timer = scr.timer /\ scr'.refs = scr.refs /\ scr'.sched = scr.sched
      /\ scr'.queue = scr.queue /\ scr'.idx = scr.idx /\ scr'.running = scr.running
  BY <1>1 DEF ScriptFields
<1>6. ScriptTypes'
  BY <1>1, <1>2, <1>4, <1>5 DEF ScriptInv, ScriptTypes, Envs
<1>7. TimersRunOnce'
  BY <1>5 DEF ScriptInv, TimersRunOnce
<1>8. ASSUME ~DeepCalls PROVE (EnvsInUse /\ KeptOnce /\ Answered)'
  <2>1. EnvsInUse /\ KeptOnce /\ Answered
    BY <1>8 DEF ScriptInv
  <2>2. Depth' = Depth /\ Depth \in Nat
    BY <1>5 DEF Depth, ScriptInv, ScriptTypes
  <2>3. scr.idx \in Envs
    BY <1>3, <2>1, <2>2 DEF EnvsInUse, Envs
  <2>4. EnvsInUse'
    <3>1. ASSUME NEW e \in Envs, e > scr.idx PROVE temps[e] = {}
      <4>1. e # scr.idx
        BY <2>3, <3>1 DEF Envs
      <4> QED BY <1>2, <2>1, <3>1, <4>1 DEF EnvsInUse
    <3> QED BY <1>1, <1>5, <2>1, <2>2, <3>1 DEF EnvsInUse, Envs
  <2>5. ASSUME NEW e \in Envs PROVE t \notin scr.temp[e]
    BY <1>3, <2>1 DEF KeptOnce
  <2>6. ASSUME NEW u \in Created PROVE KeptOnce!(u)'
    <3>1. CASE u # t
      <4>1. \A e \in Envs : u \in temps[e] <=> u \in scr.temp[e]
        BY <1>2, <3>1
      <4> QED BY <1>1, <1>4, <2>1, <3>1, <4>1 DEF KeptOnce, Envs
    <3>2. CASE u = t
      <4>1. \A e \in Envs : t \in temps[e] <=> e = scr.idx
        BY <1>2, <2>5
      <4>2. items[t].released = 0 /\ items[t].place = "virtual"
        BY <1>3, <1>4, <2>1 DEF KeptOnce
      <4> QED BY <1>1, <2>3, <3>2, <4>1, <4>2 DEF Envs
    <3> QED BY <3>1, <3>2
  <2>7. Answered'
    BY <1>3, <1>5, <2>1, <2>2 DEF Answered, FailedRefuses
  <2>8. KeptOnce'
    BY <2>6 DEF KeptOnce
  <2> QED BY <2>4, <2>7, <2>8
<1> QED BY <1>6, <1>7, <1>8 DEF ScriptInv

\* One item comes to lie somewhere, is released or cut, and stays with its
\* environment only while it is not released.
LEMMA ItemStepInv ==
    ASSUME ScriptInv, NEW t \in Created, NEW drop \in {"keeps", "drops"}, HasFields(scr', ScriptFields),
           \A f \in ScriptFields \ {"item", "temp", "steps"} : scr'[f] = scr[f],
           Depth > 0, scr.item[t].place = "virtual", scr.item[t].released = 0,
           HasFields(scr'.temp, Envs),
           \A e \in Envs : scr'.temp[e] = IF drop = "drops" THEN scr.temp[e] \ {t} ELSE scr.temp[e],
           scr'.item \in [Created -> ItemStates],
           \A u \in Created \ {t} : scr'.item[u] = scr.item[u],
           scr'.item[t].place # "none", scr'.item[t].released <= 1,
           scr'.item[t].place = "placed" => scr'.item[t].released = 0,
           scr'.item[t].released # 0 => drop = "drops",
           drop = "drops" \/ scr'.item[t].cut = scr.item[t].cut,
           scr'.item[t].place = "virtual" /\ scr'.item[t].released = 0 => drop = "keeps" \/ scr'.item[t].cut
    PROVE  ScriptInv'
<1>1. /\ scr'.said = scr.said /\ scr'.answer = scr.answer /\ scr'.results = scr.results
      /\ scr'.timer = scr.timer /\ scr'.refs = scr.refs /\ scr'.sched = scr.sched
      /\ scr'.queue = scr.queue /\ scr'.idx = scr.idx /\ scr'.running = scr.running
  BY DEF ScriptFields
<1>2. ScriptTypes'
  BY <1>1 DEF ScriptInv, ScriptTypes, Envs
<1>3. TimersRunOnce'
  BY <1>1, TimersKept DEF ScriptInv
<1>4. ASSUME ~DeepCalls PROVE (EnvsInUse /\ KeptOnce /\ Answered)'
  <2>1. EnvsInUse /\ KeptOnce /\ Answered
    BY <1>4 DEF ScriptInv
  <2>2. Depth' = Depth
    BY <1>1 DEF Depth
  <2> DEFINE old == scr.temp
             new == scr'.temp
  <2>0. \A e \in Envs : \A u : u \in new[e] <=> u \in old[e] /\ (drop = "drops" => u # t)
    <3> SUFFICES ASSUME NEW e \in Envs, NEW u
                 PROVE  u \in new[e] <=> u \in old[e] /\ (drop = "drops" => u # t)
      OBVIOUS
    <3>1. new[e] = IF drop = "drops" THEN old[e] \ {t} ELSE old[e]
      OBVIOUS
    <3> HIDE DEF old, new
    <3> QED BY <3>1
  <2> HIDE DEF old, new
  <2>3. EnvsInUse'
    <3>1. \A e \in Envs : old[e] = {} => new[e] = {}
      BY <2>0
    <3> QED BY <1>1, <2>1, <2>2, <3>1 DEF EnvsInUse, Envs, old, new
  <2>4. ASSUME NEW u \in Created PROVE KeptOnce!(u)'
    <3>1. CASE u # t
      <4>1. \A e \in Envs : u \in scr'.temp[e] <=> u \in scr.temp[e]
        BY <2>0, <3>1 DEF old, new
      <4>2. scr'.item[u] = scr.item[u]
        BY <3>1
      <4> QED BY <2>1, <4>1, <4>2 DEF KeptOnce, Envs
    <3>2. CASE u = t
      <4>1. scr'.item[t].place \in {"virtual", "placed"}
        BY <1>2 DEF ScriptTypes, ItemStates
      <4>2. \A e, f \in Envs : t \in scr'.temp[e] /\ t \in scr'.temp[f] => e = f
        <5>1. \A e \in Envs : t \in scr'.temp[e] => t \in scr.temp[e]
          BY <2>0 DEF old, new
        <5> QED BY <2>1, <5>1 DEF KeptOnce
      <4>3. \A e \in Envs : t \in scr'.temp[e] => drop = "keeps"
        OBVIOUS
      <4>4. drop = "keeps" /\ ~scr.item[t].cut => \E e \in Envs : t \in scr'.temp[e]
        BY <2>1 DEF KeptOnce
      <4> QED BY <3>2, <4>1, <4>2, <4>3, <4>4 DEF Envs
    <3> QED BY <3>1, <3>2
  <2>5. KeptOnce'
    BY <2>4 DEF KeptOnce
  <2>6. Answered'
    BY <1>1, <2>1, <2>2 DEF Answered, FailedRefuses
  <2> QED BY <2>3, <2>5, <2>6
<1> QED BY <1>2, <1>3, <1>4 DEF ScriptInv

\* A step that counts, and may change timers, changes neither items nor answers.
LEMMA OtherStepInv ==
    ASSUME ScriptInv, HasFields(scr', ScriptFields),
           \A f \in ScriptFields \ {"timer", "sched", "queue", "refs", "asserted", "steps"} : scr'[f] = scr[f],
           HasFields(scr'.timer, TimerIds), TimersRunOnce'
    PROVE  ScriptInv'
<1>1. /\ scr'.temp = scr.temp /\ scr'.item = scr.item /\ scr'.results = scr.results /\ scr'.said = scr.said
      /\ scr'.answer = scr.answer /\ scr'.idx = scr.idx /\ scr'.running = scr.running
  BY DEF ScriptFields
<1>2. ScriptTypes'
  BY <1>1 DEF ScriptInv, ScriptTypes, Envs
<1>3. ASSUME ~DeepCalls PROVE (EnvsInUse /\ KeptOnce /\ Answered)'
  <2>1. Depth' = Depth
    BY <1>1 DEF Depth
  <2> QED BY <1>1, <1>3, <2>1 DEF ScriptInv, EnvsInUse, KeptOnce, Answered, FailedRefuses, Envs
<1> QED BY <1>2, <1>3 DEF ScriptInv

LEMMA CallInv == ASSUME ScriptInv, scr' = [scr EXCEPT !.steps = @ + 1] PROVE ScriptInv'
<1>1. HasFields(scr', ScriptFields) /\ \A f \in ScriptFields \ {"steps"} : scr'[f] = scr[f]
  BY DEF ScriptInv, ScriptTypes, HasFields, ScriptFields
<1>2. scr'.timer = scr.timer /\ scr'.refs = scr.refs /\ scr'.sched = scr.sched /\ scr'.queue = scr.queue
  BY <1>1 DEF ScriptFields
<1>3. HasFields(scr'.timer, TimerIds) /\ TimersRunOnce'
  BY <1>2 DEF ScriptInv, ScriptTypes, TimersRunOnce
<1> QED BY <1>1, <1>3, OtherStepInv

\* item:moveTo: the environment keeps what lies there now, but forgets what a
\* pile has taken whole.
LEMMA MoveToInv ==
    ASSUME ScriptInv, NEW t \in Created, NEW o \in {"lies", "merged", "part", "refused"}, MoveTo(t, o)
    PROVE  ScriptInv'
<1> DEFINE x == scr.item[t]
           temps == [e \in DOMAIN scr.temp |-> scr.temp[e] \ {t}]
           laid == [scr.item EXCEPT ![t].place = "placed"]
           freed == [scr.item EXCEPT ![t].released = @ + 1]
<1>0. scr.item \in [Created -> ItemStates]
  BY DEF ScriptInv, ScriptTypes
<1>1. Depth > 0 /\ x.place = "virtual" /\ x.released = 0 /\ x \in ItemStates
  BY <1>0 DEF MoveTo
<1>2. scr' = [Added(scr, t, o) EXCEPT !.steps = @ + 1]
  BY DEF MoveTo, Counted
<1>3. CASE o = "lies"
  <2>1. scr' = [[scr EXCEPT !.item = laid] EXCEPT !.steps = @ + 1]
    BY <1>2, <1>3 DEF Added
  <2>2. /\ laid \in [Created -> ItemStates] /\ \A u \in Created \ {t} : laid[u] = scr.item[u]
        /\ laid[t].place = "placed" /\ laid[t].released = 0 /\ laid[t].cut = x.cut
    BY <1>0, <1>1 DEF ItemStates
  <2> HIDE DEF laid
  <2>3. /\ HasFields(scr', ScriptFields) /\ scr'.item = laid /\ scr'.temp = scr.temp
        /\ \A f \in ScriptFields \ {"item", "temp", "steps"} : scr'[f] = scr[f]
    BY <2>1 DEF ScriptInv, ScriptTypes, HasFields, ScriptFields
  <2>4. HasFields(scr'.temp, Envs)
    BY <2>3 DEF ScriptInv, ScriptTypes
  <2>5. \A e \in Envs : scr'.temp[e] = IF "keeps" = "drops" THEN scr.temp[e] \ {t} ELSE scr.temp[e]
    BY <2>3
  <2> QED BY <1>1, <2>2, <2>3, <2>4, <2>5, ItemStepInv
<1>4. CASE o = "merged"
  <2>1. scr' = [[[scr EXCEPT !.temp = temps] EXCEPT !.item = freed] EXCEPT !.steps = @ + 1]
    BY <1>2, <1>4 DEF Added, RemoveTempItem, ScriptInv, ScriptTypes, HasFields, ScriptFields
  <2>2. /\ freed \in [Created -> ItemStates] /\ \A u \in Created \ {t} : freed[u] = scr.item[u]
        /\ freed[t].place = "virtual" /\ freed[t].released = 1 /\ freed[t].cut = x.cut
    BY <1>0, <1>1 DEF ItemStates
  <2>3. /\ HasFields(temps, Envs)
        /\ \A e \in Envs : temps[e] = IF "drops" = "drops" THEN scr.temp[e] \ {t} ELSE scr.temp[e]
    BY DEF ScriptInv, ScriptTypes, HasFields
  <2> HIDE DEF freed, temps
  <2>4. /\ HasFields(scr', ScriptFields) /\ scr'.item = freed /\ scr'.temp = temps
        /\ \A f \in ScriptFields \ {"item", "temp", "steps"} : scr'[f] = scr[f]
    BY <2>1 DEF ScriptInv, ScriptTypes, HasFields, ScriptFields
  <2> QED BY <1>1, <2>2, <2>3, <2>4, ItemStepInv
<1>5. CASE o \in {"part", "refused"}
  BY <1>2, <1>5, CallInv DEF Added
<1> QED BY <1>3, <1>4, <1>5

\* container:addItemEx, player:addItemEx: the environment forgets what was taken,
\* also what was taken in part.
LEMMA AddItemExInv ==
    ASSUME ScriptInv, NEW t \in Created, NEW o \in {"lies", "merged", "part", "refused"}, AddItemEx(t, o)
    PROVE  ScriptInv'
<1> DEFINE x == scr.item[t]
           temps == [e \in DOMAIN scr.temp |-> scr.temp[e] \ {t}]
           laid == [scr.item EXCEPT ![t].place = "placed"]
           freed == [scr.item EXCEPT ![t].released = @ + 1]
           a == Added(scr, t, o)
           b == RemoveTempItem(a, t)
           items == [b.item EXCEPT ![t].cut = @ \/ o = "part"]
<1>0. scr.item \in [Created -> ItemStates]
  BY DEF ScriptInv, ScriptTypes
<1>1. Depth > 0 /\ x.place = "virtual" /\ x.released = 0 /\ x \in ItemStates
  BY <1>0 DEF AddItemEx
<1>2. CASE o = "refused"
  BY <1>2, CallInv DEF AddItemEx, Counted
<1>3. CASE o # "refused"
  <2>1. scr' = [[b EXCEPT !.item = items] EXCEPT !.steps = @ + 1]
    BY <1>3 DEF AddItemEx, Counted
  <2>2. /\ HasFields(temps, Envs)
        /\ \A e \in Envs : temps[e] = IF "drops" = "drops" THEN scr.temp[e] \ {t} ELSE scr.temp[e]
    BY DEF ScriptInv, ScriptTypes, HasFields
  <2>3. /\ laid \in [Created -> ItemStates] /\ \A u \in Created \ {t} : laid[u] = scr.item[u]
        /\ laid[t].place = "placed" /\ laid[t].released = 0
    BY <1>0, <1>1 DEF ItemStates
  <2>4. /\ freed \in [Created -> ItemStates] /\ \A u \in Created \ {t} : freed[u] = scr.item[u]
        /\ freed[t].place = "virtual" /\ freed[t].released = 1
    BY <1>0, <1>1 DEF ItemStates
  <2> HIDE DEF laid, freed
  <2>5. /\ HasFields(a, ScriptFields)
        /\ a.item = (IF o = "lies" THEN laid ELSE IF o = "merged" THEN freed ELSE scr.item)
        /\ a.temp = (IF o = "merged" THEN temps ELSE scr.temp)
        /\ \A f \in ScriptFields \ {"item", "temp"} : a[f] = scr[f]
    <3> HIDE DEF temps
    <3>1. CASE o = "lies"
      <4>1. a = [scr EXCEPT !.item = laid]
        BY <3>1 DEF Added, laid
      <4> HIDE DEF a
      <4> QED BY <3>1, <4>1 DEF ScriptInv, ScriptTypes, HasFields, ScriptFields
    <3>2. CASE o = "merged"
      <4> DEFINE c == RemoveTempItem(scr, t)
      <4>1. a = [c EXCEPT !.item[t].released = @ + 1]
        BY <3>2 DEF Added
      <4>2. HasFields(c, ScriptFields) /\ c.temp = temps /\ \A f \in ScriptFields \ {"temp"} : c[f] = scr[f]
        <5>1. c = [scr EXCEPT !.temp = temps]
          BY DEF RemoveTempItem, temps
        <5> HIDE DEF c
        <5> QED BY <5>1 DEF ScriptInv, ScriptTypes, HasFields, ScriptFields
      <4> HIDE DEF a, c
      <4>3. c.item = scr.item
        BY <4>2 DEF ScriptFields
      <4>4. a = [c EXCEPT !.item = freed]
        BY <4>1, <4>3 DEF freed
      <4> QED BY <3>2, <4>2, <4>4 DEF HasFields, ScriptFields
    <3>3. CASE o = "part"
      BY <3>3 DEF Added, ScriptInv, ScriptTypes
    <3> QED BY <1>3, <3>1, <3>2, <3>3
  <2> HIDE DEF a
  <2>6. /\ HasFields(b, ScriptFields) /\ b.item = a.item
        /\ \A f \in ScriptFields \ {"item", "temp"} : b[f] = scr[f]
        /\ b.temp = [e \in DOMAIN a.temp |-> a.temp[e] \ {t}]
    BY <2>5 DEF RemoveTempItem, HasFields, ScriptFields
  <2>7. b.temp = temps
    BY <2>5, <2>6 DEF temps
  <2> HIDE DEF b, items, temps
  <2>8. /\ HasFields(scr', ScriptFields) /\ scr'.item = items /\ scr'.temp = temps
        /\ \A f \in ScriptFields \ {"item", "temp", "steps"} : scr'[f] = scr[f]
    BY <2>1, <2>6, <2>7 DEF HasFields, ScriptFields
  <2>9. /\ b.item \in [Created -> ItemStates] /\ \A u \in Created \ {t} : b.item[u] = scr.item[u]
        /\ b.item[t].place = (IF o = "lies" THEN "placed" ELSE "virtual")
        /\ b.item[t].released = (IF o = "merged" THEN 1 ELSE 0)
    BY <1>1, <1>3, <2>3, <2>4, <2>5, <2>6 DEF ScriptInv, ScriptTypes
  <2>10. /\ items \in [Created -> ItemStates] /\ \A u \in Created \ {t} : items[u] = b.item[u]
         /\ items[t].place = b.item[t].place /\ items[t].released = b.item[t].released
         /\ o = "part" => items[t].cut
    BY <2>9 DEF items, ItemStates
  <2>11. o # "lies" /\ o # "merged" => o = "part"
    BY <1>3
  <2> QED BY <1>1, <2>2, <2>8, <2>9, <2>10, <2>11, ItemStepInv
<1> QED BY <1>2, <1>3

LEMMA TimerSet ==
    ASSUME ScriptInv, NEW n \in TimerIds, NEW v, scr'.timer = [scr.timer EXCEPT ![n] = v]
    PROVE  /\ HasFields(scr'.timer, TimerIds)
           /\ \A m \in TimerIds : scr'.timer[m] = IF m = n THEN v ELSE scr.timer[m]
<1> DEFINE old == scr.timer
           new == scr'.timer
<1>1. new = [old EXCEPT ![n] = v] /\ DOMAIN old = TimerIds
  BY DEF ScriptInv, ScriptTypes, HasFields
<1> HIDE DEF old, new
<1>2. new = [m \in TimerIds |-> IF m = n THEN v ELSE old[m]]
  BY <1>1
<1>3. DOMAIN new = TimerIds /\ \A m \in TimerIds : new[m] = IF m = n THEN v ELSE old[m]
  BY <1>2
<1>4. new = [m \in TimerIds |-> new[m]]
  BY <1>2, <1>3
<1> QED BY <1>3, <1>4 DEF HasFields, old, new

\* A timer event is described anew.
LEMMA LuaAddEventInv == ASSUME ScriptInv, NEW n \in TimerIds, LuaAddEvent(n) PROVE ScriptInv'
<1>1. /\ HasFields(scr', ScriptFields) /\ scr'.timer = [scr.timer EXCEPT ![n] = "planned"]
      /\ scr'.sched = scr.sched \cup {n} /\ scr'.refs = scr.refs \cup {n} /\ scr'.queue = scr.queue
      /\ \A f \in ScriptFields \ {"timer", "sched", "refs", "asserted", "steps"} : scr'[f] = scr[f]
  BY DEF LuaAddEvent, Counted, ScriptInv, ScriptTypes, HasFields, ScriptFields
<1>2. /\ HasFields(scr'.timer, TimerIds)
      /\ \A m \in TimerIds : scr'.timer[m] = IF m = n THEN "planned" ELSE scr.timer[m]
  <2>1. scr'.timer = [scr.timer EXCEPT ![n] = "planned"]
    BY <1>1
  <2> QED BY <2>1, TimerSet
<1>3. TimersRunOnce'
  BY <1>1, <1>2 DEF ScriptInv, TimersRunOnce
<1> QED BY <1>1, <1>2, <1>3, OtherStepInv

\* stopEvent forgets the description, whether or not the dispatcher has the task.
LEMMA LuaStopEventInv == ASSUME ScriptInv, NEW n \in TimerIds, LuaStopEvent(n) PROVE ScriptInv'
<1>1. CASE scr.timer[n] = "planned"
  <2>1. /\ HasFields(scr', ScriptFields) /\ scr'.timer = [scr.timer EXCEPT ![n] = "stopped"]
        /\ scr'.sched = scr.sched \ {n} /\ scr'.refs = scr.refs \ {n} /\ scr'.queue = scr.queue
        /\ \A f \in ScriptFields \ {"timer", "sched", "refs", "steps"} : scr'[f] = scr[f]
    BY <1>1 DEF LuaStopEvent, Counted, ScriptInv, ScriptTypes, HasFields, ScriptFields
  <2>2. /\ HasFields(scr'.timer, TimerIds)
        /\ \A m \in TimerIds : scr'.timer[m] = IF m = n THEN "stopped" ELSE scr.timer[m]
    <3>1. scr'.timer = [scr.timer EXCEPT ![n] = "stopped"]
      BY <2>1
    <3> QED BY <3>1, TimerSet
  <2>3. TimersRunOnce'
    BY <2>1, <2>2 DEF ScriptInv, TimersRunOnce
  <2> QED BY <2>1, <2>2, <2>3, OtherStepInv
<1>2. CASE scr.timer[n] # "planned"
  BY <1>2, CallInv DEF LuaStopEvent, Counted
<1> QED BY <1>1, <1>2

LEMMA HandedOverInv == ASSUME ScriptInv, NEW n \in TimerIds, HandedOver(n) PROVE ScriptInv'
<1>1. /\ HasFields(scr', ScriptFields) /\ scr'.sched = scr.sched \ {n} /\ scr'.queue = scr.queue \cup {n}
      /\ \A f \in ScriptFields \ {"sched", "queue", "steps"} : scr'[f] = scr[f]
  BY DEF HandedOver, Counted, ScriptInv, ScriptTypes, HasFields, ScriptFields
<1>2. scr'.timer = scr.timer /\ scr'.refs = scr.refs
  BY <1>1 DEF ScriptFields
<1>3. HasFields(scr'.timer, TimerIds) /\ TimersRunOnce'
  BY <1>1, <1>2 DEF ScriptInv, ScriptTypes, TimersRunOnce
<1> QED BY <1>1, <1>3, OtherStepInv

\* LuaEnvironment::executeTimerEvent: what was stopped has no description any more.
LEMMA ExecuteTimerEventInv == ASSUME ScriptInv, NEW n \in TimerIds, ExecuteTimerEvent(n) PROVE ScriptInv'
<1>1. CASE scr.timer[n] # "planned"
  <2>1. /\ HasFields(scr', ScriptFields) /\ scr'.queue = scr.queue \ {n}
        /\ \A f \in ScriptFields \ {"queue", "steps"} : scr'[f] = scr[f]
    BY <1>1 DEF ExecuteTimerEvent, Counted, ScriptInv, ScriptTypes, HasFields, ScriptFields
  <2>2. scr'.timer = scr.timer /\ scr'.refs = scr.refs /\ scr'.sched = scr.sched
    BY <2>1 DEF ScriptFields
  <2>3. TimersRunOnce' /\ HasFields(scr'.timer, TimerIds)
    BY <1>1, <2>1, <2>2 DEF ScriptInv, ScriptTypes, TimersRunOnce
  <2> QED BY <2>1, <2>3, OtherStepInv
<1>2. CASE scr.timer[n] = "planned"
  <2> DEFINE s == Reserve(scr, "told")
             runs == Running("told")
  <2>1. /\ scr' = [[s EXCEPT !.queue = @ \ {n}, !.refs = @ \ {n}, !.timer[n] = "run"]
                     EXCEPT !.steps = @ + 1]
        /\ Depth = 0
    BY <1>2 DEF ExecuteTimerEvent, Counted
  <2>2. /\ HasFields(s, ScriptFields) /\ s.idx = scr.idx + 1 /\ s.running = runs
        /\ \A f \in ScriptFields \ {"idx", "running"} : s[f] = scr[f]
    BY DEF Reserve, Running, ScriptInv, ScriptTypes, HasFields, ScriptFields
  <2> HIDE DEF s, runs
  <2>3. s.timer = scr.timer /\ s.queue = scr.queue /\ s.refs = scr.refs
    BY <2>2 DEF ScriptFields
  <2>4. /\ HasFields(scr', ScriptFields) /\ scr'.idx = scr.idx + 1 /\ scr'.running = runs
        /\ scr'.timer = [scr.timer EXCEPT ![n] = "run"]
        /\ scr'.queue = scr.queue \ {n} /\ scr'.refs = scr.refs \ {n}
        /\ \A f \in ScriptFields \ {"idx", "running", "timer", "queue", "refs", "steps"} : scr'[f] = scr[f]
    BY <2>1, <2>2, <2>3 DEF HasFields, ScriptFields
  <2>5. /\ scr'.temp = scr.temp /\ scr'.item = scr.item /\ scr'.results = scr.results
        /\ scr'.said = scr.said /\ scr'.answer = scr.answer /\ scr'.sched = scr.sched
    BY <2>4 DEF ScriptFields
  <2>6. /\ HasFields(scr'.timer, TimerIds)
        /\ \A m \in TimerIds : scr'.timer[m] = IF m = n THEN "run" ELSE scr.timer[m]
    <3>1. scr'.timer = [scr.timer EXCEPT ![n] = "run"]
      BY <2>4
    <3> QED BY <3>1, TimerSet
  <2>7. TimersRunOnce'
    BY <2>4, <2>5, <2>6 DEF ScriptInv, TimersRunOnce
  <2>8. ~DeepCalls => FailedRefuses'
    BY <2>5 DEF ScriptInv, Answered, FailedRefuses
  <2>9. "told" \in Kinds /\ (DeepCalls \/ Depth < EnvMax)
    BY <2>1 DEF Kinds
  <2> QED BY <2>4, <2>5, <2>6, <2>7, <2>8, <2>9, BeginInv DEF runs
<1> QED BY <1>1, <1>2

LEMMA ScriptNextInv == ASSUME ScriptInv, [ScriptNext]_scriptVars PROVE ScriptInv'
<1>1. CASE scr' = scr
  <2>1. ScriptTypes' /\ TimersRunOnce'
    BY <1>1 DEF ScriptInv, ScriptTypes, TimersRunOnce, Envs
  <2>2. ASSUME ~DeepCalls PROVE (EnvsInUse /\ KeptOnce /\ Answered)'
    BY <1>1, <2>2 DEF ScriptInv, EnvsInUse, KeptOnce, Answered, FailedRefuses, Depth, Envs
  <2> QED BY <2>1, <2>2 DEF ScriptInv
<1>2. ASSUME NEW k \in Kinds, Ask(k) \/ EventUnset(k) PROVE ScriptInv'
  BY <1>2, AskInv, UnsetInv
<1>3. ASSUME \/ ExecuteEvent \/ ExecuteTold \/ ExecuteChange
             \/ EventCreature \/ EventPermits \/ EventLook \/ EventAmount
      PROVE  ScriptInv'
  BY <1>2, <1>3 DEF Kinds, ExecuteEvent, ExecuteTold, ExecuteChange, EventCreature, EventPermits,
                    EventLook, EventAmount
<1>4. ASSUME NEW said \in {"yes", "no", "failed"}, ReturnScript(said) PROVE ScriptInv'
  BY <1>4, ReturnInv
<1>5. ASSUME NEW t \in Created, AddResult(t) \/ RemoveResult(t) \/ AddTempItem(t) PROVE ScriptInv'
  BY <1>5, ResultInv, AddTempInv
<1>6. ASSUME NEW t \in Created, NEW o \in {"lies", "merged", "part", "refused"}, AddItemEx(t, o) \/ MoveTo(t, o)
      PROVE  ScriptInv'
  BY <1>6, AddItemExInv, MoveToInv
<1>7. ASSUME NEW n \in TimerIds, LuaAddEvent(n) \/ LuaStopEvent(n) \/ HandedOver(n) \/ ExecuteTimerEvent(n)
      PROVE  ScriptInv'
  BY <1>7, LuaAddEventInv, LuaStopEventInv, HandedOverInv, ExecuteTimerEventInv
<1>8. ASSUME NEW f \in EventFiles, ReloadEvents(f) PROVE scr' = scr
  BY <1>8 DEF ReloadEvents
<1>9. ASSUME NEW name, RegisterCreatureEvent(name) \/ UnregisterCreatureEvent(name) PROVE scr' = scr
  BY <1>9 DEF RegisterCreatureEvent, UnregisterCreatureEvent
<1>10. ASSUME NEW k, DropTimer(k) \/ RoundHandedOver(k) PROVE scr' = scr
  BY <1>10 DEF DropTimer, RoundHandedOver
<1>11. ASSUME ThinkRound \/ ReloadGlobals \/ GlobTick PROVE scr' = scr
  BY <1>11 DEF ThinkRound, ReloadGlobals, GlobTick
<1>12. ASSUME UNCHANGED scriptVars PROVE scr' = scr
  BY <1>12 DEF scriptVars
<1> QED BY <1>1, <1>3, <1>4, <1>5, <1>6, <1>7, <1>8, <1>9, <1>10, <1>11, <1>12 DEF ScriptNext

\* The environments, items and timers of the scripts stay as they should be
\* (luascript.cpp).
THEOREM ScriptInvariant == ScriptSpec => []ScriptInv
<1> QED BY ScriptInitInv, ScriptNextInv, PTL DEF ScriptSpec

\* A timer event runs once at most, not once it was stopped, and its description
\* is held exactly as long as it may still run (luaAddEvent, luaStopEvent,
\* executeTimerEvent).
THEOREM TimersAlwaysRunOnce == ScriptSpec => []TimersRunOnce
<1>1. ScriptInv => TimersRunOnce
  BY DEF ScriptInv
<1> QED BY ScriptInvariant, <1>1, PTL

\* As long as calls nest no deeper than there are environments, which getScriptEnv
\* asserts, every environment is given back and every item that a script makes ends up
\* somewhere or is released once (reserveScriptEnv, resetEnv, addTempItem).
THEOREM ItemsAlwaysReleased == ScriptSpec => [](~DeepCalls => ScriptsAgree)
<1>1. ScriptInv => (~DeepCalls => ScriptsAgree)
  <2> SUFFICES ASSUME ScriptInv, ~DeepCalls PROVE ScriptsAgree
    OBVIOUS
  <2>1. EnvsInUse /\ KeptOnce /\ Answered /\ ScriptTypes /\ Depth \in Nat
    BY DEF ScriptInv, ScriptTypes, Depth
  <2>2. ASSUME NEW t \in Created, NEW e \in Envs, t \in scr.temp[e] PROVE e \in 0 .. scr.idx
    BY <2>1, <2>2 DEF EnvsInUse, Envs
  <2>3. ASSUME NEW t \in Created, Depth = 0, NEW e \in Envs PROVE t \notin scr.temp[e]
    BY <2>1, <2>3 DEF EnvsInUse, Envs
  <2>4. ASSUME NEW t \in Created PROVE
          /\ scr.item[t].released \in Nat /\ scr.item[t].released <= 1
          /\ scr.item[t].place = "placed" => scr.item[t].released = 0
          /\ scr.item[t].place = "virtual" /\ scr.item[t].released = 0 /\ ~scr.item[t].cut =>
                 \E e \in Envs : t \in scr.temp[e]
    BY <2>1 DEF KeptOnce, ScriptTypes, ItemStates
  <2>5. scr.idx = Depth - 1 /\ (Depth = 0 => scr.results = {})
        /\ (scr.said = "failed" => scr.answer \notin {"granted", "as the script says"})
    BY <2>1 DEF EnvsInUse, Answered, FailedRefuses
  <2>6. ASSUME NEW t \in Created PROVE ItemsOfScripts!4!(t)
    BY <2>2, <2>3, <2>4
  <2>7. ItemsOfScripts
    BY <2>5, <2>6 DEF ItemsOfScripts
  <2> QED BY <2>7 DEF ScriptInv, ScriptsAgree
<1> QED BY ScriptInvariant, <1>1, PTL
-------------------------------------------------------------------------------
(* Persistence: the transaction that saves a player                          *)

SessFields == {"pc", "tables", "work", "open", "lock", "busy", "tries", "result", "cut", "torn",
               "saw", "reads", "err", "lost"}
TableFields == {"stat", "items", "store"}

AllNew(t) == t.stat = "new" /\ t.items = "new" /\ t.store = "new"
AllOld(t) == t.stat = "old" /\ t.items = "old" /\ t.store = "old"

IsTables(t) == HasFields(t, TableFields)

SessTypes(s) ==
    /\ HasFields(s, SessFields) /\ IsTables(s.tables) /\ IsTables(s.work)
    /\ s.pc \in 0 .. 8 /\ s.tries \in Nat
    /\ s.open \in BOOLEAN /\ s.cut \in BOOLEAN /\ s.torn \in BOOLEAN

\* What an open transaction has done of the save, before the statement that is next;
\* after a commit that failed, all of it.
WorkAt(s) ==
    /\ s.pc \in {0, 1} => AllNew(s.work)
    /\ s.pc \in {2, 3} => /\ s.work.stat = s.tables.stat
                          /\ s.work.items = s.tables.items /\ s.work.store = s.tables.store
    /\ s.pc \in 4 .. 8 => s.work.stat = "new"
    /\ s.pc = 4 => s.work.items = s.tables.items
    /\ s.pc \in 6 .. 8 => s.work.items = "new"
    /\ s.pc \in 4 .. 6 => s.work.store = s.tables.store
    /\ s.pc = 8 => s.work.store = "new"

\* As long as no transaction was ever cut off, the tables are those of before or those
\* of the save; and if the last one was not, its statements find it open.
Unbroken(s) ==
    /\ ~s.torn => AllOld(s.tables) \/ AllNew(s.tables)
    /\ s.open => ~s.cut /\ WorkAt(s)
    /\ s.cut => s.torn
    /\ ~s.cut => /\ s.pc >= 2 => s.open
                 /\ s.result = "saved" => AllNew(s.tables)

SeenWhole(s) == ~s.torn => s.saw = {} \/ s.saw = {"old"} \/ s.saw = {"new"}

\* From the statement after BEGIN on, the lock is held: who waits for it cannot
\* look into the transaction.
EndedWell(s) ==
    /\ s.result # "none" => s.pc = 0
    /\ s.pc = 0 => s.lock = "none"
    /\ s.pc >= 3 => s.lock = "game"

\* The inductive invariant of the save
SaveGood(s) == SessTypes(s) /\ Unbroken(s) /\ SeenWhole(s) /\ EndedWell(s)

LEMMA StatementAt ==
    ASSUME sess.pc \in 1 .. 8
    PROVE  /\ sess.pc = 1 <=> Statement = "begin"
           /\ sess.pc = 2 <=> Statement = "hold"
           /\ sess.pc = 3 <=> Statement = "stat"
           /\ sess.pc = 4 <=> Statement = "delItems"
           /\ sess.pc = 5 <=> Statement = "insItems"
           /\ sess.pc = 6 <=> Statement = "delStore"
           /\ sess.pc = 7 <=> Statement = "insStore"
           /\ sess.pc = 8 <=> Statement = "commit"
BY DEF Statement, SaveScript

\* A save that is tried again, or given up
LEMMA AgainGood ==
    ASSUME NEW s, SessTypes(s), SeenWhole(s), s.result = "none", s.lock = "none", s.cut => s.torn,
           ~s.torn => AllOld(s.tables) \/ AllNew(s.tables),
           s.open => ~s.cut /\ AllNew(s.work)
    PROVE  SaveGood(Again(s))
<1> DEFINE a == Again(s)
<1>1. CASE s.tries < 2
  <2>1. a = [s EXCEPT !.tries = @ + 1, !.pc = 1]
    BY <1>1 DEF Again
  <2> HIDE DEF a
  <2>2. /\ HasFields(a, SessFields) /\ a.tries = s.tries + 1 /\ a.pc = 1
        /\ \A f \in SessFields \ {"tries", "pc"} : a[f] = s[f]
    BY <2>1 DEF SessTypes, HasFields, SessFields
  <2>3. /\ a.tables = s.tables /\ a.work = s.work /\ a.open = s.open /\ a.lock = s.lock
        /\ a.result = s.result /\ a.cut = s.cut /\ a.torn = s.torn /\ a.saw = s.saw
    BY <2>2 DEF SessFields
  <2>4. SessTypes(a)
    BY <2>2, <2>3 DEF SessTypes
  <2>5. Unbroken(a)
    BY <2>2, <2>3 DEF Unbroken, WorkAt
  <2>6. SeenWhole(a)
    BY <2>3 DEF SeenWhole
  <2>7. EndedWell(a)
    BY <2>2, <2>3 DEF EndedWell
  <2> QED BY <2>4, <2>5, <2>6, <2>7 DEF SaveGood, a
<1>2. CASE ~(s.tries < 2)
  <2>1. a = [s EXCEPT !.pc = 0, !.result = "failed"]
    BY <1>2 DEF Again
  <2> HIDE DEF a
  <2>2. /\ HasFields(a, SessFields) /\ a.result = "failed" /\ a.pc = 0
        /\ \A f \in SessFields \ {"result", "pc"} : a[f] = s[f]
    BY <2>1 DEF SessTypes, HasFields, SessFields
  <2>3. /\ a.tables = s.tables /\ a.work = s.work /\ a.open = s.open /\ a.lock = s.lock
        /\ a.tries = s.tries /\ a.cut = s.cut /\ a.torn = s.torn /\ a.saw = s.saw
    BY <2>2 DEF SessFields
  <2>4. SessTypes(a)
    BY <2>2, <2>3 DEF SessTypes
  <2>5. Unbroken(a)
    BY <2>2, <2>3 DEF Unbroken, WorkAt
  <2>6. SeenWhole(a)
    BY <2>3 DEF SeenWhole
  <2>7. EndedWell(a)
    BY <2>2, <2>3 DEF EndedWell
  <2> QED BY <2>4, <2>5, <2>6, <2>7 DEF SaveGood, a
<1> QED BY <1>1, <1>2

\* A step that changes what the invariant does not speak of
LEMMA SameGood ==
    ASSUME NEW s, SaveGood(s), NEW a, HasFields(a, SessFields),
           \A f \in SessFields \ {"busy", "reads", "err"} : a[f] = s[f]
    PROVE  SaveGood(a)
<1>1. /\ a.tables = s.tables /\ a.work = s.work /\ a.open = s.open /\ a.lock = s.lock /\ a.tries = s.tries
      /\ a.cut = s.cut /\ a.torn = s.torn /\ a.saw = s.saw /\ a.pc = s.pc /\ a.result = s.result
  BY DEF SessFields
<1>2. SessTypes(a)
  BY <1>1 DEF SaveGood, SessTypes
<1>3. Unbroken(a)
  BY <1>1 DEF SaveGood, Unbroken, WorkAt
<1>4. SeenWhole(a) /\ EndedWell(a)
  BY <1>1 DEF SaveGood, SeenWhole, EndedWell
<1> QED BY <1>2, <1>3, <1>4 DEF SaveGood

\* DBTransaction's destructor: what was not committed is rolled back.
LEMMA SaveFailedGood == ASSUME NEW s, SaveGood(s), s.pc > 0 PROVE SaveGood(SaveFailed(s))
<1> DEFINE a == [s EXCEPT !.open = FALSE, !.lock = "none"]
<1>1. /\ HasFields(a, SessFields) /\ a.open = FALSE /\ a.lock = "none"
      /\ \A f \in SessFields \ {"open", "lock"} : a[f] = s[f]
  BY DEF SaveGood, SessTypes, HasFields, SessFields
<1>2. SaveFailed(s) = Again(a)
  BY DEF SaveFailed
<1> HIDE DEF a
<1>3. /\ a.tables = s.tables /\ a.work = s.work /\ a.tries = s.tries
      /\ a.cut = s.cut /\ a.torn = s.torn /\ a.saw = s.saw /\ a.pc = s.pc /\ a.result = s.result
  BY <1>1 DEF SessFields
<1>4. SessTypes(a)
  BY <1>1, <1>3 DEF SaveGood, SessTypes
<1>5. SeenWhole(a)
  BY <1>3 DEF SaveGood, SeenWhole
<1>6. a.result = "none"
  BY <1>3 DEF SaveGood, SessTypes, EndedWell
<1>7. (~a.torn => AllOld(a.tables) \/ AllNew(a.tables)) /\ (a.cut => a.torn)
  BY <1>3 DEF SaveGood, Unbroken
<1> QED BY <1>1, <1>2, <1>4, <1>5, <1>6, <1>7, AgainGood

\* With the connection goes the transaction: from the second statement on, that is
\* what tears a save.
LEMMA LinkLostGood ==
    ASSUME NEW s, SessTypes(s), EndedWell(s), SeenWhole(s), s.cut => s.torn,
           s.pc > 1 => s.open \/ s.cut,
           s.pc <= 1 \/ ~s.open => /\ ~s.torn => AllOld(s.tables) \/ AllNew(s.tables)
                                   /\ ~s.cut /\ s.result = "saved" => AllNew(s.tables),
           NEW a, \E b : a = [LinkLost(s) EXCEPT !.busy = b] \/ a = LinkLost(s)
    PROVE  /\ SaveGood(a) /\ a.open = FALSE /\ a.pc = s.pc /\ a.lock = s.lock /\ a.result = s.result
<1> DEFINE l == LinkLost(s)
           cuts == s.open /\ s.pc > 1
<1>1. /\ HasFields(l, SessFields) /\ l.open = FALSE /\ l.cut = (s.cut \/ cuts) /\ l.torn = (s.torn \/ cuts)
      /\ \A f \in SessFields \ {"open", "cut", "torn", "lost"} : l[f] = s[f]
  <2>1. l = [s EXCEPT !.open = FALSE, !.cut = @ \/ cuts, !.torn = @ \/ cuts, !.lost = @ - 1]
    BY DEF LinkLost
  <2> HIDE DEF l, cuts
  <2> QED BY <2>1 DEF SessTypes, HasFields, SessFields
<1> HIDE DEF l
<1>2. PICK b : a = [l EXCEPT !.busy = b] \/ a = l
  BY DEF l
<1>3. /\ HasFields(a, SessFields) /\ a.open = FALSE /\ a.cut = (s.cut \/ cuts) /\ a.torn = (s.torn \/ cuts)
      /\ \A f \in SessFields \ {"open", "cut", "torn", "lost", "busy"} : a[f] = s[f]
  <2> HIDE DEF cuts
  <2> QED BY <1>1, <1>2 DEF HasFields, SessFields
<1>4. /\ a.tables = s.tables /\ a.work = s.work /\ a.tries = s.tries /\ a.lock = s.lock
      /\ a.saw = s.saw /\ a.pc = s.pc /\ a.result = s.result
  BY <1>3 DEF SessFields
<1>5. SessTypes(a)
  <2>1. (s.cut \/ cuts) \in BOOLEAN /\ (s.torn \/ cuts) \in BOOLEAN
    OBVIOUS
  <2>2. a.cut \in BOOLEAN /\ a.torn \in BOOLEAN /\ a.open \in BOOLEAN
    BY <1>3, <2>1
  <2> QED BY <1>3, <1>4, <2>2 DEF SessTypes
<1>6. Unbroken(a)
  <2>1. s.pc \in 0 .. 8 /\ (s.pc >= 2 <=> s.pc > 1) /\ (s.pc <= 1 <=> ~(s.pc > 1))
    BY DEF SessTypes
  <2>2. /\ a.cut = (s.cut \/ cuts) /\ a.torn = (s.torn \/ cuts) /\ a.open = FALSE
        /\ a.tables = s.tables /\ a.pc = s.pc /\ a.result = s.result
    BY <1>3, <1>4
  <2>3. a.cut => a.torn
    BY <2>2
  <2>4. ~a.torn => AllOld(a.tables) \/ AllNew(a.tables)
    BY <2>1, <2>2
  <2>5. ASSUME ~a.cut PROVE ~(a.pc >= 2) /\ (a.result = "saved" => AllNew(a.tables))
    BY <2>1, <2>2, <2>5
  <2> QED BY <2>2, <2>3, <2>4, <2>5 DEF Unbroken
<1>7. SeenWhole(a)
  BY <1>3, <1>4 DEF SeenWhole
<1>8. EndedWell(a)
  BY <1>4 DEF EndedWell
<1> QED BY <1>3, <1>4, <1>5, <1>6, <1>7, <1>8 DEF SaveGood

\* What a good save says to the lemma above
LEMMA GoodMayLose ==
    ASSUME NEW s, SaveGood(s)
    PROVE  /\ SessTypes(s) /\ EndedWell(s) /\ SeenWhole(s) /\ (s.cut => s.torn)
           /\ s.pc > 1 => s.open \/ s.cut
           /\ s.pc <= 1 \/ ~s.open => /\ ~s.torn => AllOld(s.tables) \/ AllNew(s.tables)
                                      /\ ~s.cut /\ s.result = "saved" => AllNew(s.tables)
BY DEF SaveGood, SessTypes, Unbroken

\* A statement of the save: the work of the transaction that BEGIN opened goes on.
LEMMA StatementGood ==
    ASSUME NEW r, SaveGood(r), r.pc = sess.pc, sess.pc \in {1, 3, 4, 5, 6, 7}
    PROVE  LET a == AtServer(r, Statement)
           IN  /\ SessTypes(a) /\ EndedWell(a) /\ SeenWhole(a) /\ (a.cut => a.torn)
               /\ (a.open \/ a.cut) /\ a.pc = sess.pc /\ a.lock = r.lock
               /\ sess.pc <= 1 \/ ~a.open => /\ ~a.torn => AllOld(a.tables) \/ AllNew(a.tables)
                                             /\ ~a.cut /\ a.result = "saved" => AllNew(a.tables)
               /\ SaveGood([a EXCEPT !.pc = @ + 1])
<1> DEFINE a == AtServer(r, Statement)
           s == [a EXCEPT !.pc = @ + 1]
           sight == IF r.open THEN r.work ELSE r.tables
           work == IF sess.pc = 1 THEN sight ELSE IF r.open THEN Apply(r.work, Statement) ELSE r.work
           tables == IF sess.pc = 1 THEN sight ELSE IF r.open THEN r.tables ELSE Apply(r.tables, Statement)
           open == sess.pc = 1 \/ r.open
           cut == sess.pc # 1 /\ r.cut
<1>1. /\ IsTables(r.work) /\ IsTables(r.tables) /\ IsTables(sight) /\ SessTypes(r)
      /\ r.cut \in BOOLEAN /\ r.open \in BOOLEAN /\ r.torn \in BOOLEAN
  BY DEF SaveGood, SessTypes
<1>2. ASSUME NEW t, IsTables(t), sess.pc \in 3 .. 7
      PROVE  LET u == Apply(t, Statement)
             IN  /\ IsTables(u)
                 /\ u.stat = (IF sess.pc = 3 THEN "new" ELSE t.stat)
                 /\ u.items = (IF sess.pc = 4 THEN "none" ELSE IF sess.pc = 5 THEN "new" ELSE t.items)
                 /\ u.store = (IF sess.pc = 6 THEN "none" ELSE IF sess.pc = 7 THEN "new" ELSE t.store)
  BY <1>2, StatementAt DEF Apply, IsTables, HasFields, TableFields
<1>3. /\ HasFields(a, SessFields) /\ a.tables = tables /\ a.work = work /\ a.open = open /\ a.cut = cut
      /\ \A f \in SessFields \ {"tables", "work", "open", "cut"} : a[f] = r[f]
  <2>1. CASE sess.pc = 1
    <3>1. a = [r EXCEPT !.tables = sight, !.work = sight, !.open = TRUE, !.cut = FALSE]
      BY <2>1, StatementAt DEF AtServer, Sight
    <3>2. /\ HasFields(a, SessFields) /\ a.tables = sight /\ a.work = sight /\ a.open = TRUE /\ a.cut = FALSE
          /\ \A f \in SessFields \ {"tables", "work", "open", "cut"} : a[f] = r[f]
      <4> HIDE DEF a, sight
      <4> QED BY <1>1, <3>1 DEF SessTypes, HasFields, SessFields
    <3> QED BY <2>1, <3>2
  <2>2. CASE sess.pc # 1 /\ r.open
    <3>1. a = [r EXCEPT !.work = work]
      BY <2>2, StatementAt DEF AtServer
    <3>2. /\ HasFields(a, SessFields) /\ a.work = work /\ \A f \in SessFields \ {"work"} : a[f] = r[f]
      <4> HIDE DEF a, work
      <4> QED BY <1>1, <3>1 DEF SessTypes, HasFields, SessFields
    <3>3. a.tables = r.tables /\ a.open = r.open /\ a.cut = r.cut
      BY <3>2 DEF SessFields
    <3> HIDE DEF a, work
    <3> QED BY <1>1, <2>2, <3>2, <3>3
  <2>3. CASE sess.pc # 1 /\ ~r.open
    <3>1. a = [r EXCEPT !.tables = tables]
      BY <2>3, StatementAt DEF AtServer
    <3>2. /\ HasFields(a, SessFields) /\ a.tables = tables /\ \A f \in SessFields \ {"tables"} : a[f] = r[f]
      <4> HIDE DEF a, tables
      <4> QED BY <1>1, <3>1 DEF SessTypes, HasFields, SessFields
    <3>3. a.work = r.work /\ a.open = r.open /\ a.cut = r.cut
      BY <3>2 DEF SessFields
    <3> HIDE DEF a, tables
    <3> QED BY <1>1, <2>3, <3>2, <3>3
  <2> QED BY <2>1, <2>2, <2>3
<1>4. /\ IsTables(work) /\ IsTables(tables)
      /\ sess.pc = 1 => work = sight /\ tables = sight
      /\ sess.pc # 1 /\ r.open =>
           /\ tables = r.tables
           /\ work.stat = (IF sess.pc = 3 THEN "new" ELSE r.work.stat)
           /\ work.items = (IF sess.pc = 4 THEN "none" ELSE IF sess.pc = 5 THEN "new" ELSE r.work.items)
           /\ work.store = (IF sess.pc = 6 THEN "none" ELSE IF sess.pc = 7 THEN "new" ELSE r.work.store)
  <2>1. CASE sess.pc = 1
    BY <1>1, <2>1
  <2>2. CASE sess.pc \in 3 .. 7
    BY <1>1, <1>2, <2>2
  <2> QED BY <2>1, <2>2
<1> HIDE DEF a, work, tables
<1>5. /\ a.pc = sess.pc /\ a.lock = r.lock /\ a.tries = r.tries /\ a.result = r.result
      /\ a.torn = r.torn /\ a.saw = r.saw
  BY <1>3 DEF SessFields
<1>6. open \in BOOLEAN /\ cut \in BOOLEAN /\ (open \/ cut) /\ (cut => r.torn)
  <2>1. r.pc \in 0 .. 8 /\ (r.cut => r.torn) /\ (~r.cut => (r.pc >= 2 => r.open))
    BY <1>1 DEF SaveGood, Unbroken, SessTypes
  <2> QED BY <1>1, <2>1
<1>7. SessTypes(a)
  <2>1. r.pc \in 0 .. 8 /\ r.tries \in Nat
    BY <1>1 DEF SessTypes
  <2> HIDE DEF open, cut
  <2> QED BY <1>1, <1>3, <1>4, <1>5, <1>6, <2>1 DEF SessTypes
<1>8. EndedWell(a) /\ SeenWhole(a)
  BY <1>5 DEF SaveGood, EndedWell, SeenWhole
<1>9. /\ HasFields(s, SessFields) /\ s.pc = sess.pc + 1 /\ s.tables = tables /\ s.work = work /\ s.open = open
      /\ s.lock = r.lock /\ s.tries = r.tries /\ s.result = r.result /\ s.cut = cut
      /\ s.torn = r.torn /\ s.saw = r.saw
  <2>1. /\ HasFields(s, SessFields) /\ s.pc = a.pc + 1
        /\ \A f \in SessFields \ {"pc"} : s[f] = a[f]
    BY <1>3 DEF HasFields, SessFields
  <2> HIDE DEF s, open, cut
  <2> QED BY <1>3, <1>5, <2>1 DEF SessFields
<1> HIDE DEF s
<1>10. r.result = "none"
  BY DEF SaveGood, EndedWell
<1>11. ASSUME ~r.torn PROVE sess.pc = 1 \/ r.open => AllOld(tables) \/ AllNew(tables)
  <2>1. CASE sess.pc = 1
    BY <1>4, <1>11, <2>1 DEF SaveGood, Unbroken, WorkAt
  <2>2. CASE sess.pc # 1
    BY <1>4, <1>11, <2>2 DEF SaveGood, Unbroken
  <2> QED BY <2>1, <2>2
<1>12. ASSUME ~r.torn PROVE AllOld(tables) \/ AllNew(tables)
  BY <1>6, <1>11, <1>12
<1>13. ASSUME open PROVE WorkAt(s)
  <2>1. CASE sess.pc = 1
    BY <1>4, <1>9, <2>1 DEF WorkAt
  <2>2. CASE sess.pc # 1
    <3>1. r.open /\ WorkAt(r)
      BY <1>13, <2>2 DEF SaveGood, Unbroken
    <3> QED BY <1>4, <1>9, <2>2, <3>1 DEF WorkAt
  <2> QED BY <2>1, <2>2
<1>14. open => ~cut
  BY DEF SaveGood, Unbroken
<1> HIDE DEF open, cut
<1>15. SaveGood(s)
  <2>1. SessTypes(s)
    <3>1. sess.pc + 1 \in 0 .. 8 /\ r.tries \in Nat
      BY <1>1 DEF SessTypes
    <3> QED BY <1>1, <1>4, <1>6, <1>9, <3>1 DEF SessTypes
  <2>2. SeenWhole(s)
    BY <1>9 DEF SaveGood, SeenWhole
  <2>3. EndedWell(s)
    <3>1. sess.pc >= 3 => r.lock = "game"
      BY DEF SaveGood, EndedWell
    <3>2. s.pc >= 3 => sess.pc >= 3
      BY <1>9
    <3> QED BY <1>9, <1>10, <3>1, <3>2 DEF EndedWell
  <2>4. Unbroken(s)
    BY <1>6, <1>9, <1>10, <1>12, <1>13, <1>14 DEF Unbroken
  <2> QED BY <2>1, <2>2, <2>3, <2>4 DEF SaveGood
<1>16. /\ (a.cut => a.torn) /\ (a.open \/ a.cut)
       /\ ~a.torn => AllOld(a.tables) \/ AllNew(a.tables)
       /\ a.result # "saved"
  BY <1>3, <1>5, <1>6, <1>10, <1>12
<1> QED BY <1>5, <1>7, <1>8, <1>15, <1>16 DEF a, s

LEMMA SaveQueryGood == ASSUME SaveGood(sess), SaveQuery PROVE SaveGood(sess)'
<1> DEFINE s == [sess EXCEPT !.busy = "none"]
<1>1. sess.pc \in {1, 3, 4, 5, 6, 7}
  <2>1. sess.pc \in 1 .. 8
    BY DEF SaveQuery, SaveGood, SessTypes
  <2> QED BY <2>1, StatementAt DEF SaveQuery
<1>2. /\ HasFields(s, SessFields) /\ \A f \in SessFields \ {"busy"} : s[f] = sess[f]
  BY DEF SaveGood, SessTypes, HasFields, SessFields
<1>3. SaveGood(s) /\ s.pc > 0
  BY <1>1, <1>2, SameGood DEF SessFields
<1>4. CASE sess' = [AtServer(s, Statement) EXCEPT !.pc = @ + 1]
  <2>1. s.pc = sess.pc
    BY <1>2 DEF SessFields
  <2> HIDE DEF s
  <2> QED BY <1>1, <1>3, <1>4, <2>1, StatementGood
<1>5. CASE sess' = SaveFailed(s)
  BY <1>3, <1>5, SaveFailedGood
<1>6. CASE sess' = SaveFailed([s EXCEPT !.err = @ - 1])
  <2> DEFINE e == [s EXCEPT !.err = @ - 1]
  <2> HIDE DEF s
  <2>1. HasFields(e, SessFields) /\ \A f \in SessFields \ {"err"} : e[f] = s[f]
    BY <1>2 DEF HasFields, SessFields
  <2> HIDE DEF e
  <2>2. SaveGood(e) /\ e.pc > 0
    BY <1>3, <2>1, SameGood DEF SessFields
  <2> QED BY <1>6, <2>2, SaveFailedGood DEF e
<1> QED BY <1>4, <1>5, <1>6 DEF SaveQuery

LEMMA SaveQueryLostGood == ASSUME SaveGood(sess), NEW done \in BOOLEAN, SaveQueryLost(done) PROVE SaveGood(sess)'
<1> DEFINE a == IF done THEN AtServer(sess, Statement) ELSE sess
<1>1. sess.pc \in {1, 3, 4, 5, 6, 7}
  <2>1. sess.pc \in 1 .. 8
    BY DEF SaveQueryLost, SaveGood, SessTypes
  <2> QED BY <2>1, StatementAt DEF SaveQueryLost
<1>2. sess' = [LinkLost(a) EXCEPT !.busy = "game"]
  BY DEF SaveQueryLost
<1>3. /\ SessTypes(a) /\ EndedWell(a) /\ SeenWhole(a) /\ (a.cut => a.torn)
      /\ a.pc > 1 => a.open \/ a.cut
      /\ a.pc <= 1 \/ ~a.open => /\ ~a.torn => AllOld(a.tables) \/ AllNew(a.tables)
                                 /\ ~a.cut /\ a.result = "saved" => AllNew(a.tables)
  <2>1. CASE done
    BY <1>1, <2>1, StatementGood
  <2>2. CASE ~done
    BY <2>2, GoodMayLose
  <2> QED BY <2>1, <2>2
<1> HIDE DEF a
<1> QED BY <1>2, <1>3, LinkLostGood

\* Database::beginTransaction has carried out BEGIN and takes the lock.
LEMMA HoldLockGood == ASSUME SaveGood(sess), HoldLock PROVE SaveGood(sess)'
<1>1. sess.pc = 2 /\ sess.pc + 1 = 3 /\ sess' = [sess EXCEPT !.lock = "game", !.pc = sess.pc + 1]
  <2>1. sess.pc \in 1 .. 8
    BY DEF HoldLock, SaveGood, SessTypes
  <2>2. sess.pc = 2
    BY <2>1, StatementAt DEF HoldLock
  <2> QED BY <2>2 DEF HoldLock
<1>2. /\ HasFields(sess', SessFields) /\ sess'.pc = 3 /\ sess'.lock = "game"
      /\ \A f \in SessFields \ {"lock", "pc"} : sess'[f] = sess[f]
  BY <1>1 DEF SaveGood, SessTypes, HasFields, SessFields
<1>3. /\ sess'.tables = sess.tables /\ sess'.work = sess.work /\ sess'.tries = sess.tries
      /\ sess'.open = sess.open /\ sess'.cut = sess.cut /\ sess'.torn = sess.torn
      /\ sess'.saw = sess.saw /\ sess'.result = sess.result
  BY <1>2 DEF SessFields
<1>4. SessTypes(sess') /\ Unbroken(sess')
  BY <1>1, <1>2, <1>3 DEF SaveGood, SessTypes, Unbroken, WorkAt
<1>5. SeenWhole(sess') /\ EndedWell(sess')
  BY <1>1, <1>2, <1>3 DEF SaveGood, SeenWhole, EndedWell
<1> QED BY <1>4, <1>5 DEF SaveGood

\* Database::commit: the whole save, or another try.
LEMMA CommitSaveGood == ASSUME SaveGood(sess), CommitSave PROVE SaveGood(sess)'
<1> DEFINE s == [sess EXCEPT !.lock = "none"]
           sight == Sight(s)
           c == [s EXCEPT !.tables = sight, !.open = FALSE]
<1>1. sess.pc = 8
  <2>1. sess.pc \in 1 .. 8
    BY DEF CommitSave, SaveGood, SessTypes
  <2> QED BY <2>1, StatementAt DEF CommitSave
<1>2. \/ sess' = [c EXCEPT !.pc = 0, !.result = "saved"]
      \/ sess' = Again([s EXCEPT !.err = @ - 1])
      \/ sess' = Again(LinkLost(s))
      \/ sess' = Again(LinkLost(c))
  BY DEF CommitSave
<1>3. /\ HasFields(s, SessFields) /\ s.lock = "none" /\ \A f \in SessFields \ {"lock"} : s[f] = sess[f]
  BY DEF SaveGood, SessTypes, HasFields, SessFields
<1> HIDE DEF s
<1>4. /\ s.tables = sess.tables /\ s.work = sess.work /\ s.tries = sess.tries /\ s.pc = 8
      /\ s.open = sess.open /\ s.cut = sess.cut /\ s.torn = sess.torn
      /\ s.saw = sess.saw /\ s.result = sess.result
  BY <1>1, <1>3 DEF SessFields
<1>5. SessTypes(s) /\ Unbroken(s) /\ SeenWhole(s) /\ s.result = "none" /\ s.lock = "none"
  <2>1. SessTypes(s) /\ Unbroken(s)
    BY <1>1, <1>3, <1>4 DEF SaveGood, SessTypes, Unbroken, WorkAt
  <2>2. SeenWhole(s) /\ s.result = "none"
    BY <1>1, <1>4 DEF SaveGood, SeenWhole, EndedWell
  <2> QED BY <1>3, <2>1, <2>2
<1>6. /\ s.open \/ s.cut
      /\ s.open => ~s.cut /\ AllNew(s.work) /\ AllNew(sight)
      /\ ~s.open => sight = s.tables
      /\ s.cut => s.torn
      /\ ~s.torn => AllOld(s.tables) \/ AllNew(s.tables)
  BY <1>4, <1>5 DEF Unbroken, WorkAt, AllNew, Sight
<1>7. IsTables(sight) /\ IsTables(s.tables) /\ IsTables(s.work)
  BY <1>5 DEF SessTypes, Sight
<1> HIDE DEF sight
<1>8. /\ HasFields(c, SessFields) /\ c.tables = sight /\ c.open = FALSE
      /\ \A f \in SessFields \ {"tables", "open"} : c[f] = s[f]
  BY <1>3 DEF HasFields, SessFields
<1> HIDE DEF c
<1>9. /\ c.work = s.work /\ c.tries = s.tries /\ c.pc = 8 /\ c.cut = s.cut /\ c.torn = s.torn
      /\ c.saw = s.saw /\ c.result = "none" /\ c.lock = "none"
  BY <1>4, <1>5, <1>8 DEF SessFields
<1>10. SessTypes(c) /\ SeenWhole(c)
  <2>1. s.tries \in Nat /\ s.cut \in BOOLEAN /\ s.torn \in BOOLEAN
    BY <1>5 DEF SessTypes
  <2>2. c.pc \in 0 .. 8
    BY <1>9
  <2>3. c.open \in BOOLEAN
    BY <1>8
  <2>4. SessTypes(c)
    BY <1>7, <1>8, <1>9, <2>1, <2>2, <2>3 DEF SessTypes
  <2>5. SeenWhole(c)
    BY <1>5, <1>9 DEF SeenWhole
  <2> QED BY <2>4, <2>5
<1>11. /\ c.cut => c.torn
       /\ ~c.torn => AllOld(c.tables) \/ AllNew(c.tables)
       /\ ~c.cut => AllNew(c.tables)
  BY <1>6, <1>8, <1>9
<1>12. CASE sess' = [c EXCEPT !.pc = 0, !.result = "saved"]
  <2>1. /\ HasFields(sess', SessFields) /\ sess'.pc = 0 /\ sess'.result = "saved"
        /\ \A f \in SessFields \ {"pc", "result"} : sess'[f] = c[f]
    BY <1>8, <1>12 DEF HasFields, SessFields
  <2>2. /\ sess'.tables = c.tables /\ sess'.work = c.work /\ sess'.tries = c.tries
        /\ sess'.open = FALSE /\ sess'.cut = c.cut /\ sess'.torn = c.torn /\ sess'.lock = "none"
        /\ sess'.saw = c.saw
    BY <1>8, <1>9, <2>1 DEF SessFields
  <2>3. SessTypes(sess')
    <3>1. IsTables(c.tables) /\ IsTables(c.work) /\ c.tries \in Nat /\ c.cut \in BOOLEAN /\ c.torn \in BOOLEAN
      BY <1>10 DEF SessTypes
    <3>2. sess'.pc \in 0 .. 8
      BY <2>1
    <3>3. sess'.open \in BOOLEAN
      BY <2>2
    <3> QED BY <2>1, <2>2, <3>1, <3>2, <3>3 DEF SessTypes
  <2>4. Unbroken(sess')
    BY <1>11, <2>1, <2>2 DEF Unbroken
  <2>5. SeenWhole(sess')
    BY <1>10, <2>2 DEF SeenWhole
  <2>6. EndedWell(sess')
    BY <2>1, <2>2 DEF EndedWell
  <2> QED BY <2>3, <2>4, <2>5, <2>6 DEF SaveGood
<1>13. CASE sess' = Again([s EXCEPT !.err = @ - 1])
  <2> DEFINE e == [s EXCEPT !.err = @ - 1]
  <2>1. HasFields(e, SessFields) /\ \A f \in SessFields \ {"err"} : e[f] = s[f]
    BY <1>3 DEF HasFields, SessFields
  <2>2. sess' = Again(e)
    BY <1>13
  <2> HIDE DEF e
  <2>3. /\ e.result = s.result /\ e.lock = s.lock /\ e.cut = s.cut /\ e.torn = s.torn /\ e.open = s.open
        /\ e.tables = s.tables /\ e.work = s.work /\ e.saw = s.saw /\ e.pc = s.pc /\ e.tries = s.tries
    BY <2>1 DEF SessFields
  <2>4. SessTypes(e) /\ SeenWhole(e)
    BY <1>5, <2>1, <2>3 DEF SessTypes, SeenWhole
  <2> QED BY <1>5, <1>6, <2>2, <2>3, <2>4, AgainGood
<1>14. CASE sess' = Again(LinkLost(s))
  <2> DEFINE l == LinkLost(s)
  <2>1. sess' = Again(l)
    BY <1>14
  <2>2. /\ HasFields(l, SessFields) /\ l.open = FALSE
        /\ l.cut = (s.cut \/ (s.open /\ s.pc > 1)) /\ l.torn = (s.torn \/ (s.open /\ s.pc > 1))
        /\ \A f \in SessFields \ {"open", "cut", "torn", "lost"} : l[f] = s[f]
    BY <1>3 DEF LinkLost, HasFields, SessFields
  <2> HIDE DEF l
  <2>3. /\ l.tables = s.tables /\ l.work = s.work /\ l.tries = s.tries /\ l.lock = s.lock
        /\ l.saw = s.saw /\ l.pc = s.pc /\ l.result = s.result
    BY <2>2 DEF SessFields
  <2>4. l.cut \in BOOLEAN /\ l.torn \in BOOLEAN /\ l.open \in BOOLEAN
    BY <2>2
  <2>5. SessTypes(l)
    BY <1>5, <2>2, <2>3, <2>4 DEF SessTypes
  <2>6. SeenWhole(l)
    BY <1>5, <2>2, <2>3 DEF SeenWhole
  <2>7. l.cut => l.torn
    BY <1>6, <2>2
  <2>8. ~l.torn => AllOld(l.tables) \/ AllNew(l.tables)
    BY <1>6, <2>2, <2>3
  <2> QED BY <1>5, <2>1, <2>2, <2>3, <2>5, <2>6, <2>7, <2>8, AgainGood
<1>15. CASE sess' = Again(LinkLost(c))
  <2> DEFINE l == LinkLost(c)
  <2>1. sess' = Again(l)
    BY <1>15
  <2>2. /\ HasFields(l, SessFields) /\ l.open = FALSE
        /\ l.cut = (c.cut \/ (c.open /\ c.pc > 1)) /\ l.torn = (c.torn \/ (c.open /\ c.pc > 1))
        /\ \A f \in SessFields \ {"open", "cut", "torn", "lost"} : l[f] = c[f]
    BY <1>8 DEF LinkLost, HasFields, SessFields
  <2> HIDE DEF l
  <2>3. /\ l.tables = c.tables /\ l.work = c.work /\ l.tries = c.tries /\ l.lock = c.lock
        /\ l.saw = c.saw /\ l.pc = c.pc /\ l.result = c.result
    BY <2>2 DEF SessFields
  <2>4. l.cut = c.cut /\ l.torn = c.torn /\ l.open \in BOOLEAN
    <3>1. c.cut \in BOOLEAN /\ c.torn \in BOOLEAN
      BY <1>10 DEF SessTypes
    <3> QED BY <1>8, <2>2, <3>1
  <2>5. SessTypes(l)
    BY <1>10, <2>2, <2>3, <2>4 DEF SessTypes
  <2>6. SeenWhole(l)
    BY <1>10, <2>3, <2>4 DEF SeenWhole
  <2> QED BY <1>9, <1>11, <2>1, <2>2, <2>3, <2>4, <2>5, <2>6, AgainGood
<1> QED BY <1>2, <1>12, <1>13, <1>14, <1>15

\* Database::storeQuery on the network thread: who gets the lock finds no statement
\* between BEGIN and the end.
LEMMA LoginReadGood == ASSUME SaveGood(sess), LoginRead PROVE SaveGood(sess)'
<1> DEFINE s == [sess EXCEPT !.busy = "none", !.reads = @ - 1]
<1>1. /\ sess.lock = "none"
      /\ sess' = [s EXCEPT !.saw = Parts(Sight(s))] \/ sess' = [s EXCEPT !.err = @ - 1]
  BY DEF LoginRead
<1>2. HasFields(s, SessFields) /\ \A f \in SessFields \ {"busy", "reads"} : s[f] = sess[f]
  BY DEF SaveGood, SessTypes, HasFields, SessFields
<1> HIDE DEF s
<1>3. SaveGood(s) /\ s.lock = "none"
  BY <1>1, <1>2, SameGood DEF SessFields
<1>4. CASE sess' = [s EXCEPT !.err = @ - 1]
  <2>1. HasFields(sess', SessFields) /\ \A f \in SessFields \ {"err"} : sess'[f] = s[f]
    BY <1>2, <1>4 DEF HasFields, SessFields
  <2> QED BY <1>3, <2>1, SameGood
<1>5. CASE sess' = [s EXCEPT !.saw = Parts(Sight(s))]
  <2> DEFINE p == Parts(Sight(s))
  <2>1. sess' = [s EXCEPT !.saw = p]
    BY <1>5
  <2>2. ~s.torn => p = {"old"} \/ p = {"new"}
    <3>1. s.pc \in 0 .. 2
      BY <1>3 DEF SaveGood, SessTypes, EndedWell
    <3>2. ~s.torn => AllOld(Sight(s)) \/ AllNew(Sight(s))
      BY <1>3, <3>1 DEF SaveGood, Unbroken, WorkAt, Sight, AllOld, AllNew
    <3> QED BY <3>2 DEF Parts, AllOld, AllNew
  <2> HIDE DEF p
  <2>3. /\ HasFields(sess', SessFields) /\ sess'.saw = p
        /\ \A f \in SessFields \ {"saw"} : sess'[f] = s[f]
    BY <1>2, <2>1 DEF HasFields, SessFields
  <2>4. /\ sess'.tables = s.tables /\ sess'.work = s.work /\ sess'.open = s.open /\ sess'.lock = s.lock
        /\ sess'.tries = s.tries /\ sess'.cut = s.cut /\ sess'.torn = s.torn
        /\ sess'.pc = s.pc /\ sess'.result = s.result
    BY <2>3 DEF SessFields
  <2>5. SessTypes(sess')
    BY <1>3, <2>3, <2>4 DEF SaveGood, SessTypes
  <2>6. Unbroken(sess')
    BY <1>3, <2>4 DEF SaveGood, Unbroken, WorkAt
  <2>7. SeenWhole(sess')
    BY <2>2, <2>3, <2>4 DEF SeenWhole
  <2>8. EndedWell(sess')
    BY <1>3, <2>4 DEF SaveGood, EndedWell
  <2> QED BY <2>5, <2>6, <2>7, <2>8 DEF SaveGood
<1> QED BY <1>1, <1>4, <1>5

LEMMA LoginReadLostGood == ASSUME SaveGood(sess), LoginReadLost PROVE SaveGood(sess)'
<1>1. sess' = [LinkLost(sess) EXCEPT !.busy = "net"]
  BY DEF LoginReadLost
<1> QED BY <1>1, GoodMayLose, LinkLostGood

LEMMA PersistInitGood == PersistInit => SaveGood(sess)
<1> SUFFICES ASSUME PersistInit PROVE SaveGood(sess)
  OBVIOUS
<1>1. sess = [NoSess EXCEPT !.pc = 1] \/ sess = [NoSess EXCEPT !.reads = 0]
  BY DEF PersistInit
<1>2. /\ HasFields(sess, SessFields) /\ sess.pc \in {0, 1} /\ sess.tables = Tables /\ sess.work = Tables
      /\ sess.open = FALSE /\ sess.lock = "none" /\ sess.tries = 0 /\ sess.result = "none"
      /\ sess.cut = FALSE /\ sess.torn = FALSE /\ sess.saw = {}
  <2>1. CASE sess = [NoSess EXCEPT !.pc = 1]
    BY <2>1 DEF NoSess, HasFields, SessFields
  <2>2. CASE sess = [NoSess EXCEPT !.reads = 0]
    BY <2>2 DEF NoSess, HasFields, SessFields
  <2> QED BY <1>1, <2>1, <2>2
<1>3. IsTables(Tables) /\ AllOld(Tables)
  BY DEF Tables, IsTables, HasFields, TableFields, AllOld
<1>4. SessTypes(sess)
  <2>1. sess.open \in BOOLEAN /\ sess.cut \in BOOLEAN /\ sess.torn \in BOOLEAN
    BY <1>2
  <2>2. sess.pc \in 0 .. 8 /\ sess.tries \in Nat
    BY <1>2
  <2> QED BY <1>2, <1>3, <2>1, <2>2 DEF SessTypes
<1>5. Unbroken(sess)
  BY <1>2, <1>3 DEF Unbroken
<1>6. SeenWhole(sess) /\ EndedWell(sess)
  BY <1>2 DEF SeenWhole, EndedWell
<1> QED BY <1>4, <1>5, <1>6 DEF SaveGood

LEMMA PersistNextGood == ASSUME SaveGood(sess), [PersistNext]_persistVars PROVE SaveGood(sess)'
<1>1. ASSUME sess' = sess PROVE SaveGood(sess)'
  BY <1>1
<1>2. ASSUME NEW h, NEW fresh, Change(h, fresh) PROVE sess' = sess
  BY <1>2 DEF Change
<1>3. ASSUME NEW x, NEW y, IntoBox(x, y) \/ IntoChest(x) \/ PutToSlot(x, y) \/ SendItem(x) PROVE sess' = sess
  BY <1>2, <1>3 DEF IntoBox, IntoChest, PutToSlot, SendItem
<1>4. ASSUME OpenDepotChest \/ SaveGameState \/ LogoutPlayer \/ LoginPlayer \/ Crash PROVE sess' = sess
  BY <1>2, <1>4 DEF OpenDepotChest, SaveGameState, LogoutPlayer, LoginPlayer, Crash
<1>5. CASE UNCHANGED persistVars
  BY <1>1, <1>5 DEF persistVars
<1> QED BY <1>1, <1>3, <1>4, <1>5, SaveQueryGood, SaveQueryLostGood, HoldLockGood, CommitSaveGood,
           LoginReadGood, LoginReadLostGood DEF PersistNext

\* The save of a player and the reads of the network thread on its connection stay as
\* they should be (iologindata.cpp, database.cpp).
THEOREM SaveInvariant == PersistSpec => []SaveGood(sess)
<1> QED BY PersistInitGood, PersistNextGood, PTL DEF PersistSpec

\* Whatever statements fail, whenever the connection is lost outside a transaction, and
\* wherever the network thread's reads fall, the player in the database and what is read
\* of it is the one of before or the one of the save; a save reported whose own
\* transaction was not cut is all there; the lock is given back (savePlayer,
\* DBTransaction, Database::executeQuery, Database::storeQuery).
THEOREM SaveIsAlwaysWhole == PersistSpec => []SaveIsWhole
<1>1. SaveGood(sess) => SaveIsWhole
  <2> SUFFICES ASSUME SaveGood(sess) PROVE SaveIsWhole
    OBVIOUS
  <2>1. ~sess.torn => Parts(sess.tables) = {"old"} \/ Parts(sess.tables) = {"new"}
    BY DEF SaveGood, Unbroken, AllOld, AllNew, Parts
  <2>2. ~sess.cut /\ sess.result = "saved" => Parts(sess.tables) = {"new"}
    BY DEF SaveGood, Unbroken, AllNew, Parts
  <2>3. ~sess.torn => sess.saw = {} \/ sess.saw = {"old"} \/ sess.saw = {"new"}
    BY DEF SaveGood, SeenWhole
  <2>4. sess.pc = 0 => sess.lock = "none"
    BY DEF SaveGood, EndedWell
  <2> QED BY <2>1, <2>2, <2>3, <2>4 DEF SaveIsWhole
<1> QED BY SaveInvariant, <1>1, PTL
===============================================================================
