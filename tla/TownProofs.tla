------------------------------- MODULE TownProofs -------------------------------
(***************************************************************************)
(* Proofs about what the town keeps for its players.                       *)
(*                                                                         *)
(* The house: whoever is inside is welcome, bed and sleepers agree, and    *)
(* paid rent is remembered, through every change of owner and of lists,    *)
(* every stop and every crash, for any tenants, belongings and rent.  The  *)
(* channels and guilds: who hears is in the game and has a window, and     *)
(* guilds know their members.  The walk: requests are carried out once and *)
(* in reach, and a walk with cells left is driven on.                      *)
(***************************************************************************)
EXTENDS Houses, Chat, Walking, FiniteSetTheorems, TLAPS

-------------------------------------------------------------------------------
(* The shape of the records: the fields are there.  Their types matter only  *)
(* where the argument needs them.                                            *)
HouseFields == {"owner", "lists", "paid", "warn", "tile", "bed", "bedMap", "on", "mem",
                "edit", "doc", "kick", "day", "charged", "unsaved"}
DbFields == {"row", "owner", "paid", "warn", "lists", "tile"}
CopyFields == {"bank", "at", "depot", "opened"}

\* r is a record with the fields of F.
HasFields(r, F) == DOMAIN r = F /\ r = [f \in F |-> r[f]]

\* The lists are there, and each player in the game has a copy.
WellFormed(h) ==
    /\ HasFields(h, HouseFields)
    /\ HasFields(h.lists, Lists)
    /\ h.on \subseteq Tenants
    /\ HasFields(h.mem, h.on) /\ \A p \in h.on : HasFields(h.mem[p], CopyFields)
    /\ h.paid \in Nat /\ h.charged \in Nat /\ h.day \in Nat /\ h.unsaved \in BOOLEAN

\* Whoever is inside and not about to be logged out is welcome.
OnlyWelcome(h) ==
    \A p \in h.on : h.mem[p].at = "in" /\ p \notin h.kick => IsWelcome(h, p)

\* Who sleeps in the bed is in the map of sleepers.
BedAgrees(h) == h.bedMap = {h.bed} \ {NoOne}

\* What has been paid for is known, unless a stop lost the map.
PaidUp(h) == ~h.unsaved => h.paid >= h.charged

GoodHouse(h) == WellFormed(h) /\ OnlyWelcome(h) /\ BedAgrees(h) /\ PaidUp(h)

GoodDb(d) ==
    /\ HasFields(d, DbFields)
    /\ HasFields(d.lists, Lists)
    /\ d.paid \in Nat

HouseInv == GoodHouse(hs) /\ GoodDb(db)

\* What may be changed without any effect on the rest.
LEMMA SameGood ==
    ASSUME NEW h, GoodHouse(h), NEW g, HasFields(g, HouseFields),
           g.owner = h.owner, g.lists = h.lists, g.paid = h.paid, g.charged = h.charged,
           g.bed = h.bed, g.bedMap = h.bedMap, g.on = h.on, g.kick = h.kick,
           g.unsaved = h.unsaved, g.day \in Nat,
           HasFields(g.mem, h.on), \A p \in h.on : HasFields(g.mem[p], CopyFields),
           \A p \in h.on : g.mem[p].at = "in" => h.mem[p].at = "in"
    PROVE  GoodHouse(g)
<1>1. WellFormed(g)
  BY DEF GoodHouse, WellFormed
<1>2. OnlyWelcome(g)
  BY DEF GoodHouse, WellFormed, OnlyWelcome, IsWelcome, AccessLevel, IsInList
<1> QED BY <1>1, <1>2 DEF GoodHouse, BedAgrees, PaidUp

\* Whoever is put out is out, nobody else moves.
LEMMA PutOutFacts ==
    ASSUME NEW h, WellFormed(h), NEW p, NEW ts
    PROVE  LET g == PutOut(h, p, ts)
               out == {t \in ts \cap Inside(h) : AccessLevel(h, p) >= AccessLevel(h, t)}
           IN  /\ HasFields(g, HouseFields)
               /\ \A f \in HouseFields \ {"mem"} : g[f] = h[f]
               /\ HasFields(g.mem, h.on) /\ \A t \in h.on : HasFields(g.mem[t], CopyFields)
               /\ \A t \in h.on : g.mem[t].at = IF t \in out THEN "out" ELSE h.mem[t].at
<1> DEFINE out == {t \in ts \cap Inside(h) : AccessLevel(h, p) >= AccessLevel(h, t)}
           mem == [t \in h.on |-> IF t \in out THEN [h.mem[t] EXCEPT !.at = "out"] ELSE h.mem[t]]
           g == PutOut(h, p, ts)
<1>1. g = [h EXCEPT !.mem = mem]
  BY DEF PutOut
<1> HIDE DEF g, out
<1>2. HasFields(mem, h.on)
  BY DEF HasFields
<1>3. \A t \in h.on : HasFields(mem[t], CopyFields)
  BY DEF WellFormed, HasFields, CopyFields
<1>4. \A t \in h.on : mem[t].at = IF t \in out THEN "out" ELSE h.mem[t].at
  BY DEF WellFormed, HasFields, CopyFields
<1> HIDE DEF mem
<1>5. HasFields(g, HouseFields) /\ g.mem = mem /\ \A f \in HouseFields \ {"mem"} : g[f] = h[f]
  BY <1>1 DEF WellFormed, HasFields, HouseFields
<1> QED BY <1>2, <1>3, <1>4, <1>5 DEF g, out

\* The access levels; nobody, nullptr in the code, has the highest.
LEMMA AccessFacts ==
    ASSUME NEW h, NEW p
    PROVE  AccessLevel(h, p) \in 0..3 /\ AccessLevel(h, NoOne) = 3
BY DEF AccessLevel

\* Owner and lists decide who is welcome.
LEMMA WelcomeSame ==
    ASSUME NEW h, NEW g, g.owner = h.owner, g.lists = h.lists, NEW p
    PROVE  IsWelcome(g, p) <=> IsWelcome(h, p)
BY DEF IsWelcome, AccessLevel, IsInList

\* Putting players out leaves a good house good.
LEMMA PutOutGood ==
    ASSUME NEW h, GoodHouse(h), NEW p, NEW ts
    PROVE  GoodHouse(PutOut(h, p, ts))
<1> DEFINE g == PutOut(h, p, ts)
<1>1. WellFormed(h)
  BY DEF GoodHouse
<1>2. /\ HasFields(g, HouseFields)
      /\ \A f \in HouseFields \ {"mem"} : g[f] = h[f]
      /\ HasFields(g.mem, h.on) /\ \A t \in h.on : HasFields(g.mem[t], CopyFields)
      /\ \A t \in h.on : g.mem[t].at = "in" => h.mem[t].at = "in"
  BY <1>1, PutOutFacts
<1> HIDE DEF g
<1>3. /\ g.owner = h.owner /\ g.lists = h.lists /\ g.paid = h.paid /\ g.charged = h.charged
      /\ g.bed = h.bed /\ g.bedMap = h.bedMap /\ g.on = h.on /\ g.kick = h.kick
      /\ g.unsaved = h.unsaved /\ g.day \in Nat
  BY <1>1, <1>2 DEF HouseFields, WellFormed
<1>4. GoodHouse(g)
  BY <1>2, <1>3, SameGood
<1> QED BY <1>4 DEF g

\* A changed list puts out everybody it leaves without a right to be there.
LEMMA SetAccessListGood ==
    ASSUME NEW h, GoodHouse(h), NEW list, NEW names
    PROVE  GoodHouse(SetAccessList(h, list, names))
<1> DEFINE g == [h EXCEPT !.lists[list] = names]
<1>1. /\ HasFields(g, HouseFields)
      /\ g.lists = [h.lists EXCEPT ![list] = names]
      /\ g.owner = h.owner /\ g.paid = h.paid /\ g.charged = h.charged
      /\ g.bed = h.bed /\ g.bedMap = h.bedMap /\ g.on = h.on /\ g.kick = h.kick
      /\ g.unsaved = h.unsaved /\ g.day = h.day /\ g.mem = h.mem
  BY DEF GoodHouse, WellFormed, HasFields, HouseFields
<1>2. HasFields(g.lists, Lists)
  BY <1>1 DEF GoodHouse, WellFormed, HasFields
<1> HIDE DEF g
<1>3. WellFormed(g)
  BY <1>1, <1>2 DEF GoodHouse, WellFormed
<1>4. BedAgrees(g) /\ PaidUp(g)
  BY <1>1 DEF GoodHouse, BedAgrees, PaidUp
<1>5. CASE list = "door"
  <2>1. g.lists["sub"] = h.lists["sub"] /\ g.lists["guest"] = h.lists["guest"]
    BY <1>1, <1>5 DEF GoodHouse, WellFormed, HasFields, Lists
  <2>2. \A p : IsWelcome(g, p) <=> IsWelcome(h, p)
    BY <1>1, <2>1 DEF IsWelcome, AccessLevel, IsInList
  <2>3. OnlyWelcome(g)
    BY <1>1, <2>2 DEF GoodHouse, OnlyWelcome
  <2> QED BY <1>3, <1>4, <1>5, <2>3 DEF SetAccessList, GoodHouse, g
<1>6. CASE list # "door"
  <2> DEFINE ts == {t \in Inside(g) : ~IsWelcome(g, t)}
             o == PutOut(g, NoOne, ts)
             out == {t \in ts \cap Inside(g) : AccessLevel(g, NoOne) >= AccessLevel(g, t)}
  <2>1. /\ HasFields(o, HouseFields)
        /\ \A f \in HouseFields \ {"mem"} : o[f] = g[f]
        /\ HasFields(o.mem, g.on) /\ \A t \in g.on : HasFields(o.mem[t], CopyFields)
        /\ \A t \in g.on : o.mem[t].at = IF t \in out THEN "out" ELSE g.mem[t].at
    BY <1>3, PutOutFacts
  <2>2. out = ts
    <3>1. \A t : AccessLevel(g, NoOne) >= AccessLevel(g, t)
      BY AccessFacts
    <3> QED BY <3>1
  <2>3. SetAccessList(h, list, names) = o
    BY <1>6 DEF SetAccessList, g
  <2> HIDE DEF o, out
  <2>4. /\ o.owner = g.owner /\ o.lists = g.lists /\ o.paid = g.paid /\ o.charged = g.charged
        /\ o.bed = g.bed /\ o.bedMap = g.bedMap /\ o.on = g.on /\ o.kick = g.kick
        /\ o.unsaved = g.unsaved /\ o.day = g.day
    BY <2>1 DEF HouseFields
  <2>5. WellFormed(o)
    BY <1>3, <2>1, <2>4 DEF WellFormed
  <2>6. OnlyWelcome(o)
    <3> SUFFICES ASSUME NEW t \in o.on, o.mem[t].at = "in"
                 PROVE  IsWelcome(o, t)
      BY DEF OnlyWelcome
    <3>1. t \in g.on /\ t \notin ts
      BY <2>1, <2>2, <2>4
    <3>2. g.mem[t].at = "in"
      BY <2>1, <2>2, <3>1
    <3>3. IsWelcome(g, t)
      BY <3>1, <3>2 DEF Inside
    <3> QED BY <2>4, <3>3, WelcomeSame
  <2>7. BedAgrees(o) /\ PaidUp(o)
    BY <1>4, <2>4 DEF BedAgrees, PaidUp
  <2> QED BY <2>3, <2>5, <2>6, <2>7 DEF GoodHouse
<1> QED BY <1>5, <1>6

\* When the house is vacated nobody is inside or in bed and nothing is owed.
LEMMA VacateGood ==
    ASSUME NEW h, GoodHouse(h)
    PROVE  GoodHouse(Vacate(h)) /\ \A p \in Vacate(h).on : Vacate(h).mem[p].at # "in"
<1> DEFINE o == PutOut(h, NoOne, Tenants)
           out == {t \in Tenants \cap Inside(h) : AccessLevel(h, NoOne) >= AccessLevel(h, t)}
           v == Vacate(h)
<1>0. WellFormed(h)
  BY DEF GoodHouse
<1>1. /\ HasFields(o, HouseFields)
      /\ \A f \in HouseFields \ {"mem"} : o[f] = h[f]
      /\ HasFields(o.mem, h.on) /\ \A t \in h.on : HasFields(o.mem[t], CopyFields)
      /\ \A t \in h.on : o.mem[t].at = IF t \in out THEN "out" ELSE h.mem[t].at
  BY <1>0, PutOutFacts
<1>2. out = Inside(h)
  <2>1. \A t : AccessLevel(h, NoOne) >= AccessLevel(h, t)
    BY AccessFacts
  <2> QED BY <1>0, <2>1 DEF Inside, WellFormed
<1> HIDE DEF out
<1>3. v = [[o EXCEPT !.bedMap = @ \ {o.bed}, !.bed = NoOne] EXCEPT
             !.owner = NoOne, !.lists = [l \in Lists |-> {}], !.paid = 0, !.warn = 0,
             !.charged = 0]
  BY DEF Vacate, WakeUp
<1> HIDE DEF o, v
<1>4. \A t \in h.on : o.mem[t].at # "in"
  BY <1>1, <1>2 DEF Inside
<1>5. /\ o.bedMap = h.bedMap /\ o.bed = h.bed /\ o.on = h.on
      /\ o.day = h.day /\ o.unsaved = h.unsaved
  BY <1>1 DEF HouseFields
<1>6. /\ HasFields(v, HouseFields)
      /\ v.bedMap = o.bedMap \ {o.bed} /\ v.bed = NoOne /\ v.lists = [l \in Lists |-> {}]
      /\ v.paid = 0 /\ v.charged = 0 /\ v.on = o.on /\ v.mem = o.mem
      /\ v.day = o.day /\ v.unsaved = o.unsaved
  BY <1>1, <1>3 DEF HasFields, HouseFields
<1>7. WellFormed(v)
  <2>1. HasFields(v.lists, Lists)
    BY <1>6 DEF HasFields
  <2>2. HasFields(v.mem, v.on) /\ \A t \in v.on : HasFields(v.mem[t], CopyFields)
    BY <1>1, <1>5, <1>6
  <2> QED BY <1>0, <1>5, <1>6, <2>1, <2>2 DEF WellFormed
<1>8. OnlyWelcome(v) /\ PaidUp(v) /\ \A p \in v.on : v.mem[p].at # "in"
  BY <1>4, <1>5, <1>6 DEF OnlyWelcome, PaidUp
<1>9. BedAgrees(v)
  BY <1>5, <1>6 DEF BedAgrees, GoodHouse
<1> QED BY <1>7, <1>8, <1>9 DEF GoodHouse, v

\* Saving a player changes his row only.
LEMMA SaveTenantGood ==
    ASSUME NEW d, GoodDb(d), NEW p, NEW c
    PROVE  LET e == SaveTenant(d, p, c)
           IN  /\ GoodDb(e) /\ e.owner = d.owner /\ e.paid = d.paid /\ e.lists = d.lists
               /\ e.tile = d.tile
BY DEF GoodDb, SaveTenant, HasFields, DbFields

\* Things go to a depot.
LEMMA TransferGood ==
    ASSUME NEW h, GoodHouse(h), NEW d, GoodDb(d), NEW copy
    PROVE  LET t == TransferToDepot(h, d, copy)
           IN  /\ t = [h |-> t.h, d |-> t.d, copy |-> t.copy]
               /\ GoodHouse(t.h) /\ GoodDb(t.d)
<1> DEFINE o == h.owner
           tmp == LoadTenant(d, o)
           t == TransferToDepot(h, d, copy)
           g1 == [h EXCEPT !.tile = {}]
           g2 == [h EXCEPT !.tile = {}, !.mem[o].depot = @ \cup h.tile]
<1>1. GoodHouse(g1)
  <2>1. /\ HasFields(g1, HouseFields)
        /\ g1.owner = h.owner /\ g1.lists = h.lists /\ g1.paid = h.paid
        /\ g1.charged = h.charged /\ g1.bed = h.bed /\ g1.bedMap = h.bedMap
        /\ g1.on = h.on /\ g1.kick = h.kick /\ g1.unsaved = h.unsaved /\ g1.day = h.day
        /\ g1.mem = h.mem
    BY DEF GoodHouse, WellFormed, HasFields, HouseFields
  <2> HIDE DEF g1
  <2> QED BY <2>1, SameGood DEF GoodHouse, WellFormed
<1>2. o \in h.on => GoodHouse(g2)
  <2> SUFFICES ASSUME o \in h.on PROVE GoodHouse(g2)
    OBVIOUS
  <2> DEFINE mem == [h.mem EXCEPT ![o] = [h.mem[o] EXCEPT !.depot = @ \cup h.tile]]
  <2>1. /\ HasFields(g2, HouseFields)
        /\ g2.owner = h.owner /\ g2.lists = h.lists /\ g2.paid = h.paid
        /\ g2.charged = h.charged /\ g2.bed = h.bed /\ g2.bedMap = h.bedMap
        /\ g2.on = h.on /\ g2.kick = h.kick /\ g2.unsaved = h.unsaved /\ g2.day = h.day
        /\ g2.mem = mem
    BY DEF GoodHouse, WellFormed, HasFields, HouseFields
  <2> HIDE DEF g2
  <2>2. /\ HasFields(mem, h.on) /\ \A p \in h.on : HasFields(mem[p], CopyFields)
        /\ \A p \in h.on : mem[p].at = h.mem[p].at
    BY DEF GoodHouse, WellFormed, HasFields, CopyFields
  <2> HIDE DEF mem
  <2> QED BY <2>1, <2>2, SameGood DEF GoodHouse, WellFormed
<1>3. GoodDb(SaveTenant(d, o, [tmp EXCEPT !.depot = @ \cup h.tile]))
  BY SaveTenantGood
<1>4. \/ t = [h |-> g1, d |-> d, copy |-> [copy EXCEPT !.depot = @ \cup h.tile]]
      \/ o \in h.on /\ t = [h |-> g2, d |-> d, copy |-> copy]
      \/ t = [h |-> g1, copy |-> copy,
              d |-> SaveTenant(d, o, [tmp EXCEPT !.depot = @ \cup h.tile])]
  BY DEF TransferToDepot
<1> HIDE DEF g1, g2, tmp, t
<1>5. t = [h |-> t.h, d |-> t.d, copy |-> t.copy] /\ GoodHouse(t.h) /\ GoodDb(t.d)
  BY <1>1, <1>2, <1>3, <1>4
<1> QED BY <1>5 DEF t

\* A new owner finds nobody in the house whom he has not let in.
LEMMA SetOwnerGood ==
    ASSUME NEW h, GoodHouse(h), NEW d, GoodDb(d), NEW p, NEW copy
    PROVE  LET r == SetOwner(h, d, p, copy)
           IN  GoodHouse(r.h) /\ GoodDb(r.d)
<1> DEFINE d1 == IF h.owner = p THEN d ELSE [d EXCEPT !.owner = p]
           t == TransferToDepot(h, d1, copy)
           v == Vacate(t.h)
           r == SetOwner(h, d, p, copy)
<1>1. GoodDb(d1)
  BY DEF GoodDb, HasFields, DbFields
<1> HIDE DEF d1
<1>2. t = [h |-> t.h, d |-> t.d, copy |-> t.copy] /\ GoodHouse(t.h) /\ GoodDb(t.d)
  BY <1>1, TransferGood
<1>3. GoodHouse(v) /\ \A q \in v.on : v.mem[q].at # "in"
  BY <1>2, VacateGood
<1>4. CASE h.owner = p
  <2>1. r.h = h /\ r.d = d1
    BY <1>4 DEF SetOwner, d1
  <2> QED BY <1>1, <2>1
<1>5. CASE h.owner # p /\ h.owner = NoOne
  <2> DEFINE g == [h EXCEPT !.owner = p]
  <2>1. r.h = g /\ r.d = d1
    BY <1>5 DEF SetOwner, d1
  <2>2. /\ HasFields(g, HouseFields)
        /\ g.owner = p /\ g.lists = h.lists /\ g.paid = h.paid /\ g.charged = h.charged
        /\ g.bed = h.bed /\ g.bedMap = h.bedMap /\ g.on = h.on /\ g.kick = h.kick
        /\ g.unsaved = h.unsaved /\ g.day = h.day /\ g.mem = h.mem
    BY DEF GoodHouse, WellFormed, HasFields, HouseFields
  <2> HIDE DEF g
  <2>3. WellFormed(g) /\ BedAgrees(g) /\ PaidUp(g)
    BY <2>2 DEF GoodHouse, WellFormed, BedAgrees, PaidUp
  <2>4. \A q \in Tenants : IsWelcome(h, q) => IsWelcome(g, q)
    BY <1>5, <2>2, HouseAssumption DEF IsWelcome, AccessLevel, IsInList
  <2>5. OnlyWelcome(g)
    BY <2>2, <2>4 DEF GoodHouse, WellFormed, OnlyWelcome
  <2> QED BY <1>1, <2>1, <2>3, <2>5 DEF GoodHouse
<1>6. CASE h.owner # p /\ h.owner # NoOne
  <2> DEFINE g == [v EXCEPT !.owner = p]
  <2>1. r = [[t EXCEPT !.h = v] EXCEPT !.h.owner = p]
    BY <1>6 DEF SetOwner, d1
  <2> HIDE DEF t, v, r
  <2>2. r.h = g /\ r.d = t.d
    BY <1>2, <2>1
  <2>3. /\ HasFields(g, HouseFields)
        /\ g.lists = v.lists /\ g.paid = v.paid /\ g.charged = v.charged
        /\ g.bed = v.bed /\ g.bedMap = v.bedMap /\ g.on = v.on /\ g.kick = v.kick
        /\ g.unsaved = v.unsaved /\ g.day = v.day /\ g.mem = v.mem
    BY <1>3 DEF GoodHouse, WellFormed, HasFields, HouseFields
  <2> HIDE DEF g
  <2>4. WellFormed(g) /\ BedAgrees(g) /\ PaidUp(g)
    BY <1>3, <2>3 DEF GoodHouse, WellFormed, BedAgrees, PaidUp
  <2>5. OnlyWelcome(g)
    BY <1>3, <2>3 DEF OnlyWelcome
  <2>6. GoodHouse(r.h) /\ GoodDb(r.d)
    BY <1>2, <2>2, <2>4, <2>5 DEF GoodHouse
  <2> QED BY <2>6 DEF r
<1> QED BY <1>4, <1>5, <1>6

\* A new owner has paid for nothing yet.
LEMMA ChargedGood ==
    ASSUME NEW h, GoodHouse(h), NEW doc
    PROVE  GoodHouse([h EXCEPT !.charged = 0]) /\ GoodHouse([h EXCEPT !.doc = doc, !.charged = 0])
<1> SUFFICES ASSUME NEW g, g = [h EXCEPT !.charged = 0] \/ g = [h EXCEPT !.doc = doc, !.charged = 0]
             PROVE  GoodHouse(g)
  OBVIOUS
<1>1. /\ HasFields(g, HouseFields)
      /\ g.owner = h.owner /\ g.lists = h.lists /\ g.paid = h.paid /\ g.charged = 0
      /\ g.bed = h.bed /\ g.bedMap = h.bedMap /\ g.on = h.on /\ g.kick = h.kick
      /\ g.unsaved = h.unsaved /\ g.day = h.day /\ g.mem = h.mem
  BY DEF GoodHouse, WellFormed, HasFields, HouseFields
<1>2. WellFormed(g) /\ BedAgrees(g)
  BY <1>1 DEF GoodHouse, WellFormed, BedAgrees
<1>3. PaidUp(g)
  BY <1>1 DEF GoodHouse, WellFormed, PaidUp
<1>4. OnlyWelcome(g)
  BY <1>1, WelcomeSame DEF GoodHouse, OnlyWelcome
<1> QED BY <1>2, <1>3, <1>4 DEF GoodHouse

\* Rent, warning and eviction at a start.
LEMMA PayHousesGood ==
    ASSUME NEW h, GoodHouse(h), NEW d, GoodDb(d)
    PROVE  LET r == PayHouses(h, d) IN GoodHouse(r.h) /\ GoodDb(r.d)
<1> DEFINE o == h.owner
           c == LoadTenant(d, o)
           ev == SetOwner(h, d, NoOne, c)
           r == PayHouses(h, d)
           g1 == [h EXCEPT !.paid = h.day + Period, !.charged = h.day + Period]
           g2 == [h EXCEPT !.warn = @ + 1]
<1>1. GoodHouse(ev.h) /\ GoodDb(ev.d)
  BY SetOwnerGood
<1>2. GoodHouse(g1)
  <2>1. /\ HasFields(g1, HouseFields)
        /\ g1.owner = h.owner /\ g1.lists = h.lists
        /\ g1.paid = h.day + Period /\ g1.charged = h.day + Period
        /\ g1.bed = h.bed /\ g1.bedMap = h.bedMap /\ g1.on = h.on /\ g1.kick = h.kick
        /\ g1.unsaved = h.unsaved /\ g1.day = h.day /\ g1.mem = h.mem
    BY DEF GoodHouse, WellFormed, HasFields, HouseFields
  <2> HIDE DEF g1
  <2>2. h.day + Period \in Nat
    BY HouseAssumption DEF GoodHouse, WellFormed
  <2>3. WellFormed(g1) /\ BedAgrees(g1)
    BY <2>1, <2>2 DEF GoodHouse, WellFormed, BedAgrees
  <2>4. PaidUp(g1)
    BY <2>1, <2>2 DEF PaidUp
  <2>5. OnlyWelcome(g1)
    BY <2>1, WelcomeSame DEF GoodHouse, OnlyWelcome
  <2> QED BY <2>3, <2>4, <2>5 DEF GoodHouse
<1>3. GoodHouse(g2)
  <2>1. /\ HasFields(g2, HouseFields)
        /\ g2.owner = h.owner /\ g2.lists = h.lists /\ g2.paid = h.paid
        /\ g2.charged = h.charged /\ g2.bed = h.bed /\ g2.bedMap = h.bedMap
        /\ g2.on = h.on /\ g2.kick = h.kick /\ g2.unsaved = h.unsaved /\ g2.day = h.day
        /\ g2.mem = h.mem
    BY DEF GoodHouse, WellFormed, HasFields, HouseFields
  <2> HIDE DEF g2
  <2> QED BY <2>1, SameGood DEF GoodHouse, WellFormed
<1>4. /\ GoodDb(SaveTenant(d, o, [c EXCEPT !.bank = @ - Rent]))
      /\ GoodDb(SaveTenant(d, o, [c EXCEPT !.depot = @ \cup {"letter"}]))
      /\ GoodDb(SaveTenant(ev.d, o, ev.copy))
  BY <1>1, SaveTenantGood
<1>5. \/ r = [h |-> h, d |-> d]
      \/ r = [h |-> g1, d |-> SaveTenant(d, o, [c EXCEPT !.bank = @ - Rent])]
      \/ r = [h |-> g2, d |-> SaveTenant(d, o, [c EXCEPT !.depot = @ \cup {"letter"}])]
      \/ r = [h |-> ev.h, d |-> SaveTenant(ev.d, o, ev.copy)]
  BY DEF PayHouses
<1> HIDE DEF g1, g2, ev, c, r
<1>6. GoodHouse(r.h) /\ GoodDb(r.d)
  BY <1>1, <1>2, <1>3, <1>4, <1>5
<1> QED BY <1>6 DEF r

\* What a start loads: an empty house, its bed, and what was paid when the map
\* was last saved.
LEMMA LoadHouseGood ==
    ASSUME NEW h, WellFormed(h), NEW d, GoodDb(d), ~h.unsaved => d.paid >= h.charged
    PROVE  GoodHouse(LoadHouse(h, d))
<1> DEFINE g == LoadHouse(h, d)
           mem == [p \in {} |-> LoadTenant(d, p)]
<1>1. g = [[[[h EXCEPT !.owner = d.owner, !.paid = d.paid, !.warn = d.warn, !.lists = d.lists]
               EXCEPT !.tile = d.tile.things]
               EXCEPT !.bed = d.tile.bed, !.bedMap = {d.tile.bed} \ {NoOne}]
               EXCEPT !.on = {}, !.mem = mem, !.edit = [p \in Tenants |-> NoOne],
                      !.doc = NoOne, !.kick = {}]
  BY DEF LoadHouse, LoadHouseItems, LoadHouseInfo, ReadBed
<1>2. HasFields(mem, {})
  BY DEF HasFields
<1> HIDE DEF g, mem
<1>3. /\ HasFields(g, HouseFields)
      /\ g.lists = d.lists /\ g.paid = d.paid /\ g.charged = h.charged
      /\ g.bed = d.tile.bed /\ g.bedMap = {d.tile.bed} \ {NoOne} /\ g.on = {} /\ g.mem = mem
      /\ g.unsaved = h.unsaved /\ g.day = h.day
  BY <1>1 DEF WellFormed, HasFields, HouseFields
<1>4. WellFormed(g)
  BY <1>2, <1>3 DEF WellFormed, GoodDb
<1>5. OnlyWelcome(g) /\ BedAgrees(g)
  BY <1>3 DEF OnlyWelcome, BedAgrees
<1>6. PaidUp(g)
  BY <1>3 DEF PaidUp
<1>7. GoodHouse(g)
  BY <1>4, <1>5, <1>6 DEF GoodHouse
<1> QED BY <1>7 DEF g

LEMMA StartUpGood ==
    ASSUME NEW h, WellFormed(h), NEW d, GoodDb(d), ~h.unsaved => d.paid >= h.charged,
           StartUp(h, d)
    PROVE  HouseInv'
<1> DEFINE r == PayHouses(LoadHouse(h, d), d)
<1>1. GoodHouse(LoadHouse(h, d))
  BY LoadHouseGood
<1>2. GoodHouse(r.h) /\ GoodDb(r.d)
  BY <1>1, PayHousesGood
<1>3. hs' = r.h /\ db' = r.d
  BY DEF StartUp, HouseStep
<1> HIDE DEF r
<1> QED BY <1>2, <1>3 DEF HouseInv

-------------------------------------------------------------------------------
(* The steps of the game.                                                    *)

\* A step that touches nothing but windows, documents, things and the day.
LEMMA QuietStep ==
    ASSUME HouseInv, NEW g, HasFields(g, HouseFields),
           \A f \in HouseFields \ {"tile", "edit", "doc", "day", "mem"} : g[f] = hs[f],
           g.day \in Nat,
           HasFields(g.mem, hs.on), \A p \in hs.on : HasFields(g.mem[p], CopyFields),
           \A p \in hs.on : g.mem[p].at = "in" => hs.mem[p].at = "in"
    PROVE  GoodHouse(g)
<1>1. /\ g.owner = hs.owner /\ g.lists = hs.lists /\ g.paid = hs.paid /\ g.charged = hs.charged
      /\ g.bed = hs.bed /\ g.bedMap = hs.bedMap /\ g.on = hs.on /\ g.kick = hs.kick
      /\ g.unsaved = hs.unsaved
  BY DEF HouseFields
<1>2. GoodHouse(hs)
  BY DEF HouseInv
<1> QED BY <1>1, <1>2, SameGood

\* Opening a window, drawing up or tearing a document, and a new day.
LEMMA PaperStep ==
    ASSUME HouseInv, HouseStep(hs', db), NEW p, NEW v,
           \/ hs' = [hs EXCEPT !.edit[p] = v]
           \/ hs' = [hs EXCEPT !.doc = v]
           \/ hs' = [hs EXCEPT !.day = @ + 1]
    PROVE  HouseInv'
<1>1. WellFormed(hs)
  BY DEF HouseInv, GoodHouse
<1>2. /\ HasFields(hs', HouseFields)
      /\ \A f \in HouseFields \ {"edit", "doc", "day"} : hs'[f] = hs[f]
      /\ hs'.day \in {hs.day, hs.day + 1}
  BY <1>1 DEF WellFormed, HasFields, HouseFields
<1>3. hs'.mem = hs.mem /\ hs'.day \in Nat
  BY <1>1, <1>2 DEF WellFormed, HouseFields
<1>4. /\ HasFields(hs'.mem, hs.on) /\ \A q \in hs.on : HasFields(hs'.mem[q], CopyFields)
      /\ \A q \in hs.on : hs'.mem[q].at = "in" => hs.mem[q].at = "in"
  BY <1>1, <1>3 DEF WellFormed
<1>5. \A f \in HouseFields \ {"tile", "edit", "doc", "day", "mem"} : hs'[f] = hs[f]
  BY <1>2
<1>6. GoodHouse(hs')
  BY <1>2, <1>3, <1>4, <1>5, QuietStep
<1> QED BY <1>6 DEF HouseInv, HouseStep

\* What a player does with himself: he walks out, opens his depot, furnishes.
LEMMA CopyStep ==
    ASSUME HouseInv, NEW p \in hs.on, NEW c, HasFields(c, CopyFields), NEW things,
           HouseStep(hs', db),
           \/ hs' = [hs EXCEPT !.mem[p] = c]
           \/ hs' = [hs EXCEPT !.mem[p] = c, !.tile = things],
           c.at = "in" => hs.mem[p].at = "in" \/ IsWelcome(hs, p)
    PROVE  HouseInv'
<1>1. WellFormed(hs) /\ GoodHouse(hs)
  BY DEF HouseInv, GoodHouse
<1>2. /\ HasFields(hs', HouseFields)
      /\ \A f \in HouseFields \ {"mem", "tile"} : hs'[f] = hs[f]
      /\ hs'.mem = [hs.mem EXCEPT ![p] = c]
  BY <1>1 DEF WellFormed, HasFields, HouseFields
<1>3. /\ HasFields(hs'.mem, hs.on) /\ \A q \in hs.on : HasFields(hs'.mem[q], CopyFields)
      /\ \A q \in hs.on \ {p} : hs'.mem[q] = hs.mem[q]
      /\ hs'.mem[p] = c
  <2>1. HasFields(hs.mem, hs.on) /\ \A q \in hs.on : HasFields(hs.mem[q], CopyFields)
    BY <1>1 DEF WellFormed
  <2>2. DOMAIN hs.mem = hs.on
    BY <2>1 DEF HasFields
  <2> DEFINE m == [hs.mem EXCEPT ![p] = c]
  <2>3. m[p] = c /\ \A q \in hs.on \ {p} : m[q] = hs.mem[q]
    BY <2>2
  <2>4. HasFields(m, hs.on)
    BY <2>2 DEF HasFields
  <2> HIDE DEF m
  <2>5. \A q \in hs.on : HasFields(m[q], CopyFields)
    BY <2>1, <2>3
  <2> QED BY <1>2, <2>3, <2>4, <2>5 DEF m
<1>4. /\ hs'.owner = hs.owner /\ hs'.lists = hs.lists /\ hs'.paid = hs.paid
      /\ hs'.charged = hs.charged /\ hs'.bed = hs.bed /\ hs'.bedMap = hs.bedMap
      /\ hs'.on = hs.on /\ hs'.kick = hs.kick /\ hs'.unsaved = hs.unsaved
      /\ hs'.day = hs.day
  BY <1>2 DEF HouseFields
<1>5. WellFormed(hs') /\ BedAgrees(hs') /\ PaidUp(hs')
  BY <1>1, <1>2, <1>3, <1>4 DEF GoodHouse, WellFormed, BedAgrees, PaidUp
<1>6. OnlyWelcome(hs')
  BY <1>1, <1>3, <1>4, WelcomeSame DEF GoodHouse, OnlyWelcome
<1> QED BY <1>5, <1>6 DEF HouseInv, GoodHouse, HouseStep

LEMMA WalkInInv ==
    ASSUME HouseInv, NEW p, WalkIn(p) PROVE HouseInv'
<1> DEFINE c == [hs.mem[p] EXCEPT !.at = "in"]
<1>1. p \in hs.on /\ WellFormed(hs)
  BY DEF WalkIn, Acts, HouseInv, GoodHouse
<1>2. HasFields(c, CopyFields)
  BY <1>1 DEF WellFormed, HasFields, CopyFields
<1>3. hs' = [hs EXCEPT !.mem[p] = c] /\ HouseStep(hs', db) /\ IsWelcome(hs, p)
  BY DEF WalkIn, HouseStep
<1> QED BY <1>1, <1>2, <1>3, CopyStep

LEMMA WalkOutInv ==
    ASSUME HouseInv, NEW p, WalkOut(p) PROVE HouseInv'
<1> DEFINE c == [hs.mem[p] EXCEPT !.at = "out"]
<1>1. p \in hs.on /\ WellFormed(hs)
  BY DEF WalkOut, Acts, HouseInv, GoodHouse
<1>2. HasFields(c, CopyFields) /\ c.at = "out"
  BY <1>1 DEF WellFormed, HasFields, CopyFields
<1>3. hs' = [hs EXCEPT !.mem[p] = c] /\ HouseStep(hs', db)
  BY DEF WalkOut, HouseStep
<1> HIDE DEF c
<1> QED BY <1>1, <1>2, <1>3, CopyStep

LEMMA OpenDepotInv ==
    ASSUME HouseInv, NEW p, OpenDepot(p) PROVE HouseInv'
<1> DEFINE c == [hs.mem[p] EXCEPT !.opened = TRUE]
<1>1. p \in hs.on /\ WellFormed(hs)
  BY DEF OpenDepot, Acts, HouseInv, GoodHouse
<1>2. HasFields(c, CopyFields) /\ c.at = hs.mem[p].at
  BY <1>1 DEF WellFormed, HasFields, CopyFields
<1>3. hs' = [hs EXCEPT !.mem[p] = c] /\ HouseStep(hs', db)
  BY DEF OpenDepot, HouseStep
<1> HIDE DEF c
<1> QED BY <1>1, <1>2, <1>3, CopyStep

LEMMA FurnishInv ==
    ASSUME HouseInv, NEW p, NEW i, Furnish(p, i) PROVE HouseInv'
<1> DEFINE c == [hs.mem[p] EXCEPT !.depot = @ \ {i}]
           things == hs.tile \cup {i}
<1>1. p \in hs.on /\ WellFormed(hs)
  BY DEF Furnish, Acts, HouseInv, GoodHouse
<1>2. HasFields(c, CopyFields) /\ c.at = hs.mem[p].at
  BY <1>1 DEF WellFormed, HasFields, CopyFields
<1>3. hs' = [hs EXCEPT !.mem[p] = c, !.tile = things] /\ HouseStep(hs', db)
  BY DEF Furnish, HouseStep
<1> HIDE DEF c, things
<1> QED BY <1>1, <1>2, <1>3, CopyStep

\* A player who comes in stands where he left, or at the entry.
LEMMA EnterGameInv ==
    ASSUME HouseInv, NEW p \in Tenants, EnterGame(p) PROVE HouseInv'
<1> DEFINE c == [LoadTenant(db, p) EXCEPT !.at = IF IsWelcome(hs, p) THEN @ ELSE "out"]
           mem == [q \in hs.on \cup {p} |-> IF q = p THEN c ELSE hs.mem[q]]
           h == [hs EXCEPT !.on = @ \cup {p}, !.mem = mem]
<1>1. WellFormed(hs) /\ GoodHouse(hs) /\ p \notin hs.on
  BY DEF EnterGame, HouseInv, GoodHouse
<1>2. HasFields(c, CopyFields) /\ (c.at = "in" => IsWelcome(hs, p))
  BY DEF LoadTenant, HasFields, CopyFields
<1>3. /\ HasFields(mem, hs.on \cup {p})
      /\ mem[p] = c /\ \A q \in hs.on : mem[q] = hs.mem[q]
  BY <1>1 DEF HasFields
<1>4. /\ hs' = IF p \in h.bedMap THEN [h EXCEPT !.bedMap = @ \ {h.bed}, !.bed = NoOne] ELSE h
      /\ db' = db
  BY DEF EnterGame, HouseStep, WakeUp
<1> HIDE DEF c, mem
<1>5. /\ HasFields(h, HouseFields) /\ h.on = hs.on \cup {p} /\ h.mem = mem
      /\ \A f \in HouseFields \ {"on", "mem"} : h[f] = hs[f]
  BY <1>1 DEF WellFormed, HasFields, HouseFields
<1> HIDE DEF h
<1>6. /\ HasFields(hs', HouseFields)
      /\ \A f \in HouseFields \ {"bed", "bedMap"} : hs'[f] = h[f]
      /\ \/ hs'.bed = h.bed /\ hs'.bedMap = h.bedMap
         \/ hs'.bed = NoOne /\ hs'.bedMap = h.bedMap \ {h.bed}
  BY <1>4, <1>5 DEF HasFields, HouseFields
<1>7. /\ hs'.owner = hs.owner /\ hs'.lists = hs.lists /\ hs'.paid = hs.paid
      /\ hs'.charged = hs.charged /\ hs'.kick = hs.kick /\ hs'.unsaved = hs.unsaved
      /\ hs'.day = hs.day /\ hs'.on = hs.on \cup {p} /\ hs'.mem = mem
      /\ h.bed = hs.bed /\ h.bedMap = hs.bedMap
  BY <1>5, <1>6 DEF HouseFields
<1>8. WellFormed(hs') /\ PaidUp(hs')
  BY <1>1, <1>2, <1>3, <1>6, <1>7 DEF GoodHouse, WellFormed, PaidUp
<1>9. BedAgrees(hs')
  BY <1>1, <1>6, <1>7 DEF GoodHouse, BedAgrees
<1>10. OnlyWelcome(hs')
  BY <1>1, <1>2, <1>3, <1>7, WelcomeSame DEF GoodHouse, OnlyWelcome
<1> QED BY <1>4, <1>8, <1>9, <1>10 DEF HouseInv, GoodHouse

LEMMA LeaveGameInv ==
    ASSUME HouseInv, NEW p, LeaveGame(p) PROVE HouseInv'
<1> DEFINE mem == [q \in hs.on \ {p} |-> hs.mem[q]]
<1>1. WellFormed(hs) /\ GoodHouse(hs) /\ GoodDb(db)
  BY DEF HouseInv, GoodHouse
<1>2. /\ hs' = [hs EXCEPT !.on = @ \ {p}, !.mem = mem, !.kick = @ \ {p},
                          !.edit[p] = NoOne, !.doc = NoOne]
      /\ db' = SaveTenant(db, p, hs.mem[p])
  BY DEF LeaveGame, HouseStep, QuitGame
<1>3. HasFields(mem, hs.on \ {p}) /\ \A q \in hs.on \ {p} : mem[q] = hs.mem[q]
  BY DEF HasFields
<1> HIDE DEF mem
<1>4. /\ HasFields(hs', HouseFields)
      /\ hs'.on = hs.on \ {p} /\ hs'.mem = mem /\ hs'.kick = hs.kick \ {p}
      /\ hs'.owner = hs.owner /\ hs'.lists = hs.lists /\ hs'.paid = hs.paid
      /\ hs'.charged = hs.charged /\ hs'.bed = hs.bed /\ hs'.bedMap = hs.bedMap
      /\ hs'.unsaved = hs.unsaved /\ hs'.day = hs.day
  BY <1>1, <1>2 DEF WellFormed, HasFields, HouseFields
<1>5. WellFormed(hs') /\ BedAgrees(hs') /\ PaidUp(hs')
  BY <1>1, <1>3, <1>4 DEF GoodHouse, WellFormed, BedAgrees, PaidUp
<1>6. OnlyWelcome(hs')
  BY <1>1, <1>3, <1>4, WelcomeSame DEF GoodHouse, OnlyWelcome
<1>7. GoodDb(db')
  BY <1>1, <1>2, SaveTenantGood
<1> QED BY <1>5, <1>6, <1>7 DEF HouseInv, GoodHouse

\* Whoever lies down, welcome or not, will be logged out.
LEMMA UseBedInv ==
    ASSUME HouseInv, NEW p \in Tenants, UseBed(p) PROVE HouseInv'
<1> DEFINE mem == [hs.mem EXCEPT ![p] = [hs.mem[p] EXCEPT !.at = "in"]]
<1>1. WellFormed(hs) /\ GoodHouse(hs) /\ p \in hs.on /\ hs.bed = NoOne /\ p # NoOne
  BY HouseAssumption DEF UseBed, Acts, HouseInv, GoodHouse
<1>2. /\ hs' = [hs EXCEPT !.bed = p, !.bedMap = @ \cup {p}, !.mem = mem, !.kick = @ \cup {p}]
      /\ db' = db
  BY DEF UseBed, HouseStep, InternalSleep
<1>3. /\ HasFields(mem, hs.on) /\ \A q \in hs.on : HasFields(mem[q], CopyFields)
      /\ \A q \in hs.on \ {p} : mem[q] = hs.mem[q]
  BY <1>1 DEF WellFormed, HasFields, CopyFields
<1> HIDE DEF mem
<1>4. /\ HasFields(hs', HouseFields)
      /\ hs'.on = hs.on /\ hs'.mem = mem /\ hs'.kick = hs.kick \cup {p}
      /\ hs'.owner = hs.owner /\ hs'.lists = hs.lists /\ hs'.paid = hs.paid
      /\ hs'.charged = hs.charged /\ hs'.bed = p /\ hs'.bedMap = hs.bedMap \cup {p}
      /\ hs'.unsaved = hs.unsaved /\ hs'.day = hs.day
  BY <1>1, <1>2 DEF WellFormed, HasFields, HouseFields
<1>5. WellFormed(hs') /\ PaidUp(hs')
  BY <1>1, <1>3, <1>4 DEF GoodHouse, WellFormed, PaidUp
<1>6. BedAgrees(hs')
  BY <1>1, <1>4 DEF GoodHouse, BedAgrees
<1>7. OnlyWelcome(hs')
  BY <1>1, <1>3, <1>4, WelcomeSame DEF GoodHouse, OnlyWelcome
<1> QED BY <1>2, <1>5, <1>6, <1>7 DEF HouseInv, GoodHouse

LEMMA UpdateHouseWindowInv ==
    ASSUME HouseInv, NEW p, NEW names, UpdateHouseWindow(p, names) PROVE HouseInv'
<1> DEFINE g == [hs EXCEPT !.edit[p] = NoOne]
<1>1. WellFormed(hs)
  BY DEF HouseInv, GoodHouse
<1>2. /\ HasFields(g, HouseFields) /\ g.mem = hs.mem /\ g.day = hs.day
      /\ \A f \in HouseFields \ {"tile", "edit", "doc", "day", "mem"} : g[f] = hs[f]
  BY <1>1 DEF WellFormed, HasFields, HouseFields
<1>3. hs' = SetAccessList(g, hs.edit[p], names) /\ db' = db
  BY DEF UpdateHouseWindow, HouseStep
<1> HIDE DEF g
<1>4. g.day \in Nat /\ HasFields(g.mem, hs.on) /\ \A q \in hs.on : HasFields(g.mem[q], CopyFields)
  BY <1>1, <1>2 DEF WellFormed
<1>5. GoodHouse(g)
  BY <1>2, <1>4, QuietStep
<1>6. GoodHouse(SetAccessList(g, hs.edit[p], names))
  BY <1>5, SetAccessListGood
<1> QED BY <1>3, <1>6 DEF HouseInv

LEMMA KickPlayerInv ==
    ASSUME HouseInv, NEW p, NEW t, KickPlayer(p, t) PROVE HouseInv'
<1>1. hs' = PutOut(hs, p, {t}) /\ db' = db
  BY DEF KickPlayer, HouseStep
<1>2. GoodHouse(PutOut(hs, p, {t}))
  BY PutOutGood DEF HouseInv
<1> QED BY <1>1, <1>2 DEF HouseInv

LEMMA ChangeOwnerInv ==
    ASSUME HouseInv, NEW p, ChangeOwner(p) PROVE HouseInv'
<1> DEFINE r == SetOwner(hs, db, p, NoCopy)
<1>1. GoodHouse(r.h) /\ GoodDb(r.d)
  BY SetOwnerGood DEF HouseInv
<1>2. hs' = [r.h EXCEPT !.charged = 0] /\ db' = r.d
  BY DEF ChangeOwner, HouseStep
<1> HIDE DEF r
<1>3. GoodHouse([r.h EXCEPT !.charged = 0])
  BY <1>1, ChargedGood
<1> QED BY <1>1, <1>2, <1>3 DEF HouseInv

LEMMA AcceptDocumentInv ==
    ASSUME HouseInv, AcceptDocument PROVE HouseInv'
<1> DEFINE r == SetOwner(hs, db, hs.doc, NoCopy)
<1>1. GoodHouse(r.h) /\ GoodDb(r.d)
  BY SetOwnerGood DEF HouseInv
<1>2. hs' = [r.h EXCEPT !.doc = NoOne, !.charged = 0] /\ db' = r.d
  BY DEF AcceptDocument, HouseStep
<1> HIDE DEF r
<1>3. GoodHouse([r.h EXCEPT !.doc = NoOne, !.charged = 0])
  BY <1>1, ChargedGood
<1> QED BY <1>1, <1>2, <1>3 DEF HouseInv

\* What the map saves of the house.
LEMMA SaveMapGood ==
    ASSUME GoodHouse(hs), NEW d, GoodDb(d), NEW info \in BOOLEAN, NEW items \in BOOLEAN
    PROVE  LET e == SaveMap(hs, d, info, items)
           IN  GoodDb(e) /\ (info => e.paid = hs.paid)
<1> DEFINE i == [d EXCEPT !.owner = hs.owner, !.paid = hs.paid, !.warn = hs.warn, !.lists = hs.lists]
           j == [i EXCEPT !.tile = SaveTile(hs)]
<1>1. GoodDb(i) /\ i.paid = hs.paid
  <2>1. HasFields(i, DbFields) /\ i.paid = hs.paid /\ i.lists = hs.lists
    BY DEF GoodDb, HasFields, DbFields
  <2> HIDE DEF i
  <2> QED BY <2>1 DEF GoodDb, GoodHouse, WellFormed
<1>2. GoodDb(j) /\ j.paid = hs.paid
  <2> HIDE DEF i
  <2>1. HasFields(j, DbFields) /\ j.paid = i.paid /\ j.lists = i.lists
    BY <1>1 DEF GoodDb, HasFields, DbFields
  <2> HIDE DEF j
  <2> QED BY <1>1, <2>1 DEF GoodDb
<1>3. SaveMap(hs, d, info, items) = IF ~info THEN d ELSE IF items THEN j ELSE i
  BY DEF SaveMap, SaveHouseInfo, SaveHouseItems
<1> HIDE DEF i, j
<1> QED BY <1>1, <1>2, <1>3

LEMMA SaveInv ==
    ASSUME HouseInv, NEW info \in BOOLEAN, NEW items \in BOOLEAN, Save(info, items) PROVE HouseInv'
<1>1. GoodDb(SaveMap(hs, db, info, items))
  BY SaveMapGood DEF HouseInv
<1> QED BY <1>1 DEF Save, HouseStep, HouseInv

\* The flag that a stop lost the map is the only thing a stop changes itself.
LEMMA UnsavedFacts ==
    ASSUME HouseInv, NEW b \in BOOLEAN
    PROVE  LET h == [hs EXCEPT !.unsaved = b]
           IN  WellFormed(h) /\ h.charged = hs.charged /\ h.unsaved = b
<1> DEFINE h == [hs EXCEPT !.unsaved = b]
<1>1. WellFormed(hs)
  BY DEF HouseInv, GoodHouse
<1>2. /\ HasFields(h, HouseFields) /\ h.lists = hs.lists /\ h.on = hs.on /\ h.mem = hs.mem
      /\ h.paid = hs.paid /\ h.charged = hs.charged /\ h.day = hs.day /\ h.unsaved = b
  BY <1>1 DEF WellFormed, HasFields, HouseFields
<1> HIDE DEF h
<1>3. WellFormed(h)
  BY <1>1, <1>2 DEF WellFormed
<1> QED BY <1>2, <1>3 DEF h

LEMMA StopAndStartInv ==
    ASSUME HouseInv, NEW info \in BOOLEAN, NEW items \in BOOLEAN, StopAndStart(info, items)
    PROVE  HouseInv'
<1> DEFINE rows == [p \in Tenants |-> IF p \in hs.on THEN SaveTenant(db, p, hs.mem[p]).row[p] ELSE db.row[p]]
           d1 == [db EXCEPT !.row = rows]
           b == hs.unsaved \/ ~info
           h == [hs EXCEPT !.unsaved = b]
           d == SaveMap(hs, d1, info, items)
<1>0. GoodHouse(hs) /\ GoodDb(db)
  BY DEF HouseInv
<1>1. GoodDb(d1)
  <2> HIDE DEF rows
  <2>1. HasFields(d1, DbFields) /\ d1.paid = db.paid /\ d1.lists = db.lists
    BY <1>0 DEF GoodDb, HasFields, DbFields
  <2> HIDE DEF d1
  <2> QED BY <1>0, <2>1 DEF GoodDb
<1>2. StartUp(h, d)
  BY DEF StopAndStart
<1> HIDE DEF d1
<1>3. GoodDb(d) /\ (info => d.paid = hs.paid)
  BY <1>0, <1>1, SaveMapGood
<1>4. WellFormed(h) /\ h.charged = hs.charged /\ h.unsaved = b
  <2>1. b \in BOOLEAN
    BY <1>0 DEF GoodHouse, WellFormed
  <2> HIDE DEF b
  <2> QED BY <2>1, UnsavedFacts
<1> HIDE DEF h, d
<1>5. ~h.unsaved => d.paid >= h.charged
  BY <1>0, <1>3, <1>4 DEF GoodHouse, PaidUp
<1> QED BY <1>2, <1>3, <1>4, <1>5, StartUpGood

LEMMA CrashAndStartInv ==
    ASSUME HouseInv, CrashAndStart PROVE HouseInv'
<1> DEFINE h == [hs EXCEPT !.unsaved = TRUE]
<1>1. StartUp(h, db)
  BY DEF CrashAndStart
<1>2. WellFormed(h) /\ h.unsaved
  BY UnsavedFacts
<1>3. GoodDb(db)
  BY DEF HouseInv
<1> HIDE DEF h
<1> QED BY <1>1, <1>2, <1>3, StartUpGood

LEMMA HouseInitInv == HouseInit => HouseInv
<1> SUFFICES ASSUME HouseInit PROVE HouseInv
  OBVIOUS
<1> DEFINE h == [Fresh EXCEPT !.charged = 1]
<1>1. GoodDb(db) /\ db.paid = 1
  <2>1. PICK o \in Tenants \cup {NoOne} : \E guests \in SUBSET (Tenants \ {o}), at \in [Tenants -> {"in", "out"}] :
          /\ o = NoOne => guests = {}
          /\ db = [row |-> [p \in Tenants |-> [bank |-> Savings, at |-> at[p], depot |-> {}]], owner |-> o, paid |-> 1,
                   warn |-> 0, lists |-> [l \in Lists |-> IF l = "guest" THEN guests ELSE {}],
                   tile |-> [things |-> Belongings, bed |-> NoOne]]
    BY Zenon DEF HouseInit
  <2>2. PICK guests, at :
          db = [row |-> [p \in Tenants |-> [bank |-> Savings, at |-> at[p], depot |-> {}]], owner |-> o, paid |-> 1,
                warn |-> 0, lists |-> [l \in Lists |-> IF l = "guest" THEN guests ELSE {}],
                tile |-> [things |-> Belongings, bed |-> NoOne]]
    BY <2>1, Zenon
  <2> DEFINE rows == [p \in Tenants |-> [bank |-> Savings, at |-> at[p], depot |-> {}]]
             lists == [l \in Lists |-> IF l = "guest" THEN guests ELSE {}]
  <2>3. HasFields(lists, Lists)
    BY DEF HasFields
  <2>4. db = [row |-> rows, owner |-> o, paid |-> 1, warn |-> 0, lists |-> lists,
              tile |-> [things |-> Belongings, bed |-> NoOne]]
    BY <2>2
  <2> HIDE DEF rows, lists
  <2>5. HasFields(db, DbFields) /\ db.paid = 1 /\ db.lists = lists
    BY <2>4 DEF HasFields, DbFields
  <2> QED BY <2>3, <2>5 DEF GoodDb
<1>2. WellFormed(h) /\ h.charged = 1
  <2> DEFINE lists == [l \in Lists |-> {}]
             mem == [p \in {} |-> NoCopy]
             edit == [p \in Tenants |-> NoOne]
  <2>1. HasFields(lists, Lists) /\ HasFields(mem, {})
    BY DEF HasFields
  <2>2. h = [[owner |-> NoOne, lists |-> lists, paid |-> 0, warn |-> 0, tile |-> {}, bed |-> NoOne,
              bedMap |-> {}, on |-> {}, mem |-> mem, edit |-> edit, doc |-> NoOne, kick |-> {}, day |-> 0,
              charged |-> 0, unsaved |-> FALSE] EXCEPT !.charged = 1]
    BY DEF Fresh
  <2> HIDE DEF lists, mem, edit, h
  <2>3. /\ HasFields(h, HouseFields) /\ h.lists = lists /\ h.on = {} /\ h.mem = mem
        /\ h.paid = 0 /\ h.charged = 1 /\ h.day = 0 /\ h.unsaved = FALSE
    BY <2>2 DEF HasFields, HouseFields
  <2>4. HasFields(h.mem, h.on) /\ HasFields(h.lists, Lists)
    BY <2>1, <2>3
  <2>5. h.paid \in Nat /\ h.charged \in Nat /\ h.day \in Nat
    BY <2>3
  <2>6. h.unsaved \in BOOLEAN /\ h.on \subseteq Tenants
    BY <2>3, Zenon
  <2>7. \A p \in h.on : HasFields(h.mem[p], CopyFields)
    BY <2>3
  <2> QED BY <2>3, <2>4, <2>5, <2>6, <2>7 DEF WellFormed
<1>3. hs = LoadHouse(h, db)
  BY DEF HouseInit
<1> HIDE DEF h
<1>4. ~h.unsaved => db.paid >= h.charged
  BY <1>1, <1>2
<1>5. GoodHouse(LoadHouse(h, db))
  BY <1>1, <1>2, <1>4, LoadHouseGood
<1> QED BY <1>1, <1>3, <1>5 DEF HouseInv

LEMMA HouseNextInv == HouseInv /\ [HouseNext]_houseVars => HouseInv'
<1> SUFFICES ASSUME HouseInv, [HouseNext]_houseVars PROVE HouseInv'
  OBVIOUS
<1>1. CASE UNCHANGED houseVars
  BY <1>1 DEF houseVars, HouseInv
<1>2. CASE CrashAndStart
  BY <1>2, CrashAndStartInv
<1>3. CASE NewDay
  <2>1. HouseStep(hs', db) /\ hs' = [hs EXCEPT !.day = @ + 1]
    BY <1>3 DEF NewDay, HouseStep
  <2> QED BY <2>1, PaperStep
<1>4. CASE AcceptDocument
  BY <1>4, AcceptDocumentInv
<1>5. CASE CancelDocument
  <2>1. HouseStep(hs', db) /\ hs' = [hs EXCEPT !.doc = NoOne]
    BY <1>5 DEF CancelDocument, HouseStep
  <2> QED BY <2>1, PaperStep
<1>6. ASSUME NEW info \in BOOLEAN, NEW items \in BOOLEAN, Save(info, items) \/ StopAndStart(info, items)
      PROVE  HouseInv'
  BY <1>6, SaveInv, StopAndStartInv
<1>7. ASSUME NEW p \in Tenants,
             \/ EnterGame(p) \/ LeaveGame(p) \/ WalkIn(p) \/ WalkOut(p) \/ UseBed(p) \/ OpenDepot(p)
      PROVE  HouseInv'
  BY <1>7, EnterGameInv, LeaveGameInv, WalkInInv, WalkOutInv, UseBedInv, OpenDepotInv
<1>8. ASSUME NEW p \in Tenants, BuyHouse(p) \/ LeaveHouse(p) \/ AssignOwner(p)
      PROVE  HouseInv'
  BY <1>8, ChangeOwnerInv DEF BuyHouse, LeaveHouse, AssignOwner
<1>9. ASSUME NEW p \in Tenants, NEW q \in Tenants, KickPlayer(p, q) PROVE HouseInv'
  BY <1>9, KickPlayerInv
<1>10. ASSUME NEW p \in Tenants, NEW q \in Tenants, SellHouse(p, q) PROVE HouseInv'
  <2>1. HouseStep(hs', db) /\ hs' = [hs EXCEPT !.doc = q]
    BY <1>10 DEF SellHouse, HouseStep
  <2> QED BY <2>1, PaperStep
<1>11. ASSUME NEW p \in Tenants, NEW list \in Lists, EditList(p, list) PROVE HouseInv'
  <2>1. HouseStep(hs', db) /\ hs' = [hs EXCEPT !.edit[p] = list]
    BY <1>11 DEF EditList, HouseStep
  <2> QED BY <2>1, PaperStep
<1>12. ASSUME NEW p \in Tenants, NEW names \in SUBSET Tenants, UpdateHouseWindow(p, names) PROVE HouseInv'
  BY <1>12, UpdateHouseWindowInv
<1>13. ASSUME NEW p \in Tenants, NEW i \in Belongings, Furnish(p, i) PROVE HouseInv'
  BY <1>13, FurnishInv
<1> QED BY <1>1, <1>2, <1>3, <1>4, <1>5, <1>6, <1>7, <1>8, <1>9, <1>10, <1>11, <1>12, <1>13
        DEF HouseNext

LEMMA HouseInvSafe == HouseInv => HouseAgrees
BY DEF HouseInv, GoodHouse, OnlyWelcome, BedAgrees, PaidUp, HouseAgrees, Inside

\* The inductive invariant of the house.
THEOREM HouseInvariant == HouseSpec => []HouseInv
<1>1. HouseInit => HouseInv
  BY HouseInitInv
<1>2. HouseInv /\ [HouseNext]_houseVars => HouseInv'
  BY HouseNextInv
<1> QED BY <1>1, <1>2, PTL DEF HouseSpec

\* Whoever is in the house, but for a sleeper about to be logged out, is welcome
\* there, however lists and owner changed (House::setAccessList and House::setOwner
\* put out those who are not); bed and map of sleepers agree through every restart;
\* and as long as no stop lost the map the house knows what was paid for it.
THEOREM HouseAlwaysAgrees == HouseSpec => []HouseAgrees
<1>1. HouseInv => HouseAgrees
  BY HouseInvSafe
<1> QED BY <1>1, HouseInvariant, PTL

-------------------------------------------------------------------------------
(* Chat: channels and the guilds of who is in the game.                      *)

ChatFields == {"on", "guildOf", "members", "partyOf", "party", "chans", "open", "refused", "buffer", "muted"}
ChannelFields == {"users", "invites", "owner"}

\* The kinds of channels there are.
IsNormal(k) == \E i \in NormalChannels : k = NormalKey(i)
IsPrivate(k) == \E i \in PrivateSlots : k = PrivateKey(i)
IsShared(k) == \E x : k = GuildKey(x) \/ k = PartyKey(x)

\* One channel: who is in it or invited is in the game; who hears a public or a
\* private one has its window open or was refused by the script of the public one
\* as he closed it; a private one is its owner's and his guests'.
ChannelGood(c, k) ==
    /\ HasFields(c.chans[k], ChannelFields)
    /\ IsNormal(k) \/ IsPrivate(k) \/ IsShared(k)
    /\ c.chans[k].users \cup c.chans[k].invites \subseteq c.on
    /\ ~IsShared(k) => \A p \in c.chans[k].users : Listens(c, k, p)
    /\ IsPrivate(k) => /\ c.chans[k].owner \in c.chans[k].users
                       /\ c.chans[k].users \subseteq {c.chans[k].owner} \cup c.chans[k].invites
    /\ ~IsPrivate(k) => c.chans[k].owner = None

\* All of them: nobody has two of his own.
ChannelsGood(c) ==
    /\ HasFields(c.chans, DOMAIN c.chans)
    /\ HasFields(c.open, Talkers)
    /\ \A k \in DOMAIN c.chans : ChannelGood(c, k)
    /\ \A k, l \in DOMAIN c.chans : c.chans[k].owner = c.chans[l].owner /\ c.chans[k].owner # None => k = l

\* A guild knows exactly those in the game who point to it.
GuildsGood(c) ==
    /\ HasFields(c.guildOf, Talkers)
    /\ HasFields(c.members, DOMAIN c.members) /\ None \notin DOMAIN c.members
    /\ \A p \in c.on : c.guildOf[p] # None =>
          c.guildOf[p] \in DOMAIN c.members /\ p \in c.members[c.guildOf[p]]
    /\ \A g \in DOMAIN c.members : \A p \in c.members[g] : p \in c.on /\ c.guildOf[p] = g

GoodChat(c) == HasFields(c, ChatFields) /\ c.on \subseteq Talkers /\ ChannelsGood(c) /\ GuildsGood(c)

ChatInv == GoodChat(chat)

\* The kinds of channels are apart, and so are the ids clients know them by.
LEMMA KeyFacts ==
    /\ \A k : IsNormal(k) => ~IsPrivate(k) /\ ~IsShared(k) /\ k[1] = "normal" /\ k[2] \in NormalChannels /\ ClientId(k) = k[2]
    /\ \A k : IsPrivate(k) => ~IsShared(k) /\ k[1] = "private" /\ k[2] \in PrivateSlots /\ ClientId(k) = k[2]
    /\ \A k : IsShared(k) => k[1] \in {"guild", "party"} /\ ClientId(k) \in {0, 1}
    /\ ~IsNormal(NoChannel) /\ ~IsPrivate(NoChannel) /\ ~IsShared(NoChannel)
<1>1. ASSUME NEW i, NEW k, k = NormalKey(i)
      PROVE  k[1] = "normal" /\ k[2] = i /\ ClientId(k) = i
  BY <1>1 DEF NormalKey, ClientId
<1>2. ASSUME NEW i, NEW k, k = PrivateKey(i)
      PROVE  k[1] = "private" /\ k[2] = i /\ ClientId(k) = i
  BY <1>2 DEF PrivateKey, ClientId
<1>3. ASSUME NEW i, NEW k, k = GuildKey(i)
      PROVE  k[1] = "guild" /\ ClientId(k) = 0
  BY <1>3 DEF GuildKey, ClientId, CHANNEL_GUILD
<1>4. ASSUME NEW i, NEW k, k = PartyKey(i)
      PROVE  k[1] = "party" /\ ClientId(k) = 1
  BY <1>4 DEF PartyKey, ClientId, CHANNEL_PARTY
<1>5. NoChannel[1] = "no"
  BY DEF NoChannel
<1>6. \A k : IsNormal(k) => k[1] = "normal" /\ k[2] \in NormalChannels /\ ClientId(k) = k[2]
  BY <1>1 DEF IsNormal
<1>7. \A k : IsPrivate(k) => k[1] = "private" /\ k[2] \in PrivateSlots /\ ClientId(k) = k[2]
  BY <1>2 DEF IsPrivate
<1>8. \A k : IsShared(k) => k[1] \in {"guild", "party"} /\ ClientId(k) \in {0, 1}
  BY <1>3, <1>4 DEF IsShared
<1> QED BY <1>5, <1>6, <1>7, <1>8

\* Two public or private channels have different ids.
LEMMA IdsApart ==
    ASSUME NEW k, NEW l, ~IsShared(k), ~IsShared(l), IsNormal(k) \/ IsPrivate(k),
           IsNormal(l) \/ IsPrivate(l), ClientId(k) = ClientId(l)
    PROVE  k = l
<1>1. \A i, j : (ClientId(NormalKey(i)) = i) /\ (ClientId(PrivateKey(j)) = j)
  BY DEF NormalKey, PrivateKey, ClientId
<1> QED BY <1>1, ChatAssumption DEF IsNormal, IsPrivate

\* A change that leaves guilds alone.
LEMMA SameGuilds ==
    ASSUME NEW c, GuildsGood(c), NEW d, d.on = c.on, d.guildOf = c.guildOf, d.members = c.members
    PROVE  GuildsGood(d)
BY DEF GuildsGood

\* A change that leaves channels alone.
LEMMA SameChannels ==
    ASSUME NEW c, ChannelsGood(c), NEW d, d.refused = c.refused, d.on = c.on, d.chans = c.chans, d.open = c.open
    PROVE  ChannelsGood(d)
BY DEF ChannelsGood, ChannelGood, Listens

\* Which channel is found: one that exists.
LEMMA FoundExists ==
    ASSUME NEW c, NEW p, NEW id, NEW ok
    PROVE  LET k == GetChannel(c, p, id, ok)
           IN  k = NoChannel \/ k \in DOMAIN c.chans
BY DEF GetChannel, ChatExists

\* By the id of a public or private channel its users find that channel, unless
\* the script of a public one refuses them.
LEMMA FoundByUsers ==
    ASSUME NEW c, ChannelsGood(c), NEW k \in DOMAIN c.chans, ~IsShared(k),
           NEW p \in c.chans[k].users, NEW d, d.chans = c.chans, NEW ok, IsNormal(k) => ok
    PROVE  GetChannel(d, p, ClientId(k), ok) = k
<1>1. ChannelGood(c, k)
  BY DEF ChannelsGood
<1>2. ClientId(k) = k[2] /\ k[2] \notin {0, 1}
  BY <1>1, KeyFacts, ChatAssumption DEF ChannelGood
<1>3. CASE IsNormal(k)
  <2>1. k = NormalKey(ClientId(k)) /\ k[1] = "normal"
    BY <1>2, <1>3, KeyFacts DEF IsNormal, NormalKey
  <2> QED BY <1>2, <1>3, <2>1 DEF GetChannel, ChatExists, CHANNEL_GUILD, CHANNEL_PARTY
<1>4. CASE IsPrivate(k)
  <2>1. k = PrivateKey(ClientId(k)) /\ k[1] = "private" /\ ClientId(k) \in PrivateSlots
    BY <1>2, <1>4, KeyFacts DEF IsPrivate, PrivateKey
  <2>2. NormalKey(ClientId(k)) \notin DOMAIN c.chans
    <3>1. NormalKey(ClientId(k))[1] = "normal" /\ NormalKey(ClientId(k))[2] = ClientId(k)
      BY DEF NormalKey
    <3>2. ~IsPrivate(NormalKey(ClientId(k))) /\ ~IsShared(NormalKey(ClientId(k)))
      BY <3>1, KeyFacts
    <3>3. ~IsNormal(NormalKey(ClientId(k)))
      BY <2>1, <3>1, KeyFacts, ChatAssumption
    <3> QED BY <3>2, <3>3 DEF ChannelsGood, ChannelGood
  <2>3. IsInvited(d, k, p)
    BY <1>1, <1>4 DEF ChannelGood, IsInvited
  <2> QED BY <1>2, <2>1, <2>2, <2>3 DEF GetChannel, ChatExists, CHANNEL_GUILD, CHANNEL_PARTY
<1> QED BY <1>1, <1>3, <1>4 DEF ChannelGood

\* From c to d channel k keeps its owner and stays good.
StillGood(c, d, k) ==
    /\ HasFields(d.chans[k], ChannelFields)
    /\ d.chans[k].owner = c.chans[k].owner
    /\ d.chans[k].users \subseteq d.on
    /\ d.chans[k].invites \subseteq d.on
    /\ ~IsShared(k) => \A p \in d.chans[k].users : Listens(d, k, p)
    /\ IsPrivate(k) => /\ d.chans[k].owner \in d.chans[k].users
                       /\ \A p \in d.chans[k].users : p = d.chans[k].owner \/ p \in d.chans[k].invites

\* Channels go, users and guests leave, windows close: still good as long as who
\* stays has the window, and a private channel its owner and his guests.
LEMMA FewerGood ==
    ASSUME NEW c, ChannelsGood(c), NEW d,
           HasFields(d.chans, DOMAIN d.chans), HasFields(d.open, Talkers),
           DOMAIN d.chans \subseteq DOMAIN c.chans,
           \A k \in DOMAIN d.chans : StillGood(c, d, k)
    PROVE  ChannelsGood(d)
<1>1. \A k \in DOMAIN d.chans : ChannelGood(d, k)
  BY DEF ChannelsGood, ChannelGood, StillGood
<1> QED BY <1>1 DEF ChannelsGood, StillGood

-------------------------------------------------------------------------------
(* What the operations on channels do.                                       *)

\* From c to d the clients of ps have closed the window id.
WindowsClosed(c, d, ps, id) ==
    /\ HasFields(d, ChatFields) /\ HasFields(d.open, Talkers)
    /\ d.refused = c.refused /\ d.on = c.on /\ d.chans = c.chans /\ d.guildOf = c.guildOf /\ d.members = c.members
    /\ \A p \in Talkers : d.open[p] = IF p \in ps THEN c.open[p] \ {id} ELSE c.open[p]

\* From c to d user p has left channel k.
UserLeft(c, d, k, p) ==
    /\ HasFields(d, ChatFields) /\ HasFields(d.chans, DOMAIN c.chans)
    /\ d.refused = c.refused /\ d.on = c.on /\ d.open = c.open /\ d.guildOf = c.guildOf /\ d.members = c.members
    /\ \A l \in DOMAIN c.chans :
          /\ HasFields(d.chans[l], ChannelFields)
          /\ d.chans[l].owner = c.chans[l].owner /\ d.chans[l].invites = c.chans[l].invites
          /\ d.chans[l].users = IF l = k THEN c.chans[l].users \ {p} ELSE c.chans[l].users

\* From c to d channel k has gone.
ChannelGone(c, d, k) ==
    /\ HasFields(d, ChatFields) /\ HasFields(d.chans, DOMAIN c.chans \ {k})
    /\ HasFields(d.open, Talkers)
    /\ d.refused = c.refused /\ d.on = c.on /\ d.guildOf = c.guildOf /\ d.members = c.members
    /\ \A l \in DOMAIN c.chans \ {k} : d.chans[l] = c.chans[l]
    /\ \A p \in Talkers : d.open[p] = IF p \in c.chans[k].users THEN c.open[p] \ {ClientId(k)} ELSE c.open[p]

LEMMA ClientClosesFacts ==
    ASSUME NEW c, HasFields(c, ChatFields), HasFields(c.open, Talkers), NEW ps, NEW id
    PROVE  WindowsClosed(c, ClientCloses(c, ps, id), ps, id)
<1> DEFINE o == [p \in Talkers |-> IF p \in ps THEN c.open[p] \ {id} ELSE c.open[p]]
           d == ClientCloses(c, ps, id)
<1>1. d = [c EXCEPT !.open = o]
  BY DEF ClientCloses
<1>2. HasFields(o, Talkers) /\ \A p \in Talkers : o[p] = IF p \in ps THEN c.open[p] \ {id} ELSE c.open[p]
  BY DEF HasFields
<1> HIDE DEF o, d
<1>3. /\ HasFields(d, ChatFields) /\ d.open = o
      /\ d.refused = c.refused /\ d.on = c.on /\ d.chans = c.chans /\ d.guildOf = c.guildOf /\ d.members = c.members
  BY <1>1 DEF HasFields, ChatFields
<1> QED BY <1>2, <1>3 DEF d, WindowsClosed

\* Closing the windows of guild and party disturbs no other channel.
LEMMA CloseSharedGood ==
    ASSUME NEW c, GoodChat(c), NEW ps
    PROVE  GoodChat(ClientCloses(c, ps, CHANNEL_PARTY)) /\ ClientCloses(c, ps, CHANNEL_PARTY).on = c.on
<1> DEFINE d == ClientCloses(c, ps, CHANNEL_PARTY)
<1>0. HasFields(c, ChatFields) /\ HasFields(c.open, Talkers) /\ ChannelsGood(c)
  BY DEF GoodChat, ChannelsGood
<1>1. WindowsClosed(c, d, ps, CHANNEL_PARTY)
  BY <1>0, ClientClosesFacts
<1> HIDE DEF d
<1>2. /\ HasFields(d, ChatFields) /\ HasFields(d.open, Talkers)
      /\ d.refused = c.refused /\ d.on = c.on /\ d.chans = c.chans /\ d.guildOf = c.guildOf /\ d.members = c.members
      /\ \A p \in Talkers : \A i : i \in c.open[p] /\ i # 1 => i \in d.open[p]
  BY <1>1 DEF WindowsClosed, CHANNEL_PARTY
<1>3. ASSUME NEW k \in DOMAIN d.chans PROVE StillGood(c, d, k)
  <2>1. k \in DOMAIN c.chans /\ ChannelGood(c, k)
    BY <1>0, <1>2 DEF ChannelsGood
  <2>2. ~IsShared(k) => ClientId(k) # 1
    BY <2>1, KeyFacts, ChatAssumption DEF ChannelGood
  <2>3. d.chans[k].users \subseteq Talkers
    BY <1>2, <2>1 DEF ChannelGood, GoodChat
  <2> QED BY <1>2, <2>1, <2>2, <2>3 DEF ChannelGood, StillGood, Listens
<1>4. ChannelsGood(d)
  BY <1>0, <1>2, <1>3, FewerGood DEF ChannelsGood
<1>5. GoodChat(d)
  BY <1>2, <1>4, SameGuilds DEF GoodChat
<1> QED BY <1>2, <1>5 DEF d

\* A user leaves one channel.
LEMMA RemoveUserFacts ==
    ASSUME NEW c, HasFields(c, ChatFields), HasFields(c.chans, DOMAIN c.chans),
           \A l \in DOMAIN c.chans : HasFields(c.chans[l], ChannelFields),
           NEW k \in DOMAIN c.chans, NEW p
    PROVE  UserLeft(c, RemoveUser(c, k, p), k, p)
<1> DEFINE ch == [c.chans[k] EXCEPT !.users = @ \ {p}]
           cs == [c.chans EXCEPT ![k] = ch]
           d == RemoveUser(c, k, p)
<1>1. d = [c EXCEPT !.chans = cs]
  BY DEF RemoveUser, HasFields
<1>2. /\ HasFields(ch, ChannelFields) /\ ch.owner = c.chans[k].owner
      /\ ch.invites = c.chans[k].invites /\ ch.users = c.chans[k].users \ {p}
  <2> DEFINE x == c.chans[k]
  <2>1. HasFields(x, ChannelFields)
    OBVIOUS
  <2> HIDE DEF x
  <2>2. LET y == [x EXCEPT !.users = @ \ {p}]
        IN  HasFields(y, ChannelFields) /\ y.owner = x.owner /\ y.invites = x.invites /\ y.users = x.users \ {p}
    BY <2>1 DEF HasFields, ChannelFields
  <2> QED BY <2>2 DEF x
<1> HIDE DEF ch
<1>3. HasFields(cs, DOMAIN c.chans) /\ cs[k] = ch /\ \A l \in DOMAIN c.chans \ {k} : cs[l] = c.chans[l]
  BY DEF HasFields
<1> HIDE DEF cs, d
<1>4. /\ HasFields(d, ChatFields) /\ d.chans = cs
      /\ d.refused = c.refused /\ d.on = c.on /\ d.open = c.open /\ d.guildOf = c.guildOf /\ d.members = c.members
  BY <1>1 DEF HasFields, ChatFields
<1>5. \A l \in DOMAIN c.chans :
        /\ HasFields(d.chans[l], ChannelFields)
        /\ d.chans[l].owner = c.chans[l].owner /\ d.chans[l].invites = c.chans[l].invites
        /\ d.chans[l].users = IF l = k THEN c.chans[l].users \ {p} ELSE c.chans[l].users
  BY <1>2, <1>3, <1>4
<1> QED BY <1>3, <1>4, <1>5 DEF d, UserLeft

\* A private channel is deleted: its users are told.
LEMMA DeletePrivateFacts ==
    ASSUME NEW c, HasFields(c, ChatFields), HasFields(c.chans, DOMAIN c.chans), HasFields(c.open, Talkers),
           NEW k
    PROVE  ChannelGone(c, DeletePrivate(c, k), k)
<1> DEFINE e == ClientCloses(c, c.chans[k].users, ClientId(k))
           cs == [l \in DOMAIN e.chans \ {k} |-> e.chans[l]]
           d == DeletePrivate(c, k)
<1>1. d = [e EXCEPT !.chans = cs]
  BY DEF DeletePrivate, Without
<1>2. /\ HasFields(e, ChatFields) /\ HasFields(e.open, Talkers)
      /\ e.refused = c.refused /\ e.on = c.on /\ e.chans = c.chans /\ e.guildOf = c.guildOf /\ e.members = c.members
      /\ \A p \in Talkers : e.open[p] = IF p \in c.chans[k].users THEN c.open[p] \ {ClientId(k)} ELSE c.open[p]
  <2>1. WindowsClosed(c, e, c.chans[k].users, ClientId(k))
    BY ClientClosesFacts
  <2> HIDE DEF e
  <2> QED BY <2>1 DEF WindowsClosed
<1> HIDE DEF e
<1>3. HasFields(cs, DOMAIN c.chans \ {k}) /\ \A l \in DOMAIN c.chans \ {k} : cs[l] = c.chans[l]
  BY <1>2 DEF HasFields
<1> HIDE DEF cs, d
<1>4. /\ HasFields(d, ChatFields) /\ d.chans = cs /\ d.open = e.open
      /\ d.refused = e.refused /\ d.on = e.on /\ d.guildOf = e.guildOf /\ d.members = e.members
  BY <1>1, <1>2 DEF HasFields, ChatFields
<1> QED BY <1>2, <1>3, <1>4 DEF d, ChannelGone

\* Leaving a channel by its id, whether the window is closed already or not.
LEMMA RemoveFromChannelGood ==
    ASSUME NEW b, GoodChat(b), NEW p \in Talkers, NEW id, NEW ok \in BOOLEAN, NEW c, HasFields(c, ChatFields),
           b.refused \subseteq c.refused,
           ~ok /\ NormalKey(id) \in DOMAIN b.chans /\ p \in b.chans[NormalKey(id)].users => <<p, NormalKey(id)>> \in c.refused,
           c.on = b.on, c.chans = b.chans, c.guildOf = b.guildOf, c.members = b.members,
           HasFields(c.open, Talkers),
           \A q \in Talkers \ {p} : c.open[q] = b.open[q],
           c.open[p] = b.open[p] \/ c.open[p] = b.open[p] \ {id}
    PROVE  GoodChat(RemoveUserFromChannel(c, p, id, ok)) /\ RemoveUserFromChannel(c, p, id, ok).on = b.on
<1> DEFINE k == GetChannel(c, p, id, ok)
           d == RemoveUser(c, k, p)
           r == RemoveUserFromChannel(c, p, id, ok)
<1>0. ChannelsGood(b) /\ GuildsGood(b) /\ b.on \subseteq Talkers
  BY DEF GoodChat
<1>1. r = IF k = NoChannel \/ p \notin c.chans[k].users THEN c
          ELSE IF c.chans[k].owner = p THEN DeletePrivate(d, k) ELSE d
  BY DEF RemoveUserFromChannel
<1>2. k = NoChannel \/ k \in DOMAIN b.chans
  BY FoundExists
<1>3. \A l \in DOMAIN b.chans : ~IsShared(l) /\ p \in b.chans[l].users /\ ClientId(l) = id /\ (IsNormal(l) => ok) => k = l
  BY <1>0, FoundByUsers
<1> HIDE DEF k, r
<1>4. HasFields(b.chans, DOMAIN b.chans) /\ \A l \in DOMAIN b.chans : ChannelGood(b, l)
  BY <1>0 DEF ChannelsGood
<1>5. \A l \in DOMAIN b.chans : b.chans[l].users \subseteq Talkers
  BY <1>0, <1>4 DEF ChannelGood
\* a window that is still needed is open, or was closed by who is refused
<1>6. ASSUME NEW l \in DOMAIN b.chans, ~IsShared(l), NEW q \in b.chans[l].users, l # k \/ q # p
      PROVE  Listens(c, l, q)
  <2>1. Listens(b, l, q) /\ q \in Talkers
    BY <1>4, <1>5, <1>6 DEF ChannelGood
  <2>2. CASE q # p
    BY <2>1, <2>2 DEF Listens
  <2>3. CASE q = p /\ ClientId(l) = id /\ IsNormal(l) /\ ~ok
    <3>1. l = NormalKey(id) /\ l[1] = "normal"
      BY <2>3, KeyFacts DEF IsNormal, NormalKey
    <3> QED BY <1>6, <2>3, <3>1 DEF Listens
  <2>4. CASE q = p /\ ~(ClientId(l) = id /\ IsNormal(l) /\ ~ok)
    <3>1. ClientId(l) # id
      BY <1>3, <1>6, <2>4
    <3> QED BY <2>1, <2>4, <3>1 DEF Listens
  <2> QED BY <2>2, <2>3, <2>4
<1>7. CASE k = NoChannel \/ p \notin c.chans[k].users
  <2>1. ASSUME NEW l \in DOMAIN c.chans PROVE StillGood(b, c, l)
    <3>1. ChannelGood(b, l)
      BY <1>4
    <3>2. k \notin DOMAIN b.chans \/ p \notin b.chans[k].users
      BY <1>4, <1>7, KeyFacts DEF ChannelGood
    <3>3. ~IsShared(l) => \A q \in b.chans[l].users : Listens(c, l, q)
      BY <1>6, <3>2
    <3> QED BY <3>1, <3>3 DEF ChannelGood, StillGood
  <2>2. ChannelsGood(c)
    BY <1>0, <1>4, <2>1, FewerGood
  <2>3. GuildsGood(c)
    BY <1>0, SameGuilds
  <2> QED BY <1>0, <1>1, <1>7, <2>2, <2>3 DEF GoodChat, r
<1>8. CASE k \in DOMAIN b.chans /\ p \in c.chans[k].users
  <2>0. k # NoChannel
    BY <1>4, <1>8, KeyFacts DEF ChannelGood
  <2>1. UserLeft(c, d, k, p)
    BY <1>4, <1>8, RemoveUserFacts DEF ChannelGood
  <2> HIDE DEF d
  <2>2. /\ HasFields(d, ChatFields) /\ HasFields(d.chans, DOMAIN b.chans) /\ HasFields(d.open, Talkers)
        /\ d.refused = c.refused /\ d.on = b.on /\ d.open = c.open /\ d.guildOf = b.guildOf /\ d.members = b.members
        /\ DOMAIN d.chans = DOMAIN b.chans
    BY <2>1 DEF UserLeft, HasFields
  <2>3. ASSUME NEW l \in DOMAIN b.chans
        PROVE  /\ HasFields(d.chans[l], ChannelFields)
               /\ d.chans[l].owner = b.chans[l].owner /\ d.chans[l].invites = b.chans[l].invites
               /\ d.chans[l].users \subseteq b.chans[l].users
               /\ l # k => d.chans[l].users = b.chans[l].users
               /\ \A q \in b.chans[l].users : q # p => q \in d.chans[l].users
               /\ p \notin d.chans[k].users
    BY <1>8, <2>1 DEF UserLeft
  <2>4. CASE c.chans[k].owner # p
    <3>1. ASSUME NEW l \in DOMAIN d.chans PROVE StillGood(b, d, l)
      <4>1. ChannelGood(b, l) /\ l \in DOMAIN b.chans
        BY <1>4, <2>2
      <4>2. ~IsShared(l) => \A q \in d.chans[l].users : Listens(d, l, q)
        BY <1>6, <2>2, <2>3, <4>1 DEF Listens
      <4>3. IsPrivate(l) => b.chans[l].owner # p \/ l # k
        BY <2>4
      <4> QED BY <2>2, <2>3, <4>1, <4>2, <4>3 DEF ChannelGood, StillGood
    <3>3. ChannelsGood(d)
      BY <1>0, <2>2, <3>1, FewerGood
    <3>4. GuildsGood(d)
      BY <1>0, <2>2, SameGuilds
    <3> QED BY <1>0, <1>1, <1>8, <2>0, <2>2, <2>4, <3>3, <3>4 DEF GoodChat, r, d
  <2>5. CASE c.chans[k].owner = p
    <3> DEFINE e == DeletePrivate(d, k)
    <3>1. ChannelGone(d, e, k)
      BY <2>2, DeletePrivateFacts
    <3> HIDE DEF e
    <3>2. /\ HasFields(e, ChatFields) /\ HasFields(e.chans, DOMAIN b.chans \ {k}) /\ HasFields(e.open, Talkers)
          /\ e.refused = c.refused /\ e.on = b.on /\ e.guildOf = b.guildOf /\ e.members = b.members
          /\ DOMAIN e.chans = DOMAIN b.chans \ {k}
      BY <2>2, <3>1 DEF ChannelGone, HasFields
    <3>3. IsPrivate(k)
      BY <1>4, <1>8, <2>5, ChatAssumption DEF ChannelGood
    <3>4. ASSUME NEW l \in DOMAIN e.chans PROVE StillGood(b, e, l)
      <4>1. ChannelGood(b, l) /\ l \in DOMAIN b.chans /\ l # k
        BY <1>4, <3>2
      <4>2. e.chans[l] = d.chans[l]
        BY <2>2, <3>1, <4>1 DEF ChannelGone
      <4>3. ~IsShared(l) => ClientId(l) # ClientId(k)
        BY <3>3, <4>1, KeyFacts, IdsApart DEF ChannelGood
      <4>4. \A q \in Talkers : \A i : i \in c.open[q] /\ i # ClientId(k) => i \in e.open[q]
        BY <2>2, <3>1 DEF ChannelGone
      <4>5. d.chans[l].users = b.chans[l].users
        BY <2>3, <4>1
      <4>6. ~IsShared(l) => \A q \in b.chans[l].users : Listens(e, l, q)
        BY <1>5, <1>6, <3>2, <4>1, <4>3, <4>4 DEF Listens
      <4> QED BY <2>3, <3>2, <4>1, <4>2, <4>5, <4>6 DEF ChannelGood, StillGood
    <3>7. ChannelsGood(e)
      BY <1>0, <3>2, <3>4, FewerGood
    <3>8. GuildsGood(e)
      BY <1>0, <3>2, SameGuilds
    <3> QED BY <1>0, <1>1, <1>8, <2>0, <2>5, <3>2, <3>7, <3>8 DEF GoodChat, r, e, d
  <2> QED BY <2>4, <2>5
<1> QED BY <1>2, <1>7, <1>8

\* From c to d player p has left every channel, and his own has gone.
AllLeft(c, d, p) ==
    /\ HasFields(d, ChatFields) /\ HasFields(d.chans, DOMAIN d.chans) /\ HasFields(d.open, Talkers)
    /\ d.on = c.on /\ d.guildOf = c.guildOf /\ d.members = c.members
    /\ d.refused = {x \in c.refused : x[1] # p}
    /\ DOMAIN d.chans = {k \in DOMAIN c.chans : c.chans[k].owner # p}
    /\ \A k \in DOMAIN d.chans :
          /\ HasFields(d.chans[k], ChannelFields)
          /\ d.chans[k].owner = c.chans[k].owner
          /\ d.chans[k].users = c.chans[k].users \ {p}
          /\ d.chans[k].invites = c.chans[k].invites \ {p}
    /\ \A q \in Talkers : \A i :
          i \in c.open[q] /\ (\A k \in OwnPrivate(c, p) : i # ClientId(k)) => i \in d.open[q]

LEMMA RemoveAllFacts ==
    ASSUME NEW c, HasFields(c, ChatFields), HasFields(c.open, Talkers),
           \A k \in DOMAIN c.chans : HasFields(c.chans[k], ChannelFields), NEW p
    PROVE  AllLeft(c, RemoveUserFromAllChannels(c, p), p)
<1> DEFINE own == OwnPrivate(c, p)
           closed(q) == {ClientId(k) : k \in {x \in own : q \in c.chans[x].users \ {p}}}
           ch(k) == [c.chans[k] EXCEPT !.users = @ \ {p}, !.invites = @ \ {p}]
           cs == [k \in DOMAIN c.chans \ own |-> ch(k)]
           o == [q \in Talkers |-> c.open[q] \ closed(q)]
           d == RemoveUserFromAllChannels(c, p)
<1>1. d = [c EXCEPT !.chans = cs, !.open = o, !.refused = {x \in c.refused : x[1] # p}]
  BY DEF RemoveUserFromAllChannels
<1>2. ASSUME NEW k \in DOMAIN c.chans
      PROVE  /\ HasFields(ch(k), ChannelFields) /\ ch(k).owner = c.chans[k].owner
             /\ ch(k).users = c.chans[k].users \ {p} /\ ch(k).invites = c.chans[k].invites \ {p}
  <2> DEFINE x == c.chans[k]
  <2>1. HasFields(x, ChannelFields)
    OBVIOUS
  <2> HIDE DEF x
  <2>2. LET y == [x EXCEPT !.users = @ \ {p}, !.invites = @ \ {p}]
        IN  HasFields(y, ChannelFields) /\ y.owner = x.owner /\ y.users = x.users \ {p} /\ y.invites = x.invites \ {p}
    BY <2>1 DEF HasFields, ChannelFields
  <2> QED BY <2>2 DEF x
<1>3. own = {k \in DOMAIN c.chans : c.chans[k].owner = p}
  BY DEF OwnPrivate
<1>4. \A q, i : i \in closed(q) => \E k \in own : i = ClientId(k)
  OBVIOUS
<1> HIDE DEF own, closed, ch
<1>5. /\ HasFields(cs, DOMAIN cs) /\ DOMAIN cs = DOMAIN c.chans \ own
      /\ \A k \in DOMAIN cs : cs[k] = ch(k)
      /\ HasFields(o, Talkers) /\ \A q \in Talkers : o[q] = c.open[q] \ closed(q)
  BY DEF HasFields
<1> HIDE DEF cs, o, d
<1>6. /\ HasFields(d, ChatFields) /\ d.chans = cs /\ d.open = o
      /\ d.refused = {x \in c.refused : x[1] # p} /\ d.on = c.on /\ d.guildOf = c.guildOf /\ d.members = c.members
  BY <1>1 DEF HasFields, ChatFields
<1>7. DOMAIN d.chans = {k \in DOMAIN c.chans : c.chans[k].owner # p}
  BY <1>3, <1>5, <1>6
<1>8. \A q \in Talkers : \A i : i \in c.open[q] /\ (\A k \in OwnPrivate(c, p) : i # ClientId(k)) => i \in d.open[q]
  BY <1>4, <1>5, <1>6 DEF own
<1>9. ASSUME NEW k \in DOMAIN d.chans
      PROVE  /\ HasFields(d.chans[k], ChannelFields) /\ d.chans[k].owner = c.chans[k].owner
             /\ d.chans[k].users = c.chans[k].users \ {p} /\ d.chans[k].invites = c.chans[k].invites \ {p}
  BY <1>2, <1>5, <1>6
<1>10. HasFields(d.chans, DOMAIN d.chans) /\ HasFields(d.open, Talkers)
  BY <1>5, <1>6
<1>11. AllLeft(c, d, p)
  BY <1>6, <1>7, <1>8, <1>9, <1>10 DEF AllLeft
<1> QED BY <1>11 DEF d

\* Windows that are still needed stay open, and an owner stays in his channel.
LEMMA AllLeftStill ==
    ASSUME NEW c, GoodChat(c), NEW p \in Talkers, NEW d, AllLeft(c, d, p), NEW k \in DOMAIN d.chans
    PROVE  StillGood(c, d, k)
<1>1. k \in DOMAIN c.chans /\ c.chans[k].owner # p /\ ChannelGood(c, k)
  BY DEF AllLeft, GoodChat, ChannelsGood
<1>2. /\ HasFields(d.chans[k], ChannelFields) /\ d.on = c.on
      /\ d.chans[k].owner = c.chans[k].owner
      /\ d.chans[k].users = c.chans[k].users \ {p}
      /\ d.chans[k].invites = c.chans[k].invites \ {p}
  BY DEF AllLeft
<1>3. ~IsShared(k) => \A l \in OwnPrivate(c, p) : ClientId(l) # ClientId(k)
  <2>1. SUFFICES ASSUME ~IsShared(k), NEW l \in DOMAIN c.chans, c.chans[l].owner = p PROVE ClientId(l) # ClientId(k)
    BY DEF OwnPrivate
  <2>2. ChannelGood(c, l) /\ p # None
    BY ChatAssumption DEF GoodChat, ChannelsGood
  <2>3. IsPrivate(l) /\ l # k
    BY <1>1, <2>1, <2>2 DEF ChannelGood
  <2> QED BY <1>1, <2>1, <2>3, KeyFacts, IdsApart DEF ChannelGood
<1>4. ~IsShared(k) => \A q \in d.chans[k].users : Listens(d, k, q)
  <2>1. SUFFICES ASSUME ~IsShared(k), NEW q \in d.chans[k].users PROVE Listens(d, k, q)
    OBVIOUS
  <2>2. q \in c.chans[k].users /\ q \in Talkers /\ q # p
    BY <1>1, <1>2, <2>1 DEF ChannelGood, GoodChat
  <2>3. Listens(c, k, q)
    BY <1>1, <2>1, <2>2 DEF ChannelGood
  <2>4. CASE ClientId(k) \in c.open[q]
    BY <1>3, <2>1, <2>2, <2>4 DEF AllLeft, Listens
  <2>5. CASE k[1] = "normal" /\ <<q, k>> \in c.refused
    <3>1. <<q, k>> \in d.refused
      BY <2>2, <2>5 DEF AllLeft
    <3> QED BY <2>5, <3>1 DEF Listens
  <2> QED BY <2>3, <2>4, <2>5 DEF Listens
<1> QED BY <1>1, <1>2, <1>4 DEF ChannelGood, StillGood

LEMMA RemoveAllGood ==
    ASSUME NEW c, GoodChat(c), NEW p \in Talkers
    PROVE  LET d == RemoveUserFromAllChannels(c, p) IN AllLeft(c, d, p) /\ GoodChat(d)
<1> DEFINE d == RemoveUserFromAllChannels(c, p)
<1>1. AllLeft(c, d, p)
  BY RemoveAllFacts DEF GoodChat, ChannelsGood, ChannelGood
<1> HIDE DEF d
<1>2. \A k \in DOMAIN d.chans : StillGood(c, d, k)
  BY <1>1, AllLeftStill
<1>3. ChannelsGood(d)
  BY <1>1, <1>2, FewerGood DEF GoodChat, AllLeft
<1>4. GuildsGood(d)
  BY <1>1, SameGuilds DEF GoodChat, AllLeft
<1>5. GoodChat(d)
  BY <1>1, <1>3, <1>4 DEF GoodChat, AllLeft
<1> QED BY <1>1, <1>5 DEF d

-------------------------------------------------------------------------------
(* Parties.                                                                  *)

\* Only who is in the party or was is taken out of its channel.
LEMMA DisbandGood ==
    ASSUME NEW c, GoodChat(c), NEW a
    PROVE  GoodChat(Disband(c, a)) /\ Disband(c, a).on = c.on
<1> DEFINE ps == c.party[a]
           po == [p \in Talkers |-> IF p \in ps THEN None ELSE c.partyOf[p]]
           pt == [c.party EXCEPT ![a] = {}]
           d == [c EXCEPT !.partyOf = po, !.party = pt]
           found(k) == {p \in ps : GetChannel(d, p, CHANNEL_PARTY, TRUE) = k}
           ch(k) == [c.chans[k] EXCEPT !.users = @ \ found(k)]
           cs == [k \in DOMAIN c.chans |-> ch(k)]
           e == [d EXCEPT !.chans = cs]
<1>0. HasFields(c, ChatFields) /\ ChannelsGood(c) /\ HasFields(c.open, Talkers)
  BY DEF GoodChat, ChannelsGood
<1>1. /\ HasFields(d, ChatFields) /\ d.chans = c.chans
      /\ d.refused = c.refused /\ d.on = c.on /\ d.open = c.open /\ d.guildOf = c.guildOf /\ d.members = c.members
  <2> HIDE DEF po, pt
  <2> QED BY <1>0 DEF HasFields, ChatFields
<1>2. Disband(c, a) = ClientCloses(e, ps, CHANNEL_PARTY)
  BY <1>0, <1>1 DEF Disband, HasFields, ChatFields
<1>3. \A k : found(k) # {} => k = NoChannel \/ IsShared(k)
  BY DEF GetChannel, CHANNEL_PARTY, CHANNEL_GUILD, IsShared
<1> HIDE DEF d, found
<1>4. ASSUME NEW k \in DOMAIN c.chans
      PROVE  /\ HasFields(ch(k), ChannelFields) /\ ch(k).owner = c.chans[k].owner
             /\ ch(k).users = c.chans[k].users \ found(k) /\ ch(k).invites = c.chans[k].invites
  <2> DEFINE x == c.chans[k]
  <2>1. HasFields(x, ChannelFields)
    BY <1>0 DEF ChannelsGood, ChannelGood
  <2> HIDE DEF x
  <2>2. LET y == [x EXCEPT !.users = @ \ found(k)]
        IN  HasFields(y, ChannelFields) /\ y.owner = x.owner /\ y.users = x.users \ found(k) /\ y.invites = x.invites
    BY <2>1 DEF HasFields, ChannelFields
  <2> QED BY <2>2 DEF x
<1> HIDE DEF ch
<1>5. HasFields(cs, DOMAIN c.chans) /\ DOMAIN cs = DOMAIN c.chans /\ \A k \in DOMAIN cs : cs[k] = ch(k)
  BY DEF HasFields
<1> HIDE DEF cs
<1>6. /\ HasFields(e, ChatFields) /\ e.chans = cs
      /\ e.refused = c.refused /\ e.on = c.on /\ e.open = c.open /\ e.guildOf = c.guildOf /\ e.members = c.members
  BY <1>1 DEF HasFields, ChatFields
<1> HIDE DEF e
<1>7. ASSUME NEW k \in DOMAIN e.chans PROVE StillGood(c, e, k)
  <2>1. k \in DOMAIN c.chans /\ ChannelGood(c, k) /\ e.chans[k] = ch(k)
    BY <1>0, <1>5, <1>6 DEF ChannelsGood
  <2>2. ~IsShared(k) => found(k) = {}
    BY <1>3, <2>1, KeyFacts DEF ChannelGood
  <2>3. IsPrivate(k) => found(k) = {}
    BY <2>2, KeyFacts
  <2> QED BY <1>4, <1>6, <2>1, <2>2, <2>3 DEF ChannelGood, StillGood
<1>8. GoodChat(e)
  <2>1. ChannelsGood(e)
    BY <1>0, <1>5, <1>6, <1>7, FewerGood
  <2>2. GuildsGood(e)
    BY <1>6, SameGuilds DEF GoodChat
  <2> QED BY <1>6, <2>1, <2>2 DEF GoodChat
<1> QED BY <1>2, <1>6, <1>8, CloseSharedGood

\* Leaving by id when nothing has been closed yet.
LEMMA LeaveChannelGood ==
    ASSUME NEW c, GoodChat(c), NEW p \in Talkers, NEW id
    PROVE  GoodChat(RemoveUserFromChannel(c, p, id, TRUE)) /\ RemoveUserFromChannel(c, p, id, TRUE).on = c.on
<1>1. HasFields(c, ChatFields) /\ HasFields(c.open, Talkers)
  BY DEF GoodChat, ChannelsGood
<1>2. ASSUME NEW ok \in BOOLEAN, ok = TRUE, NEW b, b = c
      PROVE  GoodChat(RemoveUserFromChannel(c, p, id, ok)) /\ RemoveUserFromChannel(c, p, id, ok).on = b.on
  <2>1. /\ GoodChat(b) /\ b.refused \subseteq c.refused
        /\ c.on = b.on /\ c.chans = b.chans /\ c.guildOf = b.guildOf /\ c.members = b.members
        /\ \A q \in Talkers \ {p} : c.open[q] = b.open[q]
        /\ c.open[p] = b.open[p]
    BY <1>2
  <2>2. ~ok /\ NormalKey(id) \in DOMAIN b.chans /\ p \in b.chans[NormalKey(id)].users => <<p, NormalKey(id)>> \in c.refused
    BY <1>2
  <2> QED BY <1>1, <2>1, <2>2, RemoveFromChannelGood
<1> QED BY <1>2

LEMMA LeavePartyGood ==
    ASSUME NEW c, GoodChat(c), NEW p \in Talkers
    PROVE  GoodChat(ChatLeaveParty(c, p)) /\ ChatLeaveParty(c, p).on = c.on
<1> DEFINE a == c.partyOf[p]
           d == SendClosePrivate(c, p, CHANNEL_PARTY)
           po == [d.partyOf EXCEPT ![p] = None]
           pt == [d.party EXCEPT ![a] = @ \ {p}]
           e == [d EXCEPT !.partyOf[p] = None, !.party[a] = @ \ {p}]
<1>1. GoodChat(d) /\ d.on = c.on
  BY LeaveChannelGood, CloseSharedGood DEF SendClosePrivate
<1>2. ChatLeaveParty(c, p) = IF a = None THEN c ELSE IF Cardinality(e.party[a]) <= 1 THEN Disband(e, a) ELSE e
  BY DEF ChatLeaveParty
<1> HIDE DEF d
<1>3. HasFields(d, ChatFields)
  BY <1>1 DEF GoodChat
<1>4. e = [d EXCEPT !.partyOf = po, !.party = pt]
  BY <1>3 DEF HasFields, ChatFields
<1> HIDE DEF po, pt, e
<1>5. /\ HasFields(e, ChatFields) /\ e.chans = d.chans
      /\ e.refused = d.refused /\ e.on = d.on /\ e.open = d.open /\ e.guildOf = d.guildOf /\ e.members = d.members
  BY <1>3, <1>4 DEF HasFields, ChatFields
<1>6. GoodChat(e)
  BY <1>1, <1>5, SameGuilds, SameChannels DEF GoodChat
<1> QED BY <1>1, <1>2, <1>5, <1>6, DisbandGood

-------------------------------------------------------------------------------
(* A channel that is new or gains a user or a guest.                         *)

\* From c to d only channel k is new or changed, and windows may have opened.
ChannelPut(c, d, k) ==
    /\ HasFields(d, ChatFields) /\ HasFields(d.chans, DOMAIN c.chans \cup {k}) /\ HasFields(d.open, Talkers)
    /\ d.refused = c.refused /\ d.on = c.on /\ d.guildOf = c.guildOf /\ d.members = c.members
    /\ \A l \in DOMAIN c.chans \ {k} : d.chans[l] = c.chans[l]
    /\ \A q \in Talkers : c.open[q] \subseteq d.open[q]

LEMMA ChannelPutGood ==
    ASSUME NEW c, GoodChat(c), NEW d, NEW k, ChannelPut(c, d, k), ChannelGood(d, k),
           \A l \in DOMAIN c.chans \ {k} : d.chans[k].owner # None => c.chans[l].owner # d.chans[k].owner
    PROVE  GoodChat(d)
<1>1. /\ ChannelsGood(c) /\ GuildsGood(c) /\ c.on \subseteq Talkers
      /\ HasFields(d, ChatFields) /\ HasFields(d.chans, DOMAIN c.chans \cup {k}) /\ HasFields(d.open, Talkers)
      /\ d.refused = c.refused /\ d.on = c.on /\ d.guildOf = c.guildOf /\ d.members = c.members
      /\ \A l \in DOMAIN c.chans \ {k} : d.chans[l] = c.chans[l]
      /\ \A q \in Talkers : c.open[q] \subseteq d.open[q]
  BY DEF GoodChat, ChannelPut
<1>2. DOMAIN d.chans = DOMAIN c.chans \cup {k}
  BY <1>1 DEF HasFields
<1>3. ASSUME NEW l \in DOMAIN c.chans \ {k} PROVE ChannelGood(d, l)
  <2>1. ChannelGood(c, l) /\ d.chans[l] = c.chans[l]
    BY <1>1 DEF ChannelsGood
  <2>2. c.chans[l].users \subseteq Talkers
    BY <1>1, <2>1 DEF ChannelGood
  <2> QED BY <1>1, <2>1, <2>2 DEF ChannelGood, Listens
<1>4. \A l, m \in DOMAIN d.chans : d.chans[l].owner = d.chans[m].owner /\ d.chans[l].owner # None => l = m
  <2>1. SUFFICES ASSUME NEW l \in DOMAIN d.chans, NEW m \in DOMAIN d.chans,
                        d.chans[l].owner = d.chans[m].owner, d.chans[l].owner # None
                 PROVE  l = m
    OBVIOUS
  <2>2. CASE l = k
    BY <1>1, <1>2, <2>1, <2>2
  <2>3. CASE m = k
    BY <1>1, <1>2, <2>1, <2>3
  <2>4. CASE l # k /\ m # k
    BY <1>1, <1>2, <2>1, <2>4 DEF ChannelsGood
  <2> QED BY <2>2, <2>3, <2>4
<1>5. ChannelsGood(d)
  BY <1>1, <1>2, <1>3, <1>4 DEF ChannelsGood
<1> QED BY <1>1, <1>5, SameGuilds DEF GoodChat

\* w is f but for its value at k, or but for k.
IsWith(w, f, k, v) ==
    HasFields(w, DOMAIN f \cup {k}) /\ w[k] = v /\ \A l \in DOMAIN f \ {k} : w[l] = f[l]
IsWithout(w, f, k) ==
    HasFields(w, DOMAIN f \ {k}) /\ \A l \in DOMAIN f \ {k} : w[l] = f[l]

LEMMA WithFacts ==
    ASSUME NEW f, NEW k, NEW v
    PROVE  IsWith(With(f, k, v), f, k, v) /\ IsWithout(Without(f, {k}), f, k)
BY DEF With, Without, HasFields, IsWith, IsWithout

\* The channel of a guild or a party, when somebody opens the list.
LEMMA SharedChannelGood ==
    ASSUME NEW c, GoodChat(c), NEW k, IsShared(k)
    PROVE  GoodChat([c EXCEPT !.chans = With(@, k, EmptyChannel)])
<1> DEFINE cs == With(c.chans, k, EmptyChannel)
           d == [c EXCEPT !.chans = cs]
<1>1. HasFields(c, ChatFields) /\ HasFields(c.open, Talkers)
  BY DEF GoodChat, ChannelsGood
<1>2. IsWith(cs, c.chans, k, EmptyChannel)
  BY WithFacts
<1> HIDE DEF cs
<1>3. /\ HasFields(d, ChatFields) /\ d.chans = cs
      /\ d.refused = c.refused /\ d.on = c.on /\ d.open = c.open /\ d.guildOf = c.guildOf /\ d.members = c.members
  BY <1>1 DEF HasFields, ChatFields
<1> HIDE DEF d
<1>4. ChannelPut(c, d, k)
  BY <1>1, <1>2, <1>3 DEF ChannelPut, IsWith
<1>5. /\ HasFields(EmptyChannel, ChannelFields)
      /\ EmptyChannel.users = {} /\ EmptyChannel.invites = {} /\ EmptyChannel.owner = None
  BY DEF EmptyChannel, HasFields, ChannelFields
<1>6. ~IsPrivate(k)
  BY KeyFacts
<1>7. ChannelGood(d, k)
  BY <1>2, <1>3, <1>5, <1>6 DEF ChannelGood, IsWith
<1>8. GoodChat(d)
  BY <1>2, <1>3, <1>4, <1>5, <1>7, ChannelPutGood DEF IsWith
<1> QED BY <1>8 DEF d, cs

LEMMA CreateChannelGood ==
    ASSUME NEW c, GoodChat(c), NEW p, NEW id
    PROVE  GoodChat(CreateChannel(c, p, id))
<1>1. IsShared(GuildKey(c.guildOf[p])) /\ IsShared(PartyKey(c.partyOf[p]))
  BY DEF IsShared
<1>2. /\ GoodChat([c EXCEPT !.chans = With(@, GuildKey(c.guildOf[p]), EmptyChannel)])
      /\ GoodChat([c EXCEPT !.chans = With(@, PartyKey(c.partyOf[p]), EmptyChannel)])
  BY <1>1, SharedChannelGood
<1> QED BY <1>2 DEF CreateChannel

\* From c to d the guests of channel k are is.
GuestsSet(c, d, k, is) ==
    /\ ChannelPut(c, d, k) /\ HasFields(d.chans[k], ChannelFields) /\ d.open = c.open
    /\ d.chans[k].users = c.chans[k].users /\ d.chans[k].invites = is
    /\ d.chans[k].owner = c.chans[k].owner

\* An existing channel changes its users and guests and a window opens.
LEMMA SetChannelFacts ==
    ASSUME NEW c, GoodChat(c), NEW k \in DOMAIN c.chans, NEW us, NEW is
    PROVE  /\ \A p \in Talkers : \A id :
                 LET d == [c EXCEPT !.chans[k].users = us, !.open[p] = @ \cup {id}]
                 IN  /\ ChannelPut(c, d, k) /\ HasFields(d.chans[k], ChannelFields)
                     /\ d.chans[k].users = us /\ d.chans[k].invites = c.chans[k].invites
                     /\ d.chans[k].owner = c.chans[k].owner /\ id \in d.open[p]
           /\ GuestsSet(c, [c EXCEPT !.chans[k].invites = is], k, is)
<1> DEFINE x == c.chans[k]
           y == [x EXCEPT !.users = us]
           z == [x EXCEPT !.invites = is]
           ys == [c.chans EXCEPT ![k] = y]
           zs == [c.chans EXCEPT ![k] = z]
<1>1. HasFields(c, ChatFields) /\ HasFields(c.chans, DOMAIN c.chans) /\ HasFields(c.open, Talkers) /\ HasFields(x, ChannelFields)
  BY DEF GoodChat, ChannelsGood, ChannelGood
<1> HIDE DEF x
<1>2. /\ HasFields(y, ChannelFields) /\ y.users = us /\ y.invites = x.invites /\ y.owner = x.owner
      /\ HasFields(z, ChannelFields) /\ z.users = x.users /\ z.invites = is /\ z.owner = x.owner
  BY <1>1 DEF HasFields, ChannelFields
<1> HIDE DEF y, z
<1>3. /\ HasFields(ys, DOMAIN c.chans) /\ ys[k] = y /\ \A l \in DOMAIN c.chans \ {k} : ys[l] = c.chans[l]
      /\ HasFields(zs, DOMAIN c.chans) /\ zs[k] = z /\ \A l \in DOMAIN c.chans \ {k} : zs[l] = c.chans[l]
  BY <1>1 DEF HasFields
<1>4. DOMAIN c.chans \cup {k} = DOMAIN c.chans
  OBVIOUS
<1>5. ASSUME NEW p \in Talkers, NEW id
      PROVE  LET d == [c EXCEPT !.chans[k].users = us, !.open[p] = @ \cup {id}]
             IN  /\ ChannelPut(c, d, k) /\ HasFields(d.chans[k], ChannelFields)
                 /\ d.chans[k].users = us /\ d.chans[k].invites = c.chans[k].invites
                 /\ d.chans[k].owner = c.chans[k].owner /\ id \in d.open[p]
  <2> DEFINE d == [c EXCEPT !.chans[k].users = us, !.open[p] = @ \cup {id}]
             o == [c.open EXCEPT ![p] = @ \cup {id}]
  <2>1. d = [c EXCEPT !.chans = ys, !.open = o]
    BY <1>1 DEF HasFields, ChatFields, ys, y, x
  <2>2. HasFields(o, Talkers) /\ id \in o[p] /\ \A q \in Talkers : c.open[q] \subseteq o[q]
    BY <1>1 DEF HasFields
  <2> HIDE DEF o, ys, d
  <2>3. /\ HasFields(d, ChatFields) /\ d.chans = ys /\ d.open = o
        /\ d.refused = c.refused /\ d.on = c.on /\ d.guildOf = c.guildOf /\ d.members = c.members
    BY <1>1, <2>1 DEF HasFields, ChatFields
  <2>4. ChannelPut(c, d, k)
    BY <1>3, <1>4, <2>2, <2>3 DEF ChannelPut
  <2> QED BY <1>2, <1>3, <2>2, <2>3, <2>4 DEF d, x
<1>6. GuestsSet(c, [c EXCEPT !.chans[k].invites = is], k, is)
  <2> DEFINE d == [c EXCEPT !.chans[k].invites = is]
  <2>1. d = [c EXCEPT !.chans = zs]
    BY <1>1 DEF HasFields, ChatFields, zs, z, x
  <2> HIDE DEF zs, d
  <2>3. /\ HasFields(d, ChatFields) /\ d.chans = zs /\ d.open = c.open
        /\ d.refused = c.refused /\ d.on = c.on /\ d.guildOf = c.guildOf /\ d.members = c.members
    BY <1>1, <2>1 DEF HasFields, ChatFields
  <2>4. ChannelPut(c, d, k)
    BY <1>1, <1>3, <1>4, <2>3 DEF ChannelPut
  <2> QED BY <1>2, <1>3, <2>3, <2>4 DEF d, x, GuestsSet
<1> QED BY <1>5, <1>6

-------------------------------------------------------------------------------
(* Guilds.                                                                   *)

LEMMA LoadGuildGood ==
    ASSUME NEW c, GoodChat(c), NEW g
    PROVE  LET d == LoadGuild(c, g)
           IN  /\ GoodChat(d) /\ d.refused = c.refused /\ d.on = c.on /\ d.chans = c.chans /\ d.open = c.open /\ d.guildOf = c.guildOf
               /\ g # None => g \in DOMAIN d.members
<1> DEFINE ms == With(c.members, g, {})
           e == [c EXCEPT !.members = ms]
<1>1. CASE g = None \/ g \in DOMAIN c.members
  BY <1>1 DEF LoadGuild
<1>2. CASE ~(g = None \/ g \in DOMAIN c.members)
  <2>1. LoadGuild(c, g) = e /\ HasFields(c, ChatFields)
    BY <1>2 DEF LoadGuild, GoodChat
  <2>2. IsWith(ms, c.members, g, {})
    BY WithFacts
  <2> HIDE DEF ms
  <2>3. /\ HasFields(e, ChatFields) /\ e.members = ms
        /\ e.refused = c.refused /\ e.on = c.on /\ e.chans = c.chans /\ e.open = c.open /\ e.guildOf = c.guildOf
    BY <2>1 DEF HasFields, ChatFields
  <2> HIDE DEF e
  <2>4. DOMAIN ms = DOMAIN c.members \cup {g} /\ HasFields(ms, DOMAIN ms)
    BY <2>2 DEF IsWith, HasFields
  <2>5. GuildsGood(c) /\ \A h \in DOMAIN c.members : ms[h] = c.members[h]
    BY <1>2, <2>2 DEF IsWith, GoodChat
  <2>6. GuildsGood(e)
    BY <1>2, <2>2, <2>3, <2>4, <2>5 DEF GuildsGood, IsWith
  <2>7. GoodChat(e)
    BY <2>3, <2>6, SameChannels DEF GoodChat
  <2> QED BY <2>1, <2>3, <2>4, <2>7
<1> QED BY <1>1, <1>2

\* From c to d guild g knows p too, or no longer.
MemberPut(c, d, g, p) ==
    /\ HasFields(d, ChatFields)
    /\ d.refused = c.refused /\ d.on = c.on /\ d.chans = c.chans /\ d.open = c.open /\ d.guildOf = c.guildOf
    /\ HasFields(d.members, DOMAIN c.members) /\ d.members[g] = c.members[g] \cup {p}
    /\ \A h \in DOMAIN c.members \ {g} : d.members[h] = c.members[h]
MemberGone(c, d, g, p) ==
    /\ HasFields(d, ChatFields)
    /\ d.refused = c.refused /\ d.on = c.on /\ d.chans = c.chans /\ d.open = c.open /\ d.guildOf = c.guildOf
    /\ HasFields(d.members, DOMAIN d.members) /\ DOMAIN d.members \subseteq DOMAIN c.members
    /\ \A h \in DOMAIN c.members \ {g} : h \in DOMAIN d.members /\ d.members[h] = c.members[h]
    /\ g \in DOMAIN d.members => d.members[g] = c.members[g] \ {p}
    /\ c.members[g] \ {p} # {} => g \in DOMAIN d.members

LEMMA AddMemberFacts ==
    ASSUME NEW c, HasFields(c, ChatFields), HasFields(c.members, DOMAIN c.members), NEW g \in DOMAIN c.members, NEW p
    PROVE  MemberPut(c, AddMember(c, g, p), g, p)
<1> DEFINE ms == [c.members EXCEPT ![g] = @ \cup {p}]
           d == AddMember(c, g, p)
<1>1. d = [c EXCEPT !.members = ms]
  BY DEF AddMember, HasFields, ChatFields
<1>2. HasFields(ms, DOMAIN c.members) /\ ms[g] = c.members[g] \cup {p} /\ \A h \in DOMAIN c.members \ {g} : ms[h] = c.members[h]
  BY DEF HasFields
<1> HIDE DEF ms, d
<1>3. /\ HasFields(d, ChatFields) /\ d.members = ms
      /\ d.refused = c.refused /\ d.on = c.on /\ d.chans = c.chans /\ d.open = c.open /\ d.guildOf = c.guildOf
  BY <1>1 DEF HasFields, ChatFields
<1> QED BY <1>2, <1>3 DEF MemberPut, d

LEMMA RemoveMemberFacts ==
    ASSUME NEW c, HasFields(c, ChatFields), NEW g \in DOMAIN c.members, NEW p
    PROVE  MemberGone(c, RemoveMember(c, g, p), g, p)
<1> DEFINE rest == c.members[g] \ {p}
           mw == With(c.members, g, rest)
           mo == Without(c.members, {g})
           ms == IF rest = {} THEN mo ELSE mw
           d == RemoveMember(c, g, p)
<1>1. d = [c EXCEPT !.members = ms]
  BY DEF RemoveMember
<1>2. IsWith(mw, c.members, g, rest) /\ IsWithout(mo, c.members, g)
  BY WithFacts
<1> HIDE DEF mw, mo
<1>3. /\ HasFields(ms, DOMAIN ms) /\ DOMAIN ms \subseteq DOMAIN c.members
      /\ \A h \in DOMAIN c.members \ {g} : h \in DOMAIN ms /\ ms[h] = c.members[h]
      /\ g \in DOMAIN ms => ms[g] = rest
      /\ rest # {} => g \in DOMAIN ms
  <2>1. CASE rest = {}
    BY <1>2, <2>1 DEF IsWithout, HasFields
  <2>2. CASE rest # {}
    BY <1>2, <2>2 DEF IsWith, HasFields
  <2> QED BY <2>1, <2>2
<1> HIDE DEF ms, d
<1>4. /\ HasFields(d, ChatFields) /\ d.members = ms
      /\ d.refused = c.refused /\ d.on = c.on /\ d.chans = c.chans /\ d.open = c.open /\ d.guildOf = c.guildOf
  BY <1>1 DEF HasFields, ChatFields
<1> QED BY <1>3, <1>4 DEF MemberGone, d

\* Whoever points to no guild or to g now, and to none of the others.
LEMMA SetGuildGood ==
    ASSUME NEW c, GoodChat(c), NEW p \in c.on, NEW g, g # None => g \in DOMAIN c.members
    PROVE  GoodChat(SetGuild(c, p, g))
<1> DEFINE old == c.guildOf[p]
           go == [c.guildOf EXCEPT ![p] = g]
           d == [c EXCEPT !.guildOf[p] = g]
           e == IF g = None THEN d ELSE AddMember(d, g, p)
           r == RemoveMember(e, old, p)
<1>1. /\ HasFields(c, ChatFields) /\ HasFields(c.members, DOMAIN c.members) /\ HasFields(c.guildOf, Talkers)
      /\ GuildsGood(c) /\ p \in Talkers /\ None \notin DOMAIN c.members
  BY DEF GoodChat, GuildsGood
<1>2. SetGuild(c, p, g) = IF g = old THEN c ELSE IF old = None THEN e ELSE r
  BY DEF SetGuild
<1>3. d = [c EXCEPT !.guildOf = go]
  BY <1>1 DEF HasFields, ChatFields
<1>4. HasFields(go, Talkers) /\ go[p] = g /\ \A q \in Talkers \ {p} : go[q] = c.guildOf[q]
  BY <1>1 DEF HasFields
<1> HIDE DEF go, d
<1>5. /\ HasFields(d, ChatFields) /\ d.guildOf = go
      /\ d.refused = c.refused /\ d.on = c.on /\ d.chans = c.chans /\ d.open = c.open /\ d.members = c.members
  BY <1>1, <1>3 DEF HasFields, ChatFields
<1>6. /\ HasFields(e, ChatFields) /\ e.guildOf = go /\ e.refused = c.refused /\ e.on = c.on /\ e.chans = c.chans /\ e.open = c.open
      /\ HasFields(e.members, DOMAIN e.members) /\ DOMAIN e.members = DOMAIN c.members
      /\ g # None => e.members[g] = c.members[g] \cup {p}
      /\ \A h \in DOMAIN c.members : h # g => e.members[h] = c.members[h]
  <2>1. CASE g = None
    <3>1. e = d
      BY <2>1
    <3> QED BY <1>1, <1>5, <2>1, <3>1
  <2>2. CASE g # None
    <3>1. MemberPut(d, e, g, p)
      BY <1>1, <1>5, <2>2, AddMemberFacts
    <3> HIDE DEF e
    <3> QED BY <1>1, <1>5, <2>2, <3>1 DEF MemberPut, HasFields
  <2> QED BY <2>1, <2>2
<1> HIDE DEF e
<1>7. \A q \in Talkers : (go[q] = IF q = p THEN g ELSE c.guildOf[q]) /\ (q \in c.on => q \in Talkers)
  BY <1>4
<1>8. CASE g # old /\ old = None
  <2>1. \A h \in DOMAIN e.members : \A q : q \in e.members[h] => q \in e.on /\ e.guildOf[q] = h
    <3>1. SUFFICES ASSUME NEW h \in DOMAIN e.members, NEW q \in e.members[h] PROVE q \in e.on /\ e.guildOf[q] = h
      OBVIOUS
    <3>2. CASE q = p
      BY <1>1, <1>4, <1>6, <1>8, <3>1, <3>2 DEF GuildsGood
    <3>3. CASE q # p
      BY <1>1, <1>4, <1>6, <1>8, <3>1, <3>3 DEF GuildsGood, GoodChat
    <3> QED BY <3>2, <3>3
  <2>2. \A q \in e.on : e.guildOf[q] # None => e.guildOf[q] \in DOMAIN e.members /\ q \in e.members[e.guildOf[q]]
    BY <1>1, <1>4, <1>6, <1>8 DEF GuildsGood, GoodChat
  <2>3. GuildsGood(e)
    BY <1>1, <1>4, <1>6, <2>1, <2>2 DEF GuildsGood
  <2> QED BY <1>2, <1>6, <1>8, <2>3, SameChannels DEF GoodChat
<1>9. CASE g # old /\ old # None
  <2>0. old \in DOMAIN c.members
    BY <1>1, <1>9 DEF GuildsGood
  <2>1. MemberGone(e, r, old, p)
    BY <1>6, <2>0, RemoveMemberFacts
  <2> HIDE DEF r
  <2>2. /\ HasFields(r, ChatFields) /\ r.guildOf = go /\ r.refused = c.refused /\ r.on = c.on /\ r.chans = c.chans /\ r.open = c.open
        /\ HasFields(r.members, DOMAIN r.members) /\ DOMAIN r.members \subseteq DOMAIN c.members
        /\ \A h \in DOMAIN c.members : h # old => h \in DOMAIN r.members /\ r.members[h] = e.members[h]
        /\ e.members[old] = c.members[old]
        /\ old \in DOMAIN r.members => r.members[old] = c.members[old] \ {p}
        /\ c.members[old] \ {p} # {} => old \in DOMAIN r.members
    BY <1>6, <1>9, <2>0, <2>1 DEF MemberGone
  <2>3. ASSUME NEW h \in DOMAIN r.members, NEW q \in r.members[h] PROVE q \in r.on /\ r.guildOf[q] = h
    <3>1. CASE h = old
      BY <1>1, <1>4, <1>9, <2>2, <3>1 DEF GuildsGood, GoodChat
    <3>2. CASE h # old /\ q = p
      BY <1>1, <1>4, <1>6, <1>9, <2>2, <3>2 DEF GuildsGood
    <3>3. CASE h # old /\ q # p
      <4>1. q \in c.members[h]
        BY <1>1, <1>6, <2>2, <3>3
      <4> QED BY <1>1, <1>4, <2>2, <3>3, <4>1 DEF GuildsGood, GoodChat
    <3> QED BY <3>1, <3>2, <3>3
  <2>4. ASSUME NEW q \in r.on, r.guildOf[q] # None
        PROVE  r.guildOf[q] \in DOMAIN r.members /\ q \in r.members[r.guildOf[q]]
    <3>1. CASE q = p
      BY <1>1, <1>4, <1>6, <1>9, <2>2, <2>4, <3>1
    <3>2. CASE q # p
      <4>1. q \in Talkers /\ r.guildOf[q] = c.guildOf[q]
        BY <1>4, <2>2, <3>2 DEF GoodChat
      <4>2. c.guildOf[q] \in DOMAIN c.members /\ q \in c.members[c.guildOf[q]]
        BY <1>1, <2>2, <2>4, <4>1 DEF GuildsGood
      <4>3. CASE c.guildOf[q] = old
        BY <2>2, <3>2, <4>1, <4>2, <4>3
      <4>4. CASE c.guildOf[q] # old
        BY <1>1, <1>6, <2>2, <3>2, <4>1, <4>2, <4>4
      <4> QED BY <4>3, <4>4
    <3> QED BY <3>1, <3>2
  <2>5. GuildsGood(r)
    BY <1>1, <1>4, <2>2, <2>3, <2>4 DEF GuildsGood
  <2> QED BY <1>2, <1>9, <2>2, <2>5, SameChannels DEF GoodChat
<1> QED BY <1>2, <1>8, <1>9

-------------------------------------------------------------------------------
(* The steps of the chat.                                                    *)

\* Nobody in a channel minds that the windows of one who is in none are closed.
LEMMA ResetWindowsGood ==
    ASSUME NEW c, ChannelsGood(c), NEW p, NEW d, d.chans = c.chans, d.refused = c.refused, HasFields(d.open, Talkers),
           c.on \subseteq Talkers, \A q \in Talkers \ {p} : d.open[q] = c.open[q],
           \A k \in DOMAIN c.chans : /\ p \notin c.chans[k].users
                                     /\ c.chans[k].users \subseteq d.on /\ c.chans[k].invites \subseteq d.on
    PROVE  ChannelsGood(d)
<1>1. ASSUME NEW k \in DOMAIN d.chans PROVE StillGood(c, d, k)
  <2>1. ChannelGood(c, k)
    BY DEF ChannelsGood
  <2>2. \A q \in c.chans[k].users : q \in Talkers \ {p}
    BY <2>1 DEF ChannelGood
  <2> QED BY <2>1, <2>2 DEF ChannelGood, StillGood, Listens
<1>2. HasFields(d.chans, DOMAIN d.chans)
  BY DEF ChannelsGood
<1> QED BY <1>1, <1>2, FewerGood

LEMMA ChatLoginInv ==
    ASSUME ChatInv, NEW p \in Talkers, ChatLogin(p)
    PROVE  ChatInv'
<1> DEFINE g == GuildRow[p]
           c == LoadGuild(chat, g)
           o == [c.open EXCEPT ![p] = {}]
           go == [c.guildOf EXCEPT ![p] = g]
           d == [c EXCEPT !.on = @ \cup {p}, !.guildOf[p] = g, !.buffer[p] = 0, !.open[p] = {}]
           e == IF g = None THEN d ELSE AddMember(d, g, p)
<1>1. p \notin chat.on /\ chat' = e
  BY DEF ChatLogin, Chats
<1>2. GoodChat(c) /\ p \notin c.on /\ (g # None => g \in DOMAIN c.members)
  BY <1>1, LoadGuildGood DEF ChatInv
<1> HIDE DEF c, g
<1>3. /\ HasFields(c, ChatFields) /\ HasFields(c.open, Talkers) /\ HasFields(c.guildOf, Talkers)
      /\ HasFields(c.members, DOMAIN c.members) /\ c.on \subseteq Talkers /\ ChannelsGood(c) /\ GuildsGood(c)
  BY <1>2 DEF GoodChat, ChannelsGood, GuildsGood
<1>4. /\ HasFields(d, ChatFields) /\ d.refused = c.refused /\ d.on = c.on \cup {p} /\ d.guildOf = go /\ d.open = o
      /\ d.chans = c.chans /\ d.members = c.members
  BY <1>3 DEF HasFields, ChatFields
<1>5. /\ HasFields(o, Talkers) /\ \A q \in Talkers \ {p} : o[q] = c.open[q]
      /\ HasFields(go, Talkers) /\ go[p] = g /\ \A q \in Talkers \ {p} : go[q] = c.guildOf[q]
  BY <1>3 DEF HasFields
<1> HIDE DEF d, o, go
<1>6. /\ HasFields(e, ChatFields) /\ e.refused = d.refused /\ e.on = d.on /\ e.chans = c.chans /\ e.open = o /\ e.guildOf = go
      /\ HasFields(e.members, DOMAIN e.members) /\ DOMAIN e.members = DOMAIN c.members
      /\ \A h \in DOMAIN c.members : e.members[h] = IF h = g /\ g # None THEN c.members[h] \cup {p} ELSE c.members[h]
  <2>1. CASE g = None
    <3>1. e = d
      BY <2>1
    <3> QED BY <1>3, <1>4, <2>1, <3>1
  <2>2. CASE g # None
    <3>1. MemberPut(d, e, g, p)
      BY <1>2, <1>3, <1>4, <2>2, AddMemberFacts
    <3> HIDE DEF e
    <3> QED BY <1>2, <1>3, <1>4, <2>2, <3>1 DEF MemberPut, HasFields
  <2> QED BY <2>1, <2>2
<1> HIDE DEF e
<1>7. ChannelsGood(e)
  <2>1. \A k \in DOMAIN c.chans : c.chans[k].users \subseteq c.on /\ c.chans[k].invites \subseteq c.on
    BY <1>3 DEF ChannelsGood, ChannelGood
  <2> QED BY <1>2, <1>3, <1>4, <1>5, <1>6, <2>1, ResetWindowsGood
<1>8. ASSUME NEW q \in e.on, e.guildOf[q] # None
      PROVE  e.guildOf[q] \in DOMAIN e.members /\ q \in e.members[e.guildOf[q]]
  <2>1. CASE q = p
    BY <1>2, <1>5, <1>6, <1>8, <2>1
  <2>2. CASE q # p
    <3>1. q \in c.on /\ q \in Talkers /\ e.guildOf[q] = c.guildOf[q]
      BY <1>3, <1>4, <1>5, <1>6, <2>2
    <3>2. c.guildOf[q] \in DOMAIN c.members /\ q \in c.members[c.guildOf[q]]
      BY <1>3, <1>8, <3>1 DEF GuildsGood
    <3> QED BY <1>6, <3>1, <3>2
  <2> QED BY <2>1, <2>2
<1>9. ASSUME NEW h \in DOMAIN e.members, NEW q \in e.members[h] PROVE q \in e.on /\ e.guildOf[q] = h
  <2>1. CASE q \in c.members[h]
    <3>1. q \in c.on /\ c.guildOf[q] = h
      BY <1>3, <1>6, <2>1 DEF GuildsGood
    <3> QED BY <1>2, <1>3, <1>4, <1>5, <1>6, <3>1
  <2>2. CASE q \notin c.members[h]
    <3>1. q = p /\ h = g
      BY <1>6, <2>2
    <3> QED BY <1>4, <1>5, <1>6, <3>1
  <2> QED BY <2>1, <2>2
<1>10. GuildsGood(e)
  BY <1>3, <1>5, <1>6, <1>8, <1>9 DEF GuildsGood
<1> QED BY <1>1, <1>3, <1>4, <1>6, <1>7, <1>10 DEF GoodChat, ChatInv

LEMMA ChatLogoutInv ==
    ASSUME ChatInv, NEW p \in Talkers, ChatLogout(p)
    PROVE  ChatInv'
<1> DEFINE b == ChatLeaveParty(chat, p)
           c == RemoveUserFromAllChannels(b, p)
           g == c.guildOf[p]
           d == IF c.guildOf[p] = None THEN c ELSE RemoveMember(c, c.guildOf[p], p)
           e == [d EXCEPT !.on = @ \ {p}, !.guildOf[p] = None, !.open[p] = {}]
           o == [c.open EXCEPT ![p] = {}]
           go == [c.guildOf EXCEPT ![p] = None]
<1>1. p \in chat.on /\ chat' = e
  BY DEF ChatLogout, Chats
<1>2. GoodChat(b) /\ p \in b.on
  BY <1>1, LeavePartyGood DEF ChatInv
<1> HIDE DEF b
<1>3. GoodChat(c) /\ AllLeft(b, c, p)
  BY <1>2, RemoveAllGood
<1> HIDE DEF c
<1>4. /\ HasFields(c, ChatFields) /\ HasFields(c.open, Talkers) /\ HasFields(c.guildOf, Talkers)
      /\ HasFields(c.members, DOMAIN c.members) /\ c.on \subseteq Talkers /\ ChannelsGood(c) /\ GuildsGood(c)
      /\ p \in c.on /\ \A k \in DOMAIN c.chans : p \notin c.chans[k].users /\ p \notin c.chans[k].invites
  <2>1. p \in c.on /\ \A k \in DOMAIN c.chans : p \notin c.chans[k].users /\ p \notin c.chans[k].invites
    BY <1>2, <1>3 DEF AllLeft
  <2> QED BY <1>3, <2>1 DEF GoodChat, ChannelsGood, GuildsGood
<1>5. /\ HasFields(d, ChatFields)
      /\ d.refused = c.refused /\ d.on = c.on /\ d.chans = c.chans /\ d.open = c.open /\ d.guildOf = c.guildOf
      /\ HasFields(d.members, DOMAIN d.members) /\ DOMAIN d.members \subseteq DOMAIN c.members
      /\ \A h \in DOMAIN c.members : h # g => h \in DOMAIN d.members /\ d.members[h] = c.members[h]
      /\ g \in DOMAIN c.members => /\ g \in DOMAIN d.members => d.members[g] = c.members[g] \ {p}
                                   /\ c.members[g] \ {p} # {} => g \in DOMAIN d.members
  <2>1. CASE g = None
    <3>1. d = c /\ None \notin DOMAIN c.members
      BY <1>4, <2>1 DEF GuildsGood
    <3> QED BY <1>4, <2>1, <3>1
  <2>2. CASE g # None
    <3>1. g \in DOMAIN c.members
      BY <1>4, <2>2 DEF GuildsGood
    <3>2. MemberGone(c, d, g, p)
      BY <1>4, <2>2, <3>1, RemoveMemberFacts
    <3> HIDE DEF d
    <3> QED BY <3>1, <3>2 DEF MemberGone
  <2> QED BY <2>1, <2>2
<1> HIDE DEF d
<1>6. /\ HasFields(e, ChatFields) /\ e.refused = c.refused /\ e.on = c.on \ {p} /\ e.guildOf = go /\ e.open = o
      /\ e.chans = c.chans /\ e.members = d.members
  BY <1>5 DEF HasFields, ChatFields
<1>7. /\ HasFields(o, Talkers) /\ \A q \in Talkers \ {p} : o[q] = c.open[q]
      /\ HasFields(go, Talkers) /\ go[p] = None /\ \A q \in Talkers \ {p} : go[q] = c.guildOf[q]
  BY <1>4 DEF HasFields
<1> HIDE DEF e, o, go, g
<1>8. ChannelsGood(e)
  <2>1. \A k \in DOMAIN c.chans : c.chans[k].users \subseteq c.on /\ c.chans[k].invites \subseteq c.on
    BY <1>4 DEF ChannelsGood, ChannelGood
  <2>2. \A k \in DOMAIN c.chans : c.chans[k].users \subseteq e.on /\ c.chans[k].invites \subseteq e.on
    BY <1>4, <1>6, <2>1
  <2> QED BY <1>4, <1>6, <1>7, <2>2, ResetWindowsGood
<1>9. ASSUME NEW q \in e.on, e.guildOf[q] # None
      PROVE  e.guildOf[q] \in DOMAIN e.members /\ q \in e.members[e.guildOf[q]]
  <2>1. q \in c.on /\ q # p /\ q \in Talkers /\ e.guildOf[q] = c.guildOf[q]
    BY <1>4, <1>6, <1>7
  <2>2. c.guildOf[q] \in DOMAIN c.members /\ q \in c.members[c.guildOf[q]]
    BY <1>4, <1>9, <2>1 DEF GuildsGood
  <2>3. CASE c.guildOf[q] = g
    BY <1>5, <1>6, <2>1, <2>2, <2>3
  <2>4. CASE c.guildOf[q] # g
    BY <1>5, <1>6, <2>1, <2>2, <2>4
  <2> QED BY <2>3, <2>4
<1>10. ASSUME NEW h \in DOMAIN e.members, NEW q \in e.members[h] PROVE q \in e.on /\ e.guildOf[q] = h
  <2>0. h \in DOMAIN c.members /\ h \in DOMAIN d.members
    BY <1>5, <1>6
  <2>1. q \in c.members[h] /\ (h = g => q # p)
    BY <1>5, <1>6, <2>0
  <2>2. q \in c.on /\ c.guildOf[q] = h
    BY <1>4, <2>0, <2>1 DEF GuildsGood
  <2>3. q # p
    BY <2>1, <2>2 DEF g
  <2> QED BY <1>4, <1>6, <1>7, <2>2, <2>3
<1>11. GuildsGood(e)
  <2>1. None \notin DOMAIN e.members
    BY <1>4, <1>5, <1>6 DEF GuildsGood
  <2> QED BY <1>5, <1>6, <1>7, <1>9, <1>10, <2>1 DEF GuildsGood
<1> QED BY <1>1, <1>4, <1>6, <1>8, <1>11 DEF GoodChat, ChatInv

LEMMA ChatConnectInv ==
    ASSUME ChatInv, NEW p \in Talkers, ChatConnect(p)
    PROVE  ChatInv'
<1> DEFINE c == RemoveUserFromAllChannels(chat, p)
           d == [c EXCEPT !.open[p] = {}]
           o == [c.open EXCEPT ![p] = {}]
<1>1. chat' = d
  BY DEF ChatConnect, Chats
<1>2. GoodChat(c) /\ AllLeft(chat, c, p)
  BY RemoveAllGood DEF ChatInv
<1> HIDE DEF c
<1>3. /\ HasFields(c, ChatFields) /\ HasFields(c.open, Talkers) /\ c.on \subseteq Talkers /\ ChannelsGood(c)
      /\ \A k \in DOMAIN c.chans : /\ p \notin c.chans[k].users
                                   /\ c.chans[k].users \subseteq c.on /\ c.chans[k].invites \subseteq c.on
  <2>1. \A k \in DOMAIN c.chans : p \notin c.chans[k].users
    BY <1>2 DEF AllLeft
  <2> QED BY <1>2, <2>1 DEF GoodChat, ChannelsGood, ChannelGood
<1>4. /\ HasFields(d, ChatFields) /\ d.refused = c.refused /\ d.on = c.on /\ d.open = o
      /\ d.chans = c.chans /\ d.members = c.members /\ d.guildOf = c.guildOf
  BY <1>3 DEF HasFields, ChatFields
<1>5. HasFields(o, Talkers) /\ \A q \in Talkers \ {p} : o[q] = c.open[q]
  BY <1>3 DEF HasFields
<1> HIDE DEF d, o
<1>6. ChannelsGood(d)
  BY <1>3, <1>4, <1>5, ResetWindowsGood
<1>7. GuildsGood(d)
  BY <1>2, <1>4, SameGuilds DEF GoodChat
<1> QED BY <1>1, <1>3, <1>4, <1>6, <1>7 DEF GoodChat, ChatInv

\* What is found under the id of a public or private channel has that id, and
\* who finds a private one may be in it.
LEMMA FoundFacts ==
    ASSUME NEW c, NEW p, NEW id, NEW ok, NEW k, k = GetChannel(c, p, id, ok), k # NoChannel
    PROVE  /\ k \in DOMAIN c.chans
           /\ IsNormal(k) \/ IsPrivate(k) => ClientId(k) = id
           /\ IsPrivate(k) => IsInvited(c, k, p)
<1>1. k \in DOMAIN c.chans
  BY FoundExists
<1>2. k = NormalKey(id) \/ k = PrivateKey(id) \/ IsShared(k)
  BY DEF GetChannel, IsShared
<1>3. ClientId(NormalKey(id)) = id /\ ClientId(PrivateKey(id)) = id
  BY DEF ClientId, NormalKey, PrivateKey
<1>4. k[1] = "private" => IsInvited(c, k, p)
  BY DEF GetChannel
<1> QED BY <1>1, <1>2, <1>3, <1>4, KeyFacts

LEMMA OpenChannelInv ==
    ASSUME ChatInv, NEW p \in Talkers, NEW id, NEW ok, NEW joins, OpenChannel(p, id, ok, joins)
    PROVE  ChatInv'
<1> DEFINE k == GetChannel(chat, p, id, ok)
           us == chat.chans[k].users \cup {p}
           d == [chat EXCEPT !.chans[k].users = us, !.open[p] = @ \cup {id}]
<1>0. /\ p \in chat.on /\ k # NoChannel /\ p \notin chat.chans[k].users
      /\ chat' = IF ~joins THEN chat ELSE [AddUser(chat, k, p, joins) EXCEPT !.open[p] = @ \cup {id}]
  BY DEF OpenChannel, Chats
<1>1. k \in DOMAIN chat.chans /\ (IsNormal(k) \/ IsPrivate(k) => ClientId(k) = id) /\ (IsPrivate(k) => IsInvited(chat, k, p))
  BY <1>0, FoundFacts
<1> HIDE DEF k
<1>2. GoodChat(chat) /\ ChannelGood(chat, k) /\ HasFields(chat, ChatFields)
  BY <1>1 DEF ChatInv, GoodChat, ChannelsGood
<1>3. CASE ~joins
  BY <1>0, <1>3 DEF ChatInv
<1>4. CASE joins
  <2>1. AddUser(chat, k, p, joins) = [chat EXCEPT !.chans[k].users = @ \cup {p}]
    BY <1>0, <1>4 DEF AddUser
  <2>2. chat' = d
    BY <1>0, <1>1, <1>2, <1>4, <2>1 DEF HasFields, ChatFields
  <2>3. /\ ChannelPut(chat, d, k) /\ HasFields(d.chans[k], ChannelFields)
        /\ d.chans[k].users = us /\ d.chans[k].invites = chat.chans[k].invites
        /\ d.chans[k].owner = chat.chans[k].owner /\ id \in d.open[p]
    BY <1>1, <1>2, SetChannelFacts
  <2> HIDE DEF d
  <2>4. d.refused = chat.refused /\ d.on = chat.on /\ \A q \in Talkers : chat.open[q] \subseteq d.open[q]
    BY <2>3 DEF ChannelPut
  <2>5. chat.on \subseteq Talkers
    BY <1>2 DEF GoodChat
  <2>6. ~IsShared(k) => \A q \in d.chans[k].users : Listens(d, k, q)
    BY <1>1, <1>2, <2>3, <2>4, <2>5 DEF ChannelGood, Listens
  <2>7. IsPrivate(k) => p = chat.chans[k].owner \/ p \in chat.chans[k].invites
    BY <1>1 DEF IsInvited
  <2>8. ChannelGood(d, k)
    BY <1>0, <1>2, <2>3, <2>4, <2>6, <2>7 DEF ChannelGood
  <2>9. \A l \in DOMAIN chat.chans \ {k} : d.chans[k].owner # None => chat.chans[l].owner # d.chans[k].owner
    BY <1>1, <1>2, <2>3 DEF GoodChat, ChannelsGood
  <2> QED BY <1>2, <2>2, <2>3, <2>8, <2>9, ChannelPutGood DEF ChatInv
<1> QED BY <1>3, <1>4

LEMMA CloseChannelInv ==
    ASSUME ChatInv, NEW p \in Talkers, NEW id, NEW ok \in BOOLEAN, CloseChannel(p, id, ok)
    PROVE  ChatInv'
<1> DEFINE c == ClientCloses(chat, {p}, id)
           k == NormalKey(id)
           stays == IF ~ok /\ ChatExists(chat, k) /\ p \in chat.chans[k].users THEN {<<p, k>>} ELSE {}
           s == c.refused \cup stays
           d == [c EXCEPT !.refused = s]
<1>1. chat' = RemoveUserFromChannel(d, p, id, ok)
  BY DEF CloseChannel, Chats
<1>2. GoodChat(chat) /\ HasFields(chat, ChatFields) /\ HasFields(chat.open, Talkers)
  BY DEF ChatInv, GoodChat, ChannelsGood
<1>3. WindowsClosed(chat, c, {p}, id)
  BY <1>2, ClientClosesFacts
<1> HIDE DEF c
<1>4. /\ HasFields(c, ChatFields) /\ HasFields(c.open, Talkers) /\ c.refused = chat.refused
      /\ c.on = chat.on /\ c.chans = chat.chans /\ c.guildOf = chat.guildOf /\ c.members = chat.members
      /\ \A q \in Talkers \ {p} : c.open[q] = chat.open[q]
      /\ c.open[p] = chat.open[p] \ {id}
  BY <1>3 DEF WindowsClosed
<1>5. /\ chat.refused \subseteq s
      /\ ~ok /\ k \in DOMAIN chat.chans /\ p \in chat.chans[k].users => <<p, k>> \in s
  BY <1>4 DEF ChatExists
<1> HIDE DEF s, k
<1>6. /\ HasFields(d, ChatFields) /\ HasFields(d.open, Talkers) /\ d.refused = s
      /\ d.on = c.on /\ d.open = c.open /\ d.chans = c.chans /\ d.guildOf = c.guildOf /\ d.members = c.members
  BY <1>4 DEF HasFields, ChatFields
<1> HIDE DEF d
<1>7. GoodChat(RemoveUserFromChannel(d, p, id, ok))
  BY <1>2, <1>4, <1>5, <1>6, RemoveFromChannelGood DEF k
<1> QED BY <1>1, <1>7 DEF ChatInv

LEMMA CreatePrivateInv ==
    ASSUME ChatInv, NEW p \in Talkers, CreatePrivateChannel(p)
    PROVE  ChatInv'
<1>0. PICK s \in FreeSlots(chat) :
         LET c == [chat EXCEPT !.chans = With(@, PrivateKey(s), [EmptyChannel EXCEPT !.owner = p])]
         IN  chat' = [AddUser(c, PrivateKey(s), p, TRUE) EXCEPT !.open[p] = @ \cup {s}]
  BY DEF CreatePrivateChannel, Chats
<1> DEFINE k == PrivateKey(s)
           x == [EmptyChannel EXCEPT !.owner = p]
           y == [x EXCEPT !.users = {p}]
           cs == With(chat.chans, k, x)
           c == [chat EXCEPT !.chans = cs]
           ds == [cs EXCEPT ![k] = y]
           o == [chat.open EXCEPT ![p] = @ \cup {s}]
<1>1. GoodChat(chat) /\ HasFields(chat, ChatFields) /\ HasFields(chat.open, Talkers)
  BY DEF ChatInv, GoodChat, ChannelsGood
<1>2. p \in chat.on /\ OwnPrivate(chat, p) = {} /\ k \notin DOMAIN chat.chans /\ s \in PrivateSlots
  BY DEF CreatePrivateChannel, FreeSlots, ChatExists
<1>3. IsPrivate(k)
  BY <1>2 DEF IsPrivate
<1>4. /\ HasFields(x, ChannelFields) /\ x.users = {} /\ x.invites = {} /\ x.owner = p
      /\ HasFields(y, ChannelFields) /\ y.users = {p} /\ y.invites = {} /\ y.owner = p
  BY DEF EmptyChannel, HasFields, ChannelFields
<1>5. chat' = [AddUser(c, k, p, TRUE) EXCEPT !.open[p] = @ \cup {s}]
  BY <1>0
<1> HIDE DEF k, x
<1>6. IsWith(cs, chat.chans, k, x)
  BY WithFacts
<1> HIDE DEF cs
<1>7. /\ HasFields(c, ChatFields) /\ c.chans = cs /\ c.open = chat.open
      /\ c.refused = chat.refused /\ c.on = chat.on /\ c.guildOf = chat.guildOf /\ c.members = chat.members
  BY <1>1 DEF HasFields, ChatFields
<1> HIDE DEF c
<1>8. k \in DOMAIN cs /\ cs[k] = x /\ HasFields(cs, DOMAIN chat.chans \cup {k}) /\ DOMAIN cs = DOMAIN chat.chans \cup {k}
  BY <1>6 DEF IsWith, HasFields
<1>9. AddUser(c, k, p, TRUE) = [c EXCEPT !.chans[k].users = @ \cup {p}]
  BY <1>4, <1>7, <1>8 DEF AddUser
<1>10. chat' = [c EXCEPT !.chans = ds, !.open = o]
  <2> DEFINE f == [c EXCEPT !.chans = ds]
  <2>1. [c EXCEPT !.chans[k].users = @ \cup {p}] = [c EXCEPT !.chans = [cs EXCEPT ![k] = [x EXCEPT !.users = x.users \cup {p}]]]
    BY <1>7, <1>8
  <2>2. x.users \cup {p} = {p}
    BY <1>4
  <2>3. AddUser(c, k, p, TRUE) = f
    BY <1>9, <2>1, <2>2
  <2> HIDE DEF ds
  <2>4. HasFields(f, ChatFields) /\ f.open = chat.open
    BY <1>7 DEF HasFields, ChatFields
  <2>5. [f EXCEPT !.open[p] = @ \cup {s}] = [f EXCEPT !.open = o]
    BY <2>4
  <2> QED BY <1>5, <2>3, <2>5
<1> HIDE DEF y
<1>11. /\ HasFields(ds, DOMAIN chat.chans \cup {k}) /\ ds[k] = y /\ \A l \in DOMAIN chat.chans \ {k} : ds[l] = chat.chans[l]
       /\ HasFields(o, Talkers) /\ s \in o[p] /\ \A q \in Talkers : chat.open[q] \subseteq o[q]
  <2>1. HasFields(ds, DOMAIN chat.chans \cup {k}) /\ ds[k] = y /\ \A l \in DOMAIN chat.chans \ {k} : ds[l] = cs[l]
    BY <1>8 DEF HasFields
  <2>2. HasFields(o, Talkers) /\ s \in o[p] /\ \A q \in Talkers : chat.open[q] \subseteq o[q]
    BY <1>1 DEF HasFields
  <2> HIDE DEF ds, o
  <2> QED BY <1>6, <2>1, <2>2 DEF IsWith
<1> HIDE DEF ds, o
<1>12. /\ HasFields(chat', ChatFields) /\ chat'.chans = ds /\ chat'.open = o
       /\ chat'.refused = chat.refused /\ chat'.on = chat.on /\ chat'.guildOf = chat.guildOf /\ chat'.members = chat.members
  BY <1>7, <1>10 DEF HasFields, ChatFields
<1>13. ChannelPut(chat, chat', k)
  BY <1>11, <1>12 DEF ChannelPut
<1>14. ClientId(k) = s
  BY DEF k, PrivateKey, ClientId
<1>15. ChannelGood(chat', k)
  BY <1>2, <1>3, <1>4, <1>11, <1>12, <1>14 DEF ChannelGood, Listens
<1>16. \A l \in DOMAIN chat.chans \ {k} : chat'.chans[k].owner # None => chat.chans[l].owner # chat'.chans[k].owner
  BY <1>2, <1>4, <1>11, <1>12 DEF OwnPrivate
<1> QED BY <1>1, <1>13, <1>15, <1>16, ChannelPutGood DEF ChatInv

LEMMA ChannelInviteInv ==
    ASSUME ChatInv, NEW p \in Talkers, NEW q \in Talkers, ChannelInvite(p, q)
    PROVE  ChatInv'
<1>1. PICK k \in OwnPrivate(chat, p) : chat' = InvitePlayer(chat, k, q)
  BY DEF ChannelInvite, Chats
<1> DEFINE is == chat.chans[k].invites \cup {q}
           d == [chat EXCEPT !.chans[k].invites = is]
<1>2. k \in DOMAIN chat.chans /\ q \in chat.on /\ GoodChat(chat) /\ ChannelGood(chat, k) /\ HasFields(chat, ChatFields)
  BY DEF ChannelInvite, OwnPrivate, ChatInv, GoodChat, ChannelsGood
<1>3. chat' = d
  BY <1>1, <1>2 DEF InvitePlayer
<1>4. /\ ChannelPut(chat, d, k) /\ HasFields(d.chans[k], ChannelFields) /\ d.open = chat.open
      /\ d.chans[k].users = chat.chans[k].users /\ d.chans[k].invites = is
      /\ d.chans[k].owner = chat.chans[k].owner
  <2>1. GuestsSet(chat, d, k, is)
    BY <1>2, SetChannelFacts
  <2> HIDE DEF d
  <2> QED BY <2>1 DEF GuestsSet
<1> HIDE DEF d
<1>5. d.refused = chat.refused /\ d.on = chat.on
  BY <1>4 DEF ChannelPut
<1>6. ChannelGood(d, k)
  BY <1>2, <1>4, <1>5 DEF ChannelGood, Listens
<1>7. \A l \in DOMAIN chat.chans \ {k} : d.chans[k].owner # None => chat.chans[l].owner # d.chans[k].owner
  BY <1>2, <1>4 DEF GoodChat, ChannelsGood
<1> QED BY <1>2, <1>3, <1>4, <1>6, <1>7, ChannelPutGood DEF ChatInv

LEMMA ChannelExcludeInv ==
    ASSUME ChatInv, NEW p \in Talkers, NEW q \in Talkers, ChannelExclude(p, q)
    PROVE  ChatInv'
<1>1. PICK k \in OwnPrivate(chat, p) : chat' = ExcludePlayer(chat, k, q)
  BY DEF ChannelExclude, Chats
<1> DEFINE is == chat.chans[k].invites \ {q}
           c == [chat EXCEPT !.chans[k].invites = is]
           d == RemoveUser(c, k, q)
           e == ClientCloses(d, {q}, ClientId(k))
<1>2. k \in DOMAIN chat.chans /\ chat.chans[k].owner = p /\ p # q
  BY DEF ChannelExclude, OwnPrivate
<1>3. /\ GoodChat(chat) /\ HasFields(chat, ChatFields) /\ HasFields(chat.open, Talkers) /\ chat.on \subseteq Talkers
      /\ ChannelsGood(chat) /\ GuildsGood(chat) /\ \A l \in DOMAIN chat.chans : ChannelGood(chat, l)
  BY DEF ChatInv, GoodChat, ChannelsGood
<1>4. IsPrivate(k)
  BY <1>2, <1>3, ChatAssumption DEF ChannelGood
<1>5. CASE q \notin chat.chans[k].invites
  BY <1>1, <1>5 DEF ExcludePlayer, ChatInv
<1>6. CASE q \in chat.chans[k].invites
  <2>1. chat' = e
    BY <1>1, <1>6 DEF ExcludePlayer
  <2>2. /\ ChannelPut(chat, c, k) /\ HasFields(c.chans[k], ChannelFields) /\ c.open = chat.open
        /\ c.chans[k].users = chat.chans[k].users /\ c.chans[k].invites = is
        /\ c.chans[k].owner = chat.chans[k].owner
    <3>1. GuestsSet(chat, c, k, is)
      BY <1>2, <1>3, SetChannelFacts
    <3> HIDE DEF c
    <3> QED BY <3>1 DEF GuestsSet
  <2> HIDE DEF c
  <2>3. /\ HasFields(c, ChatFields) /\ HasFields(c.chans, DOMAIN c.chans) /\ DOMAIN c.chans = DOMAIN chat.chans
        /\ HasFields(c.open, Talkers)
        /\ c.refused = chat.refused /\ c.on = chat.on /\ c.guildOf = chat.guildOf /\ c.members = chat.members
        /\ \A l \in DOMAIN chat.chans \ {k} : c.chans[l] = chat.chans[l]
    <3>1. DOMAIN chat.chans \cup {k} = DOMAIN chat.chans
      BY <1>2
    <3> QED BY <2>2, <3>1 DEF ChannelPut, HasFields
  <2>4. \A l \in DOMAIN c.chans : HasFields(c.chans[l], ChannelFields)
    BY <1>3, <2>2, <2>3 DEF ChannelGood
  <2>5. UserLeft(c, d, k, q)
    BY <1>2, <2>3, <2>4, RemoveUserFacts
  <2> HIDE DEF d
  <2>6. /\ HasFields(d, ChatFields) /\ HasFields(d.chans, DOMAIN d.chans) /\ DOMAIN d.chans = DOMAIN chat.chans
        /\ d.open = chat.open /\ HasFields(d.open, Talkers)
        /\ d.refused = chat.refused /\ d.on = chat.on /\ d.guildOf = chat.guildOf /\ d.members = chat.members
    BY <2>2, <2>3, <2>5 DEF UserLeft, HasFields
  <2>7. ASSUME NEW l \in DOMAIN chat.chans
        PROVE  /\ HasFields(d.chans[l], ChannelFields) /\ d.chans[l].owner = chat.chans[l].owner
               /\ d.chans[l].users = IF l = k THEN chat.chans[l].users \ {q} ELSE chat.chans[l].users
               /\ d.chans[l].invites = IF l = k THEN chat.chans[l].invites \ {q} ELSE chat.chans[l].invites
    BY <2>2, <2>3, <2>5 DEF UserLeft
  <2>8. WindowsClosed(d, e, {q}, ClientId(k))
    BY <2>6, ClientClosesFacts
  <2> HIDE DEF e
  <2>9. /\ HasFields(e, ChatFields) /\ HasFields(e.open, Talkers) /\ e.chans = d.chans
        /\ e.refused = chat.refused /\ e.on = chat.on /\ e.guildOf = chat.guildOf /\ e.members = chat.members
        /\ \A r \in Talkers : \A i : i \in chat.open[r] /\ (r # q \/ i # ClientId(k)) => i \in e.open[r]
    BY <2>6, <2>8 DEF WindowsClosed
  <2>10. ASSUME NEW l \in DOMAIN e.chans PROVE StillGood(chat, e, l)
    <3>1. l \in DOMAIN chat.chans /\ ChannelGood(chat, l)
      BY <1>3, <2>6, <2>9
    <3>2. CASE l = k
      <4>1. \A r \in e.chans[k].users : r \in chat.chans[k].users /\ r # q /\ r \in Talkers
        BY <1>3, <2>7, <2>9, <3>1, <3>2 DEF ChannelGood
      <4>2. \A r \in e.chans[k].users : Listens(e, k, r)
        BY <1>4, <2>9, <3>1, <3>2, <4>1, KeyFacts DEF ChannelGood, Listens
      <4>3. /\ HasFields(e.chans[k], ChannelFields) /\ e.chans[k].owner = chat.chans[k].owner
            /\ e.chans[k].users = chat.chans[k].users \ {q} /\ e.chans[k].invites = chat.chans[k].invites \ {q}
        BY <1>2, <2>7, <2>9
      <4>4. /\ chat.chans[k].users \cup chat.chans[k].invites \subseteq e.on
            /\ p \in chat.chans[k].users
            /\ \A r \in chat.chans[k].users : r = p \/ r \in chat.chans[k].invites
        BY <1>2, <1>4, <2>9, <3>1, <3>2 DEF ChannelGood
      <4> QED BY <1>2, <3>2, <4>2, <4>3, <4>4 DEF StillGood
    <3>3. CASE l # k
      <4>1. ~IsShared(l) => ClientId(l) # ClientId(k)
        BY <1>4, <3>1, <3>3, KeyFacts, IdsApart DEF ChannelGood
      <4>2. chat.chans[l].users \subseteq Talkers
        BY <1>3, <3>1 DEF ChannelGood
      <4>3. ~IsShared(l) => \A r \in chat.chans[l].users : Listens(e, l, r)
        BY <2>9, <3>1, <4>1, <4>2 DEF ChannelGood, Listens
      <4> QED BY <2>7, <2>9, <3>1, <3>3, <4>3 DEF ChannelGood, StillGood
    <3> QED BY <3>2, <3>3
  <2>11. ChannelsGood(e)
    BY <1>3, <2>6, <2>9, <2>10, FewerGood
  <2>12. GuildsGood(e)
    BY <1>3, <2>9, SameGuilds
  <2> QED BY <1>3, <2>1, <2>9, <2>11, <2>12 DEF GoodChat, ChatInv
<1> QED BY <1>5, <1>6

\* What only counts messages or forms a party.
LEMMA OtherFieldsInv ==
    ASSUME ChatInv, HasFields(chat', ChatFields), chat'.refused = chat.refused, chat'.on = chat.on, chat'.chans = chat.chans,
           chat'.open = chat.open, chat'.guildOf = chat.guildOf, chat'.members = chat.members
    PROVE  ChatInv'
<1>1. GoodChat(chat)
  BY DEF ChatInv
<1>2. ChannelsGood(chat') /\ GuildsGood(chat')
  BY <1>1, SameChannels, SameGuilds DEF GoodChat
<1> QED BY <1>1, <1>2 DEF GoodChat, ChatInv

LEMMA SayInv ==
    ASSUME ChatInv, NEW p, NEW private, Say(p, private) \/ Quiet(p)
    PROVE  ChatInv'
<1>0. HasFields(chat, ChatFields)
  BY DEF ChatInv, GoodChat
<1>1. PICK f, g : chat' = [chat EXCEPT !.buffer = f, !.muted = g]
  BY <1>0 DEF Say, Quiet, Chats, HasFields, ChatFields
<1>2. /\ HasFields(chat', ChatFields) /\ chat'.refused = chat.refused /\ chat'.on = chat.on /\ chat'.chans = chat.chans
      /\ chat'.open = chat.open /\ chat'.guildOf = chat.guildOf /\ chat'.members = chat.members
  BY <1>0, <1>1 DEF HasFields, ChatFields
<1> QED BY <1>2, OtherFieldsInv

LEMMA FoundPartyInv ==
    ASSUME ChatInv, NEW p, NEW q, NEW a, FoundParty(p, q, a)
    PROVE  ChatInv'
<1>0. HasFields(chat, ChatFields)
  BY DEF ChatInv, GoodChat
<1> DEFINE f == [chat.party EXCEPT ![a] = @ \cup {p, q}]
           g == [[chat.partyOf EXCEPT ![p] = a] EXCEPT ![q] = a]
<1>1. chat' = [chat EXCEPT !.party = f, !.partyOf = g]
  BY <1>0 DEF FoundParty, Chats, HasFields, ChatFields
<1> HIDE DEF f, g
<1>2. /\ HasFields(chat', ChatFields) /\ chat'.refused = chat.refused /\ chat'.on = chat.on /\ chat'.chans = chat.chans
      /\ chat'.open = chat.open /\ chat'.guildOf = chat.guildOf /\ chat'.members = chat.members
  BY <1>0, <1>1 DEF HasFields, ChatFields
<1> QED BY <1>2, OtherFieldsInv

LEMMA ReloadChannelsInv ==
    ASSUME ChatInv, ReloadChannels
    PROVE  ChatInv'
<1> DEFINE cs == [k \in DOMAIN chat.chans |-> IF k[1] = "normal" THEN EmptyChannel ELSE chat.chans[k]]
<1>1. chat' = [chat EXCEPT !.chans = cs, !.refused = {}]
  BY DEF ReloadChannels, Chats
<1>2. /\ HasFields(chat, ChatFields) /\ HasFields(chat.open, Talkers) /\ chat.on \subseteq Talkers
      /\ ChannelsGood(chat) /\ GuildsGood(chat)
  BY DEF ChatInv, GoodChat, ChannelsGood
<1>3. /\ HasFields(cs, DOMAIN cs) /\ DOMAIN cs = DOMAIN chat.chans
      /\ \A k \in DOMAIN cs : cs[k] = IF k[1] = "normal" THEN EmptyChannel ELSE chat.chans[k]
  BY DEF HasFields
<1> HIDE DEF cs
<1>4. /\ HasFields(chat', ChatFields) /\ chat'.chans = cs /\ chat'.open = chat.open
      /\ chat'.on = chat.on /\ chat'.guildOf = chat.guildOf /\ chat'.members = chat.members
  BY <1>1, <1>2 DEF HasFields, ChatFields
<1>5. /\ HasFields(EmptyChannel, ChannelFields)
      /\ EmptyChannel.users = {} /\ EmptyChannel.invites = {} /\ EmptyChannel.owner = None
  BY DEF EmptyChannel, HasFields, ChannelFields
<1>6. ASSUME NEW k \in DOMAIN chat'.chans PROVE StillGood(chat, chat', k)
  <2>1. k \in DOMAIN chat.chans /\ ChannelGood(chat, k)
    BY <1>2, <1>3, <1>4 DEF ChannelsGood
  <2>2. CASE k[1] = "normal"
    <3>1. ~IsPrivate(k) /\ chat'.chans[k] = EmptyChannel
      BY <1>3, <1>4, <2>2, KeyFacts
    <3> QED BY <1>4, <1>5, <2>1, <3>1 DEF ChannelGood, StillGood
  <2>3. CASE k[1] # "normal"
    <3>1. chat'.chans[k] = chat.chans[k]
      BY <1>3, <1>4, <2>3
    <3>2. ~IsShared(k) => \A p \in chat.chans[k].users : Listens(chat', k, p)
      BY <1>4, <2>1, <2>3 DEF ChannelGood, Listens
    <3> QED BY <1>4, <2>1, <3>1, <3>2 DEF ChannelGood, StillGood
  <2> QED BY <2>2, <2>3
<1>7. ChannelsGood(chat')
  BY <1>2, <1>3, <1>4, <1>6, FewerGood
<1>8. GuildsGood(chat')
  BY <1>2, <1>4, SameGuilds
<1> QED BY <1>2, <1>4, <1>7, <1>8 DEF GoodChat, ChatInv

LEMMA ChatInitInv == ChatInit => ChatInv
<1> SUFFICES ASSUME ChatInit PROVE ChatInv
  OBVIOUS
<1>1. /\ HasFields(chat, ChatFields) /\ chat.on = {} /\ chat.members = [g \in {} |-> {}]
      /\ chat.guildOf = [p \in Talkers |-> None] /\ chat.open = [p \in Talkers |-> {}]
      /\ chat.chans = [k \in {NormalKey(i) : i \in NormalChannels} |-> EmptyChannel]
  BY DEF ChatInit, HasFields, ChatFields
<1>2. GuildsGood(chat)
  BY <1>1 DEF GuildsGood, HasFields
<1>3. /\ HasFields(EmptyChannel, ChannelFields)
      /\ EmptyChannel.users = {} /\ EmptyChannel.invites = {} /\ EmptyChannel.owner = None
  BY DEF EmptyChannel, HasFields, ChannelFields
<1>4. \A k \in DOMAIN chat.chans : IsNormal(k) /\ chat.chans[k] = EmptyChannel
  BY <1>1 DEF IsNormal
<1>5. \A k \in DOMAIN chat.chans : ChannelGood(chat, k)
  BY <1>3, <1>4, KeyFacts DEF ChannelGood
<1>6. HasFields(chat.chans, DOMAIN chat.chans) /\ HasFields(chat.open, Talkers)
  BY <1>1 DEF HasFields
<1>7. ChannelsGood(chat)
  BY <1>3, <1>4, <1>5, <1>6 DEF ChannelsGood
<1> QED BY <1>1, <1>2, <1>7 DEF GoodChat, ChatInv

LEMMA ChatNextInv == ChatInv /\ [ChatNext]_chatVars => ChatInv'
<1> SUFFICES ASSUME ChatInv, [ChatNext]_chatVars PROVE ChatInv'
  OBVIOUS
<1>0. GoodChat(chat)
  BY DEF ChatInv
<1>1. CASE UNCHANGED chatVars
  BY <1>1 DEF chatVars, ChatInv
<1>2. CASE ReloadChannels
  BY <1>2, ReloadChannelsInv
<1>3. ASSUME NEW p \in Talkers, ChatLogin(p) \/ ChatLogout(p) \/ ChatConnect(p) \/ CreatePrivateChannel(p) PROVE ChatInv'
  BY <1>3, ChatLoginInv, ChatLogoutInv, ChatConnectInv, CreatePrivateInv
<1>4. ASSUME NEW p \in Talkers, LoadOffline(p) PROVE ChatInv'
  <2>1. chat' = LoadGuild(chat, GuildRow[p])
    BY <1>4 DEF LoadOffline, Chats
  <2> QED BY <1>0, <2>1, LoadGuildGood DEF ChatInv
<1>5. ASSUME NEW p \in Talkers, RequestChannels(p) PROVE ChatInv'
  <2>1. chat' = CreateChannel(CreateChannel(chat, p, CHANNEL_GUILD), p, CHANNEL_PARTY)
    BY <1>5 DEF RequestChannels, GetChannelList, Chats
  <2> QED BY <1>0, <2>1, CreateChannelGood DEF ChatInv
<1>6. ASSUME NEW p \in Talkers, QuitParty(p) PROVE ChatInv'
  <2>1. chat' = ChatLeaveParty(chat, p)
    BY <1>6 DEF QuitParty, Chats
  <2> QED BY <1>0, <2>1, LeavePartyGood DEF ChatInv
<1>7. ASSUME NEW p \in Talkers, NEW private \in BOOLEAN, Say(p, private) \/ Quiet(p) PROVE ChatInv'
  BY <1>7, SayInv
<1>8. ASSUME NEW p \in Talkers, NEW id, NEW ok \in BOOLEAN,
             CloseChannel(p, id, ok) \/ \E joins \in BOOLEAN : OpenChannel(p, id, ok, joins)
      PROVE  ChatInv'
  BY <1>8, CloseChannelInv, OpenChannelInv
<1>9. ASSUME NEW p \in Talkers, NEW q \in Talkers, ChannelInvite(p, q) \/ ChannelExclude(p, q) PROVE ChatInv'
  BY <1>9, ChannelInviteInv, ChannelExcludeInv
<1>10. ASSUME NEW p \in Talkers, NEW q \in Talkers, NEW a \in PartyAddresses, FoundParty(p, q, a) PROVE ChatInv'
  BY <1>10, FoundPartyInv
<1>11. ASSUME NEW p \in Talkers, NEW g, ChangeGuild(p, g) PROVE ChatInv'
  <2>1. chat' = SetGuild(chat, p, g) /\ p \in chat.on /\ (g # None => g \in DOMAIN chat.members)
    BY <1>11 DEF ChangeGuild, Chats
  <2> QED BY <1>0, <2>1, SetGuildGood DEF ChatInv
<1> QED BY <1>1, <1>2, <1>3, <1>4, <1>5, <1>6, <1>7, <1>8, <1>9, <1>10, <1>11 DEF ChatNext

\* Who is sent the talk of a private channel is its owner or a guest.
LEMMA PrivateHearers ==
    ASSUME ChatInv, NEW k \in DOMAIN chat.chans, IsPrivate(k), NEW p, NEW q \in Hearers(chat, p, k[2], TRUE)
    PROVE  IsInvited(chat, k, q)
<1>1. ChannelGood(chat, k) /\ \A l \in DOMAIN chat.chans : ChannelGood(chat, l)
  BY DEF ChatInv, GoodChat, ChannelsGood
<1>2. k = PrivateKey(k[2]) /\ k[2] \in PrivateSlots
  BY KeyFacts DEF IsPrivate, PrivateKey
<1>3. k[2] \notin {0, 1} /\ k[2] \notin NormalChannels
  BY <1>2, ChatAssumption
<1>4. NormalKey(k[2]) \notin DOMAIN chat.chans
  <2>1. NormalKey(k[2])[1] = "normal" /\ NormalKey(k[2])[2] = k[2]
    BY DEF NormalKey
  <2>2. ~IsPrivate(NormalKey(k[2])) /\ ~IsShared(NormalKey(k[2])) /\ ~IsNormal(NormalKey(k[2]))
    BY <1>3, <2>1, KeyFacts
  <2> QED BY <1>1, <2>2 DEF ChannelGood
<1>5. GetChannel(chat, p, k[2], TRUE) \in {NoChannel, k}
  BY <1>2, <1>3, <1>4 DEF GetChannel, ChatExists, CHANNEL_GUILD, CHANNEL_PARTY
<1>6. q \in chat.chans[k].users
  BY <1>5 DEF Hearers
<1> QED BY <1>1, <1>6 DEF ChannelGood, IsInvited

LEMMA ChatInvSafe == ChatInv => ChatAgrees
<1> SUFFICES ASSUME ChatInv PROVE ChatAgrees
  OBVIOUS
<1>1. /\ \A k \in DOMAIN chat.chans : ChannelGood(chat, k)
      /\ \A k, l \in DOMAIN chat.chans : chat.chans[k].owner = chat.chans[l].owner /\ chat.chans[k].owner # None => k = l
  BY DEF ChatInv, GoodChat, ChannelsGood
<1>2. ASSUME NEW p \in Talkers PROVE Cardinality(OwnPrivate(chat, p)) <= 1
  <2>1. \A k, l \in OwnPrivate(chat, p) : k = l
    BY <1>1, ChatAssumption DEF OwnPrivate
  <2>2. CASE OwnPrivate(chat, p) = {}
    BY <2>2, FS_EmptySet
  <2>3. CASE OwnPrivate(chat, p) # {}
    <3>1. PICK k : OwnPrivate(chat, p) = {k}
      BY <2>1, <2>3
    <3> QED BY <3>1, FS_Singleton
  <2> QED BY <2>2, <2>3
<1>3. ASSUME NEW k \in DOMAIN chat.chans
      PROVE  /\ chat.chans[k].users \cup chat.chans[k].invites \subseteq chat.on
             /\ k[1] \in {"normal", "private"} => \A p \in chat.chans[k].users : Listens(chat, k, p)
             /\ k[1] = "private" => /\ \A p \in Talkers : \A q \in Hearers(chat, p, k[2], TRUE) : IsInvited(chat, k, q)
                                    /\ chat.chans[k].owner \in chat.chans[k].users
  <2>1. ChannelGood(chat, k)
    BY <1>1
  <2>2. (k[1] \in {"normal", "private"} => ~IsShared(k)) /\ (k[1] = "private" => IsPrivate(k))
    BY <2>1, KeyFacts DEF ChannelGood
  <2>3. k[1] = "private" => \A p \in Talkers : \A q \in Hearers(chat, p, k[2], TRUE) : IsInvited(chat, k, q)
    BY <2>2, PrivateHearers
  <2> QED BY <2>1, <2>2, <2>3 DEF ChannelGood
<1>4. GuildsGood(chat)
  BY DEF ChatInv, GoodChat
<1> QED BY <1>2, <1>3, <1>4 DEF ChatAgrees, GuildsGood

\* The inductive invariant of channels and guilds.
THEOREM ChatInvariant == ChatSpec => []ChatInv
<1>1. ChatInit => ChatInv
  BY ChatInitInv
<1>2. ChatInv /\ [ChatNext]_chatVars => ChatInv'
  BY ChatNextInv
<1> QED BY <1>1, <1>2, PTL DEF ChatSpec

\* Channels hold only players in the game, however they leave it
\* (Chat::removeUserFromAllChannels, ChatChannel::removeUser); who hears a public or
\* a private channel has its window open, whatever canJoin answers as channels are
\* opened and closed, but for those a public one's script refused as they closed it
\* (Chat::removeUserFromChannel through Chat::getChannel); a private one is heard by
\* its owner and his guests, its owner is in it, and nobody has two; and a guild object lives as
\* long as somebody in the game points to it and knows exactly those
\* (Player::setGuild, Guild::removeMember).
THEOREM ChatAlwaysAgrees == ChatSpec => []ChatAgrees
<1>1. ChatInv => ChatAgrees
  BY ChatInvSafe
<1> QED BY <1>1, ChatInvariant, PTL

-------------------------------------------------------------------------------
(* Walking.  Requests travel from the queue to the walk task, the scheduler  *)
(* or what was done, and are never in two of these places.                   *)
WalkFields == {"now", "pos", "beast", "portal", "follows", "mobile", "lastStep", "lastStepCost",
               "list", "eventWalk", "cancelNextWalk", "walkTask", "walkTaskEvent",
               "actionTaskEvent", "nextAction", "ids", "sched", "queue", "reqs", "things",
               "halted", "gap", "dropped", "acts"}

\* s is a sequence, of whatever.
IsSeq(s) == \E T : s \in Seq(T)

\* The events of the scheduler: told apart by their numbers, and what their
\* owners noted of them is right.
EventsGood(w) ==
    /\ w.ids \in Nat
    /\ {w.eventWalk, w.walkTaskEvent, w.actionTaskEvent} \subseteq 0 .. w.ids
    /\ \A e \in w.sched :
          /\ e.id \in 1 .. w.ids
          /\ \/ e.what = "walk" /\ e.req = 0 /\ e.id \notin {w.walkTaskEvent, w.actionTaskEvent}
             \/ e.what = "request" /\ e.req \in DOMAIN w.reqs /\ e.id # w.eventWalk
    /\ \A e, f \in w.sched : e.id = f.id => e = f

\* The dispatcher's queue holds tasks that can be run.
HoldsRequest(t) == t.what \in {"first", "request"}
TaskGood(w, t) ==
    /\ t.what \in {"first", "request", "arrow", "autowalk", "walk", "stop", "follow", "think"}
    /\ HoldsRequest(t) => t.req \in DOMAIN w.reqs
QueueGood(w) == IsSeq(w.queue) /\ \A k \in DOMAIN w.queue : TaskGood(w, w.queue[k])

\* Where a request may be.
Scheduled(w, r) == \E e \in w.sched : e.req = r
Queued(w, r) == \E k \in DOMAIN w.queue : HoldsRequest(w.queue[k]) /\ w.queue[k].req = r
Done(w, r) == \E k \in DOMAIN w.acts : w.acts[k].req = r
Nowhere(w, r) ==
    r \in DOMAIN w.reqs /\ ~Scheduled(w, r) /\ ~Queued(w, r) /\ w.walkTask # r
      /\ r \notin w.dropped /\ ~Done(w, r)

\* Each request is in one place at most, and there once.
RequestsGood(w) ==
    /\ w.reqs \in Seq(Requests)
    /\ w.walkTask \in {NoRequest} \cup DOMAIN w.reqs
    /\ w.dropped \subseteq DOMAIN w.reqs
    /\ \A e, f \in w.sched : e.req = f.req /\ e.req # NoRequest => e = f
    /\ \A k, m \in DOMAIN w.queue :
          HoldsRequest(w.queue[k]) /\ HoldsRequest(w.queue[m]) /\ w.queue[k].req = w.queue[m].req => k = m
    /\ \A r \in DOMAIN w.reqs :
          /\ Scheduled(w, r) => ~Queued(w, r) /\ w.walkTask # r /\ r \notin w.dropped /\ ~Done(w, r)
          /\ Queued(w, r) => w.walkTask # r /\ r \notin w.dropped /\ ~Done(w, r)
          /\ w.walkTask = r => r \notin w.dropped /\ ~Done(w, r)
          /\ r \in w.dropped => ~Done(w, r)

\* What was done was done as it should.
ActsGood(w) ==
    /\ IsSeq(w.acts)
    /\ \A k \in DOMAIN w.acts :
          /\ w.acts[k].req \in DOMAIN w.reqs
          /\ w.acts[k].near /\ w.acts[k].sprite = w.reqs[w.acts[k].req].sprite /\ ~w.acts[k].dropped
          /\ w.acts[k].ready \/ w.reqs[w.acts[k].req].kind = "rotate"
    /\ \A k, m \in DOMAIN w.acts : w.acts[k].req = w.acts[m].req => k = m

\* All that concerns requests.
AskedGood(w) ==
    HasFields(w, WalkFields) /\ EventsGood(w) /\ QueueGood(w) /\ RequestsGood(w) /\ ActsGood(w)

\* All that concerns the walk: its clock, and the event that drives it.
ClockGood(w) ==
    w.now \in Int /\ w.lastStep \in Int /\ w.lastStepCost \in Int /\ w.gap \in Int /\ w.gap <= 0
Driven(w) == w.list # <<>> /\ w.mobile /\ ~w.halted => w.eventWalk # 0
Linked(w) ==
    w.eventWalk # 0 => \/ \E e \in w.sched : e.id = w.eventWalk
                       \/ \E k \in DOMAIN w.queue : w.queue[k].what = "walk"
OnItsWay(w) == ClockGood(w) /\ Driven(w)

\* The inductive invariant, as a predicate of the state a handler works on.
WalkGood(w) == AskedGood(w) /\ OnItsWay(w) /\ Linked(w)
WalkInv == WalkGood(wk)

\* What a sequence becomes when something is put at its end or taken from its front.
LEMMA AppendIs ==
    ASSUME NEW s, IsSeq(s), NEW x
    PROVE  /\ IsSeq(Append(s, x)) /\ Len(s) \in Nat /\ DOMAIN s = 1 .. Len(s)
           /\ DOMAIN Append(s, x) = 1 .. Len(s) + 1 /\ Append(s, x)[Len(s) + 1] = x
           /\ \A k \in DOMAIN s : Append(s, x)[k] = s[k]
<1>1. PICK T : s \in Seq(T)
  BY DEF IsSeq
<1>2. s \in Seq(T \cup {x}) /\ x \in T \cup {x}
  BY <1>1
<1>3. Append(s, x) \in Seq(T \cup {x})
  BY <1>2
<1> QED BY <1>2, <1>3 DEF IsSeq

LEMMA PrependIs ==
    ASSUME NEW s, IsSeq(s), NEW x, NEW c, c = <<x>> \o s
    PROVE  /\ IsSeq(c) /\ Len(s) \in Nat /\ DOMAIN s = 1 .. Len(s)
           /\ DOMAIN c = 1 .. Len(s) + 1 /\ c[1] = x
           /\ \A k \in DOMAIN c : k = 1 \/ (k - 1 \in DOMAIN s /\ c[k] = s[k - 1])
<1>1. PICK T : s \in Seq(T)
  BY DEF IsSeq
<1> DEFINE U == T \cup {x}
           h == <<x>>
<1>2. s \in Seq(U) /\ x \in U
  BY <1>1
<1> HIDE DEF U
<1>3. h \in Seq(U) /\ Len(h) = 1 /\ h[1] = x
  BY <1>2
<1>4. c = h \o s
  OBVIOUS
<1> HIDE DEF h
<1>5. c \in Seq(U) /\ Len(c) = Len(s) + 1 /\ Len(s) \in Nat /\ c[1] = x
  BY <1>2, <1>3, <1>4
<1>6. ASSUME NEW k \in 1 .. Len(s) + 1, k # 1 PROVE k - 1 \in 1 .. Len(s) /\ c[k] = s[k - 1]
  <2>1. k - 1 \in 1 .. Len(s) /\ k \in 1 .. Len(h) + Len(s) /\ ~(k <= Len(h)) /\ k - Len(h) = k - 1
    BY <1>3, <1>5, <1>6
  <2>2. c[k] = s[k - Len(h)]
    BY <1>2, <1>3, <1>4, <2>1
  <2> QED BY <2>1, <2>2
<1>7. DOMAIN s = 1 .. Len(s) /\ DOMAIN c = 1 .. Len(s) + 1
  BY <1>2, <1>5
<1> QED BY <1>5, <1>6, <1>7 DEF IsSeq

LEMMA TailIs ==
    ASSUME NEW s, IsSeq(s), s # <<>>
    PROVE  /\ IsSeq(Tail(s)) /\ Len(s) \in Nat \ {0} /\ DOMAIN s = 1 .. Len(s)
           /\ DOMAIN Tail(s) = 1 .. Len(s) - 1 /\ Head(s) = s[1]
           /\ \A k \in DOMAIN Tail(s) : k + 1 \in DOMAIN s /\ Tail(s)[k] = s[k + 1]
<1>1. PICK T : s \in Seq(T)
  BY DEF IsSeq
<1>2. Tail(s) \in Seq(T)
  BY <1>1
<1> QED BY <1>1, <1>2 DEF IsSeq

\* Nothing new: events, the walk task and the walk's event only go away, and a request
\* is dropped only from where it was.
LEMMA FewerAsked ==
    ASSUME NEW w, AskedGood(w), NEW v, HasFields(v, WalkFields), v.ids = w.ids,
           v.sched \subseteq w.sched, v.queue = w.queue, v.reqs = w.reqs, v.acts = w.acts,
           v.eventWalk \in {0, w.eventWalk}, v.walkTaskEvent \in {0, w.walkTaskEvent},
           v.actionTaskEvent \in {0, w.actionTaskEvent}, v.walkTask \in {NoRequest, w.walkTask},
           \A r \in v.dropped : \/ r \in w.dropped
                                \/ r = w.walkTask /\ r # NoRequest /\ v.walkTask = NoRequest
                                \/ \E e \in w.sched \ v.sched : e.req = r /\ e.what = "request"
    PROVE  AskedGood(v) /\ \A r : Nowhere(w, r) => Nowhere(v, r)
<1>1. EventsGood(v)
  BY DEF AskedGood, EventsGood
<1>2. QueueGood(v)
  BY DEF AskedGood, QueueGood, TaskGood
<1>3. ActsGood(v)
  BY DEF AskedGood, ActsGood
<1>4. \A r : (Scheduled(v, r) => Scheduled(w, r)) /\ (Queued(v, r) <=> Queued(w, r)) /\ (Done(v, r) <=> Done(w, r))
  BY DEF Scheduled, Queued, Done
<1>5. \A r \in v.dropped : r \in w.dropped \/ (r = w.walkTask /\ v.walkTask = NoRequest) \/ Scheduled(w, r)
  BY DEF Scheduled
<1>6. v.dropped \subseteq DOMAIN w.reqs
  BY DEF AskedGood, RequestsGood, EventsGood
<1>7. \A r \in v.dropped : ~Scheduled(v, r)
  <2> SUFFICES ASSUME NEW r \in v.dropped, NEW f \in v.sched, f.req = r PROVE FALSE
    BY DEF Scheduled
  <2>1. r \in DOMAIN w.reqs /\ r # NoRequest
    BY <1>6 DEF AskedGood, RequestsGood, NoRequest
  <2>2. Scheduled(w, r)
    BY DEF Scheduled
  <2>3. PICK e \in w.sched \ v.sched : e.req = r
    BY <2>1, <2>2 DEF AskedGood, RequestsGood
  <2> QED BY <2>1, <2>3 DEF AskedGood, RequestsGood
<1>8. RequestsGood(v)
  <2>1. /\ v.reqs \in Seq(Requests) /\ v.walkTask \in {NoRequest} \cup DOMAIN v.reqs
        /\ v.dropped \subseteq DOMAIN v.reqs
        /\ \A e, f \in v.sched : e.req = f.req /\ e.req # NoRequest => e = f
        /\ \A k, m \in DOMAIN v.queue :
             HoldsRequest(v.queue[k]) /\ HoldsRequest(v.queue[m]) /\ v.queue[k].req = v.queue[m].req => k = m
    BY <1>6 DEF AskedGood, RequestsGood
  <2>2. ASSUME NEW r \in DOMAIN v.reqs
        PROVE /\ Scheduled(v, r) => ~Queued(v, r) /\ v.walkTask # r /\ r \notin v.dropped /\ ~Done(v, r)
              /\ Queued(v, r) => v.walkTask # r /\ r \notin v.dropped /\ ~Done(v, r)
              /\ v.walkTask = r => r \notin v.dropped /\ ~Done(v, r)
              /\ r \in v.dropped => ~Done(v, r)
    <3>1. r # NoRequest
      BY DEF AskedGood, RequestsGood, NoRequest
    <3> QED BY <1>4, <1>5, <1>7, <3>1 DEF AskedGood, RequestsGood
  <2> QED BY <2>1, <2>2 DEF RequestsGood
<1>9. ASSUME NEW r, Nowhere(w, r) PROVE Nowhere(v, r)
  <2>1. r # NoRequest
    BY <1>9 DEF Nowhere, AskedGood, RequestsGood, NoRequest
  <2> QED BY <1>4, <1>5, <1>9, <2>1 DEF Nowhere
<1> QED BY <1>1, <1>2, <1>3, <1>8, <1>9 DEF AskedGood

\* A request that was nowhere becomes the walk task where there was none.
LEMMA WalkTaskAsked ==
    ASSUME NEW w, AskedGood(w), w.walkTask = NoRequest, NEW r, Nowhere(w, r)
    PROVE  AskedGood([w EXCEPT !.walkTask = r])
<1> DEFINE v == [w EXCEPT !.walkTask = r]
<1>1. HasFields(v, WalkFields) /\ v.walkTask = r /\ \A f \in WalkFields \ {"walkTask"} : v[f] = w[f]
  BY DEF AskedGood, HasFields, WalkFields
<1> HIDE DEF v
<1>2. /\ v.ids = w.ids /\ v.sched = w.sched /\ v.queue = w.queue /\ v.reqs = w.reqs /\ v.acts = w.acts
      /\ v.eventWalk = w.eventWalk /\ v.walkTaskEvent = w.walkTaskEvent
      /\ v.actionTaskEvent = w.actionTaskEvent /\ v.dropped = w.dropped
  BY <1>1 DEF WalkFields
<1>3. EventsGood(v) /\ QueueGood(v) /\ ActsGood(v)
  BY <1>2 DEF AskedGood, EventsGood, QueueGood, TaskGood, ActsGood
<1>4. \A q : (Scheduled(v, q) <=> Scheduled(w, q)) /\ (Queued(v, q) <=> Queued(w, q)) /\ (Done(v, q) <=> Done(w, q))
  BY <1>2 DEF Scheduled, Queued, Done
<1>5. RequestsGood(v)
  BY <1>1, <1>2, <1>4 DEF AskedGood, RequestsGood, Nowhere
<1>6. AskedGood(v)
  BY <1>1, <1>3, <1>5 DEF AskedGood
<1> QED BY <1>6 DEF v

\* A new event of the walk, or one for a request that was nowhere.
LEMMA EventAsked ==
    ASSUME NEW w, AskedGood(w), NEW v, HasFields(v, WalkFields), NEW n, n.id = w.ids + 1,
           v.ids = w.ids + 1, v.sched = w.sched \cup {n}, v.queue = w.queue, v.reqs = w.reqs,
           v.acts = w.acts, v.dropped = w.dropped, v.walkTask = w.walkTask,
           \/ /\ n.what = "walk" /\ n.req = NoRequest /\ v.eventWalk = w.ids + 1
              /\ v.walkTaskEvent = w.walkTaskEvent /\ v.actionTaskEvent = w.actionTaskEvent
           \/ /\ n.what = "request" /\ Nowhere(w, n.req) /\ v.eventWalk = w.eventWalk
              /\ v.walkTaskEvent \in {w.walkTaskEvent, w.ids + 1}
              /\ v.actionTaskEvent \in {w.actionTaskEvent, w.ids + 1}
    PROVE  AskedGood(v)
<1>1. EventsGood(v)
  <2>1. w.ids \in Nat /\ v.ids \in Nat /\ w.ids + 1 \in 0 .. v.ids
    BY DEF AskedGood, EventsGood
  <2>2. {v.eventWalk, v.walkTaskEvent, v.actionTaskEvent} \subseteq 0 .. v.ids
    BY <2>1 DEF AskedGood, EventsGood
  <2>3. ASSUME NEW e \in w.sched
        PROVE /\ e.id \in 1 .. w.ids /\ e.id \in 1 .. v.ids /\ e.id # n.id
              /\ \/ e.what = "walk" /\ e.req = 0 /\ e.id \notin {v.walkTaskEvent, v.actionTaskEvent}
                 \/ e.what = "request" /\ e.req \in DOMAIN v.reqs /\ e.id # v.eventWalk
    BY <2>1 DEF AskedGood, EventsGood
  <2>4. /\ n.id \in 1 .. v.ids
        /\ \/ n.what = "walk" /\ n.req = 0 /\ n.id \notin {v.walkTaskEvent, v.actionTaskEvent}
           \/ n.what = "request" /\ n.req \in DOMAIN v.reqs /\ n.id # v.eventWalk
    BY <2>1 DEF AskedGood, EventsGood, Nowhere, NoRequest
  <2>5. ASSUME NEW e \in v.sched, NEW f \in v.sched, e.id = f.id PROVE e = f
    BY <2>3, <2>5 DEF AskedGood, EventsGood
  <2> QED BY <2>1, <2>2, <2>3, <2>4, <2>5 DEF EventsGood
<1>2. QueueGood(v) /\ ActsGood(v)
  BY DEF AskedGood, QueueGood, TaskGood, ActsGood
<1>3. \A q : (Scheduled(v, q) => Scheduled(w, q) \/ q = n.req) /\ (Queued(v, q) <=> Queued(w, q)) /\ (Done(v, q) <=> Done(w, q))
  BY DEF Scheduled, Queued, Done
<1>4. n.req = NoRequest \/ Nowhere(w, n.req)
  OBVIOUS
<1>5. \A r \in DOMAIN w.reqs : r # NoRequest
  BY DEF AskedGood, RequestsGood, NoRequest
<1>6. \A e, f \in v.sched : e.req = f.req /\ e.req # NoRequest => e = f
  BY <1>4 DEF AskedGood, RequestsGood, Nowhere, Scheduled
<1>7. RequestsGood(v)
  BY <1>3, <1>4, <1>5, <1>6 DEF AskedGood, RequestsGood, Nowhere
<1> QED BY <1>1, <1>2, <1>7 DEF AskedGood

\* A task is put at the end of the queue; a request it carries was nowhere.
LEMMA PostAsked ==
    ASSUME NEW w, AskedGood(w), NEW t, TaskGood(w, t), HoldsRequest(t) => Nowhere(w, t.req)
    PROVE  /\ AskedGood(Post(w, t))
           /\ Post(w, t).queue = Append(w.queue, t)
           /\ \A f \in WalkFields \ {"queue"} : Post(w, t)[f] = w[f]
           /\ ~HoldsRequest(t) => \A r : Nowhere(w, r) => Nowhere(Post(w, t), r)
<1> DEFINE v == Post(w, t)
<1>1. HasFields(v, WalkFields) /\ v.queue = Append(w.queue, t) /\ \A f \in WalkFields \ {"queue"} : v[f] = w[f]
  BY DEF AskedGood, HasFields, WalkFields, Post
<1> HIDE DEF v
<1>2. /\ v.ids = w.ids /\ v.sched = w.sched /\ v.reqs = w.reqs /\ v.acts = w.acts
      /\ v.eventWalk = w.eventWalk /\ v.walkTaskEvent = w.walkTaskEvent /\ v.walkTask = w.walkTask
      /\ v.actionTaskEvent = w.actionTaskEvent /\ v.dropped = w.dropped
  BY <1>1 DEF WalkFields
<1>3. EventsGood(v) /\ ActsGood(v)
  BY <1>2 DEF AskedGood, EventsGood, ActsGood
<1>4. /\ IsSeq(v.queue) /\ Len(w.queue) \in Nat /\ DOMAIN w.queue = 1 .. Len(w.queue)
      /\ DOMAIN v.queue = 1 .. Len(w.queue) + 1 /\ v.queue[Len(w.queue) + 1] = t
      /\ \A k \in DOMAIN w.queue : v.queue[k] = w.queue[k]
  BY <1>1, AppendIs DEF AskedGood, QueueGood
<1>5. \A k \in DOMAIN v.queue : (k \in DOMAIN w.queue /\ v.queue[k] = w.queue[k])
                                  \/ (k = Len(w.queue) + 1 /\ v.queue[k] = t)
  BY <1>4
<1>6. QueueGood(v)
  <2>1. \A x : TaskGood(w, x) => TaskGood(v, x)
    BY <1>2 DEF TaskGood
  <2> QED BY <1>4, <1>5, <2>1 DEF AskedGood, QueueGood
<1>7. \A q : (Scheduled(v, q) <=> Scheduled(w, q)) /\ (Done(v, q) <=> Done(w, q))
  BY <1>2 DEF Scheduled, Done
<1>8. \A q : Queued(v, q) => Queued(w, q) \/ (HoldsRequest(t) /\ q = t.req)
  BY <1>5 DEF Queued
<1>9. \A k, m \in DOMAIN v.queue :
         HoldsRequest(v.queue[k]) /\ HoldsRequest(v.queue[m]) /\ v.queue[k].req = v.queue[m].req => k = m
  BY <1>5 DEF AskedGood, RequestsGood, Nowhere, Queued
<1>10. RequestsGood(v)
  BY <1>2, <1>7, <1>8, <1>9 DEF AskedGood, RequestsGood, Nowhere
<1>11. AskedGood(v)
  BY <1>1, <1>3, <1>6, <1>10 DEF AskedGood
<1>12. ~HoldsRequest(t) => \A r : Nowhere(w, r) => Nowhere(v, r)
  BY <1>2, <1>7, <1>8 DEF Nowhere
<1> QED BY <1>1, <1>11, <1>12 DEF v

\* The same at its front: the tasks that wait are one place further back.
LEMMA PushedTasks ==
    ASSUME NEW w, AskedGood(w), NEW t, NEW q, q = <<t>> \o w.queue
    PROVE  /\ IsSeq(q) /\ Len(w.queue) \in Nat /\ DOMAIN w.queue = 1 .. Len(w.queue)
           /\ DOMAIN q = 1 .. Len(w.queue) + 1 /\ q[1] = t
           /\ \A k \in DOMAIN q : k = 1 \/ (k - 1 \in DOMAIN w.queue /\ q[k] = w.queue[k - 1])
<1>1. IsSeq(w.queue)
  BY DEF AskedGood, QueueGood
<1>2. /\ Len(w.queue) \in Nat /\ DOMAIN w.queue = 1 .. Len(w.queue)
      /\ DOMAIN q = 1 .. Len(w.queue) + 1 /\ q[1] = t
      /\ \A k \in DOMAIN q : k = 1 \/ (k - 1 \in DOMAIN w.queue /\ q[k] = w.queue[k - 1])
  BY <1>1, PrependIs
<1>3. IsSeq(q)
  BY <1>1, PrependIs
<1> QED BY <1>2, <1>3

LEMMA PushAsked ==
    ASSUME NEW w, AskedGood(w), NEW t, TaskGood(w, t), HoldsRequest(t) => Nowhere(w, t.req)
    PROVE  /\ AskedGood(PostFirst(w, t))
           /\ PostFirst(w, t).queue = <<t>> \o w.queue
           /\ \A f \in WalkFields \ {"queue"} : PostFirst(w, t)[f] = w[f]
           /\ ~HoldsRequest(t) => \A r : Nowhere(w, r) => Nowhere(PostFirst(w, t), r)
<1> DEFINE v == PostFirst(w, t)
<1>1. HasFields(v, WalkFields) /\ v.queue = <<t>> \o w.queue /\ \A f \in WalkFields \ {"queue"} : v[f] = w[f]
  BY DEF AskedGood, HasFields, WalkFields, PostFirst
<1> HIDE DEF v
<1>2. /\ v.ids = w.ids /\ v.sched = w.sched /\ v.reqs = w.reqs /\ v.acts = w.acts
      /\ v.eventWalk = w.eventWalk /\ v.walkTaskEvent = w.walkTaskEvent /\ v.walkTask = w.walkTask
      /\ v.actionTaskEvent = w.actionTaskEvent /\ v.dropped = w.dropped
  BY <1>1 DEF WalkFields
<1>3. EventsGood(v) /\ ActsGood(v)
  BY <1>2 DEF AskedGood, EventsGood, ActsGood
<1>4. /\ IsSeq(v.queue) /\ Len(w.queue) \in Nat /\ DOMAIN w.queue = 1 .. Len(w.queue)
      /\ DOMAIN v.queue = 1 .. Len(w.queue) + 1 /\ v.queue[1] = t
      /\ \A k \in DOMAIN v.queue : k = 1 \/ (k - 1 \in DOMAIN w.queue /\ v.queue[k] = w.queue[k - 1])
  <2>1. /\ Len(w.queue) \in Nat /\ DOMAIN w.queue = 1 .. Len(w.queue)
        /\ DOMAIN v.queue = 1 .. Len(w.queue) + 1 /\ v.queue[1] = t
        /\ \A k \in DOMAIN v.queue : k = 1 \/ (k - 1 \in DOMAIN w.queue /\ v.queue[k] = w.queue[k - 1])
    BY <1>1, PushedTasks
  <2>2. IsSeq(v.queue)
    BY <1>1, PushedTasks
  <2> QED BY <2>1, <2>2
<1>5. \A k \in DOMAIN v.queue : (k - 1 \in DOMAIN w.queue /\ v.queue[k] = w.queue[k - 1])
                                  \/ (k = 1 /\ v.queue[k] = t)
  BY <1>4
<1>6. QueueGood(v)
  <2>1. \A x : TaskGood(w, x) => TaskGood(v, x)
    BY <1>2 DEF TaskGood
  <2> QED BY <1>4, <1>5, <2>1 DEF AskedGood, QueueGood
<1>7. \A q : (Scheduled(v, q) <=> Scheduled(w, q)) /\ (Done(v, q) <=> Done(w, q))
  BY <1>2 DEF Scheduled, Done
<1>8. \A q : Queued(v, q) => Queued(w, q) \/ (HoldsRequest(t) /\ q = t.req)
  BY <1>5 DEF Queued
<1>9. \A k, m \in DOMAIN v.queue :
         HoldsRequest(v.queue[k]) /\ HoldsRequest(v.queue[m]) /\ v.queue[k].req = v.queue[m].req => k = m
  <2> SUFFICES ASSUME NEW k \in DOMAIN v.queue, NEW m \in DOMAIN v.queue,
                      HoldsRequest(v.queue[k]), HoldsRequest(v.queue[m]), v.queue[k].req = v.queue[m].req
               PROVE  k = m
    OBVIOUS
  <2>1. ASSUME NEW n \in DOMAIN w.queue, HoldsRequest(t), HoldsRequest(w.queue[n]) PROVE w.queue[n].req # t.req
    BY <2>1 DEF Nowhere, Queued
  <2>2. CASE k = 1 \/ m = 1
    BY <1>4, <2>1, <2>2
  <2>3. CASE k # 1 /\ m # 1
    <3>1. /\ k - 1 \in DOMAIN w.queue /\ v.queue[k] = w.queue[k - 1]
          /\ m - 1 \in DOMAIN w.queue /\ v.queue[m] = w.queue[m - 1]
      BY <1>4, <2>3
    <3>2. k - 1 = m - 1
      BY <3>1 DEF AskedGood, RequestsGood
    <3>3. k \in Int /\ m \in Int
      BY <1>4
    <3> QED BY <3>2, <3>3
  <2> QED BY <2>2, <2>3
<1>10. RequestsGood(v)
  BY <1>2, <1>7, <1>8, <1>9 DEF AskedGood, RequestsGood, Nowhere
<1>11. AskedGood(v)
  BY <1>1, <1>3, <1>6, <1>10 DEF AskedGood
<1>12. ~HoldsRequest(t) => \A r : Nowhere(w, r) => Nowhere(v, r)
  BY <1>2, <1>7, <1>8 DEF Nowhere
<1> QED BY <1>1, <1>11, <1>12 DEF v

\* The head of the queue is taken from it; a request it carries is nowhere then.
LEMMA PopAsked ==
    ASSUME NEW w, AskedGood(w), w.queue # <<>>
    PROVE  LET v == [w EXCEPT !.queue = Tail(@)]
               t == Head(w.queue)
           IN  /\ AskedGood(v) /\ TaskGood(v, t) /\ (HoldsRequest(t) => Nowhere(v, t.req))
               /\ v.queue = Tail(w.queue) /\ \A f \in WalkFields \ {"queue"} : v[f] = w[f]
<1> DEFINE v == [w EXCEPT !.queue = Tail(@)]
           t == Head(w.queue)
<1>1. HasFields(v, WalkFields) /\ v.queue = Tail(w.queue) /\ \A f \in WalkFields \ {"queue"} : v[f] = w[f]
  BY DEF AskedGood, HasFields, WalkFields
<1>2. /\ IsSeq(v.queue) /\ Len(w.queue) \in Nat \ {0} /\ DOMAIN w.queue = 1 .. Len(w.queue)
      /\ DOMAIN v.queue = 1 .. Len(w.queue) - 1 /\ t = w.queue[1]
      /\ \A k \in DOMAIN v.queue : k + 1 \in DOMAIN w.queue /\ v.queue[k] = w.queue[k + 1]
  BY <1>1, TailIs DEF AskedGood, QueueGood
<1> HIDE DEF v, t
<1>3. /\ v.ids = w.ids /\ v.sched = w.sched /\ v.reqs = w.reqs /\ v.acts = w.acts
      /\ v.eventWalk = w.eventWalk /\ v.walkTaskEvent = w.walkTaskEvent /\ v.walkTask = w.walkTask
      /\ v.actionTaskEvent = w.actionTaskEvent /\ v.dropped = w.dropped
  BY <1>1 DEF WalkFields
<1>4. EventsGood(v) /\ ActsGood(v)
  BY <1>3 DEF AskedGood, EventsGood, ActsGood
<1>5. \A x : TaskGood(w, x) => TaskGood(v, x)
  BY <1>3 DEF TaskGood
<1>6. QueueGood(v) /\ TaskGood(v, t)
  <2>1. 1 \in DOMAIN w.queue
    BY <1>2
  <2> QED BY <1>2, <1>5, <2>1 DEF AskedGood, QueueGood
<1>7. \A q : (Scheduled(v, q) <=> Scheduled(w, q)) /\ (Done(v, q) <=> Done(w, q))
  BY <1>3 DEF Scheduled, Done
<1>8. \A q : Queued(v, q) => Queued(w, q)
  BY <1>2 DEF Queued
<1>9. \A k, m \in DOMAIN v.queue :
         HoldsRequest(v.queue[k]) /\ HoldsRequest(v.queue[m]) /\ v.queue[k].req = v.queue[m].req => k = m
  <2> SUFFICES ASSUME NEW k \in DOMAIN v.queue, NEW m \in DOMAIN v.queue,
                      HoldsRequest(v.queue[k]), HoldsRequest(v.queue[m]), v.queue[k].req = v.queue[m].req
               PROVE  k = m
    OBVIOUS
  <2>1. k + 1 = m + 1
    BY <1>2 DEF AskedGood, RequestsGood
  <2> QED BY <1>2, <2>1
<1>10. RequestsGood(v)
  BY <1>3, <1>7, <1>8, <1>9 DEF AskedGood, RequestsGood
<1>11. ASSUME HoldsRequest(t) PROVE Nowhere(v, t.req)
  <2>1. 1 \in DOMAIN w.queue /\ Queued(w, t.req)
    BY <1>2, <1>11 DEF Queued
  <2>2. t.req \in DOMAIN w.reqs
    BY <1>3, <1>6, <1>11 DEF TaskGood
  <2>3. ~Queued(v, t.req)
    <3> SUFFICES ASSUME NEW k \in DOMAIN v.queue, HoldsRequest(v.queue[k]), v.queue[k].req = t.req PROVE FALSE
      BY DEF Queued
    <3>1. k + 1 = 1
      BY <1>2, <1>11, <2>1 DEF AskedGood, RequestsGood
    <3> QED BY <1>2, <3>1
  <2> QED BY <1>3, <1>7, <2>1, <2>2, <2>3 DEF Nowhere, AskedGood, RequestsGood
<1>12. AskedGood(v)
  BY <1>1, <1>4, <1>6, <1>10 DEF AskedGood
<1> QED BY <1>1, <1>6, <1>11, <1>12 DEF v, t

\* The fields that requests live in, and those the walk lives in.
AskedFields == {"ids", "sched", "queue", "reqs", "acts", "eventWalk", "walkTaskEvent",
                "actionTaskEvent", "walkTask", "dropped"}
WayFields == {"now", "lastStep", "lastStepCost", "gap", "list", "mobile", "halted", "eventWalk"}

LEMMA OtherAsked ==
    ASSUME NEW w, AskedGood(w), NEW v, HasFields(v, WalkFields), \A f \in AskedFields : v[f] = w[f]
    PROVE  AskedGood(v) /\ \A r : Nowhere(w, r) => Nowhere(v, r)
<1>1. /\ v.ids = w.ids /\ v.sched = w.sched /\ v.queue = w.queue /\ v.reqs = w.reqs /\ v.acts = w.acts
      /\ v.eventWalk = w.eventWalk /\ v.walkTaskEvent = w.walkTaskEvent /\ v.walkTask = w.walkTask
      /\ v.actionTaskEvent = w.actionTaskEvent /\ v.dropped = w.dropped
  BY DEF AskedFields
<1> QED BY <1>1, FewerAsked

\* v is w after something that does not concern the walk.
Aside(w, v) ==
    /\ \A f \in WayFields : v[f] = w[f]
    /\ DOMAIN v.reqs = DOMAIN w.reqs
    /\ \A e \in w.sched : e.what = "walk" => e \in v.sched
    /\ \A k \in DOMAIN w.queue : k \in DOMAIN v.queue /\ v.queue[k] = w.queue[k]

LEMMA AsideTrans ==
    ASSUME NEW u, NEW v, NEW w, Aside(u, v), Aside(v, w)
    PROVE  Aside(u, w)
BY DEF Aside

LEMMA AsideKeeps ==
    ASSUME NEW w, NEW v, AskedGood(w), Aside(w, v)
    PROVE  (OnItsWay(w) => OnItsWay(v)) /\ (Linked(w) => Linked(v))
<1>1. /\ v.now = w.now /\ v.lastStep = w.lastStep /\ v.lastStepCost = w.lastStepCost /\ v.gap = w.gap
      /\ v.list = w.list /\ v.mobile = w.mobile /\ v.halted = w.halted /\ v.eventWalk = w.eventWalk
  BY DEF Aside, WayFields
<1>2. OnItsWay(w) => OnItsWay(v)
  BY <1>1 DEF OnItsWay, ClockGood, Driven
<1>3. \A e \in w.sched : e.id = w.eventWalk => e \in v.sched
  BY DEF AskedGood, EventsGood, Aside
<1>4. Linked(w) => Linked(v)
  BY <1>1, <1>3 DEF Linked, Aside
<1> QED BY <1>2, <1>4

LEMMA OtherAside ==
    ASSUME NEW w, NEW v, v.reqs = w.reqs, v.sched = w.sched, v.queue = w.queue, \A f \in WayFields : v[f] = w[f]
    PROVE  Aside(w, v)
BY DEF Aside

\* A request is carried out, once and as it was asked.
LEMMA NotedAsked ==
    ASSUME NEW w, AskedGood(w), NEW r, Nowhere(w, r), NEW at, InReach(w, at),
           w.reqs[r].kind = "push" \/ w.things[at] = w.reqs[r].sprite,
           CanDoAction(w) \/ w.reqs[r].kind = "rotate"
    PROVE  LET v == Noted(w, r, at)
           IN  AskedGood(v) /\ \A f \in WalkFields \ {"acts"} : v[f] = w[f]
<1> DEFINE s == IF w.reqs[r].kind = "push" THEN w.reqs[r].sprite ELSE w.things[at]
           d == r \in w.dropped
           a == [req |-> r, near |-> InReach(w, at), sprite |-> s, ready |-> CanDoAction(w), dropped |-> d]
           v == [w EXCEPT !.acts = Append(w.acts, a)]
<1>1. v = Noted(w, r, at)
  BY DEF Noted
<1>2. a.req = r /\ a.near /\ a.sprite = w.reqs[r].sprite /\ ~a.dropped
  BY DEF Nowhere
<1>3. a.ready \/ w.reqs[r].kind = "rotate"
  OBVIOUS
<1> HIDE DEF a, s, d
<1>4. HasFields(v, WalkFields) /\ v.acts = Append(w.acts, a) /\ \A f \in WalkFields \ {"acts"} : v[f] = w[f]
  BY DEF AskedGood, HasFields, WalkFields
<1> HIDE DEF v
<1>5. /\ v.ids = w.ids /\ v.sched = w.sched /\ v.queue = w.queue /\ v.reqs = w.reqs
      /\ v.eventWalk = w.eventWalk /\ v.walkTaskEvent = w.walkTaskEvent /\ v.walkTask = w.walkTask
      /\ v.actionTaskEvent = w.actionTaskEvent /\ v.dropped = w.dropped
  BY <1>4 DEF WalkFields
<1>6. EventsGood(v) /\ QueueGood(v)
  BY <1>5 DEF AskedGood, EventsGood, QueueGood, TaskGood
<1>7. /\ IsSeq(v.acts) /\ Len(w.acts) \in Nat /\ DOMAIN w.acts = 1 .. Len(w.acts)
      /\ DOMAIN v.acts = 1 .. Len(w.acts) + 1 /\ v.acts[Len(w.acts) + 1] = a
      /\ \A k \in DOMAIN w.acts : v.acts[k] = w.acts[k]
  BY <1>4, AppendIs DEF AskedGood, ActsGood
<1>8. \A k \in DOMAIN v.acts : (k \in DOMAIN w.acts /\ v.acts[k] = w.acts[k])
                                 \/ (k = Len(w.acts) + 1 /\ v.acts[k] = a)
  BY <1>7
<1>9. ActsGood(v)
  <2>1. ASSUME NEW k \in DOMAIN v.acts
        PROVE /\ v.acts[k].req \in DOMAIN v.reqs
              /\ v.acts[k].near /\ v.acts[k].sprite = v.reqs[v.acts[k].req].sprite /\ ~v.acts[k].dropped
              /\ v.acts[k].ready \/ v.reqs[v.acts[k].req].kind = "rotate"
    BY <1>2, <1>3, <1>5, <1>8 DEF AskedGood, ActsGood, Nowhere
  <2>2. \A k, m \in DOMAIN v.acts : v.acts[k].req = v.acts[m].req => k = m
    BY <1>2, <1>8 DEF AskedGood, ActsGood, Nowhere, Done
  <2> QED BY <1>7, <2>1, <2>2 DEF ActsGood
<1>10. \A q : (Scheduled(v, q) <=> Scheduled(w, q)) /\ (Queued(v, q) <=> Queued(w, q))
  BY <1>5 DEF Scheduled, Queued
<1>11. \A q : Done(v, q) => Done(w, q) \/ q = r
  BY <1>2, <1>8 DEF Done
<1>12. RequestsGood(v)
  BY <1>5, <1>10, <1>11 DEF AskedGood, RequestsGood, Nowhere
<1>13. AskedGood(v)
  BY <1>4, <1>6, <1>9, <1>12 DEF AskedGood
<1> QED BY <1>1, <1>4, <1>13

\* A request that is not done yet remembers that its item is in the bag now.
LEMMA TakeAlongAsked ==
    ASSUME NEW w, AskedGood(w), NEW r, Nowhere(w, r)
    PROVE  LET v == TakeAlong(w, r)
           IN  /\ AskedGood(v) /\ Nowhere(v, r)
               /\ DOMAIN v.reqs = DOMAIN w.reqs /\ \A f \in WalkFields \ {"reqs", "things"} : v[f] = w[f]
<1> DEFINE th == [w.things EXCEPT ![w.reqs[r].at] = NoItem, ![Bag] = w.reqs[r].sprite]
           rq == [w.reqs[r] EXCEPT !.at = Bag]
           rs == [w.reqs EXCEPT ![r] = rq]
           v == [w EXCEPT !.things = th, !.reqs = rs]
<1>1. v = TakeAlong(w, r)
  BY DEF TakeAlong
<1>2. r \in DOMAIN w.reqs /\ w.reqs \in Seq(Requests) /\ w.reqs[r] \in Requests
  BY DEF AskedGood, RequestsGood, Nowhere
<1>3. rq \in Requests /\ rq.sprite = w.reqs[r].sprite /\ rq.kind = w.reqs[r].kind
  BY <1>2 DEF Requests
<1> HIDE DEF th, rq
<1>4. /\ rs \in Seq(Requests) /\ DOMAIN rs = DOMAIN w.reqs
      /\ rs[r] = rq /\ \A q \in DOMAIN w.reqs : q # r => rs[q] = w.reqs[q]
  BY <1>2, <1>3
<1> HIDE DEF rs
<1>5. HasFields(v, WalkFields) /\ v.reqs = rs /\ \A f \in WalkFields \ {"reqs", "things"} : v[f] = w[f]
  BY DEF AskedGood, HasFields, WalkFields
<1> HIDE DEF v
<1>6. /\ v.ids = w.ids /\ v.sched = w.sched /\ v.queue = w.queue /\ v.acts = w.acts
      /\ v.eventWalk = w.eventWalk /\ v.walkTaskEvent = w.walkTaskEvent /\ v.walkTask = w.walkTask
      /\ v.actionTaskEvent = w.actionTaskEvent /\ v.dropped = w.dropped
  BY <1>5 DEF WalkFields
<1>7. EventsGood(v) /\ QueueGood(v)
  BY <1>4, <1>5, <1>6 DEF AskedGood, EventsGood, QueueGood, TaskGood
<1>8. \A q \in DOMAIN w.reqs : v.reqs[q].sprite = w.reqs[q].sprite /\ v.reqs[q].kind = w.reqs[q].kind
  BY <1>3, <1>4, <1>5
<1>9. ActsGood(v)
  BY <1>4, <1>5, <1>6, <1>8 DEF AskedGood, ActsGood
<1>10. \A q : (Scheduled(v, q) <=> Scheduled(w, q)) /\ (Queued(v, q) <=> Queued(w, q)) /\ (Done(v, q) <=> Done(w, q))
  BY <1>6 DEF Scheduled, Queued, Done
<1>11. RequestsGood(v)
  BY <1>4, <1>5, <1>6, <1>10 DEF AskedGood, RequestsGood
<1>12. AskedGood(v)
  BY <1>5, <1>7, <1>9, <1>11 DEF AskedGood
<1>13. Nowhere(v, r)
  BY <1>4, <1>5, <1>6, <1>10 DEF Nowhere
<1> QED BY <1>1, <1>4, <1>5, <1>12, <1>13

\* A put-off action is forgotten.
LEMMA ForgetAction ==
    ASSUME NEW w, AskedGood(w), NEW d
    PROVE  LET v == SetNextActionTask(w, d, NoRequest)
           IN  /\ AskedGood(v) /\ Aside(w, v) /\ \A r : Nowhere(w, r) => Nowhere(v, r)
               /\ \A f \in WalkFields \ {"sched", "dropped", "actionTaskEvent"} : v[f] = w[f]
<1> DEFINE s == {e \in w.sched : e.id # w.actionTaskEvent}
           g == {e.req : e \in {x \in w.sched : x.id = w.actionTaskEvent}}
           v == [w EXCEPT !.sched = s, !.dropped = w.dropped \cup g, !.actionTaskEvent = 0]
<1>1. v = SetNextActionTask(w, d, NoRequest)
  BY DEF SetNextActionTask, Forget, StopEventOf, AskedGood, HasFields, WalkFields
<1>2. s \subseteq w.sched /\ \A r \in g : \E e \in w.sched \ s : e.req = r /\ e.what = "request"
  BY DEF AskedGood, EventsGood
<1>3. \A e \in w.sched : e.what = "walk" => e \in s
  BY DEF AskedGood, EventsGood
<1> HIDE DEF s, g
<1>4. /\ HasFields(v, WalkFields) /\ v.sched = s /\ v.dropped = w.dropped \cup g /\ v.actionTaskEvent = 0
      /\ \A f \in WalkFields \ {"sched", "dropped", "actionTaskEvent"} : v[f] = w[f]
  BY DEF AskedGood, HasFields, WalkFields
<1> HIDE DEF v
<1>5. /\ v.ids = w.ids /\ v.queue = w.queue /\ v.reqs = w.reqs /\ v.acts = w.acts
      /\ v.eventWalk = w.eventWalk /\ v.walkTaskEvent = w.walkTaskEvent /\ v.walkTask = w.walkTask
  BY <1>4 DEF WalkFields
<1>6. AskedGood(v) /\ \A r : Nowhere(w, r) => Nowhere(v, r)
  BY <1>2, <1>4, <1>5, FewerAsked
<1>7. Aside(w, v)
  BY <1>3, <1>4, <1>5 DEF Aside, WayFields, WalkFields
<1> QED BY <1>1, <1>4, <1>6, <1>7

\* A request that was nowhere is put off.
LEMMA PutOffAction ==
    ASSUME NEW w, AskedGood(w), NEW d, NEW r, Nowhere(w, r)
    PROVE  AskedGood(SetNextActionTask(w, d, r)) /\ Aside(w, SetNextActionTask(w, d, r))
<1> DEFINE u == SetNextActionTask(w, d, NoRequest)
           n == [id |-> u.ids + 1, due |-> u.now + d, what |-> "request", req |-> r]
           v == [u EXCEPT !.ids = u.ids + 1, !.sched = u.sched \cup {n}, !.actionTaskEvent = u.ids + 1]
<1>0. r # NoRequest
  BY DEF Nowhere, AskedGood, RequestsGood, NoRequest
<1>1. AskedGood(u) /\ Aside(w, u) /\ Nowhere(u, r)
  BY ForgetAction
<1>2. v = SetNextActionTask(w, d, r)
  <2>1. SetNextActionTask(w, d, r) = [AddEventIn(u, d, "request", r) EXCEPT !.actionTaskEvent = AddEventIn(u, d, "request", r).ids]
    BY <1>0 DEF SetNextActionTask
  <2> HIDE DEF u
  <2> QED BY <1>1, <2>1 DEF AddEventIn, AskedGood, HasFields, WalkFields
<1> HIDE DEF u
<1>3. n.id = u.ids + 1 /\ n.what = "request" /\ n.req = r
  OBVIOUS
<1> HIDE DEF n
<1>4. /\ HasFields(v, WalkFields) /\ v.ids = u.ids + 1 /\ v.sched = u.sched \cup {n} /\ v.actionTaskEvent = u.ids + 1
      /\ \A f \in WalkFields \ {"ids", "sched", "actionTaskEvent"} : v[f] = u[f]
  BY <1>1 DEF AskedGood, HasFields, WalkFields
<1> HIDE DEF v
<1>5. /\ v.queue = u.queue /\ v.reqs = u.reqs /\ v.acts = u.acts /\ v.dropped = u.dropped
      /\ v.eventWalk = u.eventWalk /\ v.walkTaskEvent = u.walkTaskEvent /\ v.walkTask = u.walkTask
  BY <1>4 DEF WalkFields
<1>6. AskedGood(v)
  BY <1>1, <1>3, <1>4, <1>5, EventAsked
<1>7. Aside(u, v)
  BY <1>4, <1>5 DEF Aside, WayFields, WalkFields
<1>8. Aside(w, v)
  BY <1>1, <1>7, AsideTrans
<1> QED BY <1>2, <1>6, <1>8

\* The walk task is forgotten, as task or as event.
LEMMA ForgetWalkTask ==
    ASSUME NEW w, AskedGood(w)
    PROVE  LET v == SetNextWalkActionTask(w, NoRequest)
           IN  /\ AskedGood(v) /\ Aside(w, v) /\ v.walkTask = NoRequest
               /\ \A r : Nowhere(w, r) => Nowhere(v, r)
               /\ \A f \in WalkFields \ {"sched", "dropped", "walkTaskEvent", "walkTask"} : v[f] = w[f]
<1> DEFINE s == {e \in w.sched : e.id # w.walkTaskEvent}
           g == {e.req : e \in {x \in w.sched : x.id = w.walkTaskEvent}}
           h == {w.walkTask} \ {NoRequest}
           v == [w EXCEPT !.sched = s, !.dropped = (w.dropped \cup g) \cup h,
                          !.walkTaskEvent = 0, !.walkTask = NoRequest]
<1>1. v = SetNextWalkActionTask(w, NoRequest)
  BY DEF SetNextWalkActionTask, Forget, StopEventOf, AskedGood, HasFields, WalkFields
<1>2. s \subseteq w.sched /\ \A r \in g : \E e \in w.sched \ s : e.req = r /\ e.what = "request"
  BY DEF AskedGood, EventsGood
<1>3. \A e \in w.sched : e.what = "walk" => e \in s
  BY DEF AskedGood, EventsGood
<1>4. \A r \in h : r = w.walkTask /\ r # NoRequest
  OBVIOUS
<1> HIDE DEF s, g, h
<1>5. /\ HasFields(v, WalkFields) /\ v.sched = s /\ v.dropped = (w.dropped \cup g) \cup h
      /\ v.walkTaskEvent = 0 /\ v.walkTask = NoRequest
      /\ \A f \in WalkFields \ {"sched", "dropped", "walkTaskEvent", "walkTask"} : v[f] = w[f]
  BY DEF AskedGood, HasFields, WalkFields
<1> HIDE DEF v
<1>6. /\ v.ids = w.ids /\ v.queue = w.queue /\ v.reqs = w.reqs /\ v.acts = w.acts
      /\ v.eventWalk = w.eventWalk /\ v.actionTaskEvent = w.actionTaskEvent
  BY <1>5 DEF WalkFields
<1>7. AskedGood(v) /\ \A r : Nowhere(w, r) => Nowhere(v, r)
  BY <1>2, <1>4, <1>5, <1>6, FewerAsked
<1>8. Aside(w, v)
  BY <1>3, <1>5, <1>6 DEF Aside, WayFields, WalkFields
<1> QED BY <1>1, <1>5, <1>7, <1>8

\* A request that was nowhere becomes the walk task.
LEMMA KeepWalkTask ==
    ASSUME NEW w, AskedGood(w), NEW r, Nowhere(w, r)
    PROVE  AskedGood(SetNextWalkActionTask(w, r)) /\ Aside(w, SetNextWalkActionTask(w, r))
<1> DEFINE u == SetNextWalkActionTask(w, NoRequest)
           v == [u EXCEPT !.walkTask = r]
<1>1. AskedGood(u) /\ Aside(w, u) /\ u.walkTask = NoRequest /\ Nowhere(u, r)
  BY ForgetWalkTask
<1>2. v = SetNextWalkActionTask(w, r)
  BY DEF SetNextWalkActionTask, Forget, StopEventOf, AskedGood, HasFields, WalkFields
<1> HIDE DEF u
<1>3. AskedGood(v)
  BY <1>1, WalkTaskAsked
<1>4. \A f \in WalkFields \ {"walkTask"} : v[f] = u[f]
  BY <1>1 DEF AskedGood, HasFields, WalkFields
<1> HIDE DEF v
<1>5. Aside(u, v)
  BY <1>4, OtherAside DEF WayFields, WalkFields
<1>6. Aside(w, v)
  BY <1>1, <1>5, AsideTrans
<1> QED BY <1>2, <1>3, <1>6

\* The request waits as walk task and the walk is posted, or nothing happens.
LEMMA WalkAndActGood ==
    ASSUME NEW w, AskedGood(w), NEW r, Nowhere(w, r), NEW c
    PROVE  AskedGood(WalkAndAct(w, r, c)) /\ Aside(w, WalkAndAct(w, r, c))
<1> DEFINE t == [what |-> "autowalk", list |-> PathTo(w, c)]
           u == Post(w, t)
<1>1. CASE PathTo(w, c) = NoPath
  BY <1>1, OtherAside DEF WalkAndAct
<1>2. CASE PathTo(w, c) # NoPath
  <2>1. WalkAndAct(w, r, c) = SetNextWalkActionTask(u, r)
    BY <1>2 DEF WalkAndAct
  <2>2. TaskGood(w, t) /\ ~HoldsRequest(t)
    BY DEF TaskGood, HoldsRequest
  <2> HIDE DEF t
  <2>3. /\ AskedGood(u) /\ Nowhere(u, r) /\ u.queue = Append(w.queue, t)
        /\ \A f \in WalkFields \ {"queue"} : u[f] = w[f]
    BY <2>2, PostAsked
  <2> HIDE DEF u
  <2>4. \A k \in DOMAIN w.queue : k \in DOMAIN u.queue /\ u.queue[k] = w.queue[k]
    BY <2>3, AppendIs DEF AskedGood, QueueGood
  <2>5. Aside(w, u)
    BY <2>3, <2>4 DEF Aside, WayFields, WalkFields
  <2>6. AskedGood(SetNextWalkActionTask(u, r)) /\ Aside(u, SetNextWalkActionTask(u, r))
    BY <2>3, KeepWalkTask
  <2>7. Aside(w, SetNextWalkActionTask(u, r))
    BY <2>5, <2>6, AsideTrans
  <2> QED BY <2>1, <2>6, <2>7
<1> QED BY <1>1, <1>2

\* What every handler of a request leaves behind.
Handled(w, v) == AskedGood(v) /\ Aside(w, v)

\* The request is carried out after a put-off action was forgotten, and fields that
\* neither requests nor the walk live in change.
LEMMA CarriedOut ==
    ASSUME NEW w, AskedGood(w), NEW r, Nowhere(w, r), NEW at, InReach(w, at),
           w.reqs[r].kind = "push" \/ w.things[at] = w.reqs[r].sprite,
           CanDoAction(w) \/ w.reqs[r].kind = "rotate",
           NEW u, u = SetNextActionTask(w, 0, NoRequest) \/ u = w,
           NEW v, HasFields(v, WalkFields),
           \A f \in WalkFields \ {"pos", "beast", "things", "nextAction", "cancelNextWalk"} : v[f] = Noted(u, r, at)[f]
    PROVE  Handled(w, v)
<1>1. /\ AskedGood(u) /\ Aside(w, u) /\ Nowhere(u, r)
      /\ \A f \in WalkFields \ {"sched", "dropped", "actionTaskEvent"} : u[f] = w[f]
  <2>1. CASE u = w
    BY <2>1, OtherAside
  <2>2. CASE u = SetNextActionTask(w, 0, NoRequest)
    BY <2>2, ForgetAction
  <2> QED BY <2>1, <2>2
<1>2. u.pos = w.pos /\ u.reqs = w.reqs /\ u.things = w.things /\ u.now = w.now /\ u.nextAction = w.nextAction
  BY <1>1 DEF WalkFields
<1>3. InReach(u, at) /\ (CanDoAction(u) <=> CanDoAction(w))
  BY <1>2 DEF InReach, CanDoAction
<1> DEFINE n == Noted(u, r, at)
<1>4. AskedGood(n) /\ \A f \in WalkFields \ {"acts"} : n[f] = u[f]
  BY <1>1, <1>2, <1>3, NotedAsked
<1> HIDE DEF n
<1>5. \A f \in WalkFields \ {"pos", "beast", "things", "nextAction", "cancelNextWalk"} : v[f] = n[f]
  BY DEF n
<1>6. (\A f \in AskedFields : v[f] = n[f]) /\ (\A f \in WayFields : v[f] = u[f])
      /\ v.reqs = u.reqs /\ v.sched = u.sched /\ v.queue = u.queue
  BY <1>4, <1>5 DEF AskedFields, WayFields, WalkFields
<1>7. AskedGood(v)
  BY <1>4, <1>6, OtherAsked
<1>8. Aside(u, v)
  BY <1>6, OtherAside
<1>9. Aside(w, v)
  BY <1>1, <1>8, AsideTrans
<1> QED BY <1>7, <1>9 DEF Handled

LEMMA NothingHandled ==
    ASSUME NEW w, AskedGood(w)
    PROVE  Handled(w, w)
BY OtherAside DEF Handled

\* The request is put off, walked for or given up.
LEMMA Waits ==
    ASSUME NEW w, AskedGood(w), NEW r, Nowhere(w, r), NEW c
    PROVE  /\ Handled(w, SetNextActionTask(w, c, r)) /\ Handled(w, WalkAndAct(w, r, c))
           /\ Handled(w, SetNextActionTask(w, 0, NoRequest))
           /\ Handled(w, WalkAndAct(SetNextActionTask(w, 0, NoRequest), r, c))
<1> DEFINE u == SetNextActionTask(w, 0, NoRequest)
<1>1. AskedGood(u) /\ Aside(w, u) /\ Nowhere(u, r)
  BY ForgetAction
<1> HIDE DEF u
<1>2. AskedGood(WalkAndAct(u, r, c)) /\ Aside(u, WalkAndAct(u, r, c))
  BY <1>1, WalkAndActGood
<1>3. Aside(w, WalkAndAct(u, r, c))
  BY <1>1, <1>2, AsideTrans
<1>4. Handled(w, u) /\ Handled(w, WalkAndAct(u, r, c))
  BY <1>1, <1>2, <1>3 DEF Handled
<1>5. Handled(w, SetNextActionTask(w, c, r))
  BY PutOffAction DEF Handled
<1>6. Handled(w, WalkAndAct(w, r, c))
  BY WalkAndActGood DEF Handled
<1> QED BY <1>4, <1>5, <1>6 DEF u

\* Fields that are changed after the request was noted.
LEMMA NotedFields ==
    ASSUME NEW w, AskedGood(w), NEW r, NEW at, NEW x
    PROVE  LET u == SetNextActionTask(w, 0, NoRequest)
               move == [Noted(u, r, at) EXCEPT !.things = x]
               push == [Noted(u, r, at) EXCEPT !.beast = x]
           IN  /\ HasFields(move, WalkFields) /\ \A f \in WalkFields \ {"things"} : move[f] = Noted(u, r, at)[f]
               /\ HasFields(push, WalkFields) /\ \A f \in WalkFields \ {"beast"} : push[f] = Noted(u, r, at)[f]
<1> DEFINE u == SetNextActionTask(w, 0, NoRequest)
           n == Noted(u, r, at)
<1>1. HasFields(u, WalkFields)
  BY ForgetAction DEF AskedGood
<1> HIDE DEF u
<1>2. HasFields(n, WalkFields)
  BY <1>1 DEF Noted, HasFields, WalkFields
<1> HIDE DEF n
<1> DEFINE move == [n EXCEPT !.things = x]
           push == [n EXCEPT !.beast = x]
<1>3. HasFields(move, WalkFields) /\ \A f \in WalkFields \ {"things"} : move[f] = n[f]
  BY <1>2 DEF HasFields, WalkFields
<1>4. HasFields(push, WalkFields) /\ \A f \in WalkFields \ {"beast"} : push[f] = n[f]
  BY <1>2 DEF HasFields, WalkFields
<1> QED BY <1>3, <1>4 DEF u, n

LEMMA UseFields ==
    ASSUME NEW w, AskedGood(w), NEW r, NEW at
    PROVE  LET u == SetNextActionTask(w, 0, NoRequest)
               v == UseThing(u, r, at)
           IN  HasFields(v, WalkFields) /\ \A f \in WalkFields \ {"nextAction", "cancelNextWalk"} : v[f] = Noted(u, r, at)[f]
<1> DEFINE u == SetNextActionTask(w, 0, NoRequest)
           n == Noted(u, r, at)
           z == u.now + UseTime
<1>1. HasFields(u, WalkFields)
  BY ForgetAction DEF AskedGood
<1>2. UseThing(u, r, at) = [n EXCEPT !.nextAction = z, !.cancelNextWalk = TRUE]
  BY DEF UseThing
<1> HIDE DEF u
<1>3. HasFields(n, WalkFields)
  BY <1>1 DEF Noted, HasFields, WalkFields
<1> HIDE DEF n, z
<1> DEFINE use == [n EXCEPT !.nextAction = z, !.cancelNextWalk = TRUE]
<1>4. HasFields(use, WalkFields) /\ \A f \in WalkFields \ {"nextAction", "cancelNextWalk"} : use[f] = n[f]
  BY <1>3 DEF HasFields, WalkFields
<1> QED BY <1>2, <1>4 DEF u, n

LEMMA NotedOnly ==
    ASSUME NEW w, AskedGood(w), NEW r, NEW at
    PROVE  HasFields(Noted(w, r, at), WalkFields)
BY DEF Noted, AskedGood, HasFields, WalkFields

LEMMA UseGood ==
    ASSUME NEW w, AskedGood(w), NEW r, Nowhere(w, r), NEW at, InReach(w, at), CanDoAction(w),
           w.things[at] = w.reqs[r].sprite
    PROVE  Handled(w, UseThing(SetNextActionTask(w, 0, NoRequest), r, at))
<1> DEFINE u == SetNextActionTask(w, 0, NoRequest)
           v == UseThing(u, r, at)
<1>1. HasFields(v, WalkFields) /\ \A f \in WalkFields \ {"nextAction", "cancelNextWalk"} : v[f] = Noted(u, r, at)[f]
  BY UseFields
<1>2. u = SetNextActionTask(w, 0, NoRequest)
  OBVIOUS
<1> HIDE DEF u, v
<1>3. Handled(w, v)
  BY <1>1, <1>2, CarriedOut
<1> QED BY <1>3 DEF u, v

\* Game::playerUseItem
LEMMA PlayerUseItemGood ==
    ASSUME NEW w, AskedGood(w), NEW r, Nowhere(w, r)
    PROVE  Handled(w, PlayerUseItem(w, r))
BY NothingHandled, Waits, UseGood DEF PlayerUseItem

\* Game::playerUseItemEx
LEMMA PlayerUseItemExGood ==
    ASSUME NEW w, AskedGood(w), NEW r, Nowhere(w, r)
    PROVE  Handled(w, PlayerUseItemEx(w, r))
<1>1. Handled(w, WalkAndAct(TakeAlong(w, r), r, w.reqs[r].to))
  <2> DEFINE u == TakeAlong(w, r)
             c == w.reqs[r].to
  <2>1. /\ AskedGood(u) /\ Nowhere(u, r) /\ DOMAIN u.reqs = DOMAIN w.reqs
        /\ \A f \in WalkFields \ {"reqs", "things"} : u[f] = w[f]
    BY TakeAlongAsked
  <2> HIDE DEF u, c
  <2>2. Aside(w, u)
    BY <2>1 DEF Aside, WayFields, WalkFields
  <2>3. AskedGood(WalkAndAct(u, r, c)) /\ Aside(u, WalkAndAct(u, r, c))
    BY <2>1, WalkAndActGood
  <2>4. Handled(w, WalkAndAct(u, r, c))
    BY <2>2, <2>3, AsideTrans DEF Handled
  <2> QED BY <2>4 DEF u, c
<1> QED BY <1>1, NothingHandled, Waits, UseGood DEF PlayerUseItemEx

\* Game::playerMoveItem
LEMMA WalkMoveItemGood ==
    ASSUME NEW w, AskedGood(w), NEW r, Nowhere(w, r)
    PROVE  Handled(w, WalkMoveItem(w, r))
<1> DEFINE u == SetNextActionTask(w, 0, NoRequest)
           at == w.reqs[r].at
           x == [Noted(u, r, at).things EXCEPT ![at] = NoItem, ![Bag] = w.reqs[r].sprite]
           v == [Noted(u, r, at) EXCEPT !.things = x]
<1>1. v = [Noted(u, r, at) EXCEPT !.things[at] = NoItem, !.things[Bag] = w.reqs[r].sprite]
  OBVIOUS
<1>2. HasFields(v, WalkFields) /\ \A f \in WalkFields \ {"things"} : v[f] = Noted(u, r, at)[f]
  BY NotedFields
<1>3. u = SetNextActionTask(w, 0, NoRequest)
  OBVIOUS
<1>4. CanDoAction(w) /\ InReach(w, at) /\ w.things[at] = w.reqs[r].sprite => Handled(w, v)
  <2> HIDE DEF u, v, at, x
  <2> QED BY <1>2, <1>3, CarriedOut
<1>5. \/ ~CanDoAction(w) /\ WalkMoveItem(w, r) = SetNextActionTask(w, NextActionTime(w), r)
      \/ WalkMoveItem(w, r) = u
      \/ WalkMoveItem(w, r) = WalkAndAct(u, r, at)
      \/ CanDoAction(w) /\ InReach(w, at) /\ w.things[at] = w.reqs[r].sprite /\ WalkMoveItem(w, r) = v
  <2> HIDE DEF v, u
  <2> QED BY <1>1, <1>3 DEF WalkMoveItem
<1> QED BY <1>4, <1>5, Waits

\* Game::playerMoveCreature
LEMMA PlayerMoveCreatureGood ==
    ASSUME NEW w, AskedGood(w), NEW r, Nowhere(w, r), w.reqs[r].kind = "push"
    PROVE  Handled(w, PlayerMoveCreature(w, r))
<1> DEFINE u == SetNextActionTask(w, 0, NoRequest)
           at == w.reqs[r].at
           v == [Noted(u, r, at) EXCEPT !.beast = w.reqs[r].to]
<1>1. HasFields(v, WalkFields) /\ \A f \in WalkFields \ {"beast"} : v[f] = Noted(u, r, at)[f]
  BY NotedFields
<1>2. CanDoAction(w) /\ InReach(w, at) => Handled(w, v)
  <2>1. u = SetNextActionTask(w, 0, NoRequest)
    OBVIOUS
  <2> HIDE DEF u, v, at
  <2> QED BY <1>1, <2>1, CarriedOut
<1>3. \/ ~CanDoAction(w) /\ PlayerMoveCreature(w, r) = SetNextActionTask(w, NextActionTime(w), r)
      \/ PlayerMoveCreature(w, r) = u
      \/ PlayerMoveCreature(w, r) = WalkAndAct(u, r, at)
      \/ CanDoAction(w) /\ InReach(w, at) /\ PlayerMoveCreature(w, r) = v
  BY DEF PlayerMoveCreature
<1> QED BY <1>2, <1>3, Waits

\* Game::playerMoveThing
LEMMA PlayerMoveThingGood ==
    ASSUME NEW w, AskedGood(w), NEW r, Nowhere(w, r), w.reqs[r].kind \in {"move", "push"}
    PROVE  Handled(w, PlayerMoveThing(w, r))
BY NothingHandled, Waits, WalkMoveItemGood, PlayerMoveCreatureGood DEF PlayerMoveThing

\* Game::playerRotateItem
LEMMA PlayerRotateItemGood ==
    ASSUME NEW w, AskedGood(w), NEW r, Nowhere(w, r), w.reqs[r].kind = "rotate"
    PROVE  Handled(w, PlayerRotateItem(w, r))
<1> DEFINE at == w.reqs[r].at
           v == Noted(w, r, at)
<1>1. HasFields(v, WalkFields)
  BY NotedOnly
<1>2. InReach(w, at) /\ w.things[at] = w.reqs[r].sprite => Handled(w, v)
  BY <1>1, CarriedOut
<1> QED BY <1>2, NothingHandled, Waits DEF PlayerRotateItem

LEMMA RunRequestGood ==
    ASSUME NEW w, AskedGood(w), NEW r, Nowhere(w, r), NEW first
    PROVE  Handled(w, RunRequest(w, r, first))
<1>1. w.reqs[r].kind \in {"use", "useEx", "move", "push", "rotate"}
  <2>1. w.reqs[r] \in Requests
    BY DEF Nowhere, AskedGood, RequestsGood
  <2> QED BY <2>1 DEF Requests
<1>2. CASE w.reqs[r].kind = "use"
  BY <1>2, PlayerUseItemGood DEF RunRequest
<1>3. CASE w.reqs[r].kind = "useEx"
  BY <1>3, PlayerUseItemExGood DEF RunRequest
<1>4. CASE w.reqs[r].kind = "move"
  BY <1>4, PlayerMoveThingGood, WalkMoveItemGood DEF RunRequest
<1>5. CASE w.reqs[r].kind = "push"
  BY <1>5, PlayerMoveThingGood, PlayerMoveCreatureGood DEF RunRequest
<1>6. CASE w.reqs[r].kind = "rotate"
  BY <1>6, PlayerRotateItemGood DEF RunRequest
<1> QED BY <1>1, <1>2, <1>3, <1>4, <1>5, <1>6

LEMMA StepCostInt ==
    ASSUME NEW a, NEW b
    PROVE  StepCost(a, b) \in Int
BY DEF StepCost

LEMMA WalkDelayInt ==
    ASSUME NEW w, ClockGood(w)
    PROVE  WalkDelay(w) \in Int
<1>1. StepTime \in Int /\ w.lastStepCost \in Int /\ w.now \in Int /\ w.lastStep \in Int
  BY WalkConstants DEF ClockGood
<1>2. StepTime * w.lastStepCost \in Int
  BY <1>1
<1> QED BY <1>1, <1>2 DEF WalkDelay

\* Creature::stopEventWalk
LEMMA StopEventWalkGood ==
    ASSUME NEW w, AskedGood(w)
    PROVE  LET v == StopEventWalk(w)
           IN  /\ AskedGood(v) /\ v.eventWalk = 0
               /\ \A f \in WalkFields \ {"sched", "eventWalk"} : v[f] = w[f]
<1> DEFINE s == {e \in w.sched : e.id # w.eventWalk}
           v == [w EXCEPT !.sched = s, !.eventWalk = 0]
<1>1. CASE w.eventWalk = 0
  BY <1>1 DEF StopEventWalk
<1>2. CASE w.eventWalk # 0
  <2>1. v = StopEventWalk(w)
    BY <1>2 DEF StopEventWalk, StopEventOf, AskedGood, HasFields, WalkFields
  <2>2. s \subseteq w.sched
    OBVIOUS
  <2> HIDE DEF s
  <2>3. /\ HasFields(v, WalkFields) /\ v.sched = s /\ v.eventWalk = 0
        /\ \A f \in WalkFields \ {"sched", "eventWalk"} : v[f] = w[f]
    BY DEF AskedGood, HasFields, WalkFields
  <2> HIDE DEF v
  <2>4. /\ v.ids = w.ids /\ v.queue = w.queue /\ v.reqs = w.reqs /\ v.acts = w.acts /\ v.dropped = w.dropped
        /\ v.actionTaskEvent = w.actionTaskEvent /\ v.walkTaskEvent = w.walkTaskEvent /\ v.walkTask = w.walkTask
    BY <2>3 DEF WalkFields
  <2>5. AskedGood(v)
    BY <2>2, <2>3, <2>4, FewerAsked
  <2> QED BY <2>1, <2>3, <2>5
<1> QED BY <1>1, <1>2

\* Player::onWalkComplete: the walk task goes to the scheduler.
LEMMA WalkCompleteGood ==
    ASSUME NEW w, AskedGood(w)
    PROVE  LET v == WalkComplete(w)
           IN  /\ AskedGood(v)
               /\ \A f \in WalkFields \ {"ids", "sched", "walkTask", "walkTaskEvent"} : v[f] = w[f]
<1>1. CASE w.walkTask = NoRequest
  BY <1>1 DEF WalkComplete
<1>2. CASE w.walkTask # NoRequest
  <2> DEFINE r == w.walkTask
             d == IF w.reqs[r].kind = "push" THEN PushTime + PlanTime ELSE PlanTime
             n == [id |-> w.ids + 1, due |-> w.now + d, what |-> "request", req |-> r]
             u == [w EXCEPT !.walkTask = NoRequest]
             v == [w EXCEPT !.ids = w.ids + 1, !.sched = w.sched \cup {n}, !.walkTask = NoRequest,
                            !.walkTaskEvent = w.ids + 1]
  <2>1. v = WalkComplete(w)
    BY <1>2 DEF WalkComplete, AddEventIn, AskedGood, HasFields, WalkFields
  <2>2. n.id = w.ids + 1 /\ n.what = "request" /\ n.req = w.walkTask
    OBVIOUS
  <2>3. HasFields(u, WalkFields) /\ u.walkTask = NoRequest /\ \A f \in WalkFields \ {"walkTask"} : u[f] = w[f]
    BY DEF AskedGood, HasFields, WalkFields
  <2> HIDE DEF n
  <2>4. /\ HasFields(v, WalkFields) /\ v.ids = w.ids + 1 /\ v.sched = w.sched \cup {n}
        /\ v.walkTask = NoRequest /\ v.walkTaskEvent = w.ids + 1
        /\ \A f \in WalkFields \ {"ids", "sched", "walkTask", "walkTaskEvent"} : v[f] = w[f]
    BY DEF AskedGood, HasFields, WalkFields
  <2> HIDE DEF u, v
  <2>5. /\ u.ids = w.ids /\ u.sched = w.sched /\ u.queue = w.queue /\ u.reqs = w.reqs /\ u.acts = w.acts
        /\ u.eventWalk = w.eventWalk /\ u.walkTaskEvent = w.walkTaskEvent
        /\ u.actionTaskEvent = w.actionTaskEvent /\ u.dropped = w.dropped
    BY <2>3 DEF WalkFields
  <2>6. AskedGood(u)
    BY <2>3, <2>5, FewerAsked
  <2>7. Nowhere(u, w.walkTask)
    <3>1. w.walkTask \in DOMAIN w.reqs
      BY <1>2 DEF AskedGood, RequestsGood
    <3>2. ~Scheduled(w, w.walkTask) /\ ~Queued(w, w.walkTask) /\ w.walkTask \notin w.dropped /\ ~Done(w, w.walkTask)
      BY <3>1 DEF AskedGood, RequestsGood
    <3>3. ~Scheduled(u, w.walkTask) /\ ~Queued(u, w.walkTask) /\ ~Done(u, w.walkTask)
      BY <2>5, <3>2 DEF Scheduled, Queued, Done
    <3> QED BY <1>2, <2>3, <2>5, <3>1, <3>2, <3>3 DEF Nowhere
  <2>8. /\ v.queue = u.queue /\ v.reqs = u.reqs /\ v.acts = u.acts /\ v.dropped = u.dropped
        /\ v.eventWalk = u.eventWalk /\ v.actionTaskEvent = u.actionTaskEvent
    BY <2>4, <2>5 DEF WalkFields
  <2>9. AskedGood(v)
    BY <2>2, <2>3, <2>4, <2>5, <2>6, <2>7, <2>8, EventAsked
  <2> QED BY <2>1, <2>4, <2>9
<1> QED BY <1>1, <1>2

\* Game::internalMoveCreature of a walker whose step is due.
LEMMA MoveCreatureGood ==
    ASSUME NEW w, AskedGood(w), ClockGood(w), WalkDelay(w) <= 0, NEW dir
    PROVE  LET v == MoveCreature(w, dir)
           IN  /\ AskedGood(v) /\ ClockGood(v) /\ v.mobile = w.mobile /\ v.list = w.list
               /\ v.halted = TRUE \/ (v.halted = w.halted /\ v.eventWalk = w.eventWalk)
<1> DEFINE to == w.pos + dir
           cost == StepCost(w.pos, to)
           gap == IF w.lastStep = Never THEN 0 ELSE StepTime * w.lastStepCost - (w.now - w.lastStep)
           m == [w EXCEPT !.pos = to, !.lastStep = w.now, !.lastStepCost = cost, !.gap = gap]
           s == StopEventWalk(m)
           x == [s EXCEPT !.pos = Exit, !.lastStepCost = 1, !.halted = TRUE]
<1>1. MoveCreature(w, dir) = w \/ MoveCreature(w, dir) = x \/ MoveCreature(w, dir) = m
  BY DEF MoveCreature
<1>2. cost \in Int /\ gap \in Int /\ gap <= 0
  BY StepCostInt, WalkDelayInt DEF WalkDelay
<1> HIDE DEF to, cost, gap
<1>3. /\ HasFields(m, WalkFields) /\ m.lastStep = w.now /\ m.lastStepCost = cost /\ m.gap = gap
      /\ \A f \in WalkFields \ {"pos", "lastStep", "lastStepCost", "gap"} : m[f] = w[f]
  BY DEF AskedGood, HasFields, WalkFields
<1> HIDE DEF m
<1>4. /\ \A f \in AskedFields : m[f] = w[f]
      /\ m.now = w.now /\ m.mobile = w.mobile /\ m.list = w.list /\ m.halted = w.halted /\ m.eventWalk = w.eventWalk
  BY <1>3 DEF AskedFields, WalkFields
<1>5. AskedGood(m) /\ ClockGood(m)
  BY <1>2, <1>3, <1>4, OtherAsked DEF ClockGood
<1>6. AskedGood(s) /\ \A f \in WalkFields \ {"sched", "eventWalk"} : s[f] = m[f]
  BY <1>5, StopEventWalkGood
<1> HIDE DEF s
<1>7. /\ HasFields(x, WalkFields) /\ x.halted = TRUE /\ x.lastStepCost = 1
      /\ \A f \in WalkFields \ {"pos", "lastStepCost", "halted"} : x[f] = s[f]
  BY <1>6 DEF AskedGood, HasFields, WalkFields
<1> HIDE DEF x
<1>8. /\ \A f \in AskedFields : x[f] = s[f]
      /\ x.now = m.now /\ x.lastStep = m.lastStep /\ x.gap = m.gap /\ x.mobile = m.mobile /\ x.list = m.list
  BY <1>6, <1>7 DEF AskedFields, WalkFields
<1>9. AskedGood(x) /\ ClockGood(x)
  BY <1>5, <1>6, <1>7, <1>8, OtherAsked DEF ClockGood
<1> QED BY <1>1, <1>4, <1>5, <1>7, <1>8, <1>9

\* Player::onWalk(dir) and the step.
LEMMA TakeDirectionGood ==
    ASSUME NEW w, AskedGood(w), ClockGood(w), WalkDelay(w) <= 0
    PROVE  LET v == TakeDirection(w)
           IN  /\ AskedGood(v) /\ ClockGood(v) /\ v.mobile = w.mobile
               /\ v.halted = TRUE \/ (v.halted = w.halted /\ v.eventWalk = w.eventWalk)
<1> DEFINE dir == Head(w.list)
           a == [w EXCEPT !.list = Tail(w.list)]
           b == SetNextActionTask(a, 0, NoRequest)
           z == w.now + StepTime * StepCost(w.pos, w.pos + dir)
           c == [b EXCEPT !.nextAction = z]
<1>1. TakeDirection(w) = MoveCreature(c, dir)
  BY DEF TakeDirection
<1>2. HasFields(a, WalkFields) /\ \A f \in WalkFields \ {"list"} : a[f] = w[f]
  BY DEF AskedGood, HasFields, WalkFields
<1> HIDE DEF a
<1>3. AskedGood(a)
  BY <1>2, OtherAsked DEF AskedFields, WalkFields
<1>4. AskedGood(b) /\ \A f \in WalkFields \ {"sched", "dropped", "actionTaskEvent"} : b[f] = a[f]
  BY <1>3, ForgetAction
<1> HIDE DEF b, z
<1>5. HasFields(c, WalkFields) /\ \A f \in WalkFields \ {"nextAction"} : c[f] = b[f]
  BY <1>4 DEF AskedGood, HasFields, WalkFields
<1> HIDE DEF c
<1>6. AskedGood(c)
  BY <1>4, <1>5, OtherAsked DEF AskedFields, WalkFields
<1>7. /\ c.now = w.now /\ c.lastStep = w.lastStep /\ c.lastStepCost = w.lastStepCost /\ c.gap = w.gap
      /\ c.mobile = w.mobile /\ c.halted = w.halted /\ c.eventWalk = w.eventWalk
  BY <1>2, <1>4, <1>5 DEF WalkFields
<1>8. ClockGood(c) /\ WalkDelay(c) <= 0
  BY <1>7 DEF ClockGood, WalkDelay
<1>9. LET v == MoveCreature(c, dir)
      IN  /\ AskedGood(v) /\ ClockGood(v) /\ v.mobile = c.mobile
          /\ v.halted = TRUE \/ (v.halted = c.halted /\ v.eventWalk = c.eventWalk)
  BY <1>6, <1>8, MoveCreatureGood
<1> QED BY <1>1, <1>7, <1>9

\* The list and a walk task are given up.
LEMMA AbortWalkGood ==
    ASSUME NEW w, AskedGood(w)
    PROVE  LET v == AbortWalk(w)
           IN  /\ AskedGood(v) /\ v.list = <<>> /\ (Linked(w) => Linked(v))
               /\ \A f \in WalkFields \ {"list", "sched", "dropped", "walkTask", "walkTaskEvent"} : v[f] = w[f]
<1> DEFINE a == [w EXCEPT !.list = <<>>]
           v == SetNextWalkActionTask(a, NoRequest)
<1>1. HasFields(a, WalkFields) /\ a.list = <<>> /\ \A f \in WalkFields \ {"list"} : a[f] = w[f]
  BY DEF AskedGood, HasFields, WalkFields
<1>2. v = AbortWalk(w)
  BY DEF AbortWalk
<1> HIDE DEF a
<1>3. AskedGood(a)
  BY <1>1, OtherAsked DEF AskedFields, WalkFields
<1>4. /\ AskedGood(v) /\ Aside(a, v)
      /\ \A f \in WalkFields \ {"sched", "dropped", "walkTaskEvent", "walkTask"} : v[f] = a[f]
  BY <1>3, ForgetWalkTask
<1> HIDE DEF v
<1>5. a.eventWalk = w.eventWalk /\ a.sched = w.sched /\ a.queue = w.queue /\ v.list = <<>>
  BY <1>1, <1>4 DEF WalkFields
<1>6. Linked(w) => Linked(v)
  BY <1>3, <1>4, <1>5, AsideKeeps DEF Linked
<1>7. \A f \in WalkFields \ {"list", "sched", "dropped", "walkTask", "walkTaskEvent"} : v[f] = w[f]
  BY <1>1, <1>4
<1> QED BY <1>2, <1>4, <1>5, <1>6, <1>7

\* One round of the walk: requests and clock stay good, and what is left to walk is driven.
LEMMA WalkOnceGood ==
    ASSUME NEW w, AskedGood(w), ClockGood(w)
    PROVE  AskedGood(WalkOnce(w)) /\ ClockGood(WalkOnce(w)) /\ (Driven(w) => Driven(WalkOnce(w)))
<1> DEFINE s == IF WalkDelay(w) > 0 THEN w
                ELSE IF w.list # <<>> THEN TakeDirection(w)
                ELSE StopEventWalk(WalkComplete(w))
           b == AbortWalk(s)
           c == [b EXCEPT !.cancelNextWalk = FALSE]
<1>1. WalkOnce(w) = s \/ WalkOnce(w) = c
  BY DEF WalkOnce
<1>2. AskedGood(s) /\ ClockGood(s) /\ (Driven(w) => Driven(s))
  <2>1. CASE WalkDelay(w) > 0
    BY <2>1
  <2>2. CASE ~(WalkDelay(w) > 0) /\ w.list # <<>>
    <3> DEFINE v == TakeDirection(w)
    <3>1. s = v /\ WalkDelay(w) <= 0
      BY <2>2, WalkDelayInt
    <3>2. /\ AskedGood(v) /\ ClockGood(v) /\ v.mobile = w.mobile
          /\ v.halted = TRUE \/ (v.halted = w.halted /\ v.eventWalk = w.eventWalk)
      BY <3>1, TakeDirectionGood
    <3> HIDE DEF v
    <3>3. Driven(w) => Driven(v)
      BY <2>2, <3>2 DEF Driven
    <3> HIDE DEF s
    <3> QED BY <3>1, <3>2, <3>3
  <2>3. CASE ~(WalkDelay(w) > 0) /\ w.list = <<>>
    <3> DEFINE u == WalkComplete(w)
               v == StopEventWalk(u)
    <3>1. s = v
      BY <2>3
    <3>2. /\ AskedGood(u)
          /\ \A f \in WalkFields \ {"ids", "sched", "walkTask", "walkTaskEvent"} : u[f] = w[f]
      BY WalkCompleteGood
    <3> HIDE DEF u
    <3>3. AskedGood(v) /\ \A f \in WalkFields \ {"sched", "eventWalk"} : v[f] = u[f]
      BY <3>2, StopEventWalkGood
    <3> HIDE DEF v, s
    <3>4. /\ v.now = w.now /\ v.lastStep = w.lastStep /\ v.lastStepCost = w.lastStepCost /\ v.gap = w.gap
          /\ v.list = w.list
      BY <3>2, <3>3 DEF WalkFields
    <3>5. ClockGood(v) /\ Driven(v)
      BY <2>3, <3>4 DEF ClockGood, Driven
    <3> QED BY <3>1, <3>3, <3>5
  <2> HIDE DEF s
  <2> QED BY <2>1, <2>2, <2>3
<1> HIDE DEF s
<1>3. /\ AskedGood(b) /\ b.list = <<>>
      /\ \A f \in WalkFields \ {"list", "sched", "dropped", "walkTask", "walkTaskEvent"} : b[f] = s[f]
  BY <1>2, AbortWalkGood
<1> HIDE DEF b
<1>4. HasFields(c, WalkFields) /\ \A f \in WalkFields \ {"cancelNextWalk"} : c[f] = b[f]
  BY <1>3 DEF AskedGood, HasFields, WalkFields
<1> HIDE DEF c
<1>5. AskedGood(c)
  BY <1>3, <1>4, OtherAsked DEF AskedFields, WalkFields
<1>6. /\ c.now = s.now /\ c.lastStep = s.lastStep /\ c.lastStepCost = s.lastStepCost /\ c.gap = s.gap
      /\ c.list = <<>>
  BY <1>3, <1>4 DEF WalkFields
<1>7. ClockGood(c) /\ Driven(c)
  BY <1>2, <1>6 DEF ClockGood, Driven
<1> QED BY <1>1, <1>2, <1>5, <1>7

\* Creature::addEventWalk: afterwards an event of the walk is noted, and if the one
\* noted before was to come, it is.
LEMMA AddEventWalkGood ==
    ASSUME NEW w, AskedGood(w), ClockGood(w), NEW first
    PROVE  LET v == AddEventWalk(w, first)
           IN  AskedGood(v) /\ ClockGood(v) /\ v.eventWalk # 0 /\ (Linked(w) => Linked(v))
<1> DEFINE fr == [w EXCEPT !.cancelNextWalk = FALSE]
           delay == WalkDelay(w)
           atOnce == first /\ delay <= 0
           ticks == IF atOnce THEN 1 ELSE IF delay > 0 THEN delay ELSE StepTime * w.lastStepCost
           u == IF atOnce THEN WalkOnce(fr) ELSE fr
           n == [id |-> u.ids + 1, due |-> u.now + ticks, what |-> "walk", req |-> NoRequest]
           v == [u EXCEPT !.ids = u.ids + 1, !.sched = u.sched \cup {n}, !.eventWalk = u.ids + 1]
<1>1. HasFields(fr, WalkFields) /\ \A f \in WalkFields \ {"cancelNextWalk"} : fr[f] = w[f]
  BY DEF AskedGood, HasFields, WalkFields
<1>2. w.eventWalk # 0 => AddEventWalk(w, first) = fr
  BY DEF AddEventWalk
<1>3. w.eventWalk = 0 => AddEventWalk(w, first) =
        [AddEventIn(u, ticks, "walk", NoRequest) EXCEPT !.eventWalk = AddEventIn(u, ticks, "walk", NoRequest).ids]
  BY DEF AddEventWalk
<1> HIDE DEF fr, ticks, atOnce
<1>4. AskedGood(fr)
  BY <1>1, OtherAsked DEF AskedFields, WalkFields
<1>5. ClockGood(fr) /\ fr.eventWalk = w.eventWalk /\ fr.sched = w.sched /\ fr.queue = w.queue
  BY <1>1 DEF ClockGood, WalkFields
<1>6. AskedGood(u) /\ ClockGood(u)
  BY <1>4, <1>5, WalkOnceGood
<1> HIDE DEF u
<1>7. v = [AddEventIn(u, ticks, "walk", NoRequest) EXCEPT !.eventWalk = AddEventIn(u, ticks, "walk", NoRequest).ids]
  BY <1>6 DEF AddEventIn, AskedGood, HasFields, WalkFields
<1>8. n.id = u.ids + 1 /\ n.what = "walk" /\ n.req = NoRequest
  OBVIOUS
<1> HIDE DEF n
<1>9. /\ HasFields(v, WalkFields) /\ v.ids = u.ids + 1 /\ v.sched = u.sched \cup {n} /\ v.eventWalk = u.ids + 1
      /\ \A f \in WalkFields \ {"ids", "sched", "eventWalk"} : v[f] = u[f]
  BY <1>6 DEF AskedGood, HasFields, WalkFields
<1> HIDE DEF v
<1>10. /\ v.queue = u.queue /\ v.reqs = u.reqs /\ v.acts = u.acts /\ v.dropped = u.dropped
       /\ v.actionTaskEvent = u.actionTaskEvent /\ v.walkTaskEvent = u.walkTaskEvent /\ v.walkTask = u.walkTask
       /\ v.now = u.now /\ v.lastStep = u.lastStep /\ v.lastStepCost = u.lastStepCost /\ v.gap = u.gap
  BY <1>9 DEF WalkFields
<1>11. AskedGood(v)
  BY <1>6, <1>8, <1>9, <1>10, EventAsked
<1>12. ClockGood(v) /\ v.eventWalk # 0
  BY <1>6, <1>9, <1>10 DEF ClockGood, AskedGood, EventsGood
<1>13. Linked(v)
  BY <1>8, <1>9 DEF Linked
<1>14. CASE w.eventWalk # 0
  BY <1>2, <1>4, <1>5, <1>14 DEF Linked
<1>15. CASE w.eventWalk = 0
  BY <1>3, <1>7, <1>11, <1>12, <1>13, <1>15
<1> QED BY <1>14, <1>15

LEMMA NotedDrives ==
    ASSUME NEW w, ClockGood(w), w.eventWalk # 0
    PROVE  OnItsWay(w)
BY DEF OnItsWay, Driven

\* Creature::onWalk, whatever event called it.
LEMMA OnWalkGood ==
    ASSUME NEW w, AskedGood(w), OnItsWay(w)
    PROVE  AskedGood(OnWalk(w)) /\ OnItsWay(OnWalk(w)) /\ Linked(OnWalk(w))
<1> DEFINE u == WalkOnce(w)
           z == [u EXCEPT !.eventWalk = 0]
           v == AddEventWalk(z, FALSE)
<1>1. OnWalk(w) = IF u.eventWalk = 0 THEN u ELSE v
  BY DEF OnWalk
<1>2. AskedGood(u) /\ ClockGood(u) /\ Driven(u)
  BY WalkOnceGood DEF OnItsWay
<1> HIDE DEF u
<1>3. u.eventWalk = 0 => Linked(u)
  BY DEF Linked
<1>4. HasFields(z, WalkFields) /\ z.eventWalk = 0 /\ \A f \in WalkFields \ {"eventWalk"} : z[f] = u[f]
  BY <1>2 DEF AskedGood, HasFields, WalkFields
<1> HIDE DEF z
<1>5. /\ z.ids = u.ids /\ z.sched = u.sched /\ z.queue = u.queue /\ z.reqs = u.reqs /\ z.acts = u.acts
      /\ z.walkTaskEvent = u.walkTaskEvent /\ z.walkTask = u.walkTask
      /\ z.actionTaskEvent = u.actionTaskEvent /\ z.dropped = u.dropped
      /\ z.now = u.now /\ z.lastStep = u.lastStep /\ z.lastStepCost = u.lastStepCost /\ z.gap = u.gap
  BY <1>4 DEF WalkFields
<1>6. AskedGood(z)
  BY <1>2, <1>4, <1>5, FewerAsked
<1>7. ClockGood(z) /\ Linked(z)
  BY <1>2, <1>4, <1>5 DEF ClockGood, Linked
<1>8. AskedGood(v) /\ ClockGood(v) /\ v.eventWalk # 0 /\ Linked(v)
  BY <1>6, <1>7, AddEventWalkGood
<1> HIDE DEF v
<1>9. OnItsWay(v)
  BY <1>8, NotedDrives
<1> QED BY <1>1, <1>2, <1>3, <1>8, <1>9 DEF OnItsWay

\* Creature::startAutoWalk
LEMMA StartAutoWalkGood ==
    ASSUME NEW w, AskedGood(w), OnItsWay(w), Linked(w), NEW list
    PROVE  LET v == StartAutoWalk(w, list)
           IN  AskedGood(v) /\ OnItsWay(v) /\ Linked(v)
<1> DEFINE u == [w EXCEPT !.list = list, !.halted = FALSE]
           v == AddEventWalk(u, Len(list) = 1)
<1>1. v = StartAutoWalk(w, list)
  BY DEF StartAutoWalk
<1>2. HasFields(u, WalkFields) /\ \A f \in WalkFields \ {"list", "halted"} : u[f] = w[f]
  BY DEF AskedGood, HasFields, WalkFields
<1> HIDE DEF u
<1>3. AskedGood(u)
  BY <1>2, OtherAsked DEF AskedFields, WalkFields
<1>4. ClockGood(u) /\ Linked(u)
  BY <1>2 DEF OnItsWay, ClockGood, Linked, WalkFields
<1>5. AskedGood(v) /\ ClockGood(v) /\ v.eventWalk # 0 /\ Linked(v)
  BY <1>3, <1>4, AddEventWalkGood
<1> HIDE DEF v
<1>6. OnItsWay(v)
  BY <1>5, NotedDrives
<1> QED BY <1>1, <1>5, <1>6

\* Game::playerMove
LEMMA PlayerMoveGood ==
    ASSUME NEW w, AskedGood(w), OnItsWay(w), Linked(w), NEW dir
    PROVE  LET v == PlayerMove(w, dir)
           IN  AskedGood(v) /\ OnItsWay(v) /\ Linked(v)
<1> DEFINE u == SetNextWalkActionTask(w, NoRequest)
<1>1. AskedGood(u) /\ Aside(w, u)
  BY ForgetWalkTask
<1> HIDE DEF u
<1>2. OnItsWay(u) /\ Linked(u)
  BY <1>1, AsideKeeps
<1>3. LET v == StartAutoWalk(u, <<dir>>) IN AskedGood(v) /\ OnItsWay(v) /\ Linked(v)
  BY <1>1, <1>2, StartAutoWalkGood
<1> QED BY <1>3 DEF PlayerMove, u

\* Fields that neither requests nor the walk live in.
LEMMA OtherGood ==
    ASSUME NEW w, WalkGood(w), NEW v, HasFields(v, WalkFields),
           \A f \in WalkFields \ {"pos", "beast", "follows", "things", "nextAction", "cancelNextWalk"} : v[f] = w[f]
    PROVE  WalkGood(v)
<1>1. (\A f \in AskedFields : v[f] = w[f]) /\ (\A f \in WayFields : v[f] = w[f])
      /\ v.reqs = w.reqs /\ v.sched = w.sched /\ v.queue = w.queue
  BY DEF AskedFields, WayFields, WalkFields
<1>2. AskedGood(v) /\ Aside(w, v)
  BY <1>1, OtherAsked, OtherAside DEF WalkGood
<1> QED BY <1>2, AsideKeeps DEF WalkGood

\* Creature::setSpeed
LEMMA SetSpeedGood ==
    ASSUME NEW w, WalkGood(w), NEW mobile
    PROVE  WalkGood(SetSpeed(w, mobile))
<1> DEFINE s == [w EXCEPT !.mobile = mobile]
<1>1. HasFields(s, WalkFields) /\ s.mobile = mobile /\ \A f \in WalkFields \ {"mobile"} : s[f] = w[f]
  BY DEF WalkGood, AskedGood, HasFields, WalkFields
<1>2. \/ SetSpeed(w, mobile) = [AddEventWalk(s, FALSE) EXCEPT !.halted = FALSE]
      \/ (w.mobile \/ w.list = <<>>) /\ SetSpeed(w, mobile) = s
      \/ ~mobile /\ SetSpeed(w, mobile) = [StopEventWalk(s) EXCEPT !.cancelNextWalk = TRUE]
  BY DEF SetSpeed
<1> HIDE DEF s
<1>3. AskedGood(s)
  BY <1>1, OtherAsked DEF WalkGood, AskedFields, WalkFields
<1>4. ClockGood(s) /\ Linked(s) /\ s.list = w.list /\ s.halted = w.halted /\ s.eventWalk = w.eventWalk
  BY <1>1 DEF WalkGood, OnItsWay, ClockGood, Linked, WalkFields
<1>5. CASE (w.mobile \/ w.list = <<>>) /\ SetSpeed(w, mobile) = s
  <2>1. Driven(s)
    BY <1>4, <1>5 DEF WalkGood, OnItsWay, Driven
  <2> QED BY <1>3, <1>4, <1>5, <2>1 DEF WalkGood, OnItsWay
<1>6. CASE ~mobile /\ SetSpeed(w, mobile) = [StopEventWalk(s) EXCEPT !.cancelNextWalk = TRUE]
  <2> DEFINE u == StopEventWalk(s)
             v == [u EXCEPT !.cancelNextWalk = TRUE]
  <2>1. AskedGood(u) /\ u.eventWalk = 0 /\ \A f \in WalkFields \ {"sched", "eventWalk"} : u[f] = s[f]
    BY <1>3, StopEventWalkGood
  <2> HIDE DEF u
  <2>2. /\ u.now = s.now /\ u.lastStep = s.lastStep /\ u.lastStepCost = s.lastStepCost /\ u.gap = s.gap
        /\ u.mobile = s.mobile
    BY <2>1 DEF WalkFields
  <2>3. WalkGood(u)
    BY <1>1, <1>4, <1>6, <2>1, <2>2 DEF WalkGood, OnItsWay, ClockGood, Driven, Linked
  <2>4. HasFields(v, WalkFields) /\ \A f \in WalkFields \ {"cancelNextWalk"} : v[f] = u[f]
    BY <2>1 DEF AskedGood, HasFields, WalkFields
  <2> HIDE DEF v
  <2>5. WalkGood(v)
    BY <2>3, <2>4, OtherGood
  <2> QED BY <1>6, <2>5 DEF v, u
<1>7. CASE SetSpeed(w, mobile) = [AddEventWalk(s, FALSE) EXCEPT !.halted = FALSE]
  <2> DEFINE u == AddEventWalk(s, FALSE)
             v == [u EXCEPT !.halted = FALSE]
  <2>1. AskedGood(u) /\ ClockGood(u) /\ u.eventWalk # 0 /\ Linked(u)
    BY <1>3, <1>4, AddEventWalkGood
  <2> HIDE DEF u
  <2>2. HasFields(v, WalkFields) /\ \A f \in WalkFields \ {"halted"} : v[f] = u[f]
    BY <2>1 DEF AskedGood, HasFields, WalkFields
  <2> HIDE DEF v
  <2>3. AskedGood(v)
    BY <2>1, <2>2, OtherAsked DEF AskedFields, WalkFields
  <2>4. ClockGood(v) /\ Linked(v) /\ v.eventWalk # 0
    BY <2>1, <2>2 DEF ClockGood, Linked, WalkFields
  <2>5. WalkGood(v)
    BY <2>3, <2>4, NotedDrives DEF WalkGood
  <2> QED BY <1>7, <2>5 DEF v, u
<1> QED BY <1>2, <1>5, <1>6, <1>7

\* The list is emptied.
LEMMA EmptyList ==
    ASSUME NEW w, WalkGood(w)
    PROVE  WalkGood([w EXCEPT !.list = <<>>]) /\ WalkGood(AbortWalk(w))
<1> DEFINE u == [w EXCEPT !.list = <<>>]
           v == AbortWalk(w)
<1>1. HasFields(u, WalkFields) /\ u.list = <<>> /\ \A f \in WalkFields \ {"list"} : u[f] = w[f]
  BY DEF WalkGood, AskedGood, HasFields, WalkFields
<1>2. /\ AskedGood(v) /\ v.list = <<>> /\ Linked(v)
      /\ \A f \in WalkFields \ {"list", "sched", "dropped", "walkTask", "walkTaskEvent"} : v[f] = w[f]
  BY AbortWalkGood DEF WalkGood
<1> HIDE DEF u, v
<1>3. AskedGood(u)
  BY <1>1, OtherAsked DEF WalkGood, AskedFields, WalkFields
<1>4. ClockGood(u) /\ Linked(u) /\ Driven(u)
  BY <1>1 DEF WalkGood, OnItsWay, ClockGood, Linked, Driven, WalkFields
<1>5. ClockGood(v) /\ Driven(v)
  BY <1>2 DEF WalkGood, OnItsWay, ClockGood, Driven, WalkFields
<1>6. WalkGood(u) /\ WalkGood(v)
  BY <1>2, <1>3, <1>4, <1>5 DEF WalkGood, OnItsWay
<1> QED BY <1>6 DEF u, v

\* Creature::setFollowCreature
LEMMA SetFollowCreatureGood ==
    ASSUME NEW w, WalkGood(w)
    PROVE  WalkGood(SetFollowCreature(w))
<1> DEFINE u == IF w.list = <<>> THEN w ELSE AbortWalk(w)
           v == [u EXCEPT !.follows = TRUE]
<1>1. WalkGood(u)
  BY EmptyList
<1>2. v = SetFollowCreature(w)
  BY DEF SetFollowCreature
<1> HIDE DEF u
<1>3. HasFields(v, WalkFields) /\ \A f \in WalkFields \ {"follows"} : v[f] = u[f]
  BY <1>1 DEF WalkGood, AskedGood, HasFields, WalkFields
<1> HIDE DEF v
<1> QED BY <1>1, <1>2, <1>3, OtherGood

\* Player::goToFollowCreature
LEMMA GoToFollowCreatureGood ==
    ASSUME NEW w, WalkGood(w)
    PROVE  WalkGood(GoToFollowCreature(w))
<1>1. \A l : WalkGood(StartAutoWalk(w, l))
  BY StartAutoWalkGood DEF WalkGood
<1> QED BY <1>1, EmptyList DEF GoToFollowCreature

\* A task that carries no request is posted.
LEMMA PostGood ==
    ASSUME NEW w, WalkGood(w), NEW t, TaskGood(w, t), HoldsRequest(t) => Nowhere(w, t.req)
    PROVE  WalkGood(Post(w, t))
<1> DEFINE v == Post(w, t)
<1>1. AskedGood(v) /\ v.queue = Append(w.queue, t) /\ \A f \in WalkFields \ {"queue"} : v[f] = w[f]
  BY PostAsked DEF WalkGood
<1> HIDE DEF v
<1>2. \A k \in DOMAIN w.queue : k \in DOMAIN v.queue /\ v.queue[k] = w.queue[k]
  BY <1>1, AppendIs DEF WalkGood, AskedGood, QueueGood
<1>3. Aside(w, v)
  BY <1>1, <1>2 DEF Aside, WayFields, WalkFields
<1>4. WalkGood(v)
  BY <1>1, <1>3, AsideKeeps DEF WalkGood
<1> QED BY <1>4 DEF v

LEMMA PushedQueue ==
    ASSUME NEW w, AskedGood(w), NEW t, NEW q, q = <<t>> \o w.queue
    PROVE  1 \in DOMAIN q /\ q[1] = t /\ \A k \in DOMAIN w.queue : k + 1 \in DOMAIN q /\ q[k + 1] = w.queue[k]
<1>2. /\ Len(w.queue) \in Nat /\ DOMAIN w.queue = 1 .. Len(w.queue)
      /\ DOMAIN q = 1 .. Len(w.queue) + 1 /\ q[1] = t
      /\ \A k \in DOMAIN q : k = 1 \/ (k - 1 \in DOMAIN w.queue /\ q[k] = w.queue[k - 1])
  BY PushedTasks
<1>3. ASSUME NEW k \in DOMAIN w.queue PROVE k + 1 \in DOMAIN q /\ q[k + 1] = w.queue[k]
  <2>1. k \in Nat /\ k + 1 \in DOMAIN q /\ k + 1 # 1 /\ (k + 1) - 1 = k
    BY <1>2
  <2> QED BY <1>2, <2>1
<1>4. 1 \in DOMAIN q
  BY <1>2
<1> QED BY <1>2, <1>3, <1>4

LEMMA PushGood ==
    ASSUME NEW w, WalkGood(w), NEW t, TaskGood(w, t), ~HoldsRequest(t)
    PROVE  WalkGood(PostFirst(w, t))
<1> DEFINE v == PostFirst(w, t)
<1>1. AskedGood(v) /\ v.queue = <<t>> \o w.queue /\ \A f \in WalkFields \ {"queue"} : v[f] = w[f]
  BY PushAsked DEF WalkGood
<1> HIDE DEF v
<1>2. \A k \in DOMAIN w.queue : k + 1 \in DOMAIN v.queue /\ v.queue[k + 1] = w.queue[k]
  BY <1>1, PushedQueue DEF WalkGood
<1>3. /\ v.now = w.now /\ v.lastStep = w.lastStep /\ v.lastStepCost = w.lastStepCost /\ v.gap = w.gap
      /\ v.list = w.list /\ v.mobile = w.mobile /\ v.halted = w.halted /\ v.eventWalk = w.eventWalk /\ v.sched = w.sched
  BY <1>1 DEF WalkFields
<1>4. OnItsWay(v)
  BY <1>3 DEF WalkGood, OnItsWay, ClockGood, Driven
<1>5. Linked(v)
  BY <1>2, <1>3 DEF WalkGood, Linked
<1> QED BY <1>1, <1>4, <1>5 DEF WalkGood, v

\* The client's request is numbered and is nowhere yet.
LEMMA NewRequestGood ==
    ASSUME NEW w, WalkGood(w), NEW a \in Asked
    PROVE  LET v == [w EXCEPT !.reqs = Append(@, a)]
           IN  WalkGood(v) /\ Nowhere(v, Len(w.reqs) + 1)
<1> DEFINE v == [w EXCEPT !.reqs = Append(w.reqs, a)]
           n == Len(w.reqs) + 1
<1>1. HasFields(v, WalkFields) /\ v.reqs = Append(w.reqs, a) /\ \A f \in WalkFields \ {"reqs"} : v[f] = w[f]
  BY DEF WalkGood, AskedGood, HasFields, WalkFields
<1> HIDE DEF v
<1>2. w.reqs \in Seq(Requests) /\ a \in Requests
  BY WalkConstants DEF WalkGood, AskedGood, RequestsGood
<1>3. /\ v.reqs \in Seq(Requests) /\ DOMAIN w.reqs = 1 .. Len(w.reqs) /\ Len(w.reqs) \in Nat
      /\ DOMAIN v.reqs = 1 .. n /\ \A q \in DOMAIN w.reqs : v.reqs[q] = w.reqs[q]
  BY <1>1, <1>2
<1>4. DOMAIN w.reqs \subseteq DOMAIN v.reqs /\ n \in DOMAIN v.reqs /\ n \notin DOMAIN w.reqs /\ n # NoRequest
      /\ \A q \in DOMAIN v.reqs : q \in DOMAIN w.reqs \/ q = n
  BY <1>3 DEF NoRequest
<1> HIDE DEF n
<1>5. /\ v.ids = w.ids /\ v.sched = w.sched /\ v.queue = w.queue /\ v.acts = w.acts
      /\ v.eventWalk = w.eventWalk /\ v.walkTaskEvent = w.walkTaskEvent /\ v.walkTask = w.walkTask
      /\ v.actionTaskEvent = w.actionTaskEvent /\ v.dropped = w.dropped
  BY <1>1 DEF WalkFields
<1>6. EventsGood(v)
  BY <1>4, <1>5 DEF WalkGood, AskedGood, EventsGood
<1>7. QueueGood(v)
  BY <1>4, <1>5 DEF WalkGood, AskedGood, QueueGood, TaskGood
<1>8. ActsGood(v)
  BY <1>3, <1>4, <1>5 DEF WalkGood, AskedGood, ActsGood
<1>9. \A q : (Scheduled(v, q) <=> Scheduled(w, q)) /\ (Queued(v, q) <=> Queued(w, q)) /\ (Done(v, q) <=> Done(w, q))
  BY <1>5 DEF Scheduled, Queued, Done
<1>10. ~Scheduled(w, n) /\ ~Queued(w, n) /\ ~Done(w, n) /\ w.walkTask # n /\ n \notin w.dropped
  <2>1. ~Scheduled(w, n)
    BY <1>4 DEF WalkGood, AskedGood, EventsGood, Scheduled, NoRequest
  <2>2. ~Queued(w, n)
    BY <1>4 DEF WalkGood, AskedGood, QueueGood, TaskGood, Queued
  <2>3. ~Done(w, n)
    BY <1>4 DEF WalkGood, AskedGood, ActsGood, Done
  <2>4. w.walkTask # n /\ n \notin w.dropped
    BY <1>4 DEF WalkGood, AskedGood, RequestsGood
  <2> QED BY <2>1, <2>2, <2>3, <2>4
<1>11. RequestsGood(v)
  <2>1. /\ v.walkTask \in {NoRequest} \cup DOMAIN v.reqs /\ v.dropped \subseteq DOMAIN v.reqs
        /\ \A e, f \in v.sched : e.req = f.req /\ e.req # NoRequest => e = f
        /\ \A k, m \in DOMAIN v.queue :
             HoldsRequest(v.queue[k]) /\ HoldsRequest(v.queue[m]) /\ v.queue[k].req = v.queue[m].req => k = m
    BY <1>4, <1>5 DEF WalkGood, AskedGood, RequestsGood
  <2>2. ASSUME NEW r \in DOMAIN v.reqs
        PROVE /\ Scheduled(v, r) => ~Queued(v, r) /\ v.walkTask # r /\ r \notin v.dropped /\ ~Done(v, r)
              /\ Queued(v, r) => v.walkTask # r /\ r \notin v.dropped /\ ~Done(v, r)
              /\ v.walkTask = r => r \notin v.dropped /\ ~Done(v, r)
              /\ r \in v.dropped => ~Done(v, r)
    BY <1>4, <1>5, <1>9, <1>10 DEF WalkGood, AskedGood, RequestsGood
  <2> QED BY <1>3, <2>1, <2>2 DEF RequestsGood
<1>12. AskedGood(v)
  BY <1>1, <1>6, <1>7, <1>8, <1>11 DEF AskedGood
<1>13. OnItsWay(v) /\ Linked(v)
  BY <1>1, <1>5 DEF WalkGood, OnItsWay, ClockGood, Driven, Linked, WalkFields
<1>14. WalkGood(v) /\ Nowhere(v, n)
  BY <1>4, <1>5, <1>9, <1>10, <1>12, <1>13 DEF WalkGood, Nowhere
<1> QED BY <1>14 DEF v, n

LEMMA ClientAsksInv ==
    ASSUME WalkInv, ClientAsks
    PROVE  WalkInv'
<1>0. WalkGood(wk)
  BY DEF WalkInv
<1>1. ASSUME NEW a \in Asked,
             wk' = [Post(wk, [what |-> "first", req |-> Len(wk.reqs) + 1]) EXCEPT !.reqs = Append(@, a)]
      PROVE  WalkGood(wk')
  <2> DEFINE n == Len(wk.reqs) + 1
             t == [what |-> "first", req |-> n]
             u == [wk EXCEPT !.reqs = Append(@, a)]
  <2>1. WalkGood(u) /\ Nowhere(u, n)
    BY <1>0, NewRequestGood
  <2>2. wk' = Post(u, t)
    BY <1>0, <1>1 DEF Post, WalkGood, AskedGood, HasFields, WalkFields
  <2> HIDE DEF u, n
  <2>3. TaskGood(u, t) /\ t.req = n
    BY <2>1 DEF TaskGood, HoldsRequest, Nowhere
  <2> HIDE DEF t
  <2> QED BY <2>1, <2>2, <2>3, PostGood
<1>2. ASSUME NEW t, wk' = Post(wk, t), t.what \in {"arrow", "autowalk", "stop", "follow"}
      PROVE  WalkGood(wk')
  <2>1. TaskGood(wk, t) /\ ~HoldsRequest(t)
    BY <1>2 DEF TaskGood, HoldsRequest
  <2> QED BY <1>0, <1>2, <2>1, PostGood
<1>3. CASE \E dir \in {-1, 1} : wk' = Post(wk, [what |-> "arrow", dir |-> dir])
  <2>1. PICK dir \in {-1, 1} : wk' = Post(wk, [what |-> "arrow", dir |-> dir])
    BY <1>3
  <2> DEFINE t == [what |-> "arrow", dir |-> dir]
  <2>2. t.what = "arrow" /\ wk' = Post(wk, t)
    BY <2>1
  <2> HIDE DEF t
  <2> QED BY <1>2, <2>2 DEF WalkInv
<1>4. CASE \E dir \in {-1, 1} : wk' = Post(wk, [what |-> "autowalk", list |-> <<dir, dir>>])
  <2>1. PICK dir \in {-1, 1} : wk' = Post(wk, [what |-> "autowalk", list |-> <<dir, dir>>])
    BY <1>4
  <2> DEFINE t == [what |-> "autowalk", list |-> <<dir, dir>>]
  <2>2. t.what = "autowalk" /\ wk' = Post(wk, t)
    BY <2>1
  <2> HIDE DEF t
  <2> QED BY <1>2, <2>2 DEF WalkInv
<1>5. CASE wk' = Post(wk, [what |-> "stop"]) \/ wk' = Post(wk, [what |-> "follow"])
  <2>1. PICK s \in {"stop", "follow"} : wk' = Post(wk, [what |-> s])
    BY <1>5
  <2> DEFINE t == [what |-> s]
  <2>2. t.what = s /\ wk' = Post(wk, t)
    BY <2>1
  <2> HIDE DEF t
  <2> QED BY <1>2, <2>2 DEF WalkInv
<1> QED BY <1>1, <1>3, <1>4, <1>5 DEF ClientAsks, WalkInv

LEMMA OthersActInv ==
    ASSUME WalkInv, OthersAct
    PROVE  WalkInv'
<1>0. WalkGood(wk)
  BY DEF WalkInv
<1>1. ASSUME NEW c, wk' = [wk EXCEPT !.beast = c] PROVE WalkGood(wk')
  <2>1. HasFields(wk', WalkFields) /\ \A f \in WalkFields \ {"beast"} : wk'[f] = wk[f]
    BY <1>0, <1>1 DEF WalkGood, AskedGood, HasFields, WalkFields
  <2> QED BY <1>0, <2>1, OtherGood
<1>2. ASSUME NEW c, NEW s, wk' = [wk EXCEPT !.things[c] = s] PROVE WalkGood(wk')
  <2> DEFINE x == [wk.things EXCEPT ![c] = s]
  <2>1. wk' = [wk EXCEPT !.things = x]
    BY <1>2
  <2> HIDE DEF x
  <2>2. HasFields(wk', WalkFields) /\ \A f \in WalkFields \ {"things"} : wk'[f] = wk[f]
    BY <1>0, <2>1 DEF WalkGood, AskedGood, HasFields, WalkFields
  <2> QED BY <1>0, <2>2, OtherGood
<1>3. CASE wk' = SetSpeed(wk, ~wk.mobile)
  BY <1>0, <1>3, SetSpeedGood DEF WalkInv
<1> QED BY <1>1, <1>2, <1>3 DEF OthersAct, WalkInv

\* A task leaves the queue and is run.
LEMMA DispatchInv ==
    ASSUME WalkInv, Dispatch
    PROVE  WalkInv'
<1> DEFINE t == Head(wk.queue)
           w == [wk EXCEPT !.queue = Tail(@)]
<1>0. WalkGood(wk)
  BY DEF WalkInv
<1>1. wk.queue # <<>> /\
      wk' = CASE t.what = "first" -> RunRequest(w, t.req, TRUE)
              [] t.what = "request" -> RunRequest(w, t.req, FALSE)
              [] t.what = "arrow" -> PlayerMove(w, t.dir)
              [] t.what = "autowalk" -> StartAutoWalk(w, t.list)
              [] t.what = "walk" -> OnWalk(w)
              [] t.what = "stop" -> [w EXCEPT !.cancelNextWalk = TRUE]
              [] t.what = "follow" -> SetFollowCreature(w)
              [] t.what = "think" -> GoToFollowCreature(w)
  BY DEF Dispatch
<1>2. /\ AskedGood(w) /\ TaskGood(w, t) /\ (HoldsRequest(t) => Nowhere(w, t.req))
      /\ w.queue = Tail(wk.queue) /\ \A f \in WalkFields \ {"queue"} : w[f] = wk[f]
  BY <1>0, <1>1, PopAsked DEF WalkGood
<1>3. /\ DOMAIN wk.queue = 1 .. Len(wk.queue) /\ Len(wk.queue) \in Nat \ {0} /\ t = wk.queue[1]
      /\ DOMAIN w.queue = 1 .. Len(wk.queue) - 1 /\ \A k \in DOMAIN w.queue : w.queue[k] = wk.queue[k + 1]
  BY <1>0, <1>1, <1>2, TailIs DEF WalkGood, AskedGood, QueueGood
<1> HIDE DEF t, w
<1>4. OnItsWay(w) /\ w.eventWalk = wk.eventWalk /\ w.sched = wk.sched
  BY <1>0, <1>2 DEF WalkGood, OnItsWay, ClockGood, Driven, WalkFields
<1>5. t.what # "walk" => WalkGood(w)
  <2> SUFFICES ASSUME t.what # "walk" PROVE Linked(w)
    BY <1>2, <1>4 DEF WalkGood
  <2>1. ASSUME NEW k \in DOMAIN wk.queue, wk.queue[k].what = "walk"
        PROVE  k - 1 \in DOMAIN w.queue /\ w.queue[k - 1].what = "walk"
    <3>1. k # 1
      BY <1>3, <2>1
    <3>2. k - 1 \in DOMAIN w.queue /\ (k - 1) + 1 = k
      BY <1>3, <3>1
    <3> QED BY <1>3, <2>1, <3>2
  <2> QED BY <1>0, <1>4, <2>1 DEF WalkGood, Linked
<1>6. CASE HoldsRequest(t)
  <2>1. wk' = RunRequest(w, t.req, TRUE) \/ wk' = RunRequest(w, t.req, FALSE)
    BY <1>1, <1>6 DEF HoldsRequest
  <2>2. Handled(w, wk')
    BY <1>2, <1>6, <2>1, RunRequestGood
  <2> QED BY <1>2, <1>5, <1>6, <2>2, AsideKeeps DEF Handled, HoldsRequest, WalkGood, WalkInv
<1>7. CASE t.what = "arrow"
  BY <1>1, <1>5, <1>7, PlayerMoveGood DEF WalkGood, WalkInv
<1>8. CASE t.what = "autowalk"
  BY <1>1, <1>5, <1>8, StartAutoWalkGood DEF WalkGood, WalkInv
<1>9. CASE t.what = "walk"
  BY <1>1, <1>2, <1>4, <1>9, OnWalkGood DEF WalkGood, WalkInv
<1>10. CASE t.what = "stop"
  <2>1. wk' = [w EXCEPT !.cancelNextWalk = TRUE]
    BY <1>1, <1>10
  <2>2. HasFields(wk', WalkFields) /\ \A f \in WalkFields \ {"cancelNextWalk"} : wk'[f] = w[f]
    BY <1>2, <2>1 DEF AskedGood, HasFields, WalkFields
  <2> QED BY <1>5, <1>10, <2>2, OtherGood DEF WalkInv
<1>11. CASE t.what = "follow"
  BY <1>1, <1>5, <1>11, SetFollowCreatureGood DEF WalkInv
<1>12. CASE t.what = "think"
  BY <1>1, <1>5, <1>12, GoToFollowCreatureGood DEF WalkInv
<1> QED BY <1>2, <1>6, <1>7, <1>8, <1>9, <1>10, <1>11, <1>12 DEF TaskGood, HoldsRequest

\* An event leaves the scheduler for the queue.
LEMMA FireInv ==
    ASSUME WalkInv, Fire
    PROVE  WalkInv'
<1>0. WalkGood(wk)
  BY DEF WalkInv
<1>1. PICK e \in wk.sched : wk' = PostFirst([wk EXCEPT !.sched = @ \ {e}], [what |-> e.what, req |-> e.req])
  BY DEF Fire
<1> DEFINE u == [wk EXCEPT !.sched = wk.sched \ {e}]
           t == [what |-> e.what, req |-> e.req]
<1>2. wk' = PostFirst(u, t)
  BY <1>1
<1>3. HasFields(u, WalkFields) /\ u.sched = wk.sched \ {e} /\ \A f \in WalkFields \ {"sched"} : u[f] = wk[f]
  BY <1>0 DEF WalkGood, AskedGood, HasFields, WalkFields
<1>4. t.what = e.what /\ t.req = e.req
  OBVIOUS
<1> HIDE DEF u, t
<1>5. /\ u.ids = wk.ids /\ u.queue = wk.queue /\ u.reqs = wk.reqs /\ u.acts = wk.acts
      /\ u.eventWalk = wk.eventWalk /\ u.walkTaskEvent = wk.walkTaskEvent /\ u.walkTask = wk.walkTask
      /\ u.actionTaskEvent = wk.actionTaskEvent /\ u.dropped = wk.dropped
  BY <1>3 DEF WalkFields
<1>6. AskedGood(u)
  BY <1>0, <1>3, <1>5, FewerAsked DEF WalkGood
<1>7. \/ e.what = "walk" /\ e.req = 0
      \/ e.what = "request" /\ e.req \in DOMAIN wk.reqs /\ e.id # wk.eventWalk
  BY <1>0 DEF WalkGood, AskedGood, EventsGood
<1>8. HoldsRequest(t) => Nowhere(u, t.req)
  <2> SUFFICES ASSUME e.what = "request" PROVE Nowhere(u, e.req)
    BY <1>4, <1>7 DEF HoldsRequest
  <2>1. e.req \in DOMAIN wk.reqs /\ e.req # NoRequest
    BY <1>0, <1>7 DEF WalkGood, AskedGood, RequestsGood, NoRequest
  <2>2. Scheduled(wk, e.req)
    BY DEF Scheduled
  <2>3. ~Queued(wk, e.req) /\ wk.walkTask # e.req /\ e.req \notin wk.dropped /\ ~Done(wk, e.req)
    BY <1>0, <2>1, <2>2 DEF WalkGood, AskedGood, RequestsGood
  <2>4. ~Scheduled(u, e.req)
    BY <1>0, <1>3, <2>1 DEF WalkGood, AskedGood, RequestsGood, Scheduled
  <2>5. ~Queued(u, e.req) /\ ~Done(u, e.req)
    BY <1>5, <2>3 DEF Queued, Done
  <2> QED BY <1>5, <2>1, <2>3, <2>4, <2>5 DEF Nowhere
<1>9. TaskGood(u, t)
  BY <1>4, <1>5, <1>7 DEF TaskGood, HoldsRequest
<1>10. /\ AskedGood(wk') /\ wk'.queue = <<t>> \o u.queue
       /\ \A f \in WalkFields \ {"queue"} : wk'[f] = u[f]
  BY <1>2, <1>6, <1>8, <1>9, PushAsked
<1>11. /\ wk'.now = wk.now /\ wk'.lastStep = wk.lastStep /\ wk'.lastStepCost = wk.lastStepCost
       /\ wk'.gap = wk.gap /\ wk'.list = wk.list /\ wk'.mobile = wk.mobile /\ wk'.halted = wk.halted
       /\ wk'.eventWalk = wk.eventWalk /\ wk'.sched = wk.sched \ {e}
  BY <1>3, <1>10 DEF WalkFields
<1>12. OnItsWay(wk')
  BY <1>0, <1>11 DEF WalkGood, OnItsWay, ClockGood, Driven
<1>13. 1 \in DOMAIN wk'.queue /\ wk'.queue[1] = t /\ \A k \in DOMAIN wk.queue : k + 1 \in DOMAIN wk'.queue /\ wk'.queue[k + 1] = wk.queue[k]
  BY <1>5, <1>6, <1>10, PushedQueue
<1>14. Linked(wk')
  <2>1. CASE e.id = wk.eventWalk
    BY <1>4, <1>7, <1>13, <2>1 DEF Linked
  <2>2. CASE e.id # wk.eventWalk
    BY <1>0, <1>11, <1>13, <2>2 DEF WalkGood, Linked
  <2> QED BY <2>1, <2>2
<1> QED BY <1>10, <1>12, <1>14 DEF WalkGood, WalkInv

LEMMA ThinkInv ==
    ASSUME WalkInv, Think
    PROVE  WalkInv'
<1> DEFINE t == [what |-> "think"]
<1>1. wk' = PostFirst(wk, t) /\ t.what = "think"
  BY DEF Think
<1> HIDE DEF t
<1>2. TaskGood(wk, t) /\ ~HoldsRequest(t)
  BY <1>1 DEF TaskGood, HoldsRequest
<1> QED BY <1>1, <1>2, PushGood DEF WalkInv

LEMMA TickInv ==
    ASSUME WalkInv, Tick
    PROVE  WalkInv'
<1>1. wk' = [wk EXCEPT !.now = @ + 1]
  BY DEF Tick
<1>2. HasFields(wk', WalkFields) /\ wk'.now = wk.now + 1 /\ \A f \in WalkFields \ {"now"} : wk'[f] = wk[f]
  BY <1>1 DEF WalkInv, WalkGood, AskedGood, HasFields, WalkFields
<1>3. AskedGood(wk')
  BY <1>2, OtherAsked DEF WalkInv, WalkGood, AskedFields, WalkFields
<1>4. OnItsWay(wk') /\ Linked(wk')
  BY <1>2 DEF WalkInv, WalkGood, OnItsWay, ClockGood, Driven, Linked, WalkFields
<1> QED BY <1>3, <1>4 DEF WalkInv, WalkGood

LEMMA WalkInitInv == WalkInit => WalkInv
<1> SUFFICES ASSUME WalkInit PROVE WalkInv
  OBVIOUS
<1>1. /\ HasFields(wk, WalkFields) /\ wk.now = 0 /\ wk.lastStep = Never /\ wk.lastStepCost = 1 /\ wk.gap = 0
      /\ wk.list = <<>> /\ wk.eventWalk = 0 /\ wk.walkTask = NoRequest /\ wk.walkTaskEvent = 0
      /\ wk.actionTaskEvent = 0 /\ wk.ids = 0 /\ wk.sched = {} /\ wk.queue = <<>> /\ wk.reqs = <<>>
      /\ wk.dropped = {} /\ wk.acts = <<>>
  <2>1. PICK p \in Places :
          wk = [now |-> 0, pos |-> p.pos, beast |-> p.beast, portal |-> p.portal, follows |-> FALSE,
                mobile |-> TRUE, lastStep |-> Never, lastStepCost |-> 1, list |-> <<>>, eventWalk |-> 0,
                cancelNextWalk |-> FALSE, walkTask |-> NoRequest, walkTaskEvent |-> 0,
                actionTaskEvent |-> 0, nextAction |-> 0, ids |-> 0, sched |-> {}, queue |-> <<>>,
                reqs |-> <<>>, things |-> p.things, halted |-> FALSE, gap |-> 0, dropped |-> {},
                acts |-> <<>>]
    BY DEF WalkInit
  <2>2. HasFields(wk, WalkFields)
    BY <2>1 DEF HasFields, WalkFields
  <2> QED BY <2>1, <2>2
<1>2. IsSeq(<<>>) /\ DOMAIN <<>> = {} /\ <<>> \in Seq(Requests)
  <2>1. \A T : <<>> \in Seq(T)
    OBVIOUS
  <2> QED BY <2>1 DEF IsSeq
<1>3. EventsGood(wk) /\ QueueGood(wk) /\ RequestsGood(wk) /\ ActsGood(wk)
  BY <1>1, <1>2 DEF EventsGood, QueueGood, RequestsGood, ActsGood
<1>4. OnItsWay(wk) /\ Linked(wk)
  BY <1>1 DEF OnItsWay, ClockGood, Driven, Linked, Never
<1> QED BY <1>1, <1>3, <1>4 DEF WalkInv, WalkGood, AskedGood

LEMMA WalkNextInv == WalkInv /\ [WalkNext]_wkVars => WalkInv'
<1> SUFFICES ASSUME WalkInv, [WalkNext]_wkVars PROVE WalkInv'
  OBVIOUS
<1>1. CASE UNCHANGED wkVars
  BY <1>1 DEF wkVars, WalkInv
<1> QED BY <1>1, ClientAsksInv, OthersActInv, DispatchInv, FireInv, ThinkInv, TickInv DEF WalkNext

\* A set all whose members are equal has at most one.
LEMMA AtMostOne ==
    ASSUME NEW S, \A x, y \in S : x = y
    PROVE  Cardinality(S) \in {0, 1} /\ (S = {} => Cardinality(S) = 0)
<1>1. CASE S = {}
  BY <1>1, FS_EmptySet
<1>2. CASE S # {}
  <2>1. PICK x : S = {x}
    BY <1>2
  <2> QED BY <1>2, <2>1, FS_Singleton
<1> QED BY <1>1, <1>2

LEMMA WalkInvSafe == WalkInv => WalkAgrees
<1> SUFFICES ASSUME WalkInv PROVE WalkAgrees
  OBVIOUS
<1>0. AskedGood(wk) /\ ClockGood(wk) /\ Driven(wk) /\ Linked(wk)
  BY DEF WalkInv, WalkGood, OnItsWay
<1>1. StepsKeepTheirTime
  BY <1>0 DEF ClockGood, StepsKeepTheirTime
<1>2. CarriedOutAsAsked
  BY <1>0 DEF AskedGood, ActsGood, CarriedOutAsAsked
<1>3. WalkIsDriven
  <2>1. \A e \in wk.sched : e.id = wk.eventWalk => e.what = "walk"
    BY <1>0 DEF AskedGood, EventsGood
  <2> QED BY <1>0, <2>1 DEF Driven, Linked, WalkIsDriven
<1>4. ASSUME NEW r \in DOMAIN wk.reqs
      PROVE  Cardinality({e \in wk.sched : e.req = r})
               + Cardinality({k \in DOMAIN wk.queue :
                     wk.queue[k].what \in {"first", "request"} /\ wk.queue[k].req = r})
               + (IF wk.walkTask = r THEN 1 ELSE 0) <= 1
  <2> DEFINE S == {e \in wk.sched : e.req = r}
             Q == {k \in DOMAIN wk.queue : wk.queue[k].what \in {"first", "request"} /\ wk.queue[k].req = r}
  <2>1. r # NoRequest
    BY <1>0 DEF AskedGood, RequestsGood, NoRequest
  <2>2. \A x, y \in S : x = y
    BY <1>0, <2>1 DEF AskedGood, RequestsGood
  <2>3. \A x, y \in Q : x = y
    BY <1>0 DEF AskedGood, RequestsGood, HoldsRequest
  <2>4. (S # {} => Scheduled(wk, r)) /\ (Q # {} => Queued(wk, r))
    BY DEF Scheduled, Queued, HoldsRequest
  <2>5. (S = {} \/ Q = {}) /\ (wk.walkTask = r => S = {} /\ Q = {})
    BY <1>0, <2>4 DEF AskedGood, RequestsGood
  <2>6. Cardinality(S) \in {0, 1} /\ (S = {} => Cardinality(S) = 0)
    BY <2>2, AtMostOne
  <2>7. Cardinality(Q) \in {0, 1} /\ (Q = {} => Cardinality(Q) = 0)
    BY <2>3, AtMostOne
  <2> HIDE DEF S, Q
  <2>8. Cardinality(S) + Cardinality(Q) + (IF wk.walkTask = r THEN 1 ELSE 0) <= 1
    BY <2>5, <2>6, <2>7
  <2> QED BY <2>8 DEF S, Q
<1>5. PutOffOnce
  BY <1>4 DEF PutOffOnce
<1> QED BY <1>1, <1>2, <1>3, <1>5 DEF WalkAgrees

\* The inductive invariant of a walk and its requests.
THEOREM WalkInvariant == WalkSpec => []WalkInv
<1>1. WalkInit => WalkInv
  BY WalkInitInv
<1>2. WalkInv /\ [WalkNext]_wkVars => WalkInv'
  BY WalkNextInv
<1> QED BY <1>1, <1>2, PTL DEF WalkSpec

\* Steps keep the time of the one before (Creature::getWalkDelay), a request is
\* carried out at most once, in reach, on the thing the client saw, in its time and
\* never after it was forgotten (Player::setNextWalkActionTask, setNextActionTask), a
\* walk with cells left is driven by an event (Creature::addEventWalk), and what was
\* put off waits in one place: for any cells, durations, requests and number of steps.
THEOREM WalkAlwaysAgrees == WalkSpec => []WalkAgrees
<1>1. WalkInv => WalkAgrees
  BY WalkInvSafe
<1> QED BY <1>1, WalkInvariant, PTL
===============================================================================
