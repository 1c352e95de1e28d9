----------------------------- MODULE Conditions -----------------------------
(* The conditions of one player: Creature::conditions and the classes of     *)
(* condition.cpp. A condition changes the creature when it starts, is merged  *)
(* with a later one of its key, counts down on every think interval (one unit *)
(* of time here) and has to take back exactly what it changed when it ends.   *)
(* Some are written to the database and read back at the next login, and two  *)
(* operations are put off by the scheduler while the creature is in a step.   *)
EXTENDS Integers, Sequences, FiniteSets, SequencesExt, FiniteSetsExt, TLC

CONSTANTS CondGroups,     \* sets of conditions; a behaviour meets those of one group
          CondMaxNow,     \* the last instant
          CondMaxHp,      \* getMaxHealth
          CondMaxOps,     \* conditions given and logouts in a behaviour
          CondBases       \* a base skill before and after an advance

VARIABLES cNow,           \* OTSYS_TIME in think intervals
          cGroup,         \* the conditions scripts and items may give
          pl,             \* the creature: its conditions and what they changed
          cSaved,         \* what the last save wrote, until it is read
          cOps            \* operations left of CondMaxOps

cVars == <<cNow, cGroup, pl, cSaved, cOps>>

Forever == CondMaxNow + 100               \* numeric_limits<int64_t>::max()
SpeedTypes == {"HASTE", "PARALYZE"}
DamageTypes == {"FIRE", "POISON"}

(* Condition::Condition and the classes' constructors: ticks -1 never ends,    *)
(* and damage conditions count their own ticks.                               *)
NewCondition(t, id, sub, ticks) ==
    [type |-> t, id |-> id, sub |-> sub, ticks |-> ticks, end |-> IF ticks = -1 THEN Forever ELSE 0, val |-> 0, pct |-> 0,
     per |-> 1, cnt |-> 0, list |-> << >>, period |-> 0, lo |-> 0, hi |-> 0, first |-> 0, delayed |-> FALSE, force |-> FALSE]

CreateCondition(t, id, sub, ticks) ==
    IF t \in DamageTypes THEN [NewCondition(t, id, sub, 0) EXCEPT !.per = 2] ELSE NewCondition(t, id, sub, ticks)

(* The setParam functions, by which scripts describe a condition. *)
Magnitude(v) == IF v < 0 THEN -v ELSE v
SetBase(c, param, v) == [c EXCEPT ![param] = v]                                    \* ticks, subid
SetAttributes(c, param, v) == [c EXCEPT ![param] = IF param = "pct" THEN Max({0, v}) ELSE v]
SetRegeneration(c, param, v) == [c EXCEPT ![param] = v]                            \* val (gain), per (ticks)
SetDamage(c, param, v) ==
    [c EXCEPT ![param] = CASE param \in {"lo", "hi", "first", "per"} -> Magnitude(v)
                           [] param \in {"delayed", "force"}        -> v # 0
                           [] OTHER                                 -> v]
SetSpeed(c, v) == [c EXCEPT !.val = v, !.type = IF v > 0 THEN "HASTE" ELSE "PARALYZE"]
SetLight(c, v) == [c EXCEPT !.val = v]                                             \* the level

SetTicks(c, n) == [c EXCEPT !.ticks = n, !.end = n + cNow]

BaseStart(c) == IF c.ticks > 0 THEN [c EXCEPT !.end = c.ticks + cNow] ELSE c

BaseExecute(c, interval) ==
    LET d == [c EXCEPT !.ticks = Max({0, @ - interval})]
    IN  IF c.ticks = -1 THEN [c |-> c, keep |-> TRUE] ELSE [c |-> d, keep |-> c.end >= cNow]

IsPersistent(c) == c.ticks # -1 /\ c.id \in {-1, 0}

UpdateCondition(old, new) ==
    /\ old.type = new.type
    /\ ~(old.ticks = -1 /\ new.ticks > 0)
    /\ ~(new.ticks >= 0 /\ old.end > cNow + new.ticks)

HasKey(p, c) == \E i \in DOMAIN p.conds : <<p.conds[i].type, p.conds[i].id, p.conds[i].sub>> = <<c.type, c.id, c.sub>>
IndexOf(p, c) == CHOOSE i \in DOMAIN p.conds : <<p.conds[i].type, p.conds[i].id, p.conds[i].sub>> = <<c.type, c.id, c.sub>>
InList(p, t) == \E i \in DOMAIN p.conds : p.conds[i].type = t
HasCondition(p, t) == \E i \in DOMAIN p.conds : p.conds[i].type = t /\ p.conds[i].sub = 0 /\ p.conds[i].end >= cNow
WalkDelay(p) == p.walk - cNow

-----------------------------------------------------------------------------
(* Attributes: a percentage becomes a number when the condition starts, and   *)
(* that number, not a new one, is taken back.                                 *)
Percent(base, pct) == IF pct >= 100 THEN (base * (pct - 100)) \div 100 ELSE -((base * (100 - pct)) \div 100)

UpdatePercent(p, c) == IF c.pct = 0 THEN c ELSE [c EXCEPT !.val = Percent(p.base, c.pct)]

UpdateStats(p, c) == [p EXCEPT !.stat = @ + c.val]

(* A variant that computes the percentage anew. *)
EndAttributesAnew(p, c) == [p EXCEPT !.stat = @ - UpdatePercent(p, c).val]
EndAttributes(p, c) == [p EXCEPT !.stat = @ - c.val]

MergeAttributes(p, i, new) ==
    LET old    == p.conds[i]
        merged == UpdatePercent(p, [SetTicks(old, new.ticks) EXCEPT !.val = new.val, !.pct = new.pct])
    IN  IF UpdateCondition(old, new)
        THEN UpdateStats(EndAttributes([p EXCEPT !.conds[i] = merged], old), merged)
        ELSE p

-----------------------------------------------------------------------------
(* Speed *)
ChangeSpeed(p, delta) == [p EXCEPT !.speed = @ + delta]

SpeedDelta(p, c) == IF c.val = 0 THEN [c EXCEPT !.val = p.base \div 2] ELSE c     \* the formula of base speed

EndSpeed(p, c) == ChangeSpeed(p, -c.val)

MergeSpeed(p, i, new) ==
    LET old    == p.conds[i]
        merged == SpeedDelta(p, [SetTicks(old, new.ticks) EXCEPT !.val = new.val])
    IN  IF old.ticks = -1 /\ new.ticks > 0 THEN p
        ELSE ChangeSpeed([p EXCEPT !.conds[i] = merged], merged.val - old.val)

-----------------------------------------------------------------------------
(* Invisible, outfit, light: what the clients are told. *)
StartInvisible(p) == [p EXCEPT !.hidden = TRUE]
EndInvisible(p) == IF InList(p, "INVISIBLE") THEN p ELSE [p EXCEPT !.hidden = FALSE]

ChangeOutfit(p, o) == [p EXCEPT !.outfit = o]

MergeOutfit(p, i, new) ==
    LET old == p.conds[i]
    IN  IF UpdateCondition(old, new)
        THEN ChangeOutfit([p EXCEPT !.conds[i] = [SetTicks(old, new.ticks) EXCEPT !.val = new.val]], new.val)
        ELSE p

LightInterval(c) == [c EXCEPT !.per = c.ticks \div c.val, !.cnt = 0]

ExecuteLight(p, c) ==
    IF c.cnt + 1 < c.per THEN [p |-> p, c |-> [c EXCEPT !.cnt = @ + 1]]
    ELSE [p |-> [p EXCEPT !.light = Max({0, @ - 1})], c |-> [c EXCEPT !.cnt = 0]]

EndLight(p) == [p EXCEPT !.light = 0]

MergeLight(p, i, new) ==
    LET old    == p.conds[i]
        merged == LightInterval([SetTicks(old, new.ticks) EXCEPT !.val = new.val])
    IN  IF UpdateCondition(old, new)
        THEN [p EXCEPT !.conds[i] = merged, !.light = merged.val]
        ELSE p

-----------------------------------------------------------------------------
(* Regeneration (health and mana alike, and soul). *)
ExecuteRegeneration(p, c) ==
    IF ~p.protected /\ c.cnt + 1 >= c.per
    THEN [p |-> [p EXCEPT !.hp = Min({CondMaxHp, @ + c.val})], c |-> [c EXCEPT !.cnt = 0]]
    ELSE [p |-> p, c |-> [c EXCEPT !.cnt = @ + 1]]

MergeRegeneration(p, i, new) ==
    LET old == p.conds[i]
    IN  IF UpdateCondition(old, new)
        THEN [p EXCEPT !.conds[i] = [SetTicks(old, new.ticks) EXCEPT !.val = new.val, !.per = new.per]]
        ELSE p

MergeGeneric(p, i, new) ==
    LET old == p.conds[i]
    IN  IF UpdateCondition(old, new) THEN [p EXCEPT !.conds[i] = SetTicks(old, new.ticks)] ELSE p

-----------------------------------------------------------------------------
(* Damage: a list of rounds, or periodic damage. What a hit does is one of    *)
(* "hurt", "blocked" (immune, or vetoed by a script) and "suppressed".        *)
Outcomes == {"hurt", "blocked", "suppressed"}

DoDamage(p, v, hit) ==
    [p |-> IF hit = "hurt" THEN [p EXCEPT !.hp = Max({0, @ - v})] ELSE p, ret |-> hit # "blocked"]

TotalDamage(c) ==
    IF c.list # << >> THEN FoldLeft(LAMBDA s, r : s + r.value, 0, c.list) ELSE c.lo + (c.hi - c.lo) \div 2

PeriodicDamage(c, v) == [SetBase(c, "ticks", -1) EXCEPT !.period = v]    \* addDamage of -1 rounds

(* generateDamageList: descending values, each repeated while that brings the *)
(* sum nearer to its share of the amount.                                     *)
DamageList(amount, start) ==
    LET Away(x)        == IF x < 0 THEN -x ELSE x
        Share(i)       == ((start + 1 - i) * amount) \div start
        Times(sum, i)  == CHOOSE k \in 1..(amount + 1) :
                             /\ Away(Share(i) - sum - (k + 1) * i) >= Away(Share(i) - sum - k * i)
                             /\ \A j \in 1..(k - 1) : Away(Share(i) - sum - (j + 1) * i) < Away(Share(i) - sum - j * i)
        More(acc, n)   == LET i == start + 1 - n
                              k == Times(acc.sum, i)
                          IN  [sum |-> acc.sum + k * i, list |-> acc.list \o [j \in 1..k |-> i]]
    IN  FoldLeft(More, [sum |-> 0, list |-> << >>], [j \in 1..start |-> j]).list

AddDamage(c, v) ==
    LET d == [c EXCEPT !.list = Append(@, [left |-> c.per, interval |-> c.per, value |-> v])]
    IN  IF c.ticks # -1 THEN SetTicks(d, c.ticks + c.per) ELSE d

StartDamage(c, amount) ==
    IF c.first > c.hi THEN c.hi ELSE IF c.first = 0 THEN Max({1, (amount + 19) \div 20}) ELSE c.first

InitDamage(c, amount) ==
    IF c.period # 0 \/ c.list # << >> THEN c
    ELSE IF amount = 0 THEN SetTicks(c, 0)
    ELSE FoldLeft(AddDamage, SetTicks(c, 0), DamageList(amount, StartDamage(c, amount)))

InitOK(c) == c.period # 0 \/ c.list # << >>

(* getNextDamage and the hit, unless the condition is delayed. *)
FirstDamage(p, c, hit) ==
    IF c.delayed \/ ~InitOK(c) THEN [p |-> p, c |-> c, ret |-> InitOK(c)]
    ELSE LET v == IF c.period # 0 THEN c.period ELSE Head(c.list).value
             h == DoDamage(p, v, hit)
         IN  [p |-> h.p, ret |-> h.ret,
              c |-> IF c.period = 0 /\ c.ticks # -1 THEN [c EXCEPT !.list = Tail(@)] ELSE c]

MergeDamage(p, i, new, amount, hit) ==
    LET old   == p.conds[i]
        ready == InitDamage([SetTicks(old, new.ticks) EXCEPT !.lo = new.lo, !.hi = new.hi, !.first = new.first,
                                !.per = new.per, !.period = new.period, !.list = new.list], amount)
        left  == IF old.list # << >> THEN Head(old.list).left ELSE new.per
        timed == IF ready.list = << >> THEN ready ELSE [ready EXCEPT !.list[1].left = left]
        Hits(f) == [f.p EXCEPT !.conds[i] = f.c]
    IN  IF new.force \/ (~(old.ticks = -1 /\ new.ticks > 0) /\ TotalDamage(new) > TotalDamage(old))
        THEN Hits(FirstDamage(p, timed, hit))
        ELSE p

(* field: the magic field under the creature, "same" as the condition or not. *)
ExecuteDamage(p, c, hit, field) ==
    LET remove   == IF field = "none" THEN c.ticks # -1 ELSE field # "same"
        due      == Head(c.list).left - 1 <= 0
        popped   == IF remove THEN [c EXCEPT !.list = Tail(@)] ELSE [c EXCEPT !.list[1].left = Head(c.list).interval]
        counted  == IF due THEN popped ELSE [c EXCEPT !.list[1].left = @ - 1]
        stayed   == IF ~remove /\ c.ticks > 0 THEN [counted EXCEPT !.end = @ + 1] ELSE counted
        tick     == c.cnt + 1 >= c.per
    IN  IF c.period # 0
        THEN [p |-> IF tick THEN DoDamage(p, c.period, hit).p ELSE p,
              c |-> [c EXCEPT !.cnt = IF tick THEN 0 ELSE @ + 1], interval |-> 1]
        ELSE IF c.list = << >> THEN [p |-> p, c |-> c, interval |-> 1]
        ELSE [p |-> IF due THEN DoDamage(p, Head(c.list).value, hit).p ELSE p,
              c |-> stayed, interval |-> IF remove THEN 1 ELSE 0]

-----------------------------------------------------------------------------
(* The virtual functions. *)
Start(p, c, amount, hit) ==
    LET b == BaseStart(c)
        Begun(d) == CASE d.type \in SpeedTypes  -> ChangeSpeed(p, d.val)
                      [] d.type = "ATTRIBUTES"  -> UpdateStats(p, d)
                      [] d.type = "INVISIBLE"   -> StartInvisible(p)
                      [] d.type = "OUTFIT"      -> ChangeOutfit(p, d.val)
                      [] d.type = "LIGHT"       -> [p EXCEPT !.light = d.val]
                      [] OTHER                  -> p
        ready == CASE c.type \in SpeedTypes -> SpeedDelta(p, b)
                   [] c.type = "ATTRIBUTES" -> UpdatePercent(p, b)
                   [] c.type = "LIGHT"      -> LightInterval(b)
                   [] OTHER                 -> b
    IN  IF c.type \in DamageTypes THEN FirstDamage(p, InitDamage(b, amount), hit)
        ELSE [p |-> Begun(ready), c |-> ready, ret |-> TRUE]

Merge(p, c, amount, hit) ==
    LET i == IndexOf(p, c)
    IN  CASE c.type \in SpeedTypes  -> MergeSpeed(p, i, c)
          [] c.type = "ATTRIBUTES"  -> MergeAttributes(p, i, c)
          [] c.type = "OUTFIT"      -> MergeOutfit(p, i, c)
          [] c.type = "LIGHT"       -> MergeLight(p, i, c)
          [] c.type = "REGENERATION" -> MergeRegeneration(p, i, c)
          [] c.type \in DamageTypes -> MergeDamage(p, i, c, amount, hit)
          [] OTHER                  -> MergeGeneric(p, i, c)

(* endCondition, and Player::onEndCondition. The list no longer holds c. *)
End(p, c) ==
    CASE c.type \in SpeedTypes -> EndSpeed(p, c)
      [] c.type = "ATTRIBUTES" -> EndAttributes(p, c)
      [] c.type = "INVISIBLE"  -> EndInvisible(p)
      [] c.type = "OUTFIT"     -> ChangeOutfit(p, 0)
      [] c.type = "LIGHT"      -> EndLight(p)
      [] c.type = "INFIGHT"    -> [p EXCEPT !.locked = FALSE]
      [] OTHER                 -> p

Erase(p, c) == End([p EXCEPT !.conds = Remove(@, c)], c)

-----------------------------------------------------------------------------
(* Creature: adding, removing, executing *)
Later(p, what, c) == [p EXCEPT !.later = @ \cup {[at |-> p.walk, op |-> what, c |-> c]}]

RemoveSelected(p, Test(_), force) ==
    LET sel == SelectSeq(p.conds, Test)
    IN  IF sel = << >> THEN p
        ELSE IF ~force /\ Head(sel).type = "PARALYZE" /\ WalkDelay(p) > 0 THEN Later(p, "remove", Head(sel))
        ELSE FoldLeft(Erase, p, sel)

RemoveCondition(p, t, force) == RemoveSelected(p, LAMBDA c : c.type = t, force)
RemoveConditionId(p, t, id) == RemoveSelected(p, LAMBDA c : c.type = t /\ c.id = id, FALSE)

OnAddCondition(p, t) ==
    IF t = "PARALYZE" /\ HasCondition(p, "HASTE") THEN RemoveCondition(p, "HASTE", FALSE)
    ELSE IF t = "HASTE" /\ HasCondition(p, "PARALYZE") THEN RemoveCondition(p, "PARALYZE", FALSE)
    ELSE p

AddCondition(p, c, force, amount, hit) ==
    LET Pushed(s) == IF s.ret THEN OnAddCondition([s.p EXCEPT !.conds = Append(@, s.c)], c.type) ELSE s.p
    IN  IF ~force /\ c.type = "HASTE" /\ HasCondition(p, "PARALYZE") /\ WalkDelay(p) > 0 THEN Later(p, "add", c)
        ELSE IF HasKey(p, c) THEN Merge(p, c, amount, hit)
        ELSE Pushed(Start(p, c, amount, hit))

(* One turn of the loop of executeConditions; p.conds[i] is the iterator. *)
ExecuteNext(acc, hit, field) ==
    LET c == acc.p.conds[acc.i]
        x == CASE c.type = "LIGHT"          -> ExecuteLight(acc.p, c) @@ [interval |-> 1]
               [] c.type = "REGENERATION"   -> ExecuteRegeneration(acc.p, c) @@ [interval |-> 1]
               [] c.type \in DamageTypes    -> ExecuteDamage(acc.p, c, hit, field)
               [] OTHER                     -> [p |-> acc.p, c |-> c, interval |-> 1]
        Turn(p, b) == IF b.keep THEN [p |-> [p EXCEPT !.conds[acc.i] = b.c], i |-> acc.i + 1]
                      ELSE [p |-> End([p EXCEPT !.conds = RemoveAt(@, acc.i)], b.c), i |-> acc.i]
    IN  Turn(x.p, BaseExecute(x.c, x.interval))

ExecuteConditions(p, hit, field) ==
    FoldLeft(LAMBDA acc, c : ExecuteNext(acc, hit, field), [p |-> p, i |-> 1], p.conds).p

-----------------------------------------------------------------------------
(* Saving and loading *)
(* What is written: the common fields, then those of the class. *)
WrittenBase(c) == [type |-> c.type, id |-> c.id, ticks |-> c.ticks, sub |-> c.sub]
WrittenAttributesUnset(c) == [val |-> 0, pct |-> c.pct]      \* a variant that writes the percentage
WrittenAttributes(c) == [val |-> c.val, pct |-> 0]
WrittenRegeneration(c) == [val |-> c.val, per |-> c.per]
WrittenDamage(c) == [delayed |-> c.delayed, period |-> c.period, list |-> c.list]
WrittenSpeed(c) == [val |-> c.val]
WrittenOutfit(c) == [val |-> c.val]
WrittenLight(c) == [val |-> c.val, cnt |-> c.cnt, per |-> c.per]

Serialize(c) ==
    WrittenBase(c) @@ CASE c.type = "ATTRIBUTES"   -> WrittenAttributes(c)
                        [] c.type = "REGENERATION" -> WrittenRegeneration(c)
                        [] c.type \in DamageTypes  -> WrittenDamage(c)
                        [] c.type \in SpeedTypes   -> WrittenSpeed(c)
                        [] c.type = "OUTFIT"       -> WrittenOutfit(c)
                        [] c.type = "LIGHT"        -> WrittenLight(c)
                        [] OTHER                   -> << >>

(* createCondition from the stream, then unserializeProp for what follows. *)
ReadCommon(w) == CreateCondition(w.type, w.id, w.sub, w.ticks)
ReadAttributes(c, w) == [c EXCEPT !.val = w.val, !.pct = w.pct]
ReadRegeneration(c, w) == [c EXCEPT !.val = w.val, !.per = w.per]
ReadDamage(c, w) ==
    FoldLeft(LAMBDA d, r : SetTicks([d EXCEPT !.list = Append(@, r)], d.ticks + r.interval),
             [c EXCEPT !.delayed = w.delayed, !.period = w.period], w.list)
ReadSpeed(c, w) == [c EXCEPT !.val = w.val]
ReadOutfit(c, w) == [c EXCEPT !.val = w.val]
ReadLight(c, w) == [c EXCEPT !.val = w.val, !.cnt = w.cnt, !.per = w.per]

Unserialize(w) ==
    CASE w.type = "ATTRIBUTES"   -> ReadAttributes(ReadCommon(w), w)
      [] w.type = "REGENERATION" -> ReadRegeneration(ReadCommon(w), w)
      [] w.type \in DamageTypes  -> ReadDamage(ReadCommon(w), w)
      [] w.type \in SpeedTypes   -> ReadSpeed(ReadCommon(w), w)
      [] w.type = "OUTFIT"       -> ReadOutfit(ReadCommon(w), w)
      [] w.type = "LIGHT"        -> ReadLight(ReadCommon(w), w)
      [] OTHER                   -> ReadCommon(w)

(* storedConditionList.push_front: they come back in the opposite order. *)
Stored(saved) == Reverse([i \in DOMAIN saved |-> Unserialize(saved[i])])

NoPlayer == [conds |-> << >>, speed |-> 0, stat |-> 0, hidden |-> FALSE, outfit |-> 0, light |-> 0, locked |-> FALSE,
             hp |-> CondMaxHp, base |-> Head(CondBases), walk |-> 0, later |-> {}, protected |-> FALSE, online |-> TRUE]

CondInit == cNow = 1 /\ cGroup \in CondGroups /\ pl = NoPlayer /\ cSaved = << >> /\ cOps = CondMaxOps

-----------------------------------------------------------------------------
(* Actions *)
Gain(c, amount, hit) ==
    /\ pl.online /\ cOps > 0 /\ cOps' = cOps - 1
    /\ c.type \in DamageTypes => amount \in c.lo..c.hi
    /\ c.type \notin DamageTypes => amount = 0 /\ hit = "hurt"
    /\ pl' = AddCondition(IF c.type = "INFIGHT" THEN [pl EXCEPT !.locked = TRUE] ELSE pl, c, FALSE, amount, hit)
    /\ UNCHANGED <<cNow, cGroup, cSaved>>

(* An item is taken off (id is its slot), or a spell cures. *)
Unequip(c) ==
    /\ pl.online /\ c.id > 0
    /\ pl' = RemoveConditionId(pl, c.type, c.id)
    /\ UNCHANGED <<cNow, cGroup, cSaved, cOps>>

Cure(c) ==
    /\ pl.online /\ c.id <= 0
    /\ pl' = RemoveCondition(pl, c.type, FALSE)
    /\ UNCHANGED <<cNow, cGroup, cSaved, cOps>>

(* removeCombatCondition with Player::onCombatRemoveCondition; busy: ~canDoAction. *)
CombatRemove(t, busy) ==
    /\ pl.online
    /\ \E i \in DOMAIN pl.conds :
         /\ pl.conds[i].type = t /\ pl.conds[i].id <= 0
         /\ pl' = IF busy THEN [pl EXCEPT !.conds[i] = SetTicks(@, 1)]
                  ELSE RemoveSelected(pl, LAMBDA c : c = pl.conds[i], FALSE)
    /\ UNCHANGED <<cNow, cGroup, cSaved, cOps>>

(* The think event of this instant, or none when it is late; then time passes. *)
Think(hit, field) ==
    /\ cNow < CondMaxNow
    /\ cNow' = cNow + 1
    /\ pl' = IF pl.online THEN ExecuteConditions(pl, hit, field) ELSE pl
    /\ UNCHANGED <<cGroup, cSaved, cOps>>

LateThink == cNow < CondMaxNow /\ cNow' = cNow + 1 /\ UNCHANGED <<cGroup, pl, cSaved, cOps>>

(* The scheduler's tasks; forceAddCondition finds no creature once it is gone. *)
Forced(e, amount, hit) ==
    /\ e \in pl.later /\ e.at <= cNow
    /\ pl' = LET p == [pl EXCEPT !.later = @ \ {e}]
             IN  IF ~pl.online THEN p
                 ELSE IF e.op = "add" THEN AddCondition(p, e.c, TRUE, amount, hit)
                 ELSE RemoveCondition(p, e.c.type, TRUE)
    /\ UNCHANGED <<cNow, cGroup, cSaved, cOps>>

Step == pl.online /\ WalkDelay(pl) <= 0 /\ pl' = [pl EXCEPT !.walk = cNow + 2] /\ UNCHANGED <<cNow, cGroup, cSaved, cOps>>

Advance ==
    /\ pl.online /\ pl.base # Last(CondBases)
    /\ pl' = [pl EXCEPT !.base = Last(CondBases)]
    /\ UNCHANGED <<cNow, cGroup, cSaved, cOps>>

(* Player::death: what would be saved ends. *)
Death ==
    /\ pl.online /\ pl.hp = 0
    /\ pl' = [FoldLeft(Erase, pl, SelectSeq(pl.conds, IsPersistent)) EXCEPT !.hp = CondMaxHp]
    /\ UNCHANGED <<cNow, cGroup, cSaved, cOps>>

Logout ==
    /\ pl.online /\ cOps > 0 /\ cOps' = cOps - 1
    /\ cSaved' = LET kept == SelectSeq(pl.conds, IsPersistent) IN [i \in DOMAIN kept |-> Serialize(kept[i])]
    /\ pl' = [NoPlayer EXCEPT !.online = FALSE, !.hp = pl.hp, !.base = pl.base]
    /\ UNCHANGED <<cNow, cGroup>>

Login(hit) ==
    /\ ~pl.online
    /\ pl' = FoldLeft(LAMBDA p, c : AddCondition(p, c, FALSE, 0, hit), [pl EXCEPT !.online = TRUE], Stored(cSaved))
    /\ cSaved' = << >>
    /\ UNCHANGED <<cNow, cGroup, cOps>>

CondNext ==
    \/ \E c \in cGroup, hit \in Outcomes, amount \in 0..4 : Gain(c, amount, hit)
    \/ \E c \in cGroup : Unequip(c) \/ Cure(c)
    \/ \E c \in cGroup, busy \in BOOLEAN : CombatRemove(c.type, busy)
    \/ \E hit \in Outcomes, field \in {"none", "same", "other"} : Think(hit, field)
    \/ LateThink
    \/ \E e \in pl.later, hit \in Outcomes : Forced(e, 0, hit)
    \/ Step \/ Advance \/ Death \/ Logout
    \/ \E hit \in Outcomes : Login(hit)

CondSpec == CondInit /\ [][CondNext]_cVars

-----------------------------------------------------------------------------
(* Properties *)
Total(p, types) == FoldLeft(LAMBDA s, c : s + (IF c.type \in types THEN c.val ELSE 0), 0, p.conds)

OneOfAKind == \A i, j \in DOMAIN pl.conds :
    <<pl.conds[i].type, pl.conds[i].id, pl.conds[i].sub>> = <<pl.conds[j].type, pl.conds[j].id, pl.conds[j].sub>> => i = j

(* The creature differs from its normal self by exactly what the conditions   *)
(* in its list did: speed and skill are off by the sum of their deltas, it is *)
(* hidden as long as one of them hides it, and its outfit and light are the   *)
(* normal ones when no condition changes them, through merges, percentages    *)
(* of a base that grows, deaths and logins.                                   *)
EffectsAgree ==
    /\ OneOfAKind
    /\ pl.speed = Total(pl, SpeedTypes)
    /\ pl.stat = Total(pl, {"ATTRIBUTES"})
    /\ pl.hidden = InList(pl, "INVISIBLE")
    /\ ~InList(pl, "OUTFIT") => pl.outfit = 0
    /\ ~InList(pl, "LIGHT") => pl.light = 0

(* After a login each condition is one that was saved, with the strength it    *)
(* had, though a percentage was of another base. All of them are there but for *)
(* haste and paralysis, which displace each other as they come back in the     *)
(* opposite order: the one first in the list, which a player in a step may have*)
(* been about to lose, stays, and never both. A login adds no damage: what it  *)
(* takes at once and what is left were due before.                             *)
RelogKeeps ==
    [][~pl.online /\ pl'.online =>
         LET Same(w, c) == /\ <<c.type, c.id, c.sub>> = <<w.type, w.id, w.sub>>
                           /\ "val" \in DOMAIN w => c.val = w.val
                           /\ w.type \notin DamageTypes => c.ticks = w.ticks
             Back(i)    == \E j \in DOMAIN pl'.conds : Same(cSaved[i], pl'.conds[j])
             Of(types)  == {i \in DOMAIN cSaved : cSaved[i].type \in types}
             moves      == Of(SpeedTypes)
             Running(t) == \E j \in DOMAIN pl'.conds : pl'.conds[j].type = t /\ pl'.conds[j].ticks > 0
             Due(conds) == MapThenFoldSet(+, 0, LAMBDA i : TotalDamage(conds[i]), LAMBDA S : CHOOSE x \in S : TRUE,
                                          {i \in DOMAIN conds : conds[i].type \in DamageTypes /\ conds[i].list # << >>})
         IN  /\ \A j \in DOMAIN pl'.conds : \E i \in DOMAIN cSaved : Same(cSaved[i], pl'.conds[j])
             /\ \A i \in DOMAIN cSaved \ (moves \cup Of(DamageTypes)) : Back(i)
             /\ moves # {} => Back(Min(moves))
             /\ Of({"HASTE"}) = {} \/ Of({"PARALYZE"}) = {} => \A i \in moves : Back(i)
             /\ ~(Running("HASTE") /\ Running("PARALYZE"))
             /\ (\A i \in Of(DamageTypes) : cSaved[i].period = 0) => pl.hp - pl'.hp + Due(pl'.conds) <= Due(cSaved)]_cVars
=============================================================================
