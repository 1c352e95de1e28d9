------------------------------ MODULE Progress ------------------------------
(* A player's level, skills and magic level (player.cpp, vocation.cpp) and    *)
(* the row that keeps them (iologindata.cpp). Tries, mana and experience are  *)
(* counted with the formulas of the code, over small numbers; one skill       *)
(* stands for the seven. Scripts that scale a gain are part of the amounts.   *)
EXTENDS Integers, Sequences, FiniteSets, SequencesExt

CONSTANTS Rows,          \* the rows of the players that log in, see LoadProgress
          ExpGains, TryGains, ManaGains,   \* amounts one call brings
          LosePercent,   \* ConfigManager::DEATH_LOSE_PERCENT, -1 for the formula
          ProgressSteps  \* bound: calls in a behaviour

VARIABLES pr,            \* the Player
          prSteps        \* calls left

prVars == <<pr, prSteps>>

Rounds == <<1, 2, 3, 4, 5, 6, 7, 8, 9>>     \* bound: levels gained or lost in one call

-----------------------------------------------------------------------------
(* The requirements. A multiplier is a pair: numerator, denominator.          *)
Scaled(base, m, e) == IF e >= 0 THEN (base * m[1]^e) \div m[2]^e ELSE (base * m[2]^(-e)) \div m[1]^(-e)

ReqSkillTries(v, level) == Scaled(50, v.skillMult, level - 11)
ReqMana(v, mag) ==
    LET r == Scaled(400, v.manaMult, mag - 1)
    IN  IF r % 20 < 10 THEN r - (r % 20) ELSE r - ((r % 20) + 20)
ExpForLevel(level) == LET l == level - 1 IN (50 * l * l * l - 150 * l * l + 400 * l) \div 3

PercentLevel(n, next) ==
    IF next = 0 THEN 0 ELSE LET r == ((n * 100) \div next) % 256 IN IF r > 100 THEN 0 ELSE r

LevelPercent(level, exp) ==
    LET cur == ExpForLevel(level)  next == ExpForLevel(level + 1)
    IN  IF next > cur THEN PercentLevel(exp - cur, next - cur) ELSE 0

-----------------------------------------------------------------------------
(* Gaining *)

(* The loop of addSkillAdvance, addManaSpent and addOfflineTrainingTries:      *)
(* full says that the last requirement was met and the rest is forgotten.      *)
Advance(level, tries, n, Req(_)) ==
    LET Round(s, i) ==
            IF s.full \/ s.tries + s.n < Req(s.level + 1) THEN s
            ELSE [level |-> s.level + 1, tries |-> 0,
                  n |-> s.n - (Req(s.level + 1) - s.tries), full |-> Req(s.level + 1) >= Req(s.level + 2)]
        e == FoldLeft(Round, [level |-> level, tries |-> tries, n |-> n, full |-> FALSE], Rounds)
    IN  [level |-> e.level, tries |-> IF e.full THEN 0 ELSE e.tries + e.n, full |-> e.full]

AddSkillAdvance(p, n) ==
    LET Req(l) == ReqSkillTries(p.voc, l)
        a == Advance(p.skill, p.tries, n, Req)
    IN  IF Req(p.skill) >= Req(p.skill + 1) \/ n = 0 THEN p
        ELSE [p EXCEPT !.skill = a.level, !.tries = a.tries,
                       !.skillPct = IF a.full THEN 0 ELSE PercentLevel(a.tries, Req(a.level + 1))]

(* a mage at the last magic level keeps the old percentage, unless offline *)
AddMana(p, n, offline) ==
    LET Req(l) == ReqMana(p.voc, l)
        a == Advance(p.mag, p.spent, n, Req)
    IN  IF Req(p.mag) >= Req(p.mag + 1) \/ n = 0 THEN p
        ELSE [p EXCEPT !.mag = a.level, !.spent = a.tries,
                       !.magPct = IF ~a.full THEN PercentLevel(a.tries, Req(a.level + 1))
                                  ELSE IF offline THEN 0 ELSE @]
AddManaSpent(p, n) == AddMana(p, n, FALSE)

AddOfflineTrainingTries(p, magic, n) == IF magic THEN AddMana(p, n, TRUE) ELSE AddSkillAdvance(p, n)

LevelUp(p) == [p EXCEPT !.level = @ + 1, !.hpMax = @ + p.voc.hp, !.hp = @ + p.voc.hp,
                        !.mpMax = @ + p.voc.mp, !.mp = @ + p.voc.mp, !.cap = @ + p.voc.cap]
LevelDown(p) == [p EXCEPT !.level = @ - 1, !.hpMax = IF @ < p.voc.hp THEN 0 ELSE @ - p.voc.hp,
                          !.mpMax = IF @ < p.voc.mp THEN 0 ELSE @ - p.voc.mp,
                          !.cap = IF @ < p.voc.cap THEN 0 ELSE @ - p.voc.cap]

AddExperience(p, n) ==
    LET Round(q, i) == IF q.exp >= ExpForLevel(q.level + 1) THEN LevelUp(q) ELSE q
        q1 == FoldLeft(Round, [p EXCEPT !.exp = @ + n], Rounds)
    IN  IF n = 0 THEN p ELSE [q1 EXCEPT !.levelPct = LevelPercent(q1.level, q1.exp)]

-----------------------------------------------------------------------------
(* Losing *)
DropLevels(p) ==
    LET Round(q, i) == IF q.level > 1 /\ q.exp < ExpForLevel(q.level) THEN LevelDown(q) ELSE q
        q1 == FoldLeft(Round, p, Rounds)
    IN  [q1 EXCEPT !.levelPct = LevelPercent(q1.level, q1.exp)]

RemoveExperience(p, n) ==
    LET q == DropLevels([p EXCEPT !.exp = IF @ < n THEN 0 ELSE @ - n])
    IN  IF p.exp = 0 \/ n = 0 THEN p
        ELSE IF q.level = p.level THEN q ELSE [q EXCEPT !.hp = q.hpMax, !.mp = q.mpMax]

IsPromoted(p) == p.promoted /\ ~p.voc.none

(* getLostPercent as a fraction, below level 25; blessings shorten it. *)
LostPercent(p) ==
    LET less == LosePercent - (IF IsPromoted(p) THEN 3 ELSE 0) - p.bless
        d == IF IsPromoted(p) THEN <<7, 100>> ELSE <<10, 100>>
    IN  IF LosePercent # -1 THEN <<IF less < 0 THEN 0 ELSE less, 100>> ELSE <<d[1] * 23^p.bless, d[2] * 25^p.bless>>
LostOf(p, n) == (n * LostPercent(p)[1]) \div LostPercent(p)[2]

SumMana(p) == FoldLeft(LAMBDA n, i : n + ReqMana(p.voc, i), p.spent, [i \in 1..p.mag |-> i])
SumSkillTries(p) == FoldLeft(LAMBDA n, i : n + ReqSkillTries(p.voc, 10 + i), p.tries, [i \in 1..(p.skill - 10) |-> i])

(* a variant that gives up a level already when the tries are just used up *)
LoseMagicEager(p) ==
    LET Round(s, i) == IF s.n >= s.spent /\ s.n > 0 /\ s.mag > 0
                       THEN [mag |-> s.mag - 1, spent |-> ReqMana(p.voc, s.mag), n |-> s.n - s.spent] ELSE s
        e == FoldLeft(Round, [mag |-> p.mag, spent |-> p.spent, n |-> LostOf(p, SumMana(p))], Rounds)
        next == ReqMana(p.voc, e.mag + 1)
    IN  [p EXCEPT !.mag = e.mag, !.spent = e.spent - e.n, !.magPct = PercentLevel(e.spent - e.n, next)]
LoseMagic(p) ==
    LET Round(s, i) == IF s.n > s.spent /\ s.mag > 0
                       THEN [mag |-> s.mag - 1, spent |-> ReqMana(p.voc, s.mag), n |-> s.n - s.spent] ELSE s
        e == FoldLeft(Round, [mag |-> p.mag, spent |-> p.spent, n |-> LostOf(p, SumMana(p))], Rounds)
        next == ReqMana(p.voc, e.mag + 1)
    IN  [p EXCEPT !.mag = e.mag, !.spent = e.spent - e.n,
                  !.magPct = IF next > ReqMana(p.voc, e.mag) THEN PercentLevel(e.spent - e.n, next) ELSE 0]

(* the percentage shown afterwards is taken of the level's own requirement *)
LoseSkill(p) ==
    LET Round(s, i) == IF s.n <= s.tries THEN s
                       ELSE IF s.skill <= 10 THEN [skill |-> 10, tries |-> 0, n |-> 0]
                       ELSE [skill |-> s.skill - 1, tries |-> ReqSkillTries(p.voc, s.skill), n |-> s.n - s.tries]
        e == FoldLeft(Round, [skill |-> p.skill, tries |-> p.tries, n |-> LostOf(p, SumSkillTries(p))], Rounds)
    IN  [p EXCEPT !.skill = e.skill, !.tries = e.tries - e.n,
                  !.skillPct = PercentLevel(e.tries - e.n, ReqSkillTries(p.voc, e.skill))]

LoseLevels(p) ==
    LET n == LostOf(p, p.exp)
    IN  IF n = 0 THEN p ELSE DropLevels([p EXCEPT !.exp = IF p.voc.none \/ p.level > 7 THEN @ - n ELSE @])

(* Player::death: every share is taken of the state before. The loss depends  *)
(* on level and blessings, which only the last steps change.                  *)
Death(p, byPlayer) ==
    IF ~p.skillLoss THEN [p EXCEPT !.skillLoss = TRUE, !.hp = p.hpMax]
    ELSE LET q == LoseLevels(LoseSkill(LoseMagic(p)))
         IN  [q EXCEPT !.pvpBless = @ /\ ~byPlayer, !.bless = IF p.pvpBless /\ byPlayer THEN @ ELSE 0,
                       !.hp = q.hpMax, !.mp = q.mpMax]

-----------------------------------------------------------------------------
(* The row of the player *)
SaveProgress(p) == [p EXCEPT !.cap = @ \div 100, !.levelPct = 0, !.magPct = 0, !.skillPct = 0, !.skillLoss = TRUE]

LoadPlayerStrict(row) == [row EXCEPT !.spent = IF @ > ReqMana(row.voc, row.mag) THEN 0 ELSE @]   \* a variant
LoadedMana(row) == [row EXCEPT !.spent = IF @ > ReqMana(row.voc, row.mag + 1) THEN 0 ELSE @]
LoadProgress(row) ==
    LET r   == LoadedMana(row)
        lvl == IF r.level < 1 THEN 1 ELSE r.level
        exp == IF r.exp < ExpForLevel(lvl) \/ r.exp > ExpForLevel(lvl + 1) THEN ExpForLevel(lvl) ELSE r.exp
        t   == IF r.tries > ReqSkillTries(r.voc, r.skill + 1) THEN 0 ELSE r.tries
    IN  [r EXCEPT !.level = lvl, !.exp = exp, !.levelPct = LevelPercent(lvl, exp), !.cap = @ * 100,
                  !.magPct = PercentLevel(r.spent, ReqMana(r.voc, r.mag + 1)),
                  !.tries = t, !.skillPct = PercentLevel(t, ReqSkillTries(r.voc, r.skill + 1))]

-----------------------------------------------------------------------------
ProgressInit == pr \in {LoadProgress(r) : r \in Rows} /\ prSteps = ProgressSteps

Progressed(p) == prSteps > 0 /\ prSteps' = prSteps - 1 /\ pr' = p

GainExperience(n) == Progressed(AddExperience(pr, n))
LoseExperience(n) == Progressed(RemoveExperience(pr, n))
Train(n) == Progressed(AddSkillAdvance(pr, n))
SpendMana(n) == Progressed(AddManaSpent(pr, n))
TrainOffline(magic, n) == n > 0 /\ Progressed(AddOfflineTrainingTries(pr, magic, n))
Die(byPlayer) == Progressed(Death(pr, byPlayer))
Relog == Progressed(LoadProgress(SaveProgress(pr)))

(* What scripts do: promotion keeps the multipliers, blessings are sold.      *)
Promote == ~pr.promoted /\ Progressed([pr EXCEPT !.promoted = TRUE])
Bless(twist) == Progressed([pr EXCEPT !.bless = IF @ < 5 THEN @ + 1 ELSE @, !.pvpBless = @ \/ twist])
SpareLoss == Progressed([pr EXCEPT !.skillLoss = FALSE])
Wounded == Progressed([pr EXCEPT !.hp = 1, !.mp = 0])

ProgressNext ==
    \/ \E n \in ExpGains : GainExperience(n) \/ LoseExperience(n)
    \/ \E n \in TryGains : Train(n)
    \/ \E n \in ManaGains : SpendMana(n)
    \/ \E magic \in BOOLEAN : \E n \in TryGains \cup ManaGains : TrainOffline(magic, n)
    \/ \E byPlayer \in BOOLEAN : Die(byPlayer)
    \/ Relog \/ Promote \/ SpareLoss \/ Wounded \/ \E twist \in BOOLEAN : Bless(twist)

ProgressSpec == ProgressInit /\ [][ProgressNext]_prVars

-----------------------------------------------------------------------------
(* Level and experience, magic level and mana, skill and tries agree after     *)
(* any sequence of gains, losses, deaths and logins: what is collected towards *)
(* the next level never reaches it, the percentages are those of the numbers,  *)
(* and the maxima are those a player of this level has, however the level was  *)
(* reached (addExperience, removeExperience and the three loops of death).     *)
ProgressAgrees ==
    /\ ExpForLevel(pr.level) <= pr.exp /\ pr.exp < ExpForLevel(pr.level + 1)
    /\ pr.spent < ReqMana(pr.voc, pr.mag + 1) /\ pr.tries < ReqSkillTries(pr.voc, pr.skill + 1)
    /\ pr.levelPct = LevelPercent(pr.level, pr.exp) /\ pr.levelPct < 100
    /\ pr.magPct = PercentLevel(pr.spent, ReqMana(pr.voc, pr.mag + 1)) /\ pr.magPct < 100
    /\ pr.hpMax = pr.voc.hp0 + (pr.level - 1) * pr.voc.hp /\ pr.mpMax = (pr.level - 1) * pr.voc.mp
    /\ pr.cap = pr.voc.cap0 + (pr.level - 1) * pr.voc.cap
    /\ pr.hp <= pr.hpMax /\ pr.mp <= pr.mpMax

(* Nothing is lost but by dying: mana and tries spent since the beginning grow *)
(* by exactly what was spent, over any number of levels; a death takes exactly *)
(* the share getLostPercent gives of each, and a login takes nothing.          *)
ProgressAddsUp ==
    [][/\ \A n \in ManaGains : SpendMana(n) => SumMana(pr') = SumMana(pr) + n
       /\ \A n \in TryGains : Train(n) => SumSkillTries(pr') = SumSkillTries(pr) + n
       /\ \A b \in BOOLEAN : Die(b) /\ pr.skillLoss =>
             /\ SumMana(pr') = SumMana(pr) - LostOf(pr, SumMana(pr))
             /\ SumSkillTries(pr') = SumSkillTries(pr) - LostOf(pr, SumSkillTries(pr))
       /\ Relog => [pr' EXCEPT !.skillPct = pr.skillPct, !.skillLoss = pr.skillLoss] = pr]_prVars
=============================================================================
