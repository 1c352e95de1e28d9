--------------------------------- MODULE Raids ---------------------------------
(***************************************************************************)
(* Raids (src/src/raids.cpp, with the /raid command and the reload command *)
(* of src/src/commands.cpp).                                               *)
(*                                                                         *)
(* A raid is a list of events that are executed one after the other, each  *)
(* by a scheduler event that the one before it adds; the raid notes the id *)
(* of that event to stop it by.  One raid is meant to run at a time:       *)
(* running points at it.  Two things break that at a reload.  A raid that  *)
(* is not repeated leaves the list of raids when it starts, and what is    *)
(* not on the list is neither stopped nor deleted.  And the command does   *)
(* not note the id of the event it adds, so that the raid is deleted with  *)
(* that event scheduled: what then runs either finds the raid's memory as  *)
(* it was, as here, or ends the process, which is the end of a behaviour.  *)
(***************************************************************************)
EXTENDS Naturals, FiniteSets

CONSTANTS
    RaidName,  \* the raids of raids.xml
    Length,    \* how many events each has
    Repeat,    \* the raids that can be repeated
    Reloads    \* bound: how often the raids are reloaded

NoRaid == "None"

\* A Raid object: each load makes one for each name.
Raid == RaidName \X (0..Reloads)
Loaded(k) == {<<n, k>> : n \in RaidName}

ASSUME RaidsAssumption ==
    /\ NoRaid \notin Raid
    /\ Length \in [RaidName -> Nat]
    /\ Repeat \subseteq RaidName
    /\ Reloads \in Nat

VARIABLES
    raidList,   \* raids that can be started
    running,    \* Raids::running
    nextEvent,  \* Raid::nextEvent
    scheduled,  \* calls of executeRaidEvent to come: the raid and the event's id
    noted,      \* Raid::nextEventEvent, 0 when no event to come has that id
    marginOver, \* whether lastRaidEnd is long enough ago
    reloads,    \* reloads so far
    forced,     \* ghost: raids whose event to come was added by the command
    left        \* ghost: reloads that have left the running raid going

raidsVars == <<raidList, running, nextEvent, scheduled, noted, marginOver, reloads, forced, left>>

RaidsInit ==
    /\ raidList = Loaded(0)
    /\ running = NoRaid
    /\ nextEvent = [r \in Raid |-> 0]
    /\ scheduled = {}
    /\ noted = [r \in Raid |-> 0]
    /\ marginOver = FALSE
    /\ reloads = 0
    /\ forced = {}
    /\ left = 0

\* getNextRaidEvent
HasNext(r, n) == n < Length[r[1]]

\* An id that no event to come of this raid has
FreshId(r) == CHOOSE k \in 1..Cardinality(scheduled) + 1 : <<r, k>> \notin scheduled

\* nextEventEvent = g_scheduler.addEvent(...)
Noted(r, k) == noted' = [noted EXCEPT ![r] = k]

\* startRaid: nothing happens if the raid has no event.
StartRaid(r) ==
    IF HasNext(r, nextEvent[r])
    THEN scheduled' = scheduled \cup {<<r, FreshId(r)>>} /\ Noted(r, FreshId(r))
    ELSE UNCHANGED <<scheduled, noted>>

\* checkRaids, each minute
CheckRaids(r) ==
    /\ running = NoRaid
    /\ r \in raidList
    /\ marginOver
    /\ running' = r
    /\ StartRaid(r)
    /\ raidList' = IF r[1] \in Repeat THEN raidList ELSE raidList \ {r}
    /\ UNCHANGED <<nextEvent, marginOver, reloads, forced, left>>

\* Mutant of Idle: the command starts a raid at any time.
IdleAlways == TRUE

\* The command's test: no raid is running.
Idle == running = NoRaid

\* Commands::forceRaid: what addEvent returns is not stored.
ForceRaid(r) ==
    /\ Idle
    /\ r \in raidList
    /\ running' = r
    /\ IF HasNext(r, nextEvent[r])
       THEN scheduled' = scheduled \cup {<<r, FreshId(r)>>} /\ forced' = forced \cup {r}
       ELSE UNCHANGED <<scheduled, forced>>
    /\ UNCHANGED <<raidList, nextEvent, noted, marginOver, reloads, left>>

\* resetRaid, as far as the other raids are concerned
ResetRaid == running' = NoRaid /\ marginOver' = FALSE

\* executeRaidEvent: the event may fail, which ends the raid.  The event that
\* follows takes the place of the one that ran.
ExecuteRaidEvent(r, k) ==
    /\ <<r, k>> \in scheduled
    /\ \/ /\ HasNext(r, nextEvent[r] + 1)
          /\ nextEvent' = [nextEvent EXCEPT ![r] = @ + 1]
          /\ Noted(r, k)
          /\ UNCHANGED <<scheduled, running, marginOver>>
       \/ /\ scheduled' = scheduled \ {<<r, k>>}
          /\ noted' = [noted EXCEPT ![r] = IF @ = k THEN 0 ELSE @]
          /\ nextEvent' = [nextEvent EXCEPT ![r] = 0]
          /\ ResetRaid
    /\ forced' = forced \ {r}
    /\ UNCHANGED <<raidList, reloads, left>>

\* The raid that running points at has an event to come.
Executing == \E e \in scheduled : e[1] = running

\* A reload does not find this event by the list and the id noted in its raid.
OutOfReach(e) == e[1] \notin raidList \/ noted[e[1]] # e[2]

\* Raid::stopEvents of each raid on the list
Stopped == {<<r, noted[r]>> : r \in raidList}

\* Raids::reload and startup: the raids of the list are stopped and deleted, all
\* raids are loaded again, and other raids go on.
Reload ==
    /\ reloads < Reloads
    /\ reloads' = reloads + 1
    /\ scheduled' = scheduled \ Stopped
    /\ noted' = [r \in Raid |-> IF r \in raidList THEN 0 ELSE noted[r]]
    /\ raidList' = Loaded(reloads + 1)
    /\ running' = NoRaid
    /\ marginOver' = FALSE
    /\ left' = left + IF \E e \in scheduled : e[1] = running /\ OutOfReach(e) THEN 1 ELSE 0
    /\ UNCHANGED <<nextEvent, forced>>

\* The margin after the last raid is over.
Wait ==
    /\ ~marginOver
    /\ marginOver' = TRUE
    /\ UNCHANGED <<raidList, running, nextEvent, scheduled, noted, reloads, forced, left>>

RaidsNext ==
    \/ \E r \in Raid : CheckRaids(r)
    \/ \E r \in Raid : ForceRaid(r)
    \/ \E e \in scheduled : ExecuteRaidEvent(e[1], e[2])
    \/ Reload
    \/ Wait

RaidsSpec == RaidsInit /\ [][RaidsNext]_raidsVars
-------------------------------------------------------------------------------
RaidsTypeOK ==
    /\ raidList \subseteq Raid
    /\ running \in Raid \cup {NoRaid}
    /\ nextEvent \in [Raid -> Nat]
    /\ scheduled \subseteq Raid \X (Nat \ {0})
    /\ noted \in [Raid -> Nat]
    /\ marginOver \in BOOLEAN
    /\ reloads \in 0..Reloads
    /\ forced \subseteq Raid
    /\ left \in Nat

\* "Another raid is already being executed" as long as one is: one chain of events
\* goes on, and one more at most for each reload that came upon a raid it could not
\* stop, whichever raids those chains belong to and whichever of them resets running
\* for the others (forceRaid, checkRaids, resetRaid, Raids::clear).
FewChains == Cardinality(scheduled) <= left + IF Executing THEN 1 ELSE 0

\* Until then a reload stops every event of a raid that it deletes, but the one
\* that the command added (Raid::stopEvents, Raids::clear).
Stoppable ==
    left = 0 =>
        \A e \in scheduled : e[1] \in raidList \ forced => noted[e[1]] = e[2]

\* Raids run one at a time: neither a command nor the minutely check starts one
\* beside another, but for those that a reload could not stop, and what a reload
\* deletes it stops (raids.cpp, Commands::forceRaid).
OneAtATime == FewChains /\ Stoppable
===============================================================================
