------------------------------ MODULE WaitingList ------------------------------
(***************************************************************************)
(* The waiting list of a full server (src/src/waitlist.cpp), as            *)
(* ProtocolGame::login uses it.  Times are in seconds and relative: an     *)
(* entry keeps the seconds until it times out.                             *)
(*                                                                         *)
(* An entry found in priorityWaitList is erased through waitList, which    *)
(* the C++ standard leaves undefined.  With the lists of libstdc++ the     *)
(* entry leaves the right list and the wrong size is decremented, while    *)
(* empty() looks at the entries: drift is what the sizes are off by.       *)
(***************************************************************************)
EXTENDS Integers, Sequences, FiniteSets, SequencesExt

CONSTANTS
    Clients,      \* clients the waiting list applies to
    Premium,      \* those with a premium account
    MaxPlayers,   \* ConfigManager::MAX_PLAYERS
    Slots,        \* the slots below which getTime is ...
    Times,        \* ... the respective time, and the time beyond them
    Grace,        \* how much longer a place is kept
    MaxDrift      \* bound: beyond it getTime no longer tells sizes apart

ASSUME WaitingListAssumption ==
    /\ Premium \subseteq Clients
    /\ MaxPlayers \in Nat \ {0}
    /\ Slots \in Seq(Nat) /\ Times \in Seq(Nat)
    /\ Len(Times) = Len(Slots) + 1
    /\ Grace \in Nat \ {0}
    /\ MaxDrift \in Nat
    /\ \A i \in DOMAIN Slots : MaxDrift + 1 >= Slots[i]

VARIABLES
    online,            \* clients in the game
    priorityWaitList,  \* sequences of entries
    waitList,
    drift,             \* priorityWaitList.size() minus its number of entries
    retry              \* seconds after which a waiting client tries again

waitingVars == <<online, priorityWaitList, waitList, drift, retry>>

NotWaiting == -1

WaitingInit ==
    /\ online = {}
    /\ priorityWaitList = <<>>
    /\ waitList = <<>>
    /\ drift = 0
    /\ retry = [c \in Clients |-> NotWaiting]

Entry(c, t) == [guid |-> c, timeout |-> t]

getTime(slot) ==
    LET later == {i \in DOMAIN Slots : slot < Slots[i]}
    IN  Times[IF later = {} THEN Len(Times) ELSE CHOOSE i \in later : \A j \in later : i <= j]

getTimeout(slot) == getTime(slot) + Grace
-------------------------------------------------------------------------------
\* cleanupList
Cleaned(list) == SelectSeq(list, LAMBDA e : e.timeout > 0)

\* findClient: the client's slot in both lists, 0 if he has none
Slot(c, list) ==
    IF \E i \in DOMAIN list : list[i].guid = c
    THEN CHOOSE i \in DOMAIN list : list[i].guid = c
    ELSE 0

\* Mutant of MayEnter: one place too few is given away.
MayEnterLate(slot) == Cardinality(online) + slot < MaxPlayers

\* A waiting client may log in now.
MayEnter(slot) == Cardinality(online) + slot <= MaxPlayers

\* Nobody is on a list and there is room.
GoesStraightIn(prio, wait) ==
    prio = <<>> /\ wait = <<>> /\ Cardinality(online) < MaxPlayers

\* The client enters the game, unless his character cannot be loaded.
Enters(c) ==
    /\ online' \in {online, online \cup {c}}
    /\ retry' = [retry EXCEPT ![c] = NotWaiting]

\* The client's entry times out later.
KeepWaiting(list, c, slot) ==
    [i \in DOMAIN list |-> IF list[i].guid = c THEN Entry(c, getTimeout(slot)) ELSE list[i]]

\* Without client c
Without(list, c) == SelectSeq(list, LAMBDA e : e.guid # c)

\* clientLogin for a client who has an entry
LoginWaiting(c, prio, wait, slot) ==
    \/ /\ MayEnter(slot)
       /\ Enters(c)
       /\ priorityWaitList' = Without(prio, c)
       /\ waitList' = Without(wait, c)
       /\ drift' = IF Slot(c, prio) # 0 /\ drift < MaxDrift
                   THEN drift + 1 ELSE drift
    \/ /\ ~MayEnter(slot)
       /\ priorityWaitList' = KeepWaiting(prio, c, slot)
       /\ waitList' = KeepWaiting(wait, c, slot)
       /\ retry' = [retry EXCEPT ![c] = getTime(slot)]
       /\ UNCHANGED <<online, drift>>

\* clientLogin for a client who has none.  The sum of both sizes is right.
LoginLast(c, prio, wait) ==
    LET slot == IF c \in Premium THEN Len(prio) + drift ELSE Len(prio) + Len(wait)
        entry == Entry(c, getTimeout(slot + 1))
    IN  /\ priorityWaitList' = IF c \in Premium THEN Append(prio, entry) ELSE prio
        /\ waitList' = IF c \in Premium THEN wait ELSE Append(wait, entry)
        /\ retry' = [retry EXCEPT ![c] =
               getTime(Slot(c, priorityWaitList' \o waitList'))]
        /\ UNCHANGED <<online, drift>>

\* login: the waiting list lets the client in or tells him when to retry.
ClientLogin(c) ==
    LET prio == Cleaned(priorityWaitList)
        wait == Cleaned(waitList)
        slot == Slot(c, prio \o wait)
    IN  /\ c \notin online
        /\ \/ /\ GoesStraightIn(priorityWaitList, waitList)
              /\ Enters(c)
              /\ UNCHANGED <<priorityWaitList, waitList, drift>>
           \/ /\ ~GoesStraightIn(priorityWaitList, waitList)
              /\ slot # 0
              /\ LoginWaiting(c, prio, wait, slot)
           \/ /\ ~GoesStraightIn(priorityWaitList, waitList)
              /\ slot = 0
              /\ LoginLast(c, prio, wait)

WaitingLogout(c) ==
    /\ c \in online
    /\ online' = online \ {c}
    /\ UNCHANGED <<priorityWaitList, waitList, drift, retry>>

\* A waiting client does not come back.
GiveUp(c) ==
    /\ retry[c] # NotWaiting
    /\ retry' = [retry EXCEPT ![c] = NotWaiting]
    /\ UNCHANGED <<online, priorityWaitList, waitList, drift>>

Older(list) == [i \in DOMAIN list |->
    [list[i] EXCEPT !.timeout = IF @ > 0 THEN @ - 1 ELSE 0]]

\* A second passes; clients who wait retry in time.
Tick ==
    /\ \A c \in Clients : retry[c] # 0
    /\ priorityWaitList' = Older(priorityWaitList)
    /\ waitList' = Older(waitList)
    /\ retry' = [c \in Clients |-> IF retry[c] = NotWaiting THEN NotWaiting ELSE retry[c] - 1]
    /\ UNCHANGED <<online, drift>>

WaitingNext ==
    \/ \E c \in Clients : ClientLogin(c)
    \/ \E c \in Clients : WaitingLogout(c)
    \/ \E c \in Clients : GiveUp(c)
    \/ Tick

\* Time passes, clients retry and players log out some day.
WaitingFairness ==
    /\ WF_waitingVars(Tick)
    /\ \A c \in Clients : WF_waitingVars(WaitingLogout(c))
    /\ \A c \in Clients : WF_waitingVars(retry[c] = 0 /\ ClientLogin(c))

WaitingSpec == WaitingInit /\ [][WaitingNext]_waitingVars
WaitingFairSpec == WaitingSpec /\ WaitingFairness
-------------------------------------------------------------------------------
Entries(list) == \A i \in DOMAIN list : list[i].guid \in Clients /\ list[i].timeout \in Nat

WaitingTypeOK ==
    /\ online \subseteq Clients
    /\ Entries(priorityWaitList) /\ Entries(waitList)
    /\ drift \in Nat
    /\ retry \in [Clients -> Nat \cup {NotWaiting}]

\* Nobody enters while a client ahead of him has no place to go to: clients
\* ahead of him who wait, and he, find room together.
NobodyOvertakes ==
    [][\A c \in online' \ online :
         LET all == Cleaned(priorityWaitList) \o Cleaned(waitList)
             ahead == IF Slot(c, all) = 0 THEN Len(all) ELSE Slot(c, all) - 1
         IN  Cardinality(online) + ahead < MaxPlayers]_waitingVars

\* A premium client who keeps coming back in time gets in, whoever else comes.
PremiumEnters ==
    \A c \in Premium : retry[c] # NotWaiting ~> retry[c] = NotWaiting

\* The waiting list is fair in both directions.
WaitingServed == NobodyOvertakes /\ PremiumEnters
===============================================================================
