-------------------------------- MODULE MCLogin --------------------------------
(* Sessions that ask for one character, and a waiting list for a server that  *)
(* has room for one player.  They share no state (whether the list lets a     *)
(* client in is a free choice of the sessions), so each is explored by itself: *)
(* part says which.                                                           *)
EXTENDS GameSession, WaitingList

CONSTANTS s1, s2, s3, n1, c1, c2, c3, c4

VARIABLE part

MCSlots == <<2, 3>>
MCTimes == <<1, 2, 3>>

Init ==
    /\ part \in {"session", "waiting"}
    /\ SessionInit
    /\ WaitingInit

Next ==
    \/ part = "session" /\ SessionNext /\ UNCHANGED <<part, waitingVars>>
    \/ part = "waiting" /\ WaitingNext /\ UNCHANGED <<part, sessionVars>>

\* The fairness of the waiting list, whose fair actions are disabled at first.
Spec == Init /\ [][Next]_<<part, sessionVars, waitingVars>> /\ WaitingFairness
===============================================================================
