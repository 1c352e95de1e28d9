--------------------------------- MODULE Party ---------------------------------
(***************************************************************************)
(* Parties of players (src/src/party.cpp, the party handlers of            *)
(* src/src/game.cpp and the invitation list of src/src/player.cpp).        *)
(*                                                                         *)
(* A party and its players point at each other and nothing counts these    *)
(* pointers: a party is deleted by its own disband, a player when he has   *)
(* left the game.  Handlers run whole in the dispatcher thread, so each is *)
(* one step.  memberList and inviteList are sets: their order only decides *)
(* which member becomes the leader, and here any member may.  Scripts that *)
(* veto a step (eventPartyOnJoin, ...) are taken to allow it.              *)
(***************************************************************************)
EXTENDS Naturals

CONSTANTS
    Players,
    Parties   \* Party objects; one that has been deleted may be used again

NoPlayer == "NoPlayer"
NoParty == "NoParty"

ASSUME PartyAssumption ==
    /\ NoPlayer \notin Players
    /\ NoParty \notin Parties

VARIABLES
    online,           \* the players in the game
    party,            \* Player::party
    invitePartyList,  \* Player::invitePartyList
    leader,           \* Party::leader, NoPlayer if the object does not exist
    memberList,       \* Party::memberList
    inviteList,       \* Party::inviteList
    sharedExpActive,  \* Party::sharedExpActive
    sharedExpEnabled, \* Party::sharedExpEnabled
    ticksMap,         \* Party::ticksMap, the players who have an entry
    stale,            \* players whose entry is older than PZ_LOCKED
    fit               \* players whose level and position allow sharing

links == <<online, party, invitePartyList, leader, memberList, inviteList>>
shared == <<sharedExpActive, sharedExpEnabled, ticksMap, stale, fit>>
vars == <<links, shared>>

Init ==
    /\ online = {}
    /\ party = [p \in Players |-> NoParty]
    /\ invitePartyList = [p \in Players |-> {}]
    /\ leader = [P \in Parties |-> NoPlayer]
    /\ memberList = [P \in Parties |-> {}]
    /\ inviteList = [P \in Parties |-> {}]
    /\ sharedExpActive = [P \in Parties |-> FALSE]
    /\ sharedExpEnabled = [P \in Parties |-> FALSE]
    /\ ticksMap = [P \in Parties |-> {}]
    /\ stale = {}
    /\ fit = {}

Exists(P) == leader[P] # NoPlayer
-------------------------------------------------------------------------------
\* canEnableSharedExperience for a leader ldr with members mem.
CanEnable(ldr, mem, ticks, old, able) ==
    /\ mem # {}
    /\ {ldr} \cup mem \subseteq (ticks \ old) \cap able

\* Mutant of Updated: sharing, once possible, goes on.
UpdatedOnce(P, can) == sharedExpEnabled[P] \/ (sharedExpActive[P] /\ can)

\* Party::updateSharedExperience
Updated(P, can) == IF sharedExpActive[P] THEN can ELSE sharedExpEnabled[P]

\* The group of party P has changed to ldr and mem, with entries ticks: levels
\* and distances are compared anew, then sharing is updated.
Regroup(P, ldr, mem, ticks) ==
    \E able \in SUBSET ({ldr} \cup mem) :
        /\ fit' = (fit \ ({ldr} \cup mem)) \cup able
        /\ ticksMap' = [ticksMap EXCEPT ![P] = ticks]
        /\ sharedExpEnabled' = [sharedExpEnabled EXCEPT ![P] =
               Updated(P, CanEnable(ldr, mem, ticks, stale, fit'))]
        /\ UNCHANGED <<sharedExpActive, stale>>

\* The parties of D are deleted, nothing else of the sharing changes.
ForgetShared(D) ==
    /\ sharedExpActive' = [P \in Parties |-> P \notin D /\ sharedExpActive[P]]
    /\ sharedExpEnabled' = [P \in Parties |-> P \notin D /\ sharedExpEnabled[P]]
    /\ ticksMap' = [P \in Parties |-> IF P \in D THEN {} ELSE ticksMap[P]]
    /\ UNCHANGED <<stale, fit>>

\* Mutant of LosesInvitation: disband leaves the invitations with the invitees.
LosesInvitationNever(q, P, inv) == FALSE

\* disband tells each invitee to forget the party.
LosesInvitation(q, P, inv) == q \in inv[P]

\* The links when the parties of D disband and the lists of the others are mem
\* and inv, their leaders ldr; kept are the invitations players keep.
Relink(D, pty, kept, ldr, mem, inv) ==
    /\ party' = [q \in Players |->
          IF \E P \in D : q \in {ldr[P]} \cup mem[P] THEN NoParty ELSE pty[q]]
    /\ invitePartyList' = [q \in Players |->
          kept[q] \ {P \in D : LosesInvitation(q, P, inv)}]
    /\ leader' = [P \in Parties |-> IF P \in D THEN NoPlayer ELSE ldr[P]]
    /\ memberList' = [P \in Parties |-> IF P \in D THEN {} ELSE mem[P]]
    /\ inviteList' = [P \in Parties |-> IF P \in D THEN {} ELSE inv[P]]
-------------------------------------------------------------------------------
\* Player::isInviting
IsInviting(p, q) ==
    party[p] # NoParty /\ leader[party[p]] = p /\ q \in inviteList[party[p]]

\* playerInviteToParty; a player without a party founds one.
InviteToParty(p, q, P) ==
    /\ p \in online /\ q \in online
    /\ ~IsInviting(q, p)
    /\ party[q] = NoParty
    /\ \/ party[p] = NoParty /\ ~Exists(P)
       \/ party[p] = P /\ leader[P] = p
    /\ q \notin inviteList[P]
    /\ leader' = [leader EXCEPT ![P] = p]
    /\ party' = [party EXCEPT ![p] = P]
    /\ inviteList' = [inviteList EXCEPT ![P] = @ \cup {q}]
    /\ invitePartyList' = [invitePartyList EXCEPT ![q] = @ \cup {P}]
    /\ UNCHANGED <<online, memberList, shared>>

\* The guards of playerJoinParty.
MayJoin(p, l) == IsInviting(l, p) /\ party[p] = NoParty

\* playerJoinParty with the leader who invited
JoinParty(p, l) ==
    LET P == party[l]
    IN  /\ p \in online /\ l \in online
        /\ MayJoin(p, l)
        /\ party' = [party EXCEPT ![p] = P]
        /\ inviteList' = [inviteList EXCEPT ![P] = @ \ {p}]
        /\ memberList' = [memberList EXCEPT ![P] = @ \cup {p}]
        /\ invitePartyList' = [invitePartyList EXCEPT ![p] = @ \ {P}]
        /\ Regroup(P, l, memberList[P] \cup {p}, ticksMap[P])
        /\ UNCHANGED <<online, leader>>

\* Party::empty after player p has gone from the invitations
EmptyWithout(P, p) == memberList[P] = {} /\ inviteList[P] \ {p} = {}

\* Party::removeInvite, by playerRevokePartyInvitation or a script
RevokeInvitation(p, q) ==
    LET P == party[p]
        D == IF EmptyWithout(P, q) THEN {P} ELSE {}
    IN  /\ p \in online /\ q \in online
        /\ IsInviting(p, q)
        /\ Relink(D, party, [invitePartyList EXCEPT ![q] = @ \ {P}],
                  leader, memberList, [inviteList EXCEPT ![P] = @ \ {q}])
        /\ ForgetShared(D)
        /\ UNCHANGED online

\* playerPassPartyLeadership to another member
PassPartyLeadership(p, q) ==
    LET P == party[p]
        mem == (memberList[P] \ {q}) \cup {p}
    IN  /\ p \in online /\ q \in online
        /\ P # NoParty /\ leader[P] = p
        /\ party[q] = P /\ q # p
        /\ leader' = [leader EXCEPT ![P] = q]
        /\ memberList' = [memberList EXCEPT ![P] = mem]
        /\ Regroup(P, q, mem, ticksMap[P])
        /\ UNCHANGED <<online, party, invitePartyList, inviteList>>
-------------------------------------------------------------------------------
\* missingLeader of leaveParty, with invitations inv
MissingLeader(P, p, inv) ==
    /\ leader[P] = p
    /\ \/ memberList[P] = {}
       \/ inv = {} /\ \E m \in memberList[P] : memberList[P] = {m}

\* leaveParty ends in disband.
DisbandsWithout(P, p, inv) ==
    MissingLeader(P, p, inv) \/ (leader[P] # p /\ memberList[P] \ {p} = {} /\ inv = {})

\* Who leads P once p has left: passPartyLeadership(memberList.front()) if p led.
Successors(P, p) == IF leader[P] = p THEN memberList[P] ELSE {leader[P]}

\* leaveParty by player p of party P when the other links are kept and inv and
\* the parties of D disband in the same step.
Leave(p, P, D, kept, inv) ==
    \/ /\ DisbandsWithout(P, p, inv[P])
       /\ Relink(D \cup {P}, [party EXCEPT ![p] = NoParty], kept, leader,
                 memberList, inv)
       /\ ForgetShared(D \cup {P})
    \/ /\ ~DisbandsWithout(P, p, inv[P])
       /\ \E s \in Successors(P, p) :
             LET mem == memberList[P] \ {p, s}
             IN  /\ Relink(D, [party EXCEPT ![p] = NoParty], kept,
                           [leader EXCEPT ![P] = s],
                           [memberList EXCEPT ![P] = mem], inv)
                 /\ \E able \in SUBSET ({s} \cup mem) :
                    /\ fit' = (fit \ ({p, s} \cup mem)) \cup able
                    /\ ticksMap' = [Q \in Parties |->
                          IF Q = P THEN ticksMap[P] \ {p}
                          ELSE IF Q \in D THEN {} ELSE ticksMap[Q]]
                    /\ sharedExpEnabled' = [Q \in Parties |->
                          IF Q = P
                          THEN Updated(P, CanEnable(s, mem, ticksMap[P] \ {p}, stale, fit'))
                          ELSE Q \notin D /\ sharedExpEnabled[Q]]
                    /\ sharedExpActive' =
                          [Q \in Parties |-> Q \notin D /\ sharedExpActive[Q]]
                    /\ UNCHANGED stale

\* playerLeaveParty
LeaveParty(p) ==
    /\ p \in online
    /\ party[p] # NoParty
    /\ Leave(p, party[p], {}, invitePartyList, inviteList)
    /\ UNCHANGED online

\* clearPartyInvitations removes p from the list of each party in his list.
Uninvite(p) ==
    [P \in Parties |-> IF P \in invitePartyList[p] THEN inviteList[P] \ {p}
                       ELSE inviteList[P]]

\* Player::onRemoveCreature: invitations first, then the own party.
Logout(p) ==
    LET D == {P \in invitePartyList[p] : EmptyWithout(P, p)}
        kept == [invitePartyList EXCEPT ![p] = {}]
    IN  /\ p \in online
        /\ online' = online \ {p}
        /\ \/ /\ party[p] = NoParty \/ party[p] \in D
              /\ Relink(D, party, kept, leader, memberList, Uninvite(p))
              /\ ForgetShared(D)
           \/ /\ party[p] # NoParty /\ party[p] \notin D
              /\ Leave(p, party[p], D, kept, Uninvite(p))

Login(p) ==
    /\ p \notin online
    /\ online' = online \cup {p}
    /\ UNCHANGED <<party, invitePartyList, leader, memberList, inviteList, shared>>
-------------------------------------------------------------------------------
\* playerEnableSharedPartyExperience
EnableSharedExperience(p, on) ==
    LET P == party[p]
    IN  /\ p \in online
        /\ P # NoParty /\ leader[P] = p
        /\ sharedExpActive[P] # on
        /\ sharedExpActive' = [sharedExpActive EXCEPT ![P] = on]
        /\ sharedExpEnabled' = [sharedExpEnabled EXCEPT ![P] =
              IF on THEN CanEnable(p, memberList[P], ticksMap[P], stale, fit) ELSE @]
        /\ UNCHANGED <<links, ticksMap, stale, fit>>

\* A member of a party moves or changes level.
MoveOrAdvance(p) ==
    LET P == party[p]
    IN  /\ P # NoParty
        /\ Regroup(P, leader[P], memberList[P], ticksMap[P])
        /\ UNCHANGED links

\* updatePlayerTicks: a member attacks a monster or heals a partner.
UpdatePlayerTicks(p) ==
    LET P == party[p]
    IN  /\ P # NoParty
        /\ stale' = stale \ {p}
        /\ ticksMap' = [ticksMap EXCEPT ![P] = @ \cup {p}]
        /\ sharedExpEnabled' = [sharedExpEnabled EXCEPT ![P] = Updated(P,
              CanEnable(leader[P], memberList[P], ticksMap'[P], stale', fit))]
        /\ UNCHANGED <<links, sharedExpActive, fit>>

\* onIdleStatus: clearPlayerPoints
ClearPlayerPoints(p) ==
    LET P == party[p]
    IN  /\ P # NoParty
        /\ p \in ticksMap[P]
        /\ ticksMap' = [ticksMap EXCEPT ![P] = @ \ {p}]
        /\ sharedExpEnabled' = [sharedExpEnabled EXCEPT ![P] = Updated(P,
              CanEnable(leader[P], memberList[P], ticksMap'[P], stale, fit))]
        /\ UNCHANGED <<links, sharedExpActive, stale, fit>>

\* Time passes: nothing is recomputed.
Expire(p) ==
    /\ p \notin stale
    /\ stale' = stale \cup {p}
    /\ UNCHANGED <<links, sharedExpActive, sharedExpEnabled, ticksMap, fit>>

Next ==
    \/ \E p \in Players : Login(p)
    \/ \E p \in Players : Logout(p)
    \/ \E p, q \in Players, P \in Parties : InviteToParty(p, q, P)
    \/ \E p, l \in Players : JoinParty(p, l)
    \/ \E p, q \in Players : RevokeInvitation(p, q)
    \/ \E p, q \in Players : PassPartyLeadership(p, q)
    \/ \E p \in Players : LeaveParty(p)
    \/ \E p \in Players, on \in BOOLEAN : EnableSharedExperience(p, on)
    \/ \E p \in Players : MoveOrAdvance(p)
    \/ \E p \in Players : UpdatePlayerTicks(p)
    \/ \E p \in Players : ClearPlayerPoints(p)
    \/ \E p \in Players : Expire(p)

Spec == Init /\ [][Next]_vars
-------------------------------------------------------------------------------
LinkTypeOK ==
    /\ online \subseteq Players
    /\ party \in [Players -> Parties \cup {NoParty}]
    /\ invitePartyList \in [Players -> SUBSET Parties]
    /\ leader \in [Parties -> Players \cup {NoPlayer}]
    /\ memberList \in [Parties -> SUBSET Players]
    /\ inviteList \in [Parties -> SUBSET Players]

TypeOK ==
    /\ LinkTypeOK
    /\ sharedExpActive \in [Parties -> BOOLEAN]
    /\ sharedExpEnabled \in [Parties -> BOOLEAN]
    /\ ticksMap \in [Parties -> SUBSET Players]
    /\ stale \subseteq Players
    /\ fit \subseteq Players

\* A player points at a party exactly if that party has him as its leader or as
\* a member, never as both, and only a party that exists has anybody on its lists.
MembershipAgrees ==
    \A p \in Players, P \in Parties :
        /\ party[p] = P <=> leader[P] = p \/ p \in memberList[P]
        /\ ~(leader[P] = p /\ p \in memberList[P])
        /\ p \in memberList[P] \cup inviteList[P] => Exists(P)

\* A player is on a party's list of invitations exactly if the party is on his:
\* no party keeps a deleted player and no player a deleted party.
InvitationsAgree ==
    \A p \in Players, P \in Parties :
        p \in inviteList[P] <=> P \in invitePartyList[p]

\* Whoever is in a party or is invited to one is in the game.
OnlyOnline ==
    \A p \in Players \ online : party[p] = NoParty /\ invitePartyList[p] = {}

\* A party lasts no longer than there is somebody besides the leader: a member
\* or an invitation.
NoEmptyParty ==
    \A P \in Parties : Exists(P) => memberList[P] # {} \/ inviteList[P] # {}

\* The pointers between parties and players, as one inductive invariant.
LinkInv ==
    /\ LinkTypeOK
    /\ MembershipAgrees
    /\ InvitationsAgree
    /\ OnlyOnline
    /\ NoEmptyParty

\* Experience is shared only in a party of at least two, all of whom have
\* fought in this party and are near enough in level and place.
SharedWithFit ==
    \A P \in Parties :
        sharedExpActive[P] /\ sharedExpEnabled[P] =>
            /\ memberList[P] # {}
            /\ {leader[P]} \cup memberList[P] \subseteq ticksMap[P] \cap fit
===============================================================================
