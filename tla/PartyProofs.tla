------------------------------ MODULE PartyProofs ------------------------------
(***************************************************************************)
(* Proofs about Party: the pointers between parties and players stay       *)
(* consistent, for any number of players and parties.                      *)
(***************************************************************************)
EXTENDS Party, TLAPS

USE PartyAssumption DEF NoPlayer, NoParty

\* Nobody is in a party when the server starts.
LEMMA InitLinkInv == Init => LinkInv
BY DEF Init, LinkInv, LinkTypeOK, MembershipAgrees, InvitationsAgree, OnlyOnline,
       NoEmptyParty, Exists

\* Inviting a player, founding the party if needed, keeps both lists in step.
LEMMA InviteLinkInv ==
    ASSUME LinkInv, NEW p \in Players, NEW q \in Players, NEW P \in Parties,
           InviteToParty(p, q, P)
    PROVE  LinkInv'
<1> USE DEF LinkInv, LinkTypeOK, InviteToParty, Exists
<1>1. LinkTypeOK'
  OBVIOUS
<1>2. MembershipAgrees'
  BY DEF MembershipAgrees
<1>3. InvitationsAgree'
  BY DEF InvitationsAgree
<1>4. OnlyOnline'
  BY DEF OnlyOnline
<1>5. NoEmptyParty'
  BY DEF NoEmptyParty
<1> QED BY <1>1, <1>2, <1>3, <1>4, <1>5 DEF LinkInv

\* Joining turns an invitation into a membership on both sides.
LEMMA JoinLinkInv ==
    ASSUME LinkInv, NEW p \in Players, NEW l \in Players, JoinParty(p, l)
    PROVE  LinkInv'
<1> USE DEF LinkInv, LinkTypeOK, JoinParty, Exists, IsInviting, MayJoin
<1>1. LinkTypeOK'
  OBVIOUS
<1>2. MembershipAgrees'
  BY DEF MembershipAgrees
<1>3. InvitationsAgree'
  BY DEF InvitationsAgree
<1>4. OnlyOnline'
  BY DEF OnlyOnline
<1>5. NoEmptyParty'
  BY DEF NoEmptyParty
<1> QED BY <1>1, <1>2, <1>3, <1>4, <1>5 DEF LinkInv

\* Passing the leadership swaps leader and member.
LEMMA PassLinkInv ==
    ASSUME LinkInv, NEW p \in Players, NEW q \in Players, PassPartyLeadership(p, q)
    PROVE  LinkInv'
<1> USE DEF LinkInv, LinkTypeOK, PassPartyLeadership, Exists
<1>1. LinkTypeOK'
  OBVIOUS
<1>2. MembershipAgrees'
  BY DEF MembershipAgrees
<1>3. InvitationsAgree'
  BY DEF InvitationsAgree
<1>4. OnlyOnline'
  BY DEF OnlyOnline
<1>5. NoEmptyParty'
  BY DEF NoEmptyParty
<1> QED BY <1>1, <1>2, <1>3, <1>4, <1>5 DEF LinkInv

\* Revoking the last invitation of a party without members deletes it.
LEMMA RevokeLinkInv ==
    ASSUME LinkInv, NEW p \in Players, NEW q \in Players, RevokeInvitation(p, q)
    PROVE  LinkInv'
<1> USE DEF LinkInv, LinkTypeOK, RevokeInvitation, Exists, IsInviting, Relink,
            EmptyWithout, LosesInvitation
<1>1. LinkTypeOK'
  OBVIOUS
<1>2. MembershipAgrees'
  BY DEF MembershipAgrees
<1>3. InvitationsAgree'
  BY DEF InvitationsAgree
<1>4. OnlyOnline'
  BY DEF OnlyOnline
<1>5. NoEmptyParty'
  BY DEF NoEmptyParty
<1> QED BY <1>1, <1>2, <1>3, <1>4, <1>5 DEF LinkInv
-------------------------------------------------------------------------------
\* What the invitations must satisfy while a player p is taken out of the game:
\* the two lists agree, the parties of D are empty and no other party becomes
\* empty, but for the one p leaves.
Cleared(p, D, kept, inv, on) ==
    /\ D \subseteq Parties
    /\ kept \in [Players -> SUBSET Parties]
    /\ inv \in [Parties -> SUBSET Players]
    /\ \A q \in Players, Q \in Parties :
          /\ q \in inv[Q] <=> Q \in kept[q]
          /\ q \in inv[Q] => q \in inviteList[Q]
    /\ \A Q \in D : memberList[Q] = {} /\ inv[Q] = {} /\ Exists(Q)
    /\ \A Q \in Parties \ D :
          Exists(Q) => memberList[Q] # {} \/ inv[Q] # {}
    /\ on \in SUBSET online
    /\ \A q \in online \ on : q = p /\ kept[q] = {}

\* Parties disband that nobody but their leader is left in.
LEMMA RelinkLinkInv ==
    ASSUME LinkInv, NEW p \in Players, NEW D, NEW kept, NEW inv,
           Cleared(p, D, kept, inv, online'),
           Relink(D, party, kept, leader, memberList, inv),
           online' = online \/ party[p] = NoParty \/ party[p] \in D
    PROVE  LinkInv'
<1> USE DEF LinkInv, LinkTypeOK, Cleared, Exists, Relink, LosesInvitation
<1>1. LinkTypeOK'
  OBVIOUS
<1>2. MembershipAgrees'
  BY DEF MembershipAgrees
<1>3. InvitationsAgree'
  BY DEF InvitationsAgree
<1>4. OnlyOnline'
  <2>1. \A q \in Players \ online : kept[q] = {}
    BY DEF OnlyOnline, InvitationsAgree
  <2>2. \A q \in Players \ online' : party'[q] = NoParty
    BY DEF OnlyOnline, MembershipAgrees
  <2>3. \A q \in Players \ online' : invitePartyList'[q] = {}
    BY <2>1
  <2> QED BY <2>2, <2>3 DEF OnlyOnline
<1>5. NoEmptyParty'
  BY DEF NoEmptyParty
<1> QED BY <1>1, <1>2, <1>3, <1>4, <1>5 DEF LinkInv

\* leaveParty, whether it ends in disband or not, keeps the pointers consistent.
LEMMA LeaveLinkInv ==
    ASSUME LinkInv, NEW p \in Players, NEW P \in Parties, party[p] = P,
           NEW D, P \notin D, NEW kept, NEW inv,
           Cleared(p, D, kept, inv, online'),
           Leave(p, P, D, kept, inv)
    PROVE  LinkInv'
<1> USE DEF LinkInv, LinkTypeOK, Cleared, Exists, LosesInvitation
<1>1. CASE DisbandsWithout(P, p, inv[P])
  <2>1. Relink(D \cup {P}, [party EXCEPT ![p] = NoParty], kept, leader, memberList, inv)
    BY <1>1 DEF Leave
  <2> USE <2>1 DEF Relink
  <2>2. LinkTypeOK'
    OBVIOUS
  <2>3. MembershipAgrees'
    BY DEF MembershipAgrees
  <2>4. InvitationsAgree'
    BY DEF InvitationsAgree
  <2>5. OnlyOnline'
    <3>1. \A q \in Players \ online : kept[q] = {}
      BY DEF OnlyOnline, InvitationsAgree
    <3>2. \A q \in Players \ online' : party'[q] = NoParty
      BY DEF OnlyOnline, MembershipAgrees
    <3>3. \A q \in Players \ online' : invitePartyList'[q] = {}
      BY <3>1
    <3> QED BY <3>2, <3>3 DEF OnlyOnline
  <2>6. NoEmptyParty'
    BY DEF NoEmptyParty
  <2> QED BY <2>2, <2>3, <2>4, <2>5, <2>6 DEF LinkInv
<1>2. CASE ~DisbandsWithout(P, p, inv[P])
  <2>1. PICK s \in Successors(P, p) :
          Relink(D, [party EXCEPT ![p] = NoParty], kept, [leader EXCEPT ![P] = s],
                 [memberList EXCEPT ![P] = memberList[P] \ {p, s}], inv)
    BY <1>2 DEF Leave
  <2>2. /\ s \in Players /\ s # p
        /\ leader[P] = p => s \in memberList[P]
        /\ leader[P] # p => s = leader[P] /\ p \in memberList[P]
    BY DEF Successors, MembershipAgrees
  <2> USE <2>1, <2>2 DEF Relink
  <2>3. LinkTypeOK'
    OBVIOUS
  <2>4. MembershipAgrees'
    BY DEF MembershipAgrees
  <2>5. InvitationsAgree'
    BY DEF InvitationsAgree
  <2>6. OnlyOnline'
    <3>1. \A q \in Players \ online : kept[q] = {}
      BY DEF OnlyOnline, InvitationsAgree
    <3>2. \A q \in Players \ online' : party'[q] = NoParty
      BY DEF OnlyOnline, MembershipAgrees
    <3>3. \A q \in Players \ online' : invitePartyList'[q] = {}
      BY <3>1
    <3> QED BY <3>2, <3>3 DEF OnlyOnline
  <2>7. NoEmptyParty'
    <3>1. \A Q \in Parties \ {P} : Exists(Q)' => (memberList[Q] # {} \/ inviteList[Q] # {})'
      OBVIOUS
    <3>2. memberList'[P] # {} \/ inviteList'[P] # {}
      <4>1. memberList'[P] = memberList[P] \ {p, s} /\ inviteList'[P] = inv[P]
        OBVIOUS
      <4>2. CASE leader[P] = p
        <5>1. p \notin memberList[P]
          BY <4>2 DEF MembershipAgrees
        <5>2. inv[P] # {} \/ memberList[P] # {s}
          BY <1>2, <4>2 DEF DisbandsWithout, MissingLeader
        <5> QED BY <4>1, <4>2, <5>1, <5>2
      <4>3. CASE leader[P] # p
        <5>1. s \notin memberList[P]
          BY <4>3 DEF MembershipAgrees
        <5>2. memberList[P] \ {p} # {} \/ inv[P] # {}
          BY <1>2, <4>3 DEF DisbandsWithout
        <5> QED BY <4>1, <5>1, <5>2
      <4> QED BY <4>2, <4>3
    <3> QED BY <3>1, <3>2 DEF NoEmptyParty
  <2> QED BY <2>3, <2>4, <2>5, <2>6, <2>7 DEF LinkInv
<1> QED BY <1>1, <1>2

\* A player who leaves by command keeps his invitations.
LEMMA LeavePartyLinkInv ==
    ASSUME LinkInv, NEW p \in Players, LeaveParty(p)
    PROVE  LinkInv'
<1>1. party[p] \in Parties /\ Leave(p, party[p], {}, invitePartyList, inviteList)
  BY DEF LeaveParty, LinkInv, LinkTypeOK
<1>2. Cleared(p, {}, invitePartyList, inviteList, online')
  BY DEF LeaveParty, LinkInv, LinkTypeOK, Cleared, InvitationsAgree, NoEmptyParty, Exists
<1> QED BY <1>1, <1>2, LeaveLinkInv

\* A player's removal from the game clears his invitations, disbanding the
\* parties left empty, and takes him out of his party if it still exists.
LEMMA LogoutLinkInv ==
    ASSUME LinkInv, NEW p \in Players, Logout(p)
    PROVE  LinkInv'
<1> DEFINE D == {P \in invitePartyList[p] : EmptyWithout(P, p)}
           kept == [invitePartyList EXCEPT ![p] = {}]
<1>1. online' = online \ {p}
  BY DEF Logout
<1>2. Cleared(p, D, kept, Uninvite(p), online')
  <2> USE <1>1 DEF LinkInv, LinkTypeOK, Uninvite, Exists, EmptyWithout
  <2>1. D \subseteq Parties /\ kept \in [Players -> SUBSET Parties]
        /\ Uninvite(p) \in [Parties -> SUBSET Players]
    OBVIOUS
  <2>2. \A q \in Players, Q \in Parties :
          /\ q \in Uninvite(p)[Q] <=> Q \in kept[q]
          /\ q \in Uninvite(p)[Q] => q \in inviteList[Q]
    BY DEF InvitationsAgree
  <2>3. \A Q \in D : memberList[Q] = {} /\ Uninvite(p)[Q] = {} /\ Exists(Q)
    BY DEF InvitationsAgree, MembershipAgrees
  <2>4. \A Q \in Parties \ D : Exists(Q) => memberList[Q] # {} \/ Uninvite(p)[Q] # {}
    BY DEF NoEmptyParty
  <2>5. \A q \in online \ online' : q = p /\ kept[q] = {}
    OBVIOUS
  <2> QED BY <1>1, <2>1, <2>2, <2>3, <2>4, <2>5 DEF Cleared
<1>3. CASE /\ party[p] = NoParty \/ party[p] \in D
           /\ Relink(D, party, kept, leader, memberList, Uninvite(p))
  BY <1>2, <1>3, RelinkLinkInv
<1>4. CASE /\ party[p] # NoParty /\ party[p] \notin D
           /\ Leave(p, party[p], D, kept, Uninvite(p))
  BY <1>2, <1>4, LeaveLinkInv DEF LinkInv, LinkTypeOK
<1> QED BY <1>3, <1>4 DEF Logout

\* A player enters the game without a party.
LEMMA LoginLinkInv ==
    ASSUME LinkInv, NEW p \in Players, Login(p)
    PROVE  LinkInv'
<1> USE DEF LinkInv, LinkTypeOK, Login
<1>1. LinkTypeOK'
  OBVIOUS
<1>2. MembershipAgrees' /\ InvitationsAgree' /\ NoEmptyParty'
  BY DEF MembershipAgrees, InvitationsAgree, NoEmptyParty, Exists
<1>3. OnlyOnline'
  BY DEF OnlyOnline
<1> QED BY <1>1, <1>2, <1>3 DEF LinkInv
-------------------------------------------------------------------------------
\* Every step keeps the pointers between parties and players consistent.
LEMMA NextLinkInv == LinkInv /\ [Next]_vars => LinkInv'
<1> SUFFICES ASSUME LinkInv, [Next]_vars PROVE LinkInv'
  OBVIOUS
<1>1. ASSUME UNCHANGED links PROVE LinkInv'
  BY <1>1 DEF links, LinkInv, LinkTypeOK, MembershipAgrees, InvitationsAgree,
              OnlyOnline, NoEmptyParty, Exists
<1>2. CASE \E p \in Players : Login(p)
  BY <1>2, LoginLinkInv
<1>3. CASE \E p \in Players : Logout(p)
  BY <1>3, LogoutLinkInv
<1>4. CASE \E p, q \in Players, P \in Parties : InviteToParty(p, q, P)
  BY <1>4, InviteLinkInv
<1>5. CASE \E p, l \in Players : JoinParty(p, l)
  BY <1>5, JoinLinkInv
<1>6. CASE \E p, q \in Players : RevokeInvitation(p, q)
  BY <1>6, RevokeLinkInv
<1>7. CASE \E p, q \in Players : PassPartyLeadership(p, q)
  BY <1>7, PassLinkInv
<1>8. CASE \E p \in Players : LeaveParty(p)
  BY <1>8, LeavePartyLinkInv
<1>9. CASE \/ \E p \in Players, on \in BOOLEAN : EnableSharedExperience(p, on)
           \/ \E p \in Players : MoveOrAdvance(p)
           \/ \E p \in Players : UpdatePlayerTicks(p)
           \/ \E p \in Players : ClearPlayerPoints(p)
           \/ \E p \in Players : Expire(p)
  BY <1>9, <1>1 DEF EnableSharedExperience, MoveOrAdvance, UpdatePlayerTicks,
                    ClearPlayerPoints, Expire
<1>10. CASE UNCHANGED vars
  BY <1>10, <1>1 DEF vars
<1> QED BY <1>2, <1>3, <1>4, <1>5, <1>6, <1>7, <1>8, <1>9, <1>10 DEF Next

\* In every reachable state the pointers between parties and players are
\* consistent: none of the handlers leaves one to a deleted object.
THEOREM LinksConsistent == Spec => []LinkInv
BY InitLinkInv, NextLinkInv, PTL DEF Spec
-------------------------------------------------------------------------------
(***************************************************************************)
(* Shared experience.  That only a fit group shares is kept by a step only *)
(* because no two parties have a player in common (LinkInv) and a deleted  *)
(* party does not share: one that is founded anew would share at once.     *)
(***************************************************************************)

\* The flags and entries of the parties have their types.
SharedTypes ==
    /\ sharedExpActive \in [Parties -> BOOLEAN]
    /\ sharedExpEnabled \in [Parties -> BOOLEAN]
    /\ ticksMap \in [Parties -> SUBSET Players]
    /\ stale \subseteq Players
    /\ fit \subseteq Players

\* A party that does not exist does not share.
DeletedSharesNot ==
    \A P \in Parties : sharedExpActive[P] => Exists(P)

SharedInv ==
    /\ SharedTypes
    /\ DeletedSharesNot
    /\ SharedWithFit

\* When sharing is on, updateSharedExperience decides by the group as it is.
LEMMA UpdatedShared ==
    ASSUME SharedTypes, NEW P \in Parties, NEW can \in BOOLEAN
    PROVE  /\ Updated(P, can) \in BOOLEAN
           /\ sharedExpActive[P] => (Updated(P, can) <=> can)
BY DEF Updated, SharedTypes

\* A group that may share has a member and fits.
LEMMA CanEnableFits ==
    ASSUME NEW ldr, NEW mem, NEW ticks, NEW old, NEW able
    PROVE  /\ CanEnable(ldr, mem, ticks, old, able) \in BOOLEAN
           /\ CanEnable(ldr, mem, ticks, old, able) =>
                 mem # {} /\ {ldr} \cup mem \subseteq ticks \cap able
BY DEF CanEnable

\* A party whose group and levels are compared anew shares only if it fits, and
\* the other parties have nobody in that group.
LEMMA RegroupShared ==
    ASSUME LinkInv, SharedInv, NEW P \in Parties, NEW ldr \in Players,
           NEW mem \in SUBSET Players, NEW ticks \in SUBSET Players,
           Regroup(P, ldr, mem, ticks),
           leader' = [leader EXCEPT ![P] = ldr],
           memberList' = [memberList EXCEPT ![P] = mem],
           \A q \in {ldr} \cup mem : party[q] = P \/ party[q] = NoParty
    PROVE  SharedInv'
<1> USE DEF SharedInv
<1>1. PICK able \in SUBSET ({ldr} \cup mem) :
        /\ fit' = (fit \ ({ldr} \cup mem)) \cup able
        /\ ticksMap' = [ticksMap EXCEPT ![P] = ticks]
        /\ sharedExpEnabled' = [sharedExpEnabled EXCEPT ![P] =
               Updated(P, CanEnable(ldr, mem, ticks, stale, fit'))]
        /\ UNCHANGED <<sharedExpActive, stale>>
  BY DEF Regroup
<1> DEFINE can == CanEnable(ldr, mem, ticks, stale, fit')
<1>2. /\ can \in BOOLEAN
      /\ can => mem # {} /\ {ldr} \cup mem \subseteq ticks \cap fit'
  BY CanEnableFits
<1>3. /\ Updated(P, can) \in BOOLEAN
      /\ sharedExpActive[P] => (Updated(P, can) <=> can)
  BY <1>2, UpdatedShared
<1> HIDE DEF can
<1>4. SharedTypes'
  BY <1>1, <1>3 DEF SharedTypes, can
<1>5. DeletedSharesNot'
  BY <1>1 DEF DeletedSharesNot, Exists, LinkInv, LinkTypeOK
<1>6. SharedWithFit'
  <2> SUFFICES ASSUME NEW Q \in Parties, sharedExpActive'[Q], sharedExpEnabled'[Q]
               PROVE  /\ memberList'[Q] # {}
                      /\ {leader'[Q]} \cup memberList'[Q] \subseteq ticksMap'[Q] \cap fit'
    BY DEF SharedWithFit
  <2>1. sharedExpActive[Q]
    BY <1>1
  <2>2. CASE Q = P
    <3>1. sharedExpEnabled'[P] = Updated(P, can)
      BY <1>1 DEF can, SharedTypes
    <3>2. can
      BY <3>1, <2>1, <2>2, <1>3
    <3>3. leader'[P] = ldr /\ memberList'[P] = mem /\ ticksMap'[P] = ticks
      BY <1>1 DEF LinkInv, LinkTypeOK, SharedTypes
    <3> QED BY <1>2, <2>2, <3>2, <3>3
  <2>3. CASE Q # P
    <3>1. /\ leader'[Q] = leader[Q] /\ memberList'[Q] = memberList[Q]
          /\ ticksMap'[Q] = ticksMap[Q] /\ (sharedExpEnabled'[Q] <=> sharedExpEnabled[Q])
      BY <1>1, <2>3 DEF LinkInv, LinkTypeOK, SharedTypes
    <3>2. /\ memberList[Q] # {}
          /\ {leader[Q]} \cup memberList[Q] \subseteq ticksMap[Q] \cap fit
      BY <2>1, <3>1 DEF SharedWithFit
    <3>3. leader[Q] \in Players /\ memberList[Q] \subseteq Players
      BY <2>1 DEF DeletedSharesNot, Exists, LinkInv, LinkTypeOK
    <3>4. \A q \in {leader[Q]} \cup memberList[Q] : party[q] = Q
      BY <3>3 DEF LinkInv, MembershipAgrees
    <3>5. \A q \in {leader[Q]} \cup memberList[Q] : q \notin {ldr} \cup mem
      BY <3>4, <2>3
    <3> QED BY <3>1, <3>2, <3>5, <1>1
  <2> QED BY <2>2, <2>3
<1> QED BY <1>4, <1>5, <1>6

\* The parties of D disband, the groups of the others stay as they are.
LEMMA ForgetSharedInv ==
    ASSUME LinkInv, SharedInv, NEW D, ForgetShared(D),
           \A Q \in Parties \ D :
              leader'[Q] = leader[Q] /\ memberList'[Q] = memberList[Q]
    PROVE  SharedInv'
<1> USE DEF SharedInv, ForgetShared
<1>1. SharedTypes'
  BY DEF SharedTypes
<1>2. DeletedSharesNot'
  BY DEF DeletedSharesNot, Exists
<1>3. SharedWithFit'
  <2> SUFFICES ASSUME NEW Q \in Parties, sharedExpActive'[Q], sharedExpEnabled'[Q]
               PROVE  /\ memberList'[Q] # {}
                      /\ {leader'[Q]} \cup memberList'[Q] \subseteq ticksMap'[Q] \cap fit'
    BY DEF SharedWithFit
  <2>1. Q \notin D /\ sharedExpActive[Q] /\ sharedExpEnabled[Q]
    OBVIOUS
  <2>2. ticksMap'[Q] = ticksMap[Q] /\ fit' = fit
    BY <2>1
  <2> QED BY <2>1, <2>2 DEF SharedWithFit
<1> QED BY <1>1, <1>2, <1>3

\* When somebody leaves and the party goes on, its group is compared anew; the
\* entry of the one who left goes with him.
LEMMA LeaveSharedInv ==
    ASSUME LinkInv, SharedInv, NEW p \in Players, NEW P \in Parties, party[p] = P,
           NEW D, P \notin D, NEW kept, NEW inv,
           Leave(p, P, D, kept, inv)
    PROVE  SharedInv'
<1>1. CASE DisbandsWithout(P, p, inv[P])
  <2>1. /\ Relink(D \cup {P}, [party EXCEPT ![p] = NoParty], kept, leader,
                  memberList, inv)
        /\ ForgetShared(D \cup {P})
    BY <1>1 DEF Leave
  <2>2. \A Q \in Parties \ (D \cup {P}) :
          leader'[Q] = leader[Q] /\ memberList'[Q] = memberList[Q]
    BY <2>1 DEF Relink
  <2> QED BY <2>1, <2>2, ForgetSharedInv
<1>2. CASE ~DisbandsWithout(P, p, inv[P])
  <2>1. PICK s \in Successors(P, p) :
          LET mem == memberList[P] \ {p, s}
          IN  /\ Relink(D, [party EXCEPT ![p] = NoParty], kept,
                        [leader EXCEPT ![P] = s],
                        [memberList EXCEPT ![P] = mem], inv)
              /\ \E able \in SUBSET ({s} \cup mem) :
                 /\ fit' = (fit \ ({p, s} \cup mem)) \cup able
                 /\ ticksMap' = [Q \in Parties |->
                       IF Q = P THEN ticksMap[P] \ {p}
                       ELSE IF Q \in D THEN {} ELSE ticksMap[Q]]
                 /\ sharedExpEnabled' = [Q \in Parties |->
                       IF Q = P
                       THEN Updated(P, CanEnable(s, mem, ticksMap[P] \ {p}, stale, fit'))
                       ELSE Q \notin D /\ sharedExpEnabled[Q]]
                 /\ sharedExpActive' =
                       [Q \in Parties |-> Q \notin D /\ sharedExpActive[Q]]
                 /\ UNCHANGED stale
    BY <1>2, Zenon DEF Leave
  <2> DEFINE mem == memberList[P] \ {p, s}
             ticks == ticksMap[P] \ {p}
             can == CanEnable(s, mem, ticks, stale, fit')
  <2>2. PICK able \in SUBSET ({s} \cup mem) :
          /\ fit' = (fit \ ({p, s} \cup mem)) \cup able
          /\ ticksMap' = [Q \in Parties |->
                IF Q = P THEN ticks ELSE IF Q \in D THEN {} ELSE ticksMap[Q]]
          /\ sharedExpEnabled' = [Q \in Parties |->
                IF Q = P THEN Updated(P, can) ELSE Q \notin D /\ sharedExpEnabled[Q]]
          /\ sharedExpActive' = [Q \in Parties |-> Q \notin D /\ sharedExpActive[Q]]
          /\ UNCHANGED stale
    BY <2>1, Zenon
  <2>3. Relink(D, [party EXCEPT ![p] = NoParty], kept, [leader EXCEPT ![P] = s],
               [memberList EXCEPT ![P] = mem], inv)
    BY <2>1, Zenon
  <2>4. s \in Players /\ party[s] = P
    <3>1. CASE leader[P] = p
      <4>1. s \in memberList[P]
        BY <3>1 DEF Successors
      <4> QED BY <4>1 DEF LinkInv, LinkTypeOK, MembershipAgrees
    <3>2. CASE leader[P] # p
      <4>1. s = leader[P] /\ p \in memberList[P]
        BY <3>2 DEF Successors, LinkInv, MembershipAgrees
      <4>2. s \in Players
        BY <4>1 DEF Exists, LinkInv, LinkTypeOK, MembershipAgrees
      <4> QED BY <4>1, <4>2 DEF LinkInv, MembershipAgrees
    <3> QED BY <3>1, <3>2
  <2>5. mem \subseteq Players /\ ticks \subseteq Players /\ \A q \in mem : party[q] = P
    BY DEF SharedInv, SharedTypes, LinkInv, LinkTypeOK, MembershipAgrees
  <2>6. /\ can \in BOOLEAN
        /\ can => mem # {} /\ {s} \cup mem \subseteq ticks \cap fit'
    BY CanEnableFits
  <2>7. /\ Updated(P, can) \in BOOLEAN
        /\ sharedExpActive[P] => (Updated(P, can) <=> can)
    BY <2>6, UpdatedShared DEF SharedInv
  <2> HIDE DEF mem, ticks, can
  <2>8. /\ leader'[P] = s /\ memberList'[P] = mem
        /\ \A Q \in Parties : Q \notin D /\ Q # P =>
              leader'[Q] = leader[Q] /\ memberList'[Q] = memberList[Q]
    BY <2>3 DEF Relink, LinkInv, LinkTypeOK
  <2>9. SharedTypes'
    BY <2>2, <2>4, <2>5, <2>7 DEF SharedInv, SharedTypes
  <2>10. DeletedSharesNot'
    BY <2>2, <2>4, <2>8 DEF DeletedSharesNot, SharedInv, Exists
  <2>11. SharedWithFit'
    <3> SUFFICES ASSUME NEW Q \in Parties, sharedExpActive'[Q], sharedExpEnabled'[Q]
                 PROVE  /\ memberList'[Q] # {}
                        /\ {leader'[Q]} \cup memberList'[Q] \subseteq ticksMap'[Q] \cap fit'
      BY DEF SharedWithFit
    <3>1. Q \notin D /\ sharedExpActive[Q]
      BY <2>2
    <3>2. CASE Q = P
      <4>1. can
        BY <2>2, <2>7, <3>1, <3>2
      <4> QED BY <2>2, <2>6, <2>8, <3>2, <4>1
    <3>3. CASE Q # P
      <4>1. sharedExpEnabled[Q] /\ ticksMap'[Q] = ticksMap[Q]
        BY <2>2, <3>1, <3>3
      <4>2. /\ memberList[Q] # {}
            /\ {leader[Q]} \cup memberList[Q] \subseteq ticksMap[Q] \cap fit
        BY <3>1, <4>1 DEF SharedInv, SharedWithFit
      <4>3. leader[Q] \in Players /\ memberList[Q] \subseteq Players
        BY <3>1 DEF SharedInv, DeletedSharesNot, Exists, LinkInv, LinkTypeOK
      <4>4. \A q \in {leader[Q]} \cup memberList[Q] : party[q] = Q
        BY <4>3 DEF LinkInv, MembershipAgrees
      <4>5. \A q \in {leader[Q]} \cup memberList[Q] : q \notin {p, s} \cup mem
        BY <4>4, <2>4, <2>5, <3>3
      <4> QED BY <2>2, <2>8, <3>1, <3>3, <4>1, <4>2, <4>5
    <3> QED BY <3>2, <3>3
  <2> QED BY <2>9, <2>10, <2>11 DEF SharedInv
<1> QED BY <1>1, <1>2

\* No group changes, the flags and entries of party P do: it shares only if it fits.
LEMMA RefreshShared ==
    ASSUME LinkInv, SharedInv, NEW P \in Parties, Exists(P),
           NEW ticks \in SUBSET Players, NEW able \in BOOLEAN, NEW old \in SUBSET Players,
           sharedExpActive' \in [Parties -> BOOLEAN],
           sharedExpEnabled' = [sharedExpEnabled EXCEPT ![P] = able],
           \A Q \in Parties \ {P} : sharedExpActive'[Q] <=> sharedExpActive[Q],
           sharedExpActive'[P] /\ able =>
              CanEnable(leader[P], memberList[P], ticks, old, fit),
           ticksMap' = [ticksMap EXCEPT ![P] = ticks],
           stale' \in SUBSET Players, fit' = fit, UNCHANGED links
    PROVE  SharedInv'
<1> USE DEF SharedInv, links
<1>1. SharedTypes'
  BY DEF SharedTypes
<1>2. DeletedSharesNot'
  BY DEF DeletedSharesNot, Exists
<1>3. SharedWithFit'
  <2> SUFFICES ASSUME NEW Q \in Parties, sharedExpActive'[Q], sharedExpEnabled'[Q]
               PROVE  /\ memberList[Q] # {}
                      /\ {leader[Q]} \cup memberList[Q] \subseteq ticksMap'[Q] \cap fit
    BY DEF SharedWithFit
  <2>1. CASE Q = P
    <3>1. sharedExpActive'[P] /\ able /\ ticksMap'[P] = ticks
      BY <2>1 DEF SharedTypes
    <3> QED BY <2>1, <3>1, CanEnableFits
  <2>2. CASE Q # P
    <3>1. sharedExpActive[Q] /\ sharedExpEnabled[Q] /\ ticksMap'[Q] = ticksMap[Q]
      BY <2>2 DEF SharedTypes
    <3> QED BY <3>1 DEF SharedWithFit
  <2> QED BY <2>1, <2>2
<1> QED BY <1>1, <1>2, <1>3

\* Whoever points at a party is its leader or a member of it, so it has a leader.
LEMMA InAParty ==
    ASSUME LinkInv, NEW p \in Players, party[p] # NoParty
    PROVE  /\ party[p] \in Parties /\ Exists(party[p])
           /\ leader[party[p]] \in Players
           /\ memberList[party[p]] \subseteq Players
           /\ \A q \in {leader[party[p]]} \cup memberList[party[p]] : party[q] = party[p]
<1>1. party[p] \in Parties
  BY DEF LinkInv, LinkTypeOK
<1>2. leader[party[p]] = p \/ p \in memberList[party[p]]
  BY <1>1 DEF LinkInv, MembershipAgrees
<1>3. Exists(party[p])
  BY <1>1, <1>2 DEF LinkInv, MembershipAgrees, Exists
<1>4. leader[party[p]] \in Players /\ memberList[party[p]] \subseteq Players
  BY <1>1, <1>3 DEF LinkInv, LinkTypeOK, Exists
<1> QED BY <1>1, <1>3, <1>4 DEF LinkInv, MembershipAgrees

\* An empty server shares nothing.
LEMMA InitSharedInv == Init => SharedInv
BY DEF Init, SharedInv, SharedTypes, DeletedSharesNot, SharedWithFit

\* A party that is founded does not share; inviting changes no group.
LEMMA InviteSharedInv ==
    ASSUME LinkInv, SharedInv, NEW p \in Players, NEW q \in Players, NEW P \in Parties,
           InviteToParty(p, q, P)
    PROVE  SharedInv'
<1>1. UNCHANGED shared /\ memberList' = memberList /\ leader' = [leader EXCEPT ![P] = p]
  BY DEF InviteToParty
<1>2. ~Exists(P) \/ leader[P] = p
  BY DEF InviteToParty
<1>3. SharedTypes'
  BY <1>1 DEF SharedInv, SharedTypes, shared
<1>4. DeletedSharesNot'
  BY <1>1 DEF SharedInv, DeletedSharesNot, Exists, shared, LinkInv, LinkTypeOK
<1>5. SharedWithFit'
  BY <1>1, <1>2 DEF SharedInv, DeletedSharesNot, SharedWithFit, Exists, shared,
                    LinkInv, LinkTypeOK
<1> QED BY <1>3, <1>4, <1>5 DEF SharedInv

\* The group with a new member is compared anew.
LEMMA JoinSharedInv ==
    ASSUME LinkInv, SharedInv, NEW p \in Players, NEW l \in Players, JoinParty(p, l)
    PROVE  SharedInv'
<1> DEFINE P == party[l]
           mem == memberList[P] \cup {p}
<1>1. /\ party[l] # NoParty /\ leader[P] = l /\ party[p] = NoParty
      /\ memberList' = [memberList EXCEPT ![P] = mem]
      /\ leader' = leader
      /\ Regroup(P, l, mem, ticksMap[P])
  BY DEF JoinParty, MayJoin, IsInviting
<1>2. /\ P \in Parties /\ mem \subseteq Players /\ ticksMap[P] \subseteq Players
      /\ \A q \in {l} \cup mem : party[q] = P \/ party[q] = NoParty
  BY <1>1, InAParty DEF SharedInv, SharedTypes
<1>3. leader' = [leader EXCEPT ![P] = l]
  BY <1>1, <1>2 DEF LinkInv, LinkTypeOK
<1> HIDE DEF P, mem
<1> QED BY <1>1, <1>2, <1>3, RegroupShared

\* A party that loses its last invitation disbands; no other group changes.
LEMMA RevokeSharedInv ==
    ASSUME LinkInv, SharedInv, NEW p \in Players, NEW q \in Players, RevokeInvitation(p, q)
    PROVE  SharedInv'
<1> DEFINE D == IF EmptyWithout(party[p], q) THEN {party[p]} ELSE {}
<1>1. ForgetShared(D)
  BY DEF RevokeInvitation
<1>2. \A Q \in Parties \ D : leader'[Q] = leader[Q] /\ memberList'[Q] = memberList[Q]
  BY DEF RevokeInvitation, Relink
<1> HIDE DEF D
<1> QED BY <1>1, <1>2, ForgetSharedInv

\* The group under another leader is compared anew.
LEMMA PassSharedInv ==
    ASSUME LinkInv, SharedInv, NEW p \in Players, NEW q \in Players,
           PassPartyLeadership(p, q)
    PROVE  SharedInv'
<1> DEFINE P == party[p]
           mem == (memberList[P] \ {q}) \cup {p}
<1>1. /\ party[p] # NoParty /\ party[q] = P
      /\ leader' = [leader EXCEPT ![P] = q]
      /\ memberList' = [memberList EXCEPT ![P] = mem]
      /\ Regroup(P, q, mem, ticksMap[P])
  BY DEF PassPartyLeadership
<1>2. /\ P \in Parties /\ mem \subseteq Players /\ ticksMap[P] \subseteq Players
      /\ \A r \in {q} \cup mem : party[r] = P \/ party[r] = NoParty
  BY <1>1, InAParty DEF SharedInv, SharedTypes
<1> HIDE DEF P, mem
<1> QED BY <1>1, <1>2, RegroupShared

\* A player's removal from the game disbands parties or takes him out of his.
LEMMA LogoutSharedInv ==
    ASSUME LinkInv, SharedInv, NEW p \in Players, Logout(p)
    PROVE  SharedInv'
<1> DEFINE D == {P \in invitePartyList[p] : EmptyWithout(P, p)}
           kept == [invitePartyList EXCEPT ![p] = {}]
<1>1. CASE Relink(D, party, kept, leader, memberList, Uninvite(p)) /\ ForgetShared(D)
  <2>1. \A Q \in Parties \ D : leader'[Q] = leader[Q] /\ memberList'[Q] = memberList[Q]
    BY <1>1 DEF Relink
  <2> HIDE DEF D, kept
  <2> QED BY <1>1, <2>1, ForgetSharedInv
<1>2. CASE /\ party[p] # NoParty /\ party[p] \notin D
           /\ Leave(p, party[p], D, kept, Uninvite(p))
  <2>1. party[p] \in Parties
    BY <1>2 DEF LinkInv, LinkTypeOK
  <2> HIDE DEF D, kept
  <2> QED BY <1>2, <2>1, LeaveSharedInv
<1> QED BY <1>1, <1>2 DEF Logout

\* Turning sharing on asks whether the group fits.
LEMMA EnableSharedInv ==
    ASSUME LinkInv, SharedInv, NEW p \in Players, NEW on \in BOOLEAN,
           EnableSharedExperience(p, on)
    PROVE  SharedInv'
<1> DEFINE P == party[p]
           can == CanEnable(p, memberList[P], ticksMap[P], stale, fit)
           en == IF on THEN can ELSE sharedExpEnabled[P]
<1>1. /\ P # NoParty /\ leader[P] = p
      /\ sharedExpActive' = [sharedExpActive EXCEPT ![P] = on]
      /\ sharedExpEnabled' = [sharedExpEnabled EXCEPT ![P] = en]
      /\ UNCHANGED <<links, ticksMap, stale, fit>>
  BY DEF EnableSharedExperience
<1>2. P \in Parties /\ Exists(P)
  BY <1>1, InAParty
<1>3. can \in BOOLEAN
  BY CanEnableFits
<1> HIDE DEF can
<1>4. en \in BOOLEAN /\ (on /\ en => can)
  BY <1>2, <1>3 DEF SharedInv, SharedTypes
<1>5. /\ sharedExpActive' \in [Parties -> BOOLEAN]
      /\ sharedExpActive'[P] <=> on
      /\ \A Q \in Parties \ {P} : sharedExpActive'[Q] <=> sharedExpActive[Q]
  BY <1>1, <1>2 DEF SharedInv, SharedTypes
<1>6. /\ ticksMap' = [ticksMap EXCEPT ![P] = ticksMap[P]]
      /\ ticksMap[P] \in SUBSET Players /\ stale \in SUBSET Players
  BY <1>1, <1>2 DEF SharedInv, SharedTypes
<1>7. sharedExpActive'[P] /\ en =>
        CanEnable(leader[P], memberList[P], ticksMap[P], stale, fit)
  BY <1>1, <1>4, <1>5 DEF can
<1> HIDE DEF P, en
<1> QED BY <1>1, <1>2, <1>4, <1>5, <1>6, <1>7, RefreshShared

\* A party whose flag is updated from a comparison shares only if it fits.
LEMMA UpdateSharedInv ==
    ASSUME LinkInv, SharedInv, NEW p \in Players, party[p] # NoParty,
           NEW ticks \in SUBSET Players, NEW old \in SUBSET Players,
           ticksMap' = [ticksMap EXCEPT ![party[p]] = ticks],
           stale' = old,
           sharedExpEnabled' = [sharedExpEnabled EXCEPT ![party[p]] =
              Updated(party[p], CanEnable(leader[party[p]], memberList[party[p]],
                                          ticks, old, fit))],
           UNCHANGED <<links, sharedExpActive, fit>>
    PROVE  SharedInv'
<1> DEFINE P == party[p]
           can == CanEnable(leader[P], memberList[P], ticks, old, fit)
<1>1. P \in Parties /\ Exists(P)
  BY InAParty
<1>2. can \in BOOLEAN
  BY CanEnableFits
<1>3. /\ Updated(P, can) \in BOOLEAN
      /\ sharedExpActive[P] => (Updated(P, can) <=> can)
  BY <1>1, <1>2, UpdatedShared DEF SharedInv
<1>4. /\ sharedExpActive' \in [Parties -> BOOLEAN]
      /\ \A Q \in Parties : sharedExpActive'[Q] <=> sharedExpActive[Q]
  BY DEF SharedInv, SharedTypes
<1>5. sharedExpEnabled' = [sharedExpEnabled EXCEPT ![P] = Updated(P, can)]
  OBVIOUS
<1>6. sharedExpActive'[P] /\ Updated(P, can) => can
  BY <1>1, <1>3, <1>4
<1> DEFINE en == Updated(P, can)
<1>7. /\ sharedExpEnabled' = [sharedExpEnabled EXCEPT ![P] = en]
      /\ en \in BOOLEAN
      /\ sharedExpActive'[P] /\ en =>
           CanEnable(leader[P], memberList[P], ticks, old, fit)
  BY <1>3, <1>5, <1>6
<1>8. ticksMap' = [ticksMap EXCEPT ![P] = ticks] /\ stale' \in SUBSET Players
  OBVIOUS
<1> HIDE DEF P, can, en
<1> QED BY <1>1, <1>4, <1>7, <1>8, RefreshShared

\* Every step keeps sharing to groups that fit.
LEMMA NextSharedInv == LinkInv /\ SharedInv /\ [Next]_vars => SharedInv'
<1> SUFFICES ASSUME LinkInv, SharedInv, [Next]_vars PROVE SharedInv'
  OBVIOUS
<1>1. CASE \E p \in Players : Login(p)
  BY <1>1 DEF Login, shared, SharedInv, SharedTypes, DeletedSharesNot, SharedWithFit, Exists
<1>2. CASE \E p \in Players : Logout(p)
  BY <1>2, LogoutSharedInv
<1>3. CASE \E p, q \in Players, P \in Parties : InviteToParty(p, q, P)
  BY <1>3, InviteSharedInv
<1>4. CASE \E p, l \in Players : JoinParty(p, l)
  BY <1>4, JoinSharedInv
<1>5. CASE \E p, q \in Players : RevokeInvitation(p, q)
  BY <1>5, RevokeSharedInv
<1>6. CASE \E p, q \in Players : PassPartyLeadership(p, q)
  BY <1>6, PassSharedInv
<1>7. CASE \E p \in Players : LeaveParty(p)
  <2>1. PICK p \in Players : LeaveParty(p)
    BY <1>7
  <2>2. party[p] \in Parties /\ Leave(p, party[p], {}, invitePartyList, inviteList)
    BY <2>1 DEF LeaveParty, LinkInv, LinkTypeOK
  <2> QED BY <2>2, LeaveSharedInv
<1>8. CASE \E p \in Players, on \in BOOLEAN : EnableSharedExperience(p, on)
  BY <1>8, EnableSharedInv
<1>9. CASE \E p \in Players : MoveOrAdvance(p)
  <2>1. PICK p \in Players : MoveOrAdvance(p)
    BY <1>9
  <2> DEFINE P == party[p]
  <2>2. /\ P # NoParty /\ Regroup(P, leader[P], memberList[P], ticksMap[P])
        /\ leader' = leader /\ memberList' = memberList
    BY <2>1 DEF MoveOrAdvance, links
  <2>3. /\ P \in Parties /\ leader[P] \in Players /\ memberList[P] \in SUBSET Players
        /\ \A q \in {leader[P]} \cup memberList[P] : party[q] = P
    BY <2>2, InAParty
  <2>4. /\ leader' = [leader EXCEPT ![P] = leader[P]]
        /\ memberList' = [memberList EXCEPT ![P] = memberList[P]]
        /\ ticksMap[P] \in SUBSET Players
    BY <2>2, <2>3 DEF LinkInv, LinkTypeOK, SharedInv, SharedTypes
  <2> HIDE DEF P
  <2> QED BY <2>2, <2>3, <2>4, RegroupShared
<1>10. CASE \E p \in Players : UpdatePlayerTicks(p)
  <2>1. PICK p \in Players : UpdatePlayerTicks(p)
    BY <1>10
  <2> DEFINE ticks == ticksMap[party[p]] \cup {p}
             old == stale \ {p}
  <2>2. party[p] # NoParty /\ party[p] \in Parties
    BY <2>1, InAParty DEF UpdatePlayerTicks
  <2>3. /\ ticksMap' = [ticksMap EXCEPT ![party[p]] = ticks]
        /\ stale' = old
        /\ UNCHANGED <<links, sharedExpActive, fit>>
    BY <2>1 DEF UpdatePlayerTicks
  <2>4. ticksMap'[party[p]] = ticks /\ ticks \in SUBSET Players /\ old \in SUBSET Players
    BY <2>2, <2>3 DEF SharedInv, SharedTypes
  <2>5. sharedExpEnabled' = [sharedExpEnabled EXCEPT ![party[p]] =
              Updated(party[p], CanEnable(leader[party[p]], memberList[party[p]],
                                          ticks, old, fit))]
    BY <2>1, <2>3, <2>4 DEF UpdatePlayerTicks
  <2> HIDE DEF ticks, old
  <2> QED BY <2>2, <2>3, <2>4, <2>5, UpdateSharedInv
<1>11. CASE \E p \in Players : ClearPlayerPoints(p)
  <2>1. PICK p \in Players : ClearPlayerPoints(p)
    BY <1>11
  <2> DEFINE ticks == ticksMap[party[p]] \ {p}
  <2>2. party[p] # NoParty /\ party[p] \in Parties
    BY <2>1, InAParty DEF ClearPlayerPoints
  <2>3. /\ ticksMap' = [ticksMap EXCEPT ![party[p]] = ticks]
        /\ stale' = stale
        /\ UNCHANGED <<links, sharedExpActive, fit>>
    BY <2>1 DEF ClearPlayerPoints
  <2>4. ticksMap'[party[p]] = ticks /\ ticks \in SUBSET Players /\ stale \in SUBSET Players
    BY <2>2, <2>3 DEF SharedInv, SharedTypes
  <2>5. sharedExpEnabled' = [sharedExpEnabled EXCEPT ![party[p]] =
              Updated(party[p], CanEnable(leader[party[p]], memberList[party[p]],
                                          ticks, stale, fit))]
    BY <2>1, <2>3, <2>4 DEF ClearPlayerPoints
  <2> HIDE DEF ticks
  <2> QED BY <2>2, <2>3, <2>4, <2>5, UpdateSharedInv
<1>12. CASE \E p \in Players : Expire(p)
  BY <1>12 DEF Expire, links, SharedInv, SharedTypes, DeletedSharesNot, SharedWithFit, Exists
<1>13. CASE UNCHANGED vars
  BY <1>13 DEF vars, links, shared, SharedInv, SharedTypes, DeletedSharesNot,
               SharedWithFit, Exists
<1> QED BY <1>1, <1>2, <1>3, <1>4, <1>5, <1>6, <1>7, <1>8, <1>9, <1>10, <1>11,
           <1>12, <1>13 DEF Next

\* Experience is only ever shared in a party of at least two, all of whom have
\* an entry in its ticks and fit: whoever joins, leaves, moves, advances or falls
\* idle has sharing decided anew (updateSharedExperience of party.cpp).
THEOREM SharingNeedsFitness == Spec => []SharedWithFit
<1>1. Init => LinkInv /\ SharedInv
  BY InitLinkInv, InitSharedInv
<1>2. LinkInv /\ SharedInv /\ [Next]_vars => LinkInv' /\ SharedInv'
  BY NextLinkInv, NextSharedInv
<1>3. SharedInv => SharedWithFit
  BY DEF SharedInv
<1> QED BY <1>1, <1>2, <1>3, PTL DEF Spec
===============================================================================
