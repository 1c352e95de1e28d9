-------------------------------- MODULE Chat --------------------------------
(* Chat channels (chat.cpp), the guild objects shared by their members that    *)
(* are online (guild.cpp, Player::setGuild, IOLoginData::loadPlayer) and what  *)
(* a party has to do with its channel (module Party has the rest). A channel   *)
(* is found by a key: a party's is the address of its Party object, which the  *)
(* allocator gives out again once the object is deleted.                       *)
EXTENDS Integers, FiniteSets

CONSTANTS Talkers,       \* players
          Premium,       \* those with a premium account
          GuildRow,      \* the guild of a player in the database, or None
          GuildIds, PartyAddresses,
          NormalChannels, PrivateSlots,   \* ids of channels
          MaxBuffer,     \* ConfigManager::MAX_MESSAGEBUFFER
          ChatSteps      \* bound: operations in a behaviour

VARIABLES chat,          \* [on, guildOf, members, partyOf, party, chans, open, refused, buffer, muted];
                         \* refused: <<player, channel>> of whom canJoin refused when he closed the window
          chatSteps

chatVars == <<chat, chatSteps>>
None == "none"

ASSUME ChatAssumption ==
    /\ None \notin Talkers
    /\ NormalChannels \cup PrivateSlots \subseteq Nat \ {0, 1}
    /\ NormalChannels \cap PrivateSlots = {}
    /\ GuildRow \in [Talkers -> GuildIds \cup {None}]
    /\ MaxBuffer \in Nat

(* A key and the id a client knows the channel by *)
NormalKey(i) == <<"normal", i>>
PrivateKey(i) == <<"private", i>>
GuildKey(g) == <<"guild", g>>
PartyKey(a) == <<"party", a>>
NoChannel == <<"no", "no">>
CHANNEL_GUILD == 0
CHANNEL_PARTY == 1
ClientId(k) == IF k[1] = "guild" THEN CHANNEL_GUILD ELSE IF k[1] = "party" THEN CHANNEL_PARTY ELSE k[2]
EmptyChannel == [users |-> {}, invites |-> {}, owner |-> None]
ChatExists(c, k) == k \in DOMAIN c.chans
Without(f, ks) == [k \in DOMAIN f \ ks |-> f[k]]
With(f, k, v) == [x \in DOMAIN f \cup {k} |-> IF x = k THEN v ELSE f[x]]

-----------------------------------------------------------------------------
(* PrivateChatChannel and ChatChannel *)
IsInvited(c, k, p) == p = c.chans[k].owner \/ p \in c.chans[k].invites

AddUser(c, k, p, joins) ==
    IF p \in c.chans[k].users \/ ~joins THEN c ELSE [c EXCEPT !.chans[k].users = @ \cup {p}]
RemoveUser(c, k, p) == [c EXCEPT !.chans[k].users = @ \ {p}]

InvitePlayer(c, k, q) == [c EXCEPT !.chans[k].invites = @ \cup {q}]
ClientCloses(c, ps, id) == [c EXCEPT !.open = [p \in Talkers |-> IF p \in ps THEN @[p] \ {id} ELSE @[p]]]

(* a variant that only takes back the invitation *)
ExcludeQuietly(c, k, q) == [c EXCEPT !.chans[k].invites = @ \ {q}]
ExcludePlayer(c, k, q) ==
    IF q \notin c.chans[k].invites THEN c
    ELSE ClientCloses(RemoveUser([c EXCEPT !.chans[k].invites = @ \ {q}], k, q), {q}, ClientId(k))

-----------------------------------------------------------------------------
(* class Chat. ok is the answer of the channel's canJoin script.              *)
GetChannel(c, p, id, ok) ==
    LET k == IF id = CHANNEL_GUILD THEN GuildKey(c.guildOf[p])
             ELSE IF id = CHANNEL_PARTY THEN PartyKey(c.partyOf[p])
             ELSE IF ChatExists(c, NormalKey(id)) THEN NormalKey(id) ELSE PrivateKey(id)
    IN  IF ~ChatExists(c, k) THEN NoChannel
        ELSE IF k[1] = "normal" /\ ~ok THEN NoChannel
        ELSE IF k[1] = "private" /\ ~IsInvited(c, k, p) THEN NoChannel
        ELSE k

OwnPrivate(c, p) == {k \in DOMAIN c.chans : c.chans[k].owner = p}      \* getPrivateChannel
FreeSlots(c) == {i \in PrivateSlots : ~ChatExists(c, PrivateKey(i))}

CreateChannel(c, p, id) ==
    IF GetChannel(c, p, id, TRUE) # NoChannel THEN c
    ELSE IF id = CHANNEL_GUILD /\ c.guildOf[p] # None THEN [c EXCEPT !.chans = With(@, GuildKey(c.guildOf[p]), EmptyChannel)]
    ELSE IF id = CHANNEL_PARTY /\ c.partyOf[p] # None THEN [c EXCEPT !.chans = With(@, PartyKey(c.partyOf[p]), EmptyChannel)]
    ELSE c

(* only the owner's leaving deletes a channel, and only private ones have one *)
DeletePrivate(c, k) ==
    LET d == ClientCloses(c, c.chans[k].users, ClientId(k)) IN [d EXCEPT !.chans = Without(@, {k})]

(* the script is asked again: a user it has come to refuse is not taken out    *)
RemoveUserFromChannel(c, p, id, ok) ==
    LET k == GetChannel(c, p, id, ok)
        d == RemoveUser(c, k, p)
    IN  IF k = NoChannel \/ p \notin c.chans[k].users THEN c
        ELSE IF c.chans[k].owner = p THEN DeletePrivate(d, k) ELSE d

(* the users of his own private channel are told that it closes *)
RemoveUserFromAllChannels(c, p) ==
    LET own == OwnPrivate(c, p)
        closed(q) == {ClientId(k) : k \in {x \in own : q \in c.chans[x].users \ {p}}}
        left(k) == [c.chans[k] EXCEPT !.users = @ \ {p}, !.invites = @ \ {p}]
    IN  [c EXCEPT !.chans = [k \in DOMAIN @ \ own |-> left(k)], !.open = [q \in Talkers |-> @[q] \ closed(q)],
                  !.refused = {x \in @ : x[1] # p}]

(* opening the list of channels creates those of guild and party *)
GetChannelList(c, p) == CreateChannel(CreateChannel(c, p, CHANNEL_GUILD), p, CHANNEL_PARTY)

(* talkToChannel and ChatChannel::talk: whom the client is sent it for *)
Hearers(c, p, id, ok) ==
    LET k == GetChannel(c, p, id, ok)
    IN  IF k # NoChannel /\ p \in c.chans[k].users THEN c.chans[k].users ELSE {}

-----------------------------------------------------------------------------
(* Guilds and parties *)
LoadGuild(c, g) == IF g = None \/ g \in DOMAIN c.members THEN c ELSE [c EXCEPT !.members = With(@, g, {})]

AddMember(c, g, p) == [c EXCEPT !.members[g] = @ \cup {p}]
RemoveMember(c, g, p) ==
    LET rest == c.members[g] \ {p}
    IN  [c EXCEPT !.members = IF rest = {} THEN Without(@, {g}) ELSE With(@, g, rest)]

(* every guild has a rank of level 1: schema.sql creates it with the guild *)
SetGuild(c, p, g) ==
    LET old == c.guildOf[p]
        d   == [c EXCEPT !.guildOf[p] = g]
        e   == IF g = None THEN d ELSE AddMember(d, g, p)
    IN  IF g = old THEN c ELSE IF old = None THEN e ELSE RemoveMember(e, old, p)

SendClosePrivate(c, p, id) == ClientCloses(RemoveUserFromChannel(c, p, id, TRUE), {p}, id)

(* Party::disband: a member's party is forgotten before the channel is closed,  *)
(* so that removeUserFromChannel does not find the channel                     *)
Disband(c, a) ==
    LET ps == c.party[a]
        d  == [c EXCEPT !.partyOf = [p \in Talkers |-> IF p \in ps THEN None ELSE @[p]], !.party[a] = {}]
        found(k) == {p \in ps : GetChannel(d, p, CHANNEL_PARTY, TRUE) = k}
        left(k) == [c.chans[k] EXCEPT !.users = @ \ found(k)]
    IN  ClientCloses([d EXCEPT !.chans = [k \in DOMAIN @ |-> left(k)]], ps, CHANNEL_PARTY)

ChatLeaveParty(c, p) ==
    LET a == c.partyOf[p]
        d == SendClosePrivate(c, p, CHANNEL_PARTY)
        e == [d EXCEPT !.partyOf[p] = None, !.party[a] = @ \ {p}]
    IN  IF a = None THEN c ELSE IF Cardinality(e.party[a]) <= 1 THEN Disband(e, a) ELSE e

-----------------------------------------------------------------------------
ChatInit ==
    /\ chat = [on |-> {}, guildOf |-> [p \in Talkers |-> None], members |-> [g \in {} |-> {}],
               partyOf |-> [p \in Talkers |-> None], party |-> [a \in PartyAddresses |-> {}],
               chans |-> [k \in {NormalKey(i) : i \in NormalChannels} |-> EmptyChannel],
               open |-> [p \in Talkers |-> {}], refused |-> {},
               buffer |-> [p \in Talkers |-> 0], muted |-> [p \in Talkers |-> FALSE]]
    /\ chatSteps = ChatSteps

Chats(c) == chatSteps > 0 /\ chatSteps' = chatSteps - 1 /\ chat' = c

(* loadPlayer and Player::onCreatureAppear *)
ChatLogin(p) ==
    /\ p \notin chat.on
    /\ LET c == LoadGuild(chat, GuildRow[p])
           d == [c EXCEPT !.on = @ \cup {p}, !.guildOf[p] = GuildRow[p], !.buffer[p] = 0, !.open[p] = {}]
       IN  Chats(IF GuildRow[p] = None THEN d ELSE AddMember(d, GuildRow[p], p))

(* loadPlayer for a letter, a house or a script: the player does not appear *)
LoadOffline(p) == p \notin chat.on /\ Chats(LoadGuild(chat, GuildRow[p]))

(* Player::onRemoveCreature *)
ChatLogout(p) ==
    /\ p \in chat.on
    /\ LET c == RemoveUserFromAllChannels(ChatLeaveParty(chat, p), p)
           d == IF c.guildOf[p] = None THEN c ELSE RemoveMember(c, c.guildOf[p], p)
       IN  Chats([d EXCEPT !.on = @ \ {p}, !.guildOf[p] = None, !.open[p] = {}])

(* ProtocolGame::connect: another client takes over *)
ChatConnect(p) == p \in chat.on /\ LET c == RemoveUserFromAllChannels(chat, p) IN Chats([c EXCEPT !.open[p] = {}])

RequestChannels(p) == p \in chat.on /\ Chats(GetChannelList(chat, p))

OpenChannel(p, id, ok, joins) ==
    LET k == GetChannel(chat, p, id, ok)
    IN  /\ p \in chat.on /\ k # NoChannel /\ p \notin chat.chans[k].users
        /\ k[1] # "normal" => ok /\ joins
        /\ Chats(IF ~joins THEN chat ELSE [AddUser(chat, k, p, joins) EXCEPT !.open[p] = @ \cup {id}])

CloseChannel(p, id, ok) ==
    LET c == ClientCloses(chat, {p}, id)
        k == NormalKey(id)
        stays == IF ~ok /\ ChatExists(chat, k) /\ p \in chat.chans[k].users THEN {<<p, k>>} ELSE {}
    IN  /\ p \in chat.on /\ id \in chat.open[p]
        /\ Chats(RemoveUserFromChannel([c EXCEPT !.refused = @ \cup stays], p, id, ok))

(* the first free slot; at most one channel of one's own *)
CreatePrivateChannel(p) ==
    /\ p \in chat.on \cap Premium /\ OwnPrivate(chat, p) = {} /\ FreeSlots(chat) # {}
    /\ \E s \in FreeSlots(chat) :
          /\ \A i \in FreeSlots(chat) : s <= i
          /\ LET c == [chat EXCEPT !.chans = With(@, PrivateKey(s), [EmptyChannel EXCEPT !.owner = p])]
             IN  Chats([AddUser(c, PrivateKey(s), p, TRUE) EXCEPT !.open[p] = @ \cup {s}])

ChannelInvite(p, q) ==
    p # q /\ {p, q} \subseteq chat.on /\ \E k \in OwnPrivate(chat, p) : Chats(InvitePlayer(chat, k, q))
ChannelExclude(p, q) ==
    p # q /\ {p, q} \subseteq chat.on /\ \E k \in OwnPrivate(chat, p) : Chats(ExcludePlayer(chat, k, q))

(* Game::playerSay: only private messages do not count *)
Say(p, private) ==
    /\ p \in chat.on /\ ~chat.muted[p]
    /\ LET n == IF private \/ chat.buffer[p] > MaxBuffer + 1 THEN chat.buffer[p] ELSE chat.buffer[p] + 1
       IN  Chats([chat EXCEPT !.buffer[p] = n, !.muted[p] = n > chat.buffer[p] /\ n > MaxBuffer])
Quiet(p) ==                                  \* onThink and the end of the condition
    p \in chat.on /\ Chats([chat EXCEPT !.buffer[p] = IF @ > 0 THEN @ - 1 ELSE @, !.muted[p] = FALSE])

(* Chat::load replaces the channels of the file; the clients are not told *)
ReloadChannels ==
    Chats([chat EXCEPT !.chans = [k \in DOMAIN @ |-> IF k[1] = "normal" THEN EmptyChannel ELSE @[k]], !.refused = {}])

ChangeGuild(p, g) == p \in chat.on /\ (g # None => g \in DOMAIN chat.members) /\ Chats(SetGuild(chat, p, g))

FoundParty(p, q, a) ==                       \* p invites q, who joins
    /\ p # q /\ {p, q} \subseteq chat.on /\ chat.partyOf[q] = None
    /\ IF chat.partyOf[p] = None THEN chat.party[a] = {} ELSE chat.partyOf[p] = a
    /\ Chats([chat EXCEPT !.party[a] = @ \cup {p, q}, !.partyOf[p] = a, !.partyOf[q] = a])
QuitParty(p) == p \in chat.on /\ chat.partyOf[p] # None /\ Chats(ChatLeaveParty(chat, p))

ChatNext ==
    \/ ReloadChannels
    \/ \E p \in Talkers :
          \/ ChatLogin(p) \/ LoadOffline(p) \/ ChatLogout(p) \/ ChatConnect(p)
          \/ RequestChannels(p) \/ CreatePrivateChannel(p) \/ QuitParty(p) \/ Quiet(p)
          \/ \E private \in BOOLEAN : Say(p, private)
          \/ \E id \in NormalChannels \cup PrivateSlots \cup {CHANNEL_GUILD, CHANNEL_PARTY} :
                \E ok \in BOOLEAN : CloseChannel(p, id, ok) \/ \E joins \in BOOLEAN : OpenChannel(p, id, ok, joins)
          \/ \E q \in Talkers : ChannelInvite(p, q) \/ ChannelExclude(p, q) \/ \E a \in PartyAddresses : FoundParty(p, q, a)
          \/ \E g \in GuildIds \cup {None} : ChangeGuild(p, g)

ChatSpec == ChatInit /\ [][ChatNext]_chatVars

-----------------------------------------------------------------------------
(* Whoever a channel's talk is sent to is in the game (users and invites hold  *)
(* raw pointers); into a private channel only its owner and those invited hear *)
(* and only through a window that is open at the client; a private channel has *)
(* an owner who is in it, and nobody has two. Guild and party apart, no client *)
(* is sent the talk of a channel whose window it closed or was told is closed, *)
(* but a public channel's whose canJoin script refused him when he closed it:  *)
(* he stays among its users until he logs out, is taken over or the channels   *)
(* are loaded again. A guild object lives as long as a player in the game      *)
(* points to it, and knows exactly those.                                      *)
Listens(c, k, p) == ClientId(k) \in c.open[p] \/ (k[1] = "normal" /\ <<p, k>> \in c.refused)
ChatAgrees ==
    /\ \A k \in DOMAIN chat.chans :
          /\ chat.chans[k].users \cup chat.chans[k].invites \subseteq chat.on
          /\ k[1] \in {"normal", "private"} => \A p \in chat.chans[k].users : Listens(chat, k, p)
          /\ k[1] = "private" => /\ \A p \in Talkers : \A q \in Hearers(chat, p, k[2], TRUE) : IsInvited(chat, k, q)
                                 /\ chat.chans[k].owner \in chat.chans[k].users
    /\ \A p \in Talkers : Cardinality(OwnPrivate(chat, p)) <= 1
    /\ \A p \in chat.on : chat.guildOf[p] # None =>
          chat.guildOf[p] \in DOMAIN chat.members /\ p \in chat.members[chat.guildOf[p]]
    /\ \A g \in DOMAIN chat.members : \A p \in chat.members[g] : p \in chat.on /\ chat.guildOf[p] = g
=============================================================================
