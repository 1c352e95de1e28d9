------------------------------ MODULE GameSession ------------------------------
(***************************************************************************)
(* Game sessions and the players they control (src/src/protocolgame.cpp,   *)
(* with the parts of player.cpp and game.cpp that log a player out).       *)
(*                                                                         *)
(* A session is a ProtocolGame with its Connection.  The network thread    *)
(* takes its packets and closes its connection; login, connect, logout and *)
(* release run as tasks of the dispatcher, connect after a second on the   *)
(* scheduler.  Session and Player point at each other, and the Player is   *)
(* deleted when its reference counter reaches zero.  A session creates at  *)
(* most one Player object, which is named after it here.  What may refuse  *)
(* a login (bans, waiting list, game state, database) is a free choice,    *)
(* and so is when a player's pings have been missing for too long.         *)
(***************************************************************************)
EXTENDS Naturals, Sequences, FiniteSets, SequencesExt

CONSTANTS
    Sessions,
    Names      \* characters

None == "None"

ASSUME SessionAssumption == None \notin Sessions

VARIABLES
    conn,         \* the Connection: "none", "open", "closed", "gone" (expired)
    name,         \* the character a session asked for
    tasks,        \* the dispatcher's queue
    eventConnect, \* the player a session waits for, on the scheduler
    player,       \* ProtocolGame::player
    accept,       \* ProtocolGame::acceptPackets
    client,       \* Player::client
    inGame,       \* players in the maps of Game
    toRelease,    \* Game::ToReleaseCreatures
    isConnecting, \* Player::isConnecting
    refs          \* reference counters

net == <<conn, name>>
body == <<inGame, toRelease, isConnecting>>
links == <<player, client, refs>>
sessionVars == <<net, tasks, eventConnect, accept, body, links>>

SessionInit ==
    /\ conn = [s \in Sessions |-> "none"]
    /\ name \in [Sessions -> Names]
    /\ tasks = <<>>
    /\ eventConnect = [s \in Sessions |-> None]
    /\ player = [s \in Sessions |-> None]
    /\ accept = [s \in Sessions |-> FALSE]
    /\ client = [o \in Sessions |-> None]
    /\ inGame = {}
    /\ toRelease = {}
    /\ isConnecting = [o \in Sessions |-> FALSE]
    /\ refs = [o \in Sessions |-> 0]

Task(k, s) == [kind |-> k, of |-> s, to |-> None]
ConnectTask(s, o) == [kind |-> "connect", of |-> s, to |-> o]
-------------------------------------------------------------------------------
\* Connection::close of session s, if there is one, after the tasks q: release is
\* posted, the first time.
CloseAfter(s, q) ==
    /\ conn' = [r \in Sessions |-> IF r = s /\ conn[r] = "open" THEN "closed" ELSE conn[r]]
    /\ tasks' = IF s # None /\ conn[s] = "open" THEN Append(q, Task("release", s)) ELSE q
    /\ UNCHANGED name

\* onRecvFirstMessage: the network thread posts login.
FirstMessage(s) ==
    /\ conn[s] = "none"
    /\ conn' = [conn EXCEPT ![s] = "open"]
    /\ tasks' = Append(tasks, Task("login", s))
    /\ UNCHANGED <<name, eventConnect, accept, body, links>>

\* onRecvFirstMessage refuses: wrong version, address banned, wrong password.
FirstMessageRefused(s) ==
    /\ conn[s] = "none"
    /\ conn' = [conn EXCEPT ![s] = "closed"]
    /\ tasks' = Append(tasks, Task("release", s))
    /\ UNCHANGED <<name, eventConnect, accept, body, links>>

\* A read or write fails or times out, or the client sends too fast.
NetworkClose(s) ==
    /\ conn[s] = "open"
    /\ CloseAfter(s, tasks)
    /\ UNCHANGED <<eventConnect, accept, body, links>>

\* The last handler returns and the Connection is destroyed.
Expire(s) ==
    /\ conn[s] = "closed"
    /\ conn' = [conn EXCEPT ![s] = "gone"]
    /\ UNCHANGED <<name, tasks, eventConnect, accept, body, links>>

\* The session's player may be used by its network thread.
Playing(s) == conn[s] = "open" /\ accept[s]

\* parsePacket, of a request to log out
PacketLogout(s) ==
    /\ Playing(s)
    /\ ~Contains(tasks, Task("logout", s))
    /\ tasks' = Append(tasks, Task("logout", s))
    /\ UNCHANGED <<net, eventConnect, accept, body, links>>

\* parsePacket, of the packet with which a client leaves the death window
PacketQuit(s) ==
    /\ Playing(s)
    /\ player[s] \notin inGame
    /\ CloseAfter(s, tasks)
    /\ UNCHANGED <<eventConnect, accept, body, links>>
-------------------------------------------------------------------------------

\* Game::getPlayerByName
NamedPlayer(s) == {o \in inGame : name[o] = name[s]}

\* A new Player for the session, not in the game yet
NewPlayer(s) ==
    /\ player' = [player EXCEPT ![s] = s]
    /\ client' = [client EXCEPT ![s] = s]

\* login of a character who is not in the game
LoginNew(s, q) ==
    /\ NamedPlayer(s) = {}
    /\ NewPlayer(s)
    /\ \/ /\ inGame' = inGame \cup {s}
          /\ refs' = [refs EXCEPT ![s] = 2]
          /\ accept' = [accept EXCEPT ![s] = TRUE]
          /\ tasks' = q
          /\ UNCHANGED net
       \/ /\ refs' = [refs EXCEPT ![s] = 1]
          /\ CloseAfter(s, q)
          /\ UNCHANGED <<inGame, accept>>
    /\ UNCHANGED <<eventConnect, toRelease, isConnecting>>

\* Mutant of Attachable: the other client is not looked at.
AttachableAny(o) == o \in inGame

\* connect finds the player in the game and without a client.
Attachable(o) == o \in inGame /\ client[o] = None

\* Mutant of Accepts: packets are accepted from the login on.
AcceptsEarly(s) == accept' = [accept EXCEPT ![s] = TRUE]

\* A session that waits for its player accepts no packets.
Accepts(s) == UNCHANGED accept

\* connect disconnects its client: somebody else plays the character.
Refused(s, q) == CloseAfter(s, q)

\* connect, from login or from the scheduler
Connect(s, o, q) ==
    /\ eventConnect' = [eventConnect EXCEPT ![s] = None]
    /\ \/ /\ ~Attachable(o)
          /\ Refused(s, q)
          /\ UNCHANGED <<accept, isConnecting, links>>
       \/ /\ Attachable(o) /\ conn[s] = "gone"
          /\ tasks' = q
          /\ UNCHANGED <<net, accept, isConnecting, links>>
       \/ /\ Attachable(o) /\ conn[s] # "gone"
          /\ player' = [player EXCEPT ![s] = o]
          /\ refs' = [refs EXCEPT ![o] = @ + 1]
          /\ isConnecting' = [isConnecting EXCEPT ![o] = FALSE]
          /\ client' = [client EXCEPT ![o] = s]
          /\ accept' = [accept EXCEPT ![s] = TRUE]
          /\ tasks' = q
          /\ UNCHANGED net
    /\ UNCHANGED <<inGame, toRelease>>

\* login of a character who is in the game: his client is disconnected and the
\* session tries again after a second, unless the server is set to refuse it.
LoginAgain(s, q) ==
    \E o \in NamedPlayer(s) :
        \/ /\ CloseAfter(s, q)
           /\ UNCHANGED <<eventConnect, accept, body, links>>
        \/ /\ client[o] = None
           /\ Connect(s, o, q)
        \/ /\ client[o] # None
           /\ CloseAfter(client[o], q)
           /\ isConnecting' = [isConnecting EXCEPT ![o] = TRUE]
           /\ eventConnect' = [eventConnect EXCEPT ![s] = o]
           /\ Accepts(s)
           /\ UNCHANGED <<inGame, toRelease, links>>

\* The scheduler hands connect to the dispatcher, before the tasks that wait.
ConnectDue(s) ==
    /\ eventConnect[s] # None
    /\ ~Contains(tasks, ConnectTask(s, eventConnect[s]))
    /\ tasks' = <<ConnectTask(s, eventConnect[s])>> \o tasks
    /\ UNCHANGED <<net, eventConnect, accept, body, links>>

\* Game::removeCreature
RemoveCreature(o) ==
    /\ inGame' = inGame \ {o}
    /\ toRelease' = IF o \in inGame THEN toRelease \cup {o} ELSE toRelease
    /\ UNCHANGED isConnecting

\* logout; it may be refused while the player is in the game.
Logout(s, q) ==
    \/ /\ player[s] = None \/ player[s] \in inGame
       /\ tasks' = q
       /\ UNCHANGED <<net, body>>
    \/ /\ player[s] # None
       /\ CloseAfter(s, q)
       /\ RemoveCreature(player[s])

\* The session gives its reference up.
Freed(s) == refs' = [refs EXCEPT ![player[s]] = @ - 1]

\* ProtocolGame::release
Release(s) ==
    \/ /\ player[s] # None
       /\ client[player[s]] = s
       /\ client' = [client EXCEPT ![player[s]] = None]
       /\ Freed(s)
       /\ player' = [player EXCEPT ![s] = None]
    \/ /\ player[s] # None => client[player[s]] # s
       /\ UNCHANGED links

\* The dispatcher runs the next task.
Dispatch ==
    /\ tasks # <<>>
    /\ LET t == Head(tasks)
           s == t.of
           q == Tail(tasks)
       IN  \/ t.kind = "login" /\ LoginNew(s, q)
           \/ t.kind = "login" /\ LoginAgain(s, q)
           \/ t.kind = "connect" /\ Connect(s, t.to, q)
           \/ /\ t.kind = "logout"
              /\ Logout(s, q)
              /\ UNCHANGED <<eventConnect, accept, links>>
           \/ /\ t.kind = "release"
              /\ Release(s)
              /\ tasks' = q
              /\ UNCHANGED <<net, eventConnect, accept, body>>
-------------------------------------------------------------------------------
\* The player leaves the game and his client, if he has one, is disconnected.
Kick(o) ==
    /\ o \in inGame
    /\ CloseAfter(client[o], tasks)
    /\ RemoveCreature(o)
    /\ UNCHANGED <<eventConnect, accept, links>>

\* sendPing: no answer for a minute, and nobody is connecting to the player
PingTimeout(o) == ~isConnecting[o] /\ Kick(o)

\* Player::onThink: idle for too long; also commands and the server's closing
KickPlayer(o) == Kick(o)

\* The player dies: he leaves the game, his client stays.
Die(o) ==
    /\ o \in inGame
    /\ RemoveCreature(o)
    /\ UNCHANGED <<net, tasks, eventConnect, accept, links>>

\* Game::cleanup
Cleanup ==
    /\ toRelease # {}
    /\ refs' = [o \in Sessions |-> IF o \in toRelease THEN refs[o] - 1 ELSE refs[o]]
    /\ toRelease' = {}
    /\ UNCHANGED <<net, tasks, eventConnect, accept, inGame, isConnecting, player, client>>

\* All connections have come and gone.
Quiet ==
    /\ \A s \in Sessions : conn[s] = "gone"
    /\ tasks = <<>> /\ inGame = {} /\ toRelease = {}
    /\ UNCHANGED sessionVars

SessionNext ==
    \/ \E s \in Sessions : FirstMessage(s)
    \/ \E s \in Sessions : FirstMessageRefused(s)
    \/ \E s \in Sessions : NetworkClose(s)
    \/ \E s \in Sessions : Expire(s)
    \/ \E s \in Sessions : PacketLogout(s)
    \/ \E s \in Sessions : PacketQuit(s)
    \/ \E s \in Sessions : ConnectDue(s)
    \/ Dispatch
    \/ \E o \in Sessions : PingTimeout(o)
    \/ \E o \in Sessions : KickPlayer(o)
    \/ \E o \in Sessions : Die(o)
    \/ Cleanup
    \/ Quiet

SessionSpec == SessionInit /\ [][SessionNext]_sessionVars
-------------------------------------------------------------------------------
SessionTypeOK ==
    /\ conn \in [Sessions -> {"none", "open", "closed", "gone"}]
    /\ name \in [Sessions -> Names]
    /\ \A i \in DOMAIN tasks :
          /\ tasks[i].kind \in {"login", "connect", "logout", "release"}
          /\ tasks[i].of \in Sessions
    /\ eventConnect \in [Sessions -> Sessions \cup {None}]
    /\ player \in [Sessions -> Sessions \cup {None}]
    /\ accept \in [Sessions -> BOOLEAN]
    /\ client \in [Sessions -> Sessions \cup {None}]
    /\ inGame \subseteq Sessions
    /\ toRelease \subseteq Sessions
    /\ isConnecting \in [Sessions -> BOOLEAN]
    /\ refs \in [Sessions -> Nat]

\* A player's client is the session that controls him, and the other way round:
\* release finds itself there, so no session keeps another one's player.
ClientAgrees ==
    \A s, o \in Sessions : client[o] = s <=> player[s] = o

\* The reference counter counts exactly the game, or the list of creatures to
\* release, and the sessions that point at the player.
RefsCountHolders ==
    \A o \in Sessions :
        refs[o] = Cardinality({s \in Sessions : player[s] = o})
                  + (IF o \in inGame \cup toRelease THEN 1 ELSE 0)

\* Two sessions that ask for the same character never get two players.
OneBody ==
    \A o1, o2 \in inGame : name[o1] = name[o2] => o1 = o2

\* While the network thread takes packets of a session, the player it reads
\* without a lock exists and stays the same.
PlayerForPackets ==
    [][\A s \in Sessions : Playing(s) =>
          /\ player[s] # None /\ refs[player[s]] > 0
          /\ Playing(s)' => player'[s] = player[s]]_sessionVars

\* No session that asks for a character is forgotten: until it is disconnected
\* or accepts packets, its login or its connect is still to run.
NobodyForgotten ==
    \A s \in Sessions : conn[s] = "open" /\ ~accept[s] =>
        Contains(tasks, Task("login", s)) \/ eventConnect[s] # None

\* "we return to prevent leakage of the Player": once its release has run, a
\* session has no player.
ReleasedHasNone ==
    \A s \in Sessions :
        conn[s] \in {"closed", "gone"} /\ ~Contains(tasks, Task("release", s)) =>
            player[s] = None

\* Sessions, players and reference counters agree while three sessions fight for
\* one character: none is left pointing at nobody, twice in the game or forgotten.
SessionsAgree == ClientAgrees /\ RefsCountHolders /\ OneBody /\ NobodyForgotten
===============================================================================
