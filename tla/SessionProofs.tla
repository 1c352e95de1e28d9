----------------------------- MODULE SessionProofs -----------------------------
(***************************************************************************)
(* Proofs about GameSession: sessions, players and reference counters      *)
(* agree, and the player whom a network thread reads stays, for any number *)
(* of sessions and characters.                                             *)
(***************************************************************************)
EXTENDS GameSession, FiniteSetTheorems, TLAPS

Kinds == {"login", "connect", "logout", "release"}
Tasks == [kind : Kinds, of : Sessions, to : Sessions \cup {None}]

\* The queue q holds a task of that kind for session s.
Has(q, k, s) == \E i \in 1..Len(q) : q[i].kind = k /\ q[i].of = s

\* The session has not logged in: its Player does not exist and nobody knows it.
Fresh(s) ==
    /\ player[s] = None /\ client[s] = None /\ eventConnect[s] = None
    /\ s \notin inGame \cup toRelease
    /\ refs[s] = 0
    /\ ~accept[s]

\* A login and a connect are posted at most once for a session.
PostedOnce ==
    \A i, j \in 1..Len(tasks) :
        /\ tasks[i].kind = tasks[j].kind
        /\ tasks[i].of = tasks[j].of
        /\ tasks[i].kind \in {"login", "connect"}
        => i = j

\* A session without a first message has no tasks, and its Player is not made
\* before its login has run.
NotYet ==
    \A s \in Sessions :
        /\ conn[s] = "none" => Fresh(s) /\ \A k \in Kinds : ~Has(tasks, k, s)
        /\ Has(tasks, "login", s) => Fresh(s) /\ ~Has(tasks, "connect", s)

\* A session that waits for a player has none, and connect is posted for the
\* player it waits for.
WaitingHasNone ==
    /\ \A s \in Sessions :
          eventConnect[s] # None => player[s] = None /\ ~accept[s]
    /\ \A i \in 1..Len(tasks) :
          tasks[i].kind = "connect" =>
              tasks[i].to # None /\ eventConnect[tasks[i].of] = tasks[i].to

\* release is posted for closed connections only.
ReleaseAfterClose ==
    \A s \in Sessions : Has(tasks, "release", s) => conn[s] \in {"closed", "gone"}

\* The counter is one for the client and one for the game or its release list.
RefsExact ==
    /\ inGame \cap toRelease = {}
    /\ \A o \in Sessions :
          refs[o] = (IF client[o] # None THEN 1 ELSE 0)
                    + (IF o \in inGame \cup toRelease THEN 1 ELSE 0)

\* A session that takes packets has a player.
AcceptsForPlayer ==
    \A s \in Sessions : Playing(s) => player[s] # None

\* No session is forgotten, in terms of Has.
StillToRun ==
    \A s \in Sessions : conn[s] = "open" /\ ~accept[s] =>
        Has(tasks, "login", s) \/ eventConnect[s] # None

\* A login task goes to nobody in particular.
LoginIsPlain ==
    \A i \in 1..Len(tasks) : tasks[i].kind = "login" => tasks[i].to = None

SessionTypes == SessionTypeOK /\ tasks \in Seq(Tasks)

\* The inductive invariant
SessionInv ==
    /\ SessionTypes
    /\ PostedOnce /\ NotYet /\ WaitingHasNone /\ ReleaseAfterClose /\ LoginIsPlain
    /\ ClientAgrees /\ RefsExact /\ OneBody /\ AcceptsForPlayer /\ StillToRun
-------------------------------------------------------------------------------
USE SessionAssumption DEF None

\* What appending a task does to the queue
LEMMA AppendTask ==
    ASSUME NEW q \in Seq(Tasks), NEW t \in Tasks, NEW q2, q2 = Append(q, t)
    PROVE  /\ q2 \in Seq(Tasks)
           /\ Len(q2) = Len(q) + 1
           /\ \A i \in 1..Len(q) : q2[i] = q[i]
           /\ q2[Len(q) + 1] = t
           /\ \A k, r : Has(q2, k, r) <=> Has(q, k, r) \/ (t.kind = k /\ t.of = r)
<1>1. q2 \in Seq(Tasks) /\ Len(q2) = Len(q) + 1 /\ q2[Len(q) + 1] = t
  OBVIOUS
<1>2. \A i \in 1..Len(q) : q2[i] = q[i]
  OBVIOUS
<1>3. ASSUME NEW k, NEW r, Has(q2, k, r)
      PROVE  Has(q, k, r) \/ (t.kind = k /\ t.of = r)
  BY <1>1, <1>2, <1>3 DEF Has
<1>4. ASSUME NEW k, NEW r, Has(q, k, r)
      PROVE  Has(q2, k, r)
  BY <1>1, <1>2, <1>4 DEF Has
<1>5. ASSUME NEW k, NEW r, t.kind = k, t.of = r
      PROVE  Has(q2, k, r)
  <2>1. Len(q) + 1 \in 1..Len(q2)
    BY <1>1
  <2> QED BY <1>1, <1>5, <2>1 DEF Has
<1> QED BY <1>1, <1>2, <1>3, <1>4, <1>5

\* A step that posts a task
LEMMA PostTask ==
    ASSUME NEW t \in Tasks, tasks \in Seq(Tasks), tasks' = Append(tasks, t)
    PROVE  /\ tasks' \in Seq(Tasks)
           /\ Len(tasks') = Len(tasks) + 1 /\ Len(tasks) \in Nat
           /\ \A i \in 1..Len(tasks) : tasks'[i] = tasks[i]
           /\ tasks'[Len(tasks) + 1] = t
           /\ \A i \in 1..Len(tasks') : i \in 1..Len(tasks) \/ i = Len(tasks) + 1
           /\ \A k, r : Has(tasks', k, r) <=> Has(tasks, k, r) \/ (t.kind = k /\ t.of = r)
<1>1. \A q2 : q2 = Append(tasks, t) =>
          \A k, r : Has(q2, k, r) <=> Has(tasks, k, r) \/ (t.kind = k /\ t.of = r)
  BY AppendTask, Zenon
<1>2. \A k, r : Has(tasks', k, r) <=> Has(tasks, k, r) \/ (t.kind = k /\ t.of = r)
  BY <1>1, Zenon
<1> QED BY <1>2

\* What taking the first task leaves of the queue
LEMMA TailTask ==
    ASSUME NEW q \in Seq(Tasks), q # <<>>, NEW q2, q2 = Tail(q)
    PROVE  /\ q2 \in Seq(Tasks)
           /\ Head(q) = q[1] /\ Head(q) \in Tasks
           /\ Len(q2) = Len(q) - 1
           /\ \A i \in 1..Len(q2) : i + 1 \in 1..Len(q) /\ q2[i] = q[i + 1]
           /\ \A k, r : Has(q2, k, r) => Has(q, k, r)
           /\ \A k, r : Has(q, k, r) => Has(q2, k, r) \/ (Head(q).kind = k /\ Head(q).of = r)
           /\ Has(q, Head(q).kind, Head(q).of)
<1>1. q2 \in Seq(Tasks) /\ Head(q) = q[1] /\ Head(q) \in Tasks /\ Len(q2) = Len(q) - 1
      /\ Len(q) \in Nat \ {0}
  OBVIOUS
<1>2. \A i \in 1..Len(q2) : i + 1 \in 1..Len(q) /\ q2[i] = q[i + 1]
  OBVIOUS
<1>3. \A k, r : Has(q2, k, r) => Has(q, k, r)
  BY <1>1, <1>2 DEF Has
<1>4. ASSUME NEW k, NEW r, Has(q, k, r), ~(Head(q).kind = k /\ Head(q).of = r)
      PROVE  Has(q2, k, r)
  <2>1. PICK i \in 1..Len(q) : q[i].kind = k /\ q[i].of = r
    BY <1>4 DEF Has
  <2>2. i # 1
    BY <2>1, <1>1, <1>4
  <2>3. i - 1 \in 1..Len(q2) /\ q2[i - 1] = q[i]
    BY <2>2, <1>1, <1>2
  <2> QED BY <2>1, <2>3 DEF Has
<1>5. Has(q, Head(q).kind, Head(q).of)
  <2>1. 1 \in 1..Len(q)
    BY <1>1
  <2> QED BY <1>1, <2>1 DEF Has
<1> QED BY <1>1, <1>2, <1>3, <1>4, <1>5

\* The same, of the tasks it holds
LEMMA TailHas ==
    ASSUME NEW q \in Seq(Tasks), q # <<>>
    PROVE  /\ \A k, r : Has(Tail(q), k, r) => Has(q, k, r)
           /\ \A k, r : Has(q, k, r) =>
                 Has(Tail(q), k, r) \/ (Head(q).kind = k /\ Head(q).of = r)
           /\ Has(q, Head(q).kind, Head(q).of)
BY TailTask

\* What may become of the queue in a step that posts no login and no connect:
\* the first task may go, release may be posted where the connection is closed,
\* and logout where it is open.
Rest(q2) ==
    /\ q2 \in Seq(Tasks)
    /\ \E d \in {0, 1} :
          \A i \in 1..Len(q2) : q2[i].kind \in {"login", "connect"} =>
              i + d \in 1..Len(tasks) /\ q2[i] = tasks[i + d]
    /\ \A k \in Kinds, r \in Sessions :
          Has(q2, k, r) =>
              \/ Has(tasks, k, r)
              \/ k = "release" /\ conn'[r] = "closed"
              \/ k = "logout" /\ conn[r] = "open"

\* The queue after Connection::close
LEMMA CloseTasks ==
    ASSUME SessionTypes, NEW q \in Seq(Tasks), NEW s \in Sessions \cup {None}, CloseAfter(s, q)
    PROVE  /\ tasks' \in Seq(Tasks)
           /\ \A i \in 1..Len(tasks') :
                 tasks'[i].kind # "release" => i \in 1..Len(q) /\ tasks'[i] = q[i]
           /\ \A k, r : Has(q, k, r) => Has(tasks', k, r)
           /\ \A k, r : Has(tasks', k, r) =>
                 Has(q, k, r) \/ (k = "release" /\ r = s /\ conn'[r] = "closed")
           /\ conn' \in [Sessions -> {"none", "open", "closed", "gone"}]
           /\ \A r \in Sessions :
                 conn'[r] = IF r = s /\ conn[r] = "open" THEN "closed" ELSE conn[r]
           /\ name' = name
<1>1. conn' \in [Sessions -> {"none", "open", "closed", "gone"}] /\ name' = name
      /\ \A r \in Sessions :
            conn'[r] = IF r = s /\ conn[r] = "open" THEN "closed" ELSE conn[r]
  BY DEF CloseAfter, SessionTypes, SessionTypeOK
<1>2. CASE s # None /\ conn[s] = "open"
  <2>1. Task("release", s) \in Tasks
    BY <1>2 DEF Task, Tasks, Kinds
  <2>2. Task("release", s).kind = "release" /\ Task("release", s).of = s
    BY DEF Task
  <2>3. tasks' = Append(q, Task("release", s))
    BY <1>2 DEF CloseAfter
  <2>4. conn'[s] = "closed"
    BY <1>1, <1>2
  <2>5. Len(q) \in Nat
    OBVIOUS
  <2> HIDE DEF Task
  <2>6. \A i \in 1..Len(tasks') : i \in 1..Len(q) \/ i = Len(q) + 1
    BY <2>1, <2>3, <2>5, AppendTask
  <2>7. \A i \in 1..Len(tasks') :
                 tasks'[i].kind # "release" => i \in 1..Len(q) /\ tasks'[i] = q[i]
    BY <2>1, <2>2, <2>3, <2>6, AppendTask
  <2>8. tasks' \in Seq(Tasks)
        /\ \A k, r : Has(tasks', k, r) <=> Has(q, k, r) \/ ("release" = k /\ s = r)
    <3> DEFINE t == Task("release", s)
    <3>1. tasks' \in Seq(Tasks)
          /\ \A k, r : Has(tasks', k, r) <=> Has(q, k, r) \/ (t.kind = k /\ t.of = r)
      <4>1. \A q2 : q2 = Append(q, t) =>
               q2 \in Seq(Tasks)
               /\ \A k, r : Has(q2, k, r) <=> Has(q, k, r) \/ (t.kind = k /\ t.of = r)
        BY <2>1, AppendTask, Zenon
      <4> QED BY <2>3, <4>1, Zenon
    <3> QED BY <2>2, <3>1
  <2> QED BY <1>1, <2>4, <2>7, <2>8
<1>3. CASE ~(s # None /\ conn[s] = "open")
  BY <1>1, <1>3 DEF CloseAfter
<1> QED BY <1>2, <1>3

\* Close in a task of the dispatcher, or outside of one
LEMMA CloseRest ==
    ASSUME SessionTypes, NEW q, q = tasks \/ (tasks # <<>> /\ q = Tail(tasks)),
           NEW s \in Sessions \cup {None}, CloseAfter(s, q)
    PROVE  Rest(tasks')
<1>1. q \in Seq(Tasks)
  BY DEF SessionTypes
<1>2. PICK d \in {0, 1} : \A i \in 1..Len(q) : i + d \in 1..Len(tasks) /\ q[i] = tasks[i + d]
  <2>1. CASE q = tasks
    BY <2>1 DEF SessionTypes
  <2>2. CASE tasks # <<>> /\ q = Tail(tasks)
    BY <2>2, TailTask DEF SessionTypes
  <2> QED BY <2>1, <2>2
<1>3. \A k, r : Has(q, k, r) => Has(tasks, k, r)
  BY <1>1, <1>2 DEF Has
<1>4. /\ tasks' \in Seq(Tasks)
      /\ \A i \in 1..Len(tasks') :
            tasks'[i].kind # "release" => i \in 1..Len(q) /\ tasks'[i] = q[i]
      /\ \A k, r : Has(tasks', k, r) =>
            Has(q, k, r) \/ (k = "release" /\ r = s /\ conn'[r] = "closed")
  BY <1>1, CloseTasks
<1>5. \A i \in 1..Len(tasks') : tasks'[i].kind \in {"login", "connect"} =>
          i + d \in 1..Len(tasks) /\ tasks'[i] = tasks[i + d]
  BY <1>2, <1>4
<1> QED BY <1>3, <1>4, <1>5 DEF Rest

\* The queue after a task that posts nothing
LEMMA TailRest ==
    ASSUME SessionTypes, tasks # <<>>
    PROVE  Rest(Tail(tasks))
<1> DEFINE q == Tail(tasks)
<1>1. /\ q \in Seq(Tasks)
      /\ \A i \in 1..Len(q) : i + 1 \in 1..Len(tasks) /\ q[i] = tasks[i + 1]
      /\ \A k, r : Has(q, k, r) => Has(tasks, k, r)
  BY TailTask DEF SessionTypes
<1> QED BY <1>1 DEF Rest

\* A connection is closed, and goes when it is closed.
ConnMoves ==
    /\ conn' \in [Sessions -> {"none", "open", "closed", "gone"}]
    /\ \A r \in Sessions :
          \/ conn'[r] = conn[r]
          \/ conn[r] = "open" /\ conn'[r] = "closed"
          \/ conn[r] = "closed" /\ conn'[r] = "gone"
    /\ name' = name

\* Connection::close posts no login and no connect, and takes none away.
LEMMA CloseMoves ==
    ASSUME SessionTypes, NEW q \in Seq(Tasks), NEW s \in Sessions \cup {None}, CloseAfter(s, q)
    PROVE  /\ ConnMoves
           /\ \A r : Has(tasks', "login", r) <=> Has(q, "login", r)
           /\ \A r : Has(tasks', "connect", r) <=> Has(q, "connect", r)
           /\ \A r \in Sessions : conn'[r] = "none" <=> conn[r] = "none"
           /\ \A r \in Sessions \ {s} : conn'[r] = conn[r]
           /\ s \in Sessions => conn'[s] # "open"
<1>1. /\ \A k, r : Has(q, k, r) => Has(tasks', k, r)
      /\ \A k, r : Has(tasks', k, r) =>
            Has(q, k, r) \/ (k = "release" /\ r = s /\ conn'[r] = "closed")
  BY CloseTasks, Zenon
<1>2. /\ conn' \in [Sessions -> {"none", "open", "closed", "gone"}]
      /\ \A r \in Sessions :
            conn'[r] = IF r = s /\ conn[r] = "open" THEN "closed" ELSE conn[r]
      /\ name' = name
  BY CloseTasks
<1>3. /\ \A r : Has(tasks', "login", r) <=> Has(q, "login", r)
      /\ \A r : Has(tasks', "connect", r) <=> Has(q, "connect", r)
  BY <1>1
<1> QED BY <1>2, <1>3 DEF ConnMoves

\* Where only the queue and the connections change, and no login is taken from
\* the queue, the tasks go on to agree with the sessions.
LEMMA RestKeeps ==
    ASSUME SessionInv, Rest(tasks'),
           ConnMoves
    PROVE  /\ PostedOnce' /\ LoginIsPlain' /\ ReleaseAfterClose'
           /\ \A r \in Sessions : Has(tasks', "login", r) => Has(tasks, "login", r)
           /\ \A r \in Sessions : Has(tasks', "connect", r) => Has(tasks, "connect", r)
           /\ \A r \in Sessions : conn'[r] = "none" => \A k \in Kinds : ~Has(tasks', k, r)
           /\ \A i \in 1..Len(tasks') : tasks'[i].kind = "connect" =>
                 tasks'[i].to # None /\ eventConnect[tasks'[i].of] = tasks'[i].to
<1> USE DEF SessionInv, SessionTypes, ConnMoves
<1>1. PICK d \in {0, 1} :
          \A i \in 1..Len(tasks') : tasks'[i].kind \in {"login", "connect"} =>
              i + d \in 1..Len(tasks) /\ tasks'[i] = tasks[i + d]
  BY DEF Rest
<1>2. \A k \in Kinds, r \in Sessions :
          Has(tasks', k, r) =>
              \/ Has(tasks, k, r)
              \/ k = "release" /\ conn'[r] = "closed"
              \/ k = "logout" /\ conn[r] = "open"
  BY DEF Rest
<1>3. PostedOnce'
  <2> SUFFICES ASSUME NEW i \in 1..Len(tasks'), NEW j \in 1..Len(tasks'),
                      tasks'[i].kind = tasks'[j].kind, tasks'[i].of = tasks'[j].of,
                      tasks'[i].kind \in {"login", "connect"}
               PROVE  i = j
    BY DEF PostedOnce
  <2>1. i + d \in 1..Len(tasks) /\ j + d \in 1..Len(tasks)
        /\ tasks'[i] = tasks[i + d] /\ tasks'[j] = tasks[j + d]
    BY <1>1
  <2>2. i + d = j + d
    BY <2>1 DEF PostedOnce
  <2> QED BY <2>2
<1>4. LoginIsPlain'
  BY <1>1 DEF LoginIsPlain
<1>5. ReleaseAfterClose'
  BY <1>2 DEF ReleaseAfterClose, Kinds
<1>6. \A i \in 1..Len(tasks') : tasks'[i].kind = "connect" =>
                 tasks'[i].to # None /\ eventConnect[tasks'[i].of] = tasks'[i].to
  BY <1>1 DEF WaitingHasNone
<1>7. \A r \in Sessions : conn'[r] = "none" => \A k \in Kinds : ~Has(tasks', k, r)
  BY <1>2 DEF NotYet
<1> QED BY <1>2, <1>3, <1>4, <1>5, <1>6, <1>7 DEF Kinds

\* The types of the queue
LEMMA TaskTypes ==
    ASSUME NEW q \in Seq(Tasks)
    PROVE  \A i \in DOMAIN q :
              /\ q[i].kind \in {"login", "connect", "logout", "release"}
              /\ q[i].of \in Sessions
<1>1. \A i \in DOMAIN q : q[i] \in Tasks
  OBVIOUS
<1> QED BY <1>1 DEF Tasks, Kinds

\* Steps that leave sessions and players as they are, but for players who leave
\* the game, connections that close and connects that are given up with them
LEMMA CalmStep ==
    ASSUME SessionInv, Rest(tasks'), ConnMoves,
           UNCHANGED <<accept, links>>,
           isConnecting' \in [Sessions -> BOOLEAN],
           inGame' \subseteq inGame, inGame' \cap toRelease' = {},
           inGame' \cup toRelease' = inGame \cup toRelease,
           eventConnect' \in [Sessions -> Sessions \cup {None}],
           \A r \in Sessions :
              \/ eventConnect'[r] = eventConnect[r]
              \/ /\ eventConnect'[r] = None
                 /\ conn'[r] # "open"
                 /\ ~Has(tasks', "connect", r),
           \A r \in Sessions :
              Has(tasks, "login", r) /\ conn'[r] = "open" => Has(tasks', "login", r)
    PROVE  SessionInv'
<1> USE DEF SessionInv, links
<1>1. /\ PostedOnce' /\ LoginIsPlain' /\ ReleaseAfterClose'
      /\ \A r \in Sessions : Has(tasks', "login", r) => Has(tasks, "login", r)
      /\ \A r \in Sessions : Has(tasks', "connect", r) => Has(tasks, "connect", r)
      /\ \A r \in Sessions : conn'[r] = "none" => \A k \in Kinds : ~Has(tasks', k, r)
      /\ \A i \in 1..Len(tasks') : tasks'[i].kind = "connect" =>
            tasks'[i].to # None /\ eventConnect[tasks'[i].of] = tasks'[i].to
  BY RestKeeps
<1>2. SessionTypes'
  BY TaskTypes DEF SessionTypes, SessionTypeOK, Rest, ConnMoves
<1>3. \A r \in Sessions : Fresh(r) => Fresh(r)'
  BY DEF Fresh
<1>4. NotYet'
  BY <1>1, <1>3 DEF NotYet, ConnMoves
<1>5. WaitingHasNone'
  <2>1. \A r \in Sessions : eventConnect'[r] # None => player'[r] = None /\ ~accept'[r]
    BY DEF WaitingHasNone
  <2>2. ASSUME NEW i \in 1..Len(tasks'), tasks'[i].kind = "connect"
        PROVE  tasks'[i].to # None /\ eventConnect'[tasks'[i].of] = tasks'[i].to
    <3>1. tasks'[i].of \in Sessions
      BY TaskTypes DEF Rest
    <3>2. Has(tasks', "connect", tasks'[i].of)
      BY <2>2 DEF Has
    <3> QED BY <1>1, <2>2, <3>1, <3>2
  <2> QED BY <2>1, <2>2 DEF WaitingHasNone
<1>6. ClientAgrees'
  BY DEF ClientAgrees
<1>7. RefsExact'
  BY DEF RefsExact
<1>8. OneBody'
  BY DEF OneBody, ConnMoves
<1>9. AcceptsForPlayer'
  BY DEF AcceptsForPlayer, Playing, ConnMoves
<1>10. StillToRun'
  BY DEF StillToRun, ConnMoves
<1> QED BY <1>1, <1>2, <1>4, <1>5, <1>6, <1>7, <1>8, <1>9, <1>10 DEF SessionInv
-------------------------------------------------------------------------------
\* The first message makes the session known to the dispatcher.
LEMMA FirstMessageInv ==
    ASSUME SessionInv, NEW s \in Sessions, FirstMessage(s) \/ FirstMessageRefused(s)
    PROVE  SessionInv'
<1> USE DEF SessionInv, links, body
<1>1. PICK k \in {"login", "release"} :
          /\ tasks' = Append(tasks, Task(k, s))
          /\ conn' = [conn EXCEPT ![s] = IF k = "login" THEN "open" ELSE "closed"]
  BY DEF FirstMessage, FirstMessageRefused
<1>2. conn[s] = "none" /\ UNCHANGED <<name, eventConnect, accept, body, links>>
  BY DEF FirstMessage, FirstMessageRefused
<1>3. Task(k, s) \in Tasks /\ Task(k, s) = [kind |-> k, of |-> s, to |-> None]
  BY DEF Task, Tasks, Kinds
<1>4. tasks \in Seq(Tasks)
  BY DEF SessionTypes
<1> DEFINE t == Task(k, s)
<1>5. /\ tasks' \in Seq(Tasks)
      /\ Len(tasks') = Len(tasks) + 1 /\ Len(tasks) \in Nat
      /\ \A i \in 1..Len(tasks) : tasks'[i] = tasks[i]
      /\ tasks'[Len(tasks) + 1] = t
      /\ \A i \in 1..Len(tasks') : i \in 1..Len(tasks) \/ i = Len(tasks) + 1
      /\ \A x, r : Has(tasks', x, r) <=> Has(tasks, x, r) \/ (t.kind = x /\ t.of = r)
  <2> HIDE DEF t
  <2> QED BY <1>1, <1>3, <1>4, PostTask DEF t
<1>6. \A x, r : Has(tasks', x, r) <=> Has(tasks, x, r) \/ (k = x /\ s = r)
  BY <1>3, <1>5
<1>7. Fresh(s) /\ \A x \in Kinds : ~Has(tasks, x, s)
  BY <1>2 DEF NotYet
<1>8. SessionTypes'
  BY <1>1, <1>2, <1>5, TaskTypes DEF SessionTypes, SessionTypeOK
<1>9. PostedOnce'
  <2> SUFFICES ASSUME NEW i \in 1..Len(tasks'), NEW j \in 1..Len(tasks'),
                      tasks'[i].kind = tasks'[j].kind, tasks'[i].of = tasks'[j].of,
                      tasks'[i].kind \in {"login", "connect"}
               PROVE  i = j
    BY DEF PostedOnce
  <2>1. \A n \in 1..Len(tasks) : ~(tasks[n].kind = "login" /\ tasks[n].of = s)
    BY <1>7 DEF Has, Kinds
  <2> QED BY <1>3, <1>5, <2>1 DEF PostedOnce
<1>10. \A r \in Sessions : Fresh(r) => Fresh(r)'
  BY <1>2 DEF Fresh
<1>11. NotYet'
  BY <1>1, <1>2, <1>6, <1>7, <1>10 DEF NotYet, Kinds, SessionTypes, SessionTypeOK
<1>12. WaitingHasNone'
  BY <1>2, <1>3, <1>5 DEF WaitingHasNone
<1>13. ReleaseAfterClose'
  BY <1>1, <1>2, <1>6 DEF ReleaseAfterClose, SessionTypes, SessionTypeOK
<1>14. LoginIsPlain'
  BY <1>3, <1>5 DEF LoginIsPlain
<1>15. ClientAgrees' /\ RefsExact' /\ OneBody'
  BY <1>2 DEF ClientAgrees, RefsExact, OneBody
<1>16. AcceptsForPlayer'
  BY <1>1, <1>2, <1>7 DEF AcceptsForPlayer, Playing, Fresh, SessionTypes, SessionTypeOK
<1>17. StillToRun'
  BY <1>1, <1>2, <1>6 DEF StillToRun, SessionTypes, SessionTypeOK
<1> QED BY <1>8, <1>9, <1>11, <1>12, <1>13, <1>14, <1>15, <1>16, <1>17 DEF SessionInv

\* Connections that the network thread closes or that go
LEMMA NetworkInv ==
    ASSUME SessionInv, NEW s \in Sessions,
           NetworkClose(s) \/ PacketQuit(s) \/ Expire(s)
    PROVE  SessionInv'
<1> USE DEF SessionInv, links, body
<1>1. UNCHANGED <<eventConnect, accept, body, links>>
  BY DEF NetworkClose, PacketQuit, Expire
<1>2. CASE CloseAfter(s, tasks)
  <2>1. tasks \in Seq(Tasks)
    BY DEF SessionTypes
  <2>2. Rest(tasks')
    BY <1>2, CloseRest
  <2>3. ConnMoves
    BY <1>2, <2>1, CloseMoves
  <2>4. \A r \in Sessions : Has(tasks, "login", r) => Has(tasks', "login", r)
    BY <1>2, <2>1, CloseTasks
  <2> QED BY <1>1, <2>2, <2>3, <2>4, CalmStep DEF SessionTypes, SessionTypeOK, RefsExact
<1>3. CASE Expire(s)
  <2>1. ConnMoves /\ tasks' = tasks
    BY <1>3 DEF Expire, ConnMoves, SessionTypes, SessionTypeOK
  <2>2. Rest(tasks')
    BY <2>1 DEF Rest, SessionTypes
  <2> QED BY <1>1, <2>1, <2>2, CalmStep DEF SessionTypes, SessionTypeOK, RefsExact
<1> QED BY <1>2, <1>3 DEF NetworkClose, PacketQuit

\* A client who plays asks to log out.
LEMMA PacketLogoutInv ==
    ASSUME SessionInv, NEW s \in Sessions, PacketLogout(s)
    PROVE  SessionInv'
<1> USE DEF SessionInv, links, body
<1> DEFINE t == Task("logout", s)
<1>1. /\ conn[s] = "open" /\ tasks' = Append(tasks, t)
      /\ UNCHANGED <<net, eventConnect, accept, body, links>>
  BY DEF PacketLogout, Playing
<1>2. t \in Tasks /\ t.kind = "logout" /\ t.of = s /\ tasks \in Seq(Tasks)
  BY DEF Task, Tasks, Kinds, SessionTypes
<1>3. /\ tasks' \in Seq(Tasks)
      /\ Len(tasks') = Len(tasks) + 1 /\ Len(tasks) \in Nat
      /\ \A i \in 1..Len(tasks) : tasks'[i] = tasks[i]
      /\ tasks'[Len(tasks) + 1] = t
      /\ \A i \in 1..Len(tasks') : i \in 1..Len(tasks) \/ i = Len(tasks) + 1
      /\ \A k, r : Has(tasks', k, r) <=> Has(tasks, k, r) \/ (t.kind = k /\ t.of = r)
  <2> HIDE DEF t
  <2> QED BY <1>1, <1>2, PostTask
<1> HIDE DEF t
<1>4. Rest(tasks')
  <2>1. \A i \in 1..Len(tasks') : tasks'[i].kind \in {"login", "connect"} =>
            i + 0 \in 1..Len(tasks) /\ tasks'[i] = tasks[i + 0]
    BY <1>2, <1>3
  <2> QED BY <1>1, <1>2, <1>3, <2>1 DEF Rest
<1>5. ConnMoves
  BY <1>1 DEF ConnMoves, net, SessionTypes, SessionTypeOK
<1>6. \A r \in Sessions : Has(tasks, "login", r) => Has(tasks', "login", r)
  BY <1>3
<1> QED BY <1>1, <1>4, <1>5, <1>6, CalmStep DEF SessionTypes, SessionTypeOK, RefsExact

\* What posting a task before the others does to the queue
LEMMA PrependTask ==
    ASSUME NEW t \in Tasks, tasks \in Seq(Tasks), tasks' = <<t>> \o tasks
    PROVE  /\ tasks' \in Seq(Tasks)
           /\ Len(tasks') = Len(tasks) + 1 /\ Len(tasks) \in Nat
           /\ tasks'[1] = t
           /\ \A i \in 1..Len(tasks) : i + 1 \in 1..Len(tasks') /\ tasks'[i + 1] = tasks[i]
           /\ \A i \in 1..Len(tasks') : i = 1 \/ (i - 1 \in 1..Len(tasks) /\ tasks'[i] = tasks[i - 1])
           /\ \A k, r : Has(tasks', k, r) <=> Has(tasks, k, r) \/ (t.kind = k /\ t.of = r)
<1>1. <<t>> \in Seq(Tasks) /\ Len(<<t>>) = 1 /\ <<t>>[1] = t
  OBVIOUS
<1>2. tasks' \in Seq(Tasks) /\ Len(tasks') = Len(tasks) + 1 /\ Len(tasks) \in Nat /\ tasks'[1] = t
  BY <1>1
<1>3. \A i \in 1..Len(tasks') : i = 1 \/ (i - 1 \in 1..Len(tasks) /\ tasks'[i] = tasks[i - 1])
  BY <1>1, <1>2
<1>4. \A i \in 1..Len(tasks) : i + 1 \in 1..Len(tasks') /\ tasks'[i + 1] = tasks[i]
  BY <1>2, <1>3
<1>5. ASSUME NEW k, NEW r, Has(tasks', k, r)
      PROVE  Has(tasks, k, r) \/ (t.kind = k /\ t.of = r)
  <2>1. PICK i \in 1..Len(tasks') : tasks'[i].kind = k /\ tasks'[i].of = r
    BY <1>5 DEF Has
  <2>2. CASE i = 1
    BY <1>2, <2>1, <2>2
  <2>3. CASE i - 1 \in 1..Len(tasks) /\ tasks'[i] = tasks[i - 1]
    BY <2>1, <2>3 DEF Has
  <2> QED BY <1>3, <2>2, <2>3
<1>6. ASSUME NEW k, NEW r, Has(tasks, k, r)
      PROVE  Has(tasks', k, r)
  <2>1. PICK i \in 1..Len(tasks) : tasks[i].kind = k /\ tasks[i].of = r
    BY <1>6 DEF Has
  <2> QED BY <1>4, <2>1 DEF Has
<1>7. ASSUME NEW k, NEW r, t.kind = k, t.of = r
      PROVE  Has(tasks', k, r)
  <2>1. 1 \in 1..Len(tasks')
    BY <1>2
  <2> QED BY <1>2, <1>7, <2>1 DEF Has
<1> QED BY <1>2, <1>3, <1>4, <1>5, <1>6, <1>7

\* The scheduler posts the connect of a session that waits.
LEMMA ConnectDueInv ==
    ASSUME SessionInv, NEW s \in Sessions, ConnectDue(s)
    PROVE  SessionInv'
<1> USE DEF SessionInv, links, body, net
<1> DEFINE t == ConnectTask(s, eventConnect[s])
<1>1. /\ eventConnect[s] # None /\ tasks' = <<t>> \o tasks
      /\ UNCHANGED <<net, eventConnect, accept, body, links>>
  BY DEF ConnectDue
<1>2. /\ t \in Tasks /\ t.kind = "connect" /\ t.of = s /\ t.to = eventConnect[s]
      /\ tasks \in Seq(Tasks)
  BY DEF ConnectTask, Tasks, Kinds, SessionTypes, SessionTypeOK
<1>3. /\ tasks' \in Seq(Tasks)
      /\ Len(tasks') = Len(tasks) + 1 /\ Len(tasks) \in Nat
      /\ tasks'[1] = t
      /\ \A i \in 1..Len(tasks') : i = 1 \/ (i - 1 \in 1..Len(tasks) /\ tasks'[i] = tasks[i - 1])
      /\ \A k, r : Has(tasks', k, r) <=> Has(tasks, k, r) \/ (t.kind = k /\ t.of = r)
  <2> HIDE DEF t
  <2> QED BY <1>1, <1>2, PrependTask
<1>4. ASSUME NEW i \in 1..Len(tasks), tasks[i].kind = "connect", tasks[i].of = s
      PROVE  FALSE
  <2>1. tasks[i] \in Tasks /\ tasks[i].to = eventConnect[s]
    BY <1>4, <1>2 DEF WaitingHasNone
  <2>2. tasks[i] = t
    BY <1>4, <2>1 DEF Tasks, ConnectTask
  <2> QED BY <2>2 DEF ConnectDue, Contains
<1> HIDE DEF t
<1>5. SessionTypes'
  BY <1>1, <1>3, TaskTypes DEF SessionTypes, SessionTypeOK
<1>6. PostedOnce'
  <2> SUFFICES ASSUME NEW i \in 1..Len(tasks'), NEW j \in 1..Len(tasks'),
                      tasks'[i].kind = tasks'[j].kind, tasks'[i].of = tasks'[j].of,
                      tasks'[i].kind \in {"login", "connect"}
               PROVE  i = j
    BY DEF PostedOnce
  <2>1. CASE i = 1 \/ j = 1
    BY <1>2, <1>3, <1>4, <2>1
  <2>2. CASE i # 1 /\ j # 1
    <3>1. /\ i - 1 \in 1..Len(tasks) /\ tasks'[i] = tasks[i - 1]
          /\ j - 1 \in 1..Len(tasks) /\ tasks'[j] = tasks[j - 1]
      BY <1>3, <2>2
    <3>2. i - 1 = j - 1
      BY <3>1 DEF PostedOnce
    <3> QED BY <1>3, <3>2
  <2> QED BY <2>1, <2>2
<1>7. ~Fresh(s)
  BY <1>1 DEF Fresh
<1>8. \A r \in Sessions : Fresh(r) => Fresh(r)'
  BY <1>1 DEF Fresh
<1>9. NotYet'
  BY <1>1, <1>2, <1>3, <1>7, <1>8 DEF NotYet
<1>10. WaitingHasNone'
  <2>1. ASSUME NEW i \in 1..Len(tasks'), tasks'[i].kind = "connect"
        PROVE  tasks'[i].to # None /\ eventConnect[tasks'[i].of] = tasks'[i].to
    <3>1. CASE i = 1
      BY <1>1, <1>2, <1>3, <3>1
    <3>2. CASE i - 1 \in 1..Len(tasks) /\ tasks'[i] = tasks[i - 1]
      BY <2>1, <3>2 DEF WaitingHasNone
    <3> QED BY <1>3, <3>1, <3>2
  <2>2. eventConnect' = eventConnect /\ player' = player /\ accept' = accept
    BY <1>1
  <2> QED BY <2>1, <2>2 DEF WaitingHasNone
<1>11. ReleaseAfterClose' /\ LoginIsPlain'
  BY <1>1, <1>2, <1>3 DEF ReleaseAfterClose, LoginIsPlain
<1>12. ClientAgrees' /\ RefsExact' /\ OneBody' /\ AcceptsForPlayer'
  BY <1>1 DEF ClientAgrees, RefsExact, OneBody, AcceptsForPlayer, Playing
<1>13. StillToRun'
  BY <1>1, <1>3 DEF StillToRun
<1> QED BY <1>5, <1>6, <1>9, <1>10, <1>11, <1>12, <1>13 DEF SessionInv

\* A player leaves the game; his client is disconnected, or stays.
LEMMA LeaveInv ==
    ASSUME SessionInv, NEW o \in Sessions, Kick(o) \/ Die(o)
    PROVE  SessionInv'
<1> USE DEF SessionInv, links, body, net
<1>1. UNCHANGED <<eventConnect, accept, links>> /\ RemoveCreature(o) /\ o \in inGame
  BY DEF Kick, Die
<1>2. /\ inGame' \subseteq inGame /\ inGame' \cap toRelease' = {}
      /\ inGame' \cup toRelease' = inGame \cup toRelease
      /\ isConnecting' = isConnecting
  BY <1>1 DEF RemoveCreature, RefsExact
<1>3. tasks \in Seq(Tasks) /\ client[o] \in Sessions \cup {None}
  BY DEF SessionTypes, SessionTypeOK
<1>4. CASE CloseAfter(client[o], tasks)
  <2>1. Rest(tasks')
    BY <1>3, <1>4, CloseRest
  <2>2. ConnMoves
    BY <1>3, <1>4, CloseMoves
  <2>3. \A r \in Sessions : Has(tasks, "login", r) => Has(tasks', "login", r)
    BY <1>3, <1>4, CloseTasks
  <2> QED BY <1>1, <1>2, <2>1, <2>2, <2>3, CalmStep DEF SessionTypes, SessionTypeOK
<1>5. CASE UNCHANGED <<net, tasks>>
  <2>1. ConnMoves
    BY <1>5 DEF ConnMoves, SessionTypes, SessionTypeOK
  <2>2. Rest(tasks')
    BY <1>5 DEF Rest, SessionTypes
  <2> QED BY <1>1, <1>2, <1>5, <2>1, <2>2, CalmStep DEF SessionTypes, SessionTypeOK
<1> QED BY <1>4, <1>5 DEF Kick, Die

\* The game gives the references of players who have left up.
LEMMA CleanupInv ==
    ASSUME SessionInv, Cleanup
    PROVE  SessionInv'
<1> USE DEF SessionInv, Cleanup, net
<1>1. RefsExact' /\ refs' \in [Sessions -> Nat]
  BY DEF RefsExact, SessionTypes, SessionTypeOK
<1>2. SessionTypes'
  BY <1>1 DEF SessionTypes, SessionTypeOK
<1>3. \A r \in Sessions : Fresh(r) => Fresh(r)'
  BY DEF Fresh
<1>4. NotYet'
  BY <1>3 DEF NotYet
<1>5. PostedOnce' /\ WaitingHasNone' /\ ReleaseAfterClose' /\ LoginIsPlain'
  BY DEF PostedOnce, WaitingHasNone, ReleaseAfterClose, LoginIsPlain
<1>6. ClientAgrees' /\ OneBody' /\ AcceptsForPlayer' /\ StillToRun'
  BY DEF ClientAgrees, OneBody, AcceptsForPlayer, StillToRun, Playing
<1> QED BY <1>1, <1>2, <1>4, <1>5, <1>6 DEF SessionInv
-------------------------------------------------------------------------------
\* What the dispatcher has when it runs the first task
LEMMA FirstTask ==
    ASSUME SessionInv, tasks # <<>>, NEW q, q = Tail(tasks), NEW t, t = Head(tasks)
    PROVE  /\ t \in Tasks /\ t.kind \in Kinds /\ t.of \in Sessions
           /\ q \in Seq(Tasks)
           /\ conn[t.of] # "none"
           /\ t.kind = "login" => Fresh(t.of) /\ ~Has(q, "login", t.of) /\ ~Has(q, "connect", t.of)
           /\ t.kind = "connect" =>
                 /\ ~Has(q, "login", t.of) /\ ~Has(q, "connect", t.of)
                 /\ t.to \in Sessions
                 /\ eventConnect[t.of] = t.to
           /\ \A k, r : Has(q, k, r) => Has(tasks, k, r)
           /\ \A k, r : Has(tasks, k, r) => Has(q, k, r) \/ (t.kind = k /\ t.of = r)
<1> USE DEF SessionInv, SessionTypes
<1>1. /\ q \in Seq(Tasks) /\ t = tasks[1] /\ t \in Tasks
      /\ \A i \in 1..Len(q) : i + 1 \in 1..Len(tasks) /\ q[i] = tasks[i + 1]
      /\ \A k, r : Has(q, k, r) => Has(tasks, k, r)
      /\ \A k, r : Has(tasks, k, r) => Has(q, k, r) \/ (t.kind = k /\ t.of = r)
      /\ Has(tasks, t.kind, t.of)
  <2>1. tasks \in Seq(Tasks)
    OBVIOUS
  <2>2. /\ q \in Seq(Tasks) /\ Head(tasks) = tasks[1] /\ Head(tasks) \in Tasks
        /\ \A i \in 1..Len(q) : i + 1 \in 1..Len(tasks) /\ q[i] = tasks[i + 1]
    BY <2>1
  <2>3. /\ \A k, r : Has(q, k, r) => Has(tasks, k, r)
        /\ \A k, r : Has(tasks, k, r) =>
               Has(q, k, r) \/ (Head(tasks).kind = k /\ Head(tasks).of = r)
        /\ Has(tasks, Head(tasks).kind, Head(tasks).of)
    BY <2>1, TailHas
  <2> QED BY <2>2, <2>3, Zenon
<1>2. t.kind \in Kinds /\ t.of \in Sessions /\ t.to \in Sessions \cup {None}
  BY <1>1 DEF Tasks
<1>3. 1 \in 1..Len(tasks)
  OBVIOUS
<1>4. conn[t.of] # "none"
  BY <1>1, <1>2 DEF NotYet
<1>5. ASSUME t.kind \in {"login", "connect"}
      PROVE  ~Has(q, t.kind, t.of)
  <2> SUFFICES ASSUME NEW i \in 1..Len(q), q[i].kind = t.kind, q[i].of = t.of
               PROVE  FALSE
    BY DEF Has
  <2>1. i + 1 \in 1..Len(tasks) /\ tasks[i + 1].kind = t.kind /\ tasks[i + 1].of = t.of
    BY <1>1
  <2>2. i + 1 = 1
    BY <1>1, <1>3, <1>5, <2>1 DEF PostedOnce
  <2> QED BY <2>2
<1>6. ASSUME t.kind = "login"
      PROVE  Fresh(t.of) /\ ~Has(q, "connect", t.of)
  BY <1>1, <1>2, <1>6 DEF NotYet
<1>7. ASSUME t.kind = "connect"
      PROVE  ~Has(q, "login", t.of) /\ t.to \in Sessions /\ eventConnect[t.of] = t.to
  <2>1. ~Has(q, "login", t.of)
    BY <1>1, <1>2, <1>7 DEF NotYet
  <2>2. t.to # None /\ eventConnect[t.of] = t.to
    BY <1>1, <1>3, <1>7 DEF WaitingHasNone
  <2> QED BY <1>2, <2>1, <2>2
<1> QED BY <1>1, <1>2, <1>4, <1>5, <1>6, <1>7

\* A task that closes one connection, if any, and ends: the client of a player
\* who logs out, of a login that is refused, or nobody's.
LEMMA CloseTaskInv ==
    ASSUME SessionInv, tasks # <<>>, NEW q, q = Tail(tasks), NEW t, t = Head(tasks),
           \/ CloseAfter(t.of, q)
           \/ t.kind # "login" /\ tasks' = q /\ UNCHANGED net,
           UNCHANGED <<eventConnect, accept, links>>,
           UNCHANGED body \/ \E o \in Sessions : RemoveCreature(o)
    PROVE  SessionInv'
<1> USE DEF SessionInv, body
<1>1. /\ inGame' \subseteq inGame /\ inGame' \cap toRelease' = {}
      /\ inGame' \cup toRelease' = inGame \cup toRelease
      /\ isConnecting' = isConnecting
  BY DEF RemoveCreature, RefsExact
<1>2. /\ q \in Seq(Tasks) /\ t.of \in Sessions
      /\ \A k, r : Has(tasks, k, r) => Has(q, k, r) \/ (t.kind = k /\ t.of = r)
  BY FirstTask
<1>3. CASE CloseAfter(t.of, q)
  <2>1. Rest(tasks')
    BY <1>2, <1>3, CloseRest
  <2>2. /\ ConnMoves /\ conn'[t.of] # "open"
        /\ \A r : Has(q, "login", r) => Has(tasks', "login", r)
    BY <1>2, <1>3, CloseMoves
  <2>3. \A r \in Sessions :
            Has(tasks, "login", r) /\ conn'[r] = "open" => Has(tasks', "login", r)
    BY <1>2, <2>2
  <2> QED BY <1>1, <2>1, <2>2, <2>3, CalmStep DEF SessionTypes, SessionTypeOK
<1>4. CASE t.kind # "login" /\ tasks' = q /\ UNCHANGED net
  <2>1. Rest(tasks')
    BY <1>4, TailRest
  <2>2. ConnMoves
    BY <1>4 DEF ConnMoves, net, SessionTypes, SessionTypeOK
  <2>3. \A r \in Sessions : Has(tasks, "login", r) => Has(tasks', "login", r)
    BY <1>2, <1>4
  <2> QED BY <1>1, <2>1, <2>2, <2>3, CalmStep DEF SessionTypes, SessionTypeOK
<1> QED BY <1>3, <1>4

\* logout
LEMMA LogoutInv ==
    ASSUME SessionInv, tasks # <<>>, NEW q, q = Tail(tasks), NEW t, t = Head(tasks),
           t.kind = "logout", Logout(t.of, q), UNCHANGED <<eventConnect, accept, links>>
    PROVE  SessionInv'
<1>1. t.of \in Sessions
  BY FirstTask
<1>2. player[t.of] \in Sessions \cup {None}
  BY <1>1 DEF SessionInv, SessionTypes, SessionTypeOK
<1>3. CASE tasks' = q /\ UNCHANGED <<net, body>>
  BY <1>3, CloseTaskInv
<1>4. CASE player[t.of] # None /\ CloseAfter(t.of, q) /\ RemoveCreature(player[t.of])
  BY <1>2, <1>4, CloseTaskInv
<1> QED BY <1>3, <1>4 DEF Logout

\* release: session and player let go of each other.
LEMMA ReleaseInv ==
    ASSUME SessionInv, tasks # <<>>, NEW q, q = Tail(tasks), NEW t, t = Head(tasks),
           t.kind = "release", Release(t.of), tasks' = q,
           UNCHANGED <<net, eventConnect, accept, body>>
    PROVE  SessionInv'
<1> USE DEF SessionInv, body, net, links
<1> DEFINE s == t.of
           o == player[s]
<1>1. CASE UNCHANGED links
  BY <1>1, CloseTaskInv
<1>2. CASE /\ o # None /\ client[o] = s
           /\ client' = [client EXCEPT ![o] = None]
           /\ Freed(s)
           /\ player' = [player EXCEPT ![s] = None]
  <2>1. /\ s \in Sessions /\ q \in Seq(Tasks)
        /\ \A k, r : Has(q, k, r) => Has(tasks, k, r)
        /\ \A r : Has(tasks, "login", r) => Has(q, "login", r)
    BY FirstTask
  <2>2. o \in Sessions
    BY <1>2, <2>1 DEF SessionTypes, SessionTypeOK
  <2>3. conn[s] # "open"
    <3>1. Has(tasks, "release", s)
      BY TailTask DEF SessionTypes
    <3> QED BY <2>1, <3>1 DEF ReleaseAfterClose
  <2>4. /\ client' = [client EXCEPT ![o] = None]
        /\ refs' = [refs EXCEPT ![o] = @ - 1]
        /\ player' = [player EXCEPT ![s] = None]
    BY <1>2 DEF Freed
  <2>5. refs[o] >= 1 /\ refs[o] \in Nat
    <3> HIDE DEF s, o
    <3>1. client[o] # None
      BY <1>2, <2>1
    <3> QED BY <2>2, <3>1 DEF RefsExact, SessionTypes, SessionTypeOK
  <2>6. Rest(tasks') /\ ConnMoves
    BY TailRest DEF ConnMoves, SessionTypes, SessionTypeOK
  <2>7. /\ PostedOnce' /\ LoginIsPlain' /\ ReleaseAfterClose'
        /\ \A i \in 1..Len(tasks') : tasks'[i].kind = "connect" =>
              tasks'[i].to # None /\ eventConnect[tasks'[i].of] = tasks'[i].to
    BY <2>6, RestKeeps
  <2> HIDE DEF s, o
  <2>8. SessionTypes'
    BY <2>1, <2>2, <2>4, <2>5, TaskTypes DEF SessionTypes, SessionTypeOK
  <2>9. \A r \in Sessions : Fresh(r) => Fresh(r)'
    BY <1>2, <2>1, <2>2, <2>4 DEF Fresh, SessionTypes, SessionTypeOK
  <2>10. NotYet'
    BY <2>1, <2>9 DEF NotYet
  <2>11. WaitingHasNone'
    BY <2>1, <2>4, <2>7 DEF WaitingHasNone, SessionTypes, SessionTypeOK
  <2>12. ClientAgrees'
    BY <1>2, <2>1, <2>2, <2>4 DEF ClientAgrees, SessionTypes, SessionTypeOK, o
  <2>13. RefsExact'
    BY <1>2, <2>1, <2>2, <2>4, <2>5 DEF RefsExact, SessionTypes, SessionTypeOK
  <2>14. AcceptsForPlayer'
    BY <2>1, <2>3, <2>4 DEF AcceptsForPlayer, Playing, SessionTypes, SessionTypeOK
  <2>15. StillToRun' /\ OneBody'
    BY <2>1 DEF StillToRun, OneBody
  <2> QED BY <2>7, <2>8, <2>10, <2>11, <2>12, <2>13, <2>14, <2>15 DEF SessionInv
<1> QED BY <1>1, <1>2 DEF Release

\* login of a character who is not in the game: a Player is made.
LEMMA LoginNewInv ==
    ASSUME SessionInv, tasks # <<>>, NEW q, q = Tail(tasks), NEW t, t = Head(tasks),
           t.kind = "login", LoginNew(t.of, q)
    PROVE  SessionInv'
<1> USE DEF SessionInv, body, net, links
<1> DEFINE s == t.of
<1>1. /\ s \in Sessions /\ q \in Seq(Tasks) /\ Fresh(s)
      /\ conn[s] # "none"
      /\ ~Has(q, "login", s) /\ ~Has(q, "connect", s)
      /\ \A k, r : Has(q, k, r) => Has(tasks, k, r)
      /\ \A k, r : Has(tasks, k, r) => Has(q, k, r) \/ ("login" = k /\ s = r)
  BY FirstTask
<1>2. /\ player' = [player EXCEPT ![s] = s] /\ client' = [client EXCEPT ![s] = s]
      /\ UNCHANGED <<eventConnect, toRelease, isConnecting>>
      /\ NamedPlayer(s) = {}
  BY DEF LoginNew, NewPlayer
<1>3. \/ /\ inGame' = inGame \cup {s} /\ refs' = [refs EXCEPT ![s] = 2]
         /\ accept' = [accept EXCEPT ![s] = TRUE]
         /\ tasks' = q /\ conn' = conn /\ name' = name
      \/ /\ refs' = [refs EXCEPT ![s] = 1] /\ CloseAfter(s, q)
         /\ UNCHANGED <<inGame, accept>>
  BY DEF LoginNew
<1> HIDE DEF s
<1>4. /\ Rest(tasks') /\ ConnMoves /\ name' = name
      /\ \A r \in Sessions \ {s} : conn'[r] = conn[r]
      /\ \A r : Has(q, "login", r) => Has(tasks', "login", r)
      /\ accept'[s] \/ conn'[s] # "open"
      /\ conn'[s] # "none"
  <2>1. CASE CloseAfter(s, q)
    <3>1. Rest(tasks')
      BY <1>1, <2>1, CloseRest
    <3>2. /\ ConnMoves /\ \A r \in Sessions \ {s} : conn'[r] = conn[r]
          /\ \A r : Has(q, "login", r) => Has(tasks', "login", r)
          /\ conn'[s] # "open" /\ conn'[s] # "none"
      BY <1>1, <2>1, CloseMoves
    <3> QED BY <3>1, <3>2 DEF ConnMoves
  <2>2. CASE tasks' = q /\ conn' = conn /\ name' = name /\ accept' = [accept EXCEPT ![s] = TRUE]
    BY <1>1, <2>2, TailRest DEF ConnMoves, SessionTypes, SessionTypeOK
  <2> QED BY <1>3, <2>1, <2>2
<1>5. /\ PostedOnce' /\ LoginIsPlain' /\ ReleaseAfterClose'
      /\ \A r \in Sessions : conn'[r] = "none" => \A k \in Kinds : ~Has(tasks', k, r)
      /\ \A i \in 1..Len(tasks') : tasks'[i].kind = "connect" =>
            tasks'[i].to # None /\ eventConnect[tasks'[i].of] = tasks'[i].to
      /\ \A r \in Sessions : Has(tasks', "connect", r) => Has(tasks, "connect", r)
      /\ \A r \in Sessions : Has(tasks', "login", r) => Has(tasks, "login", r)
  BY <1>4, RestKeeps
<1>6. ~Has(tasks', "login", s)
  <2>1. CASE CloseAfter(s, q)
    BY <1>1, <2>1, CloseMoves
  <2> QED BY <1>1, <1>3, <2>1
<1>7. SessionTypes'
  <2>1. /\ tasks' \in Seq(Tasks) /\ name' = name
        /\ conn' \in [Sessions -> {"none", "open", "closed", "gone"}]
    BY <1>4 DEF Rest, ConnMoves
  <2>2. /\ player' \in [Sessions -> Sessions \cup {None}]
        /\ client' \in [Sessions -> Sessions \cup {None}]
    BY <1>1, <1>2 DEF SessionTypes, SessionTypeOK
  <2>3. refs' \in [Sessions -> Nat]
    BY <1>1, <1>3 DEF SessionTypes, SessionTypeOK
  <2>4. accept' \in [Sessions -> BOOLEAN] /\ inGame' \subseteq Sessions
    BY <1>1, <1>3 DEF SessionTypes, SessionTypeOK
  <2> QED BY <1>2, <2>1, <2>2, <2>3, <2>4, TaskTypes DEF SessionTypes, SessionTypeOK
<1>8. \A r \in Sessions : Fresh(r) /\ r # s => Fresh(r)'
  BY <1>1, <1>2, <1>3 DEF Fresh, SessionTypes, SessionTypeOK
<1>9. NotYet'
  BY <1>4, <1>5, <1>6, <1>8 DEF NotYet
<1>10. WaitingHasNone'
  BY <1>1, <1>2, <1>3, <1>5 DEF WaitingHasNone, SessionTypes, SessionTypeOK, Fresh
<1>11. ClientAgrees'
  BY <1>1, <1>2 DEF ClientAgrees, SessionTypes, SessionTypeOK, Fresh
<1>12. RefsExact'
  BY <1>1, <1>2, <1>3 DEF RefsExact, SessionTypes, SessionTypeOK, Fresh
<1>13. OneBody'
  BY <1>1, <1>2, <1>3, <1>4 DEF OneBody, NamedPlayer, SessionTypes, SessionTypeOK
<1>14. AcceptsForPlayer'
  BY <1>1, <1>2, <1>3, <1>4 DEF AcceptsForPlayer, Playing, SessionTypes, SessionTypeOK
<1>15. StillToRun'
  BY <1>1, <1>2, <1>3, <1>4 DEF StillToRun, SessionTypes, SessionTypeOK
<1> QED BY <1>5, <1>7, <1>9, <1>10, <1>11, <1>12, <1>13, <1>14, <1>15 DEF SessionInv

\* connect, from login or from the scheduler, of a session without a player
LEMMA ConnectInv ==
    ASSUME SessionInv, tasks # <<>>, NEW q, q = Tail(tasks), NEW t, t = Head(tasks),
           t.kind \in {"login", "connect"}, NEW o \in Sessions, Connect(t.of, o, q)
    PROVE  SessionInv'
<1> USE DEF SessionInv, body, net, links
<1> DEFINE s == t.of
<1>1. /\ s \in Sessions /\ q \in Seq(Tasks)
      /\ conn[s] # "none"
      /\ ~Has(q, "login", s) /\ ~Has(q, "connect", s)
      /\ \A k, r : Has(q, k, r) => Has(tasks, k, r)
      /\ \A k, r : Has(tasks, k, r) => Has(q, k, r) \/ (t.kind = k /\ s = r)
  BY FirstTask
<1>2. player[s] = None
  BY FirstTask, <1>1 DEF Fresh, WaitingHasNone
<1>3. UNCHANGED <<inGame, toRelease>> /\ eventConnect' = [eventConnect EXCEPT ![s] = None]
  BY DEF Connect
<1>4. CASE Refused(s, q) /\ UNCHANGED <<accept, isConnecting, links>>
  <2>1. CloseAfter(s, q)
    BY <1>4 DEF Refused
  <2> HIDE DEF s
  <2>2. Rest(tasks')
    BY <1>1, <2>1, CloseRest
  <2>3. /\ ConnMoves /\ conn'[s] # "open"
        /\ \A r : Has(q, "login", r) => Has(tasks', "login", r)
        /\ ~Has(tasks', "connect", s)
    BY <1>1, <2>1, CloseMoves
  <2>4. \A r \in Sessions :
            Has(tasks, "login", r) /\ conn'[r] = "open" => Has(tasks', "login", r)
    BY <1>1, <2>3
  <2> QED BY <1>1, <1>3, <1>4, <2>2, <2>3, <2>4, CalmStep
          DEF SessionTypes, SessionTypeOK, RefsExact
<1>5. CASE conn[s] = "gone" /\ tasks' = q /\ UNCHANGED <<net, accept, isConnecting, links>>
  <2> HIDE DEF s
  <2>1. Rest(tasks') /\ ConnMoves
    BY <1>5, TailRest DEF ConnMoves, SessionTypes, SessionTypeOK
  <2>2. \A r \in Sessions :
            Has(tasks, "login", r) /\ conn'[r] = "open" => Has(tasks', "login", r)
    BY <1>1, <1>5
  <2> QED BY <1>1, <1>3, <1>5, <2>1, <2>2, CalmStep DEF SessionTypes, SessionTypeOK, RefsExact
<1>6. CASE /\ Attachable(o)
           /\ player' = [player EXCEPT ![s] = o]
           /\ refs' = [refs EXCEPT ![o] = @ + 1]
           /\ isConnecting' = [isConnecting EXCEPT ![o] = FALSE]
           /\ client' = [client EXCEPT ![o] = s]
           /\ accept' = [accept EXCEPT ![s] = TRUE]
           /\ tasks' = q
           /\ UNCHANGED net
  <2> HIDE DEF s
  <2>1. o \in inGame /\ client[o] = None
    BY <1>6 DEF Attachable
  <2>2. Rest(tasks') /\ ConnMoves
    BY <1>6, TailRest DEF ConnMoves, SessionTypes, SessionTypeOK
  <2>3. /\ PostedOnce' /\ LoginIsPlain' /\ ReleaseAfterClose'
        /\ \A r \in Sessions : conn'[r] = "none" => \A k \in Kinds : ~Has(tasks', k, r)
        /\ \A i \in 1..Len(tasks') : tasks'[i].kind = "connect" =>
              tasks'[i].to # None /\ eventConnect[tasks'[i].of] = tasks'[i].to
    BY <2>2, RestKeeps
  <2>4. SessionTypes'
    BY <1>1, <1>3, <1>6, TaskTypes DEF SessionTypes, SessionTypeOK
  <2>5. \A r \in Sessions : Fresh(r) /\ r # s => Fresh(r)'
    BY <1>1, <1>3, <1>6, <2>1 DEF Fresh, SessionTypes, SessionTypeOK
  <2>6. NotYet'
    BY <1>1, <1>6, <2>3, <2>5 DEF NotYet
  <2>7. WaitingHasNone'
    <3>1. \A r \in Sessions : eventConnect'[r] # None => player'[r] = None /\ ~accept'[r]
      BY <1>1, <1>3, <1>6 DEF WaitingHasNone, SessionTypes, SessionTypeOK
    <3>2. ASSUME NEW i \in 1..Len(tasks'), tasks'[i].kind = "connect"
          PROVE  tasks'[i].to # None /\ eventConnect'[tasks'[i].of] = tasks'[i].to
      <4>1. tasks'[i].of \in Sessions
        BY <1>1, <1>6, TaskTypes
      <4>2. tasks'[i].of # s
        BY <1>1, <1>6, <3>2 DEF Has
      <4> QED BY <1>3, <2>3, <3>2, <4>1, <4>2 DEF SessionTypes, SessionTypeOK
    <3> QED BY <3>1, <3>2 DEF WaitingHasNone
  <2>8. ClientAgrees'
    BY <1>1, <1>2, <1>6, <2>1 DEF ClientAgrees, SessionTypes, SessionTypeOK
  <2>9. RefsExact'
    BY <1>1, <1>3, <1>6, <2>1 DEF RefsExact, SessionTypes, SessionTypeOK
  <2>10. OneBody'
    BY <1>3, <1>6 DEF OneBody
  <2>11. AcceptsForPlayer'
    BY <1>1, <1>6 DEF AcceptsForPlayer, Playing, SessionTypes, SessionTypeOK
  <2>12. StillToRun'
    BY <1>1, <1>3, <1>6 DEF StillToRun, SessionTypes, SessionTypeOK
  <2> QED BY <2>3, <2>4, <2>6, <2>7, <2>8, <2>9, <2>10, <2>11, <2>12 DEF SessionInv
<1> QED BY <1>4, <1>5, <1>6 DEF Connect

\* login of a character who is in the game and has a client: the session waits.
LEMMA LoginWaitsInv ==
    ASSUME SessionInv, tasks # <<>>, NEW q, q = Tail(tasks), NEW t, t = Head(tasks),
           t.kind = "login", NEW o \in Sessions,
           CloseAfter(client[o], q),
           isConnecting' = [isConnecting EXCEPT ![o] = TRUE],
           eventConnect' = [eventConnect EXCEPT ![t.of] = o],
           Accepts(t.of), UNCHANGED <<inGame, toRelease, links>>
    PROVE  SessionInv'
<1> USE DEF SessionInv, body, net, links, Accepts
<1> DEFINE s == t.of
<1>1. /\ s \in Sessions /\ q \in Seq(Tasks) /\ Fresh(s)
      /\ conn[s] # "none"
      /\ ~Has(q, "login", s) /\ ~Has(q, "connect", s)
      /\ \A k, r : Has(tasks, k, r) => Has(q, k, r) \/ ("login" = k /\ s = r)
  BY FirstTask
<1>2. eventConnect' = [eventConnect EXCEPT ![s] = o]
  OBVIOUS
<1> HIDE DEF s
<1>3. client[o] \in Sessions \cup {None}
  BY DEF SessionTypes, SessionTypeOK
<1>4. Rest(tasks')
  BY <1>3, CloseRest
<1>5. /\ ConnMoves /\ \A r : Has(q, "login", r) => Has(tasks', "login", r)
      /\ conn'[s] # "none"
      /\ ~Has(tasks', "connect", s) /\ ~Has(tasks', "login", s)
  BY <1>1, <1>3, CloseMoves
<1>6. /\ PostedOnce' /\ LoginIsPlain' /\ ReleaseAfterClose'
      /\ \A r \in Sessions : conn'[r] = "none" => \A k \in Kinds : ~Has(tasks', k, r)
      /\ \A r \in Sessions : Has(tasks', "login", r) => Has(tasks, "login", r)
      /\ \A r \in Sessions : Has(tasks', "connect", r) => Has(tasks, "connect", r)
      /\ \A i \in 1..Len(tasks') : tasks'[i].kind = "connect" =>
            tasks'[i].to # None /\ eventConnect[tasks'[i].of] = tasks'[i].to
  BY <1>4, <1>5, RestKeeps
<1>7. SessionTypes'
  <2>1. /\ tasks' \in Seq(Tasks) /\ name' = name
        /\ conn' \in [Sessions -> {"none", "open", "closed", "gone"}]
    BY <1>4, <1>5 DEF Rest, ConnMoves
  <2>2. /\ eventConnect' \in [Sessions -> Sessions \cup {None}]
        /\ isConnecting' \in [Sessions -> BOOLEAN]
    BY <1>1, <1>2 DEF SessionTypes, SessionTypeOK
  <2> QED BY <2>1, <2>2, TaskTypes DEF SessionTypes, SessionTypeOK
<1>8. \A r \in Sessions : Fresh(r) /\ r # s => Fresh(r)'
  BY <1>1, <1>2 DEF Fresh, SessionTypes, SessionTypeOK
<1>9. NotYet'
  BY <1>5, <1>6, <1>8 DEF NotYet, ConnMoves
<1>10. WaitingHasNone'
  <2>1. \A r \in Sessions : eventConnect'[r] # None => player'[r] = None /\ ~accept'[r]
    BY <1>1, <1>2 DEF WaitingHasNone, SessionTypes, SessionTypeOK, Fresh
  <2>2. ASSUME NEW i \in 1..Len(tasks'), tasks'[i].kind = "connect"
        PROVE  tasks'[i].to # None /\ eventConnect'[tasks'[i].of] = tasks'[i].to
    <3>1. tasks'[i].of \in Sessions
      BY <1>4, TaskTypes DEF Rest
    <3>2. tasks'[i].of # s
      BY <1>5, <2>2 DEF Has
    <3> QED BY <1>2, <1>6, <2>2, <3>1, <3>2 DEF SessionTypes, SessionTypeOK
  <2> QED BY <2>1, <2>2 DEF WaitingHasNone
<1>11. ClientAgrees' /\ RefsExact' /\ OneBody'
  BY <1>5 DEF ClientAgrees, RefsExact, OneBody, ConnMoves
<1>12. AcceptsForPlayer'
  BY <1>5 DEF AcceptsForPlayer, Playing, ConnMoves
<1>13. StillToRun'
  BY <1>1, <1>2, <1>5 DEF StillToRun, ConnMoves, SessionTypes, SessionTypeOK
<1> QED BY <1>6, <1>7, <1>9, <1>10, <1>11, <1>12, <1>13 DEF SessionInv

\* Every task of the dispatcher
LEMMA DispatchInv ==
    ASSUME SessionInv, Dispatch
    PROVE  SessionInv'
<1> DEFINE t == Head(tasks)
           s == t.of
           q == Tail(tasks)
<1>1. tasks # <<>>
  BY DEF Dispatch
<1>2. s \in Sessions /\ (t.kind = "connect" => t.to \in Sessions)
  BY <1>1, FirstTask
<1>3. CASE t.kind = "login" /\ LoginNew(s, q)
  BY <1>1, <1>3, LoginNewInv
<1>4. CASE t.kind = "login" /\ LoginAgain(s, q)
  <2>1. PICK o \in NamedPlayer(s) :
            \/ CloseAfter(s, q) /\ UNCHANGED <<eventConnect, accept, body, links>>
            \/ client[o] = None /\ Connect(s, o, q)
            \/ /\ client[o] # None
               /\ CloseAfter(client[o], q)
               /\ isConnecting' = [isConnecting EXCEPT ![o] = TRUE]
               /\ eventConnect' = [eventConnect EXCEPT ![s] = o]
               /\ Accepts(s)
               /\ UNCHANGED <<inGame, toRelease, links>>
    BY <1>4 DEF LoginAgain
  <2>2. o \in Sessions
    BY DEF NamedPlayer, SessionInv, SessionTypes, SessionTypeOK
  <2>3. CASE CloseAfter(s, q) /\ UNCHANGED <<eventConnect, accept, body, links>>
    BY <1>1, <2>3, CloseTaskInv
  <2>4. CASE client[o] = None /\ Connect(s, o, q)
    BY <1>1, <1>4, <2>2, <2>4, ConnectInv
  <2>5. CASE /\ CloseAfter(client[o], q)
             /\ isConnecting' = [isConnecting EXCEPT ![o] = TRUE]
             /\ eventConnect' = [eventConnect EXCEPT ![s] = o]
             /\ Accepts(s)
             /\ UNCHANGED <<inGame, toRelease, links>>
    BY <1>1, <1>4, <2>2, <2>5, LoginWaitsInv
  <2> QED BY <2>1, <2>3, <2>4, <2>5
<1>5. CASE t.kind = "connect" /\ Connect(s, t.to, q)
  BY <1>1, <1>2, <1>5, ConnectInv
<1>6. CASE t.kind = "logout" /\ Logout(s, q) /\ UNCHANGED <<eventConnect, accept, links>>
  BY <1>1, <1>6, LogoutInv
<1>7. CASE /\ t.kind = "release" /\ Release(s) /\ tasks' = q
           /\ UNCHANGED <<net, eventConnect, accept, body>>
  BY <1>1, <1>7, ReleaseInv
<1> QED BY <1>3, <1>4, <1>5, <1>6, <1>7 DEF Dispatch

\* SessionInv is inductive: it holds at the start and every step keeps it.
THEOREM SessionInvariant == SessionSpec => []SessionInv
<1>1. SessionInit => SessionInv
  <2> SUFFICES ASSUME SessionInit PROVE SessionInv
    OBVIOUS
  <2>1. tasks \in Seq(Tasks) /\ Len(tasks) = 0
    BY DEF SessionInit
  <2>2. SessionTypes
    BY <2>1 DEF SessionInit, SessionTypes, SessionTypeOK
  <2>3. PostedOnce /\ NotYet /\ WaitingHasNone /\ ReleaseAfterClose /\ LoginIsPlain
    BY <2>1 DEF SessionInit, PostedOnce, NotYet, WaitingHasNone, ReleaseAfterClose,
                LoginIsPlain, Has, Fresh
  <2>4. ClientAgrees /\ RefsExact /\ OneBody /\ AcceptsForPlayer /\ StillToRun
    BY DEF SessionInit, ClientAgrees, RefsExact, OneBody, AcceptsForPlayer, StillToRun, Playing
  <2> QED BY <2>2, <2>3, <2>4 DEF SessionInv
<1>2. SessionInv /\ [SessionNext]_sessionVars => SessionInv'
  <2> SUFFICES ASSUME SessionInv, [SessionNext]_sessionVars PROVE SessionInv'
    OBVIOUS
  <2>1. CASE UNCHANGED sessionVars
    BY <2>1 DEF sessionVars, net, body, links, SessionInv, SessionTypes, SessionTypeOK,
                PostedOnce, NotYet, WaitingHasNone, ReleaseAfterClose, LoginIsPlain, Fresh,
                ClientAgrees, RefsExact, OneBody, AcceptsForPlayer, StillToRun, Playing
  <2>2. CASE \E s \in Sessions : FirstMessage(s) \/ FirstMessageRefused(s)
    BY <2>2, FirstMessageInv
  <2>3. CASE \E s \in Sessions : NetworkClose(s) \/ Expire(s) \/ PacketQuit(s)
    BY <2>3, NetworkInv
  <2>4. CASE \E s \in Sessions : PacketLogout(s)
    BY <2>4, PacketLogoutInv
  <2>5. CASE \E s \in Sessions : ConnectDue(s)
    BY <2>5, ConnectDueInv
  <2>6. CASE Dispatch
    BY <2>6, DispatchInv
  <2>7. CASE \E o \in Sessions : PingTimeout(o) \/ KickPlayer(o) \/ Die(o)
    BY <2>7, LeaveInv DEF PingTimeout, KickPlayer
  <2>8. CASE Cleanup
    BY <2>8, CleanupInv
  <2>9. CASE Quiet
    BY <2>1, <2>9 DEF Quiet
  <2> QED BY <2>1, <2>2, <2>3, <2>4, <2>5, <2>6, <2>7, <2>8, <2>9 DEF SessionNext
<1> QED BY <1>1, <1>2, PTL DEF SessionSpec

\* Session and player point at each other, the reference counter is exact, no
\* character is in the game twice and no session is forgotten (ProtocolGame's
\* login, connect and release against the removals of Game), for any number of
\* sessions.
THEOREM SessionsAlwaysAgree == SessionSpec => []SessionsAgree
<1>1. SessionInv => SessionsAgree
  <2> SUFFICES ASSUME SessionInv PROVE SessionsAgree
    OBVIOUS
  <2> USE DEF SessionInv
  <2>1. RefsCountHolders
    <3> SUFFICES ASSUME NEW o \in Sessions
                 PROVE  refs[o] = Cardinality({s \in Sessions : player[s] = o})
                                  + (IF o \in inGame \cup toRelease THEN 1 ELSE 0)
      BY DEF RefsCountHolders
    <3>1. CASE client[o] = None
      <4>1. {s \in Sessions : player[s] = o} = {}
        BY <3>1 DEF ClientAgrees
      <4> QED BY <3>1, <4>1, FS_EmptySet DEF RefsExact
    <3>2. CASE client[o] # None
      <4>1. client[o] \in Sessions
        BY <3>2 DEF SessionTypes, SessionTypeOK
      <4>2. {s \in Sessions : player[s] = o} = {client[o]}
        BY <4>1 DEF ClientAgrees
      <4> QED BY <3>2, <4>2, FS_Singleton DEF RefsExact
    <3> QED BY <3>1, <3>2
  <2>2. NobodyForgotten
    <3> SUFFICES ASSUME NEW s \in Sessions, Has(tasks, "login", s)
                 PROVE  Contains(tasks, Task("login", s))
      BY DEF NobodyForgotten, StillToRun
    <3>1. PICK i \in 1..Len(tasks) : tasks[i].kind = "login" /\ tasks[i].of = s
      BY DEF Has
    <3>2. tasks[i] \in Tasks /\ tasks[i].to = None
      BY <3>1 DEF LoginIsPlain, SessionTypes
    <3>3. tasks[i] = Task("login", s)
      BY <3>1, <3>2 DEF Tasks, Task
    <3> QED BY <3>3 DEF Contains
  <2> QED BY <2>1, <2>2 DEF SessionsAgree
<1> QED BY <1>1, SessionInvariant, PTL

\* A step that lets a session play on leaves its player to it: login and connect
\* run for sessions that do not accept packets, release for closed connections.
LEMMA PlayingKeeps ==
    ASSUME SessionInv, SessionNext, NEW s \in Sessions, Playing(s), Playing(s)'
    PROVE  player'[s] = player[s]
<1> USE DEF SessionInv, links
<1>1. CASE UNCHANGED links
  BY <1>1
<1>2. CASE Dispatch
  <2> DEFINE t == Head(tasks)
             q == Tail(tasks)
  <2>1. tasks # <<>>
    BY <1>2 DEF Dispatch
  <2>2. t.of \in Sessions
        /\ (t.kind = "login" => Fresh(t.of))
        /\ (t.kind = "connect" => eventConnect[t.of] # None)
    <3>1. /\ t.of \in Sessions
          /\ t.kind = "login" => Fresh(t.of)
          /\ t.kind = "connect" => t.to \in Sessions /\ eventConnect[t.of] = t.to
      BY <2>1, FirstTask, Zenon
    <3> QED BY <3>1
  <2>3. t.kind \in {"login", "connect"} => t.of # s
    BY <2>2 DEF Fresh, WaitingHasNone, Playing
  <2>4. t.kind = "release" => t.of # s
    <3>1. Has(tasks, t.kind, t.of)
      BY <2>1, TailTask DEF SessionTypes
    <3> QED BY <2>2, <3>1 DEF ReleaseAfterClose, Playing
  <2>5. player' = player \/ (/\ t.kind \in {"login", "connect", "release"}
                             /\ \E x : player' = [player EXCEPT ![t.of] = x])
    BY <1>2 DEF Dispatch, LoginNew, NewPlayer, LoginAgain, Connect, Release
  <2> QED BY <2>2, <2>3, <2>4, <2>5 DEF SessionTypes, SessionTypeOK
<1> QED BY <1>1, <1>2
        DEF SessionNext, FirstMessage, FirstMessageRefused, NetworkClose, Expire, PacketLogout,
            PacketQuit, ConnectDue, PingTimeout, KickPlayer, Kick, Die, Cleanup, Quiet,
            sessionVars

\* The player whom the network thread reads without a lock in parsePacket exists
\* and stays the same while the session takes packets, for any number of sessions.
THEOREM SessionPlayerForPackets == SessionSpec => PlayerForPackets
<1>1. SessionInv /\ [SessionNext]_sessionVars =>
          [\A s \in Sessions : Playing(s) =>
              /\ player[s] # None /\ refs[player[s]] > 0
              /\ Playing(s)' => player'[s] = player[s]]_sessionVars
  <2> SUFFICES ASSUME SessionInv, SessionNext, NEW s \in Sessions, Playing(s)
               PROVE  /\ player[s] # None /\ refs[player[s]] > 0
                      /\ Playing(s)' => player'[s] = player[s]
    OBVIOUS
  <2> USE DEF SessionInv
  <2>1. player[s] \in Sessions
    BY DEF AcceptsForPlayer, SessionTypes, SessionTypeOK
  <2>2. client[player[s]] = s
    BY <2>1 DEF ClientAgrees
  <2>3. refs[player[s]] > 0
    BY <2>1, <2>2 DEF RefsExact
  <2> QED BY <2>1, <2>3, PlayingKeeps
<1> QED BY <1>1, SessionInvariant, PTL DEF SessionSpec, PlayerForPackets
===============================================================================
