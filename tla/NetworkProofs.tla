----------------------------- MODULE NetworkProofs -----------------------------
(***************************************************************************)
(* Proofs about what the network and the database thread hand over:        *)
(* Connection, DatabaseTasks and OutputMessagePool, for any number of      *)
(* messages, queries, protocols and packets; and about the process that    *)
(* serves them, Server, for any ports, number of errors and premium days.  *)
(***************************************************************************)
EXTENDS Connection, DatabaseTasks, OutputMessagePool, Server, FiniteSetTheorems, TLAPS

-------------------------------------------------------------------------------
(* Connection: the messages between send() and the peer, and the release.    *)

\* The message being written stays at the front of the queue until its handler
\* runs; what is still to be written, together with what the peer has, is what
\* send() accepted.
Unwritten(c) ==
    IF c.writeResult = "ok" THEN Tail(c.messageQueue) ELSE c.messageQueue

InTransit(c, p, a) ==
    /\ c.write => c.messageQueue # <<>> /\ a = p \o Unwritten(c)
    /\ ~c.write => c.messageQueue = <<>> /\ (c.state = "OPEN" => a = p)
    /\ IsPrefix(p, a)

\* The first close posts the release of the protocol there is.
ReleasedAtClose(c, n) ==
    /\ n \in {0, 1}
    /\ c.state = "OPEN" => n = 0
    /\ c.state = "CLOSED" /\ c.protocol => n = 1

\* An open connection always reads, so that only a closed one is destroyed.
KeepsReading(c) ==
    /\ c.state = "OPEN" => c.read # "none" /\ c.alive
    /\ ~c.alive => c.read = "none" /\ ~c.write

\* The inductive invariant of Connection
ConnectionInv ==
    /\ conn \in ConnType
    /\ peer \in Seq(Messages)
    /\ accepted \in Seq(Messages)
    /\ InTransit(conn, peer, accepted)
    /\ ReleasedAtClose(conn, released)
    /\ KeepsReading(conn)

-------------------------------------------------------------------------------
(* DatabaseTasks: which of the accepted queries have been executed.          *)

\* The queries that have left the list
Taken == Len(handed) - Len(tasks)

\* The list is the end of what addTask accepted, and no query is accepted twice.
ListIsRest ==
    /\ Len(tasks) <= Len(handed)
    /\ \A i \in 1..Len(tasks) : tasks[i] = handed[Taken + i]
    /\ \A i, j \in 1..Len(handed) : handed[i] = handed[j] => i = j

\* What has left the list is executed, or the database thread has it in hand;
\* what is on the list is not, but for the front that flush has just executed.
ExecutedSoFar ==
    /\ \A i \in 1..Taken :
          \/ Contains(finished, handed[i])
          \/ running["thread"] = handed[i] /\ runStep["thread"] = "query"
    /\ \A i \in Taken + 1..Len(handed) :
          Contains(finished, handed[i]) =>
              /\ i = Taken + 1
              /\ running["flush"] = handed[i] /\ runStep["flush"] = "post"
    /\ \A q \in Queries : Contains(finished, q) => Contains(handed, q)

\* The database thread has a query in hand that left the list, the last one
\* unless shutdown goes on with the others.
ThreadHolds ==
    /\ running["thread"] # NoQuery => dbPc = "running"
    /\ running["thread"] # NoQuery =>
          \E i \in 1..Taken : running["thread"] = handed[i]
                              /\ (dbShutdownStep = "none" => i = Taken)

\* flush has the front of the list in hand.
FlushHolds ==
    running["flush"] # NoQuery =>
        dbShutdownStep = "flushing" /\ tasks # <<>> /\ running["flush"] = tasks[1]

\* A query in hand is executed exactly when its callback is next.
HeldNotYet ==
    \A r \in Runners :
        /\ running[r] # NoQuery => (Contains(finished, running[r]) <=> runStep[r] = "post")
        /\ runStep[r] = "post" => running[r] # NoQuery

\* Nothing is queued once shutdown has begun, and flush leaves nothing.
ShutdownFlushes ==
    /\ dbShutdownStep # "none" => dbThreadState = "TERMINATED"
    /\ dbShutdownStep \in {"unlocked", "done"} => tasks = <<>>

\* Once for each lost reply, and once more for what has been executed
AppliedSoFar ==
    \A q \in Queries : applied[q] <= lost[q] + (IF Contains(finished, q) THEN 1 ELSE 0)

DbTypes ==
    /\ dbThreadState \in DbThreadStates
    /\ tasks \in Seq(Queries)
    /\ dbPc \in DbPCs
    /\ running \in [Runners -> Queries \cup {NoQuery}]
    /\ runStep \in [Runners -> {"query", "post"}]
    /\ dbShutdownStep \in {"none", "flushing", "unlocked", "done"}
    /\ handed \in Seq(Queries)
    /\ finished \in Seq(Queries)
    /\ applied \in [Queries -> Nat]
    /\ lost \in [Queries -> Nat]

\* The inductive invariant of DatabaseTasks
DbInv ==
    /\ DbTypes
    /\ ListIsRest /\ ExecutedSoFar /\ ThreadHolds /\ FlushHolds /\ HeldNotYet
    /\ ShutdownFlushes /\ AppliedSoFar
-------------------------------------------------------------------------------
USE ConnectionAssumption

\* What the peer has is a prefix of what it will have once the rest is written.
LEMMA RestMakesPrefix ==
    ASSUME NEW M, NEW p \in Seq(M), NEW r \in Seq(M)
    PROVE  IsPrefix(p, p \o r) /\ p \o r \in Seq(M)
BY DEF IsPrefix

\* Taking from the front and adding at the end do not get in each other's way.
LEMMA TailAppend ==
    ASSUME NEW M, NEW s \in Seq(M), s # <<>>, NEW x \in M
    PROVE  Tail(s) \in Seq(M) /\ Tail(Append(s, x)) = Append(Tail(s), x)
OBVIOUS

\* Parts of a connection
LEMMA ConnFields ==
    ASSUME NEW c \in ConnType
    PROVE  /\ c.state \in {"OPEN", "CLOSED"}
           /\ c.socket \in {"open", "broken", "closed"}
           /\ c.alive \in BOOLEAN /\ c.in_manager \in BOOLEAN /\ c.protocol \in BOOLEAN
           /\ c.write \in BOOLEAN
           /\ c.readResult \in Results /\ c.writeResult \in Results
           /\ c.armed \subseteq Timers /\ c.fired \subseteq Timers
           /\ c.messageQueue \in Seq(Messages)
BY DEF ConnType

\* closeSocket and close change neither the queue nor what is being written,
\* but for the result of a write that is pending.
LEMMA SocketClosedFacts ==
    ASSUME NEW c \in ConnType, NEW d, d = SocketClosed(c)
    PROVE  /\ d \in ConnType
           /\ d.state = c.state /\ (d.protocol <=> c.protocol) /\ (d.alive <=> c.alive)
           /\ d.read = c.read /\ (d.write <=> c.write)
           /\ d.messageQueue = c.messageQueue
           /\ d.writeResult = "ok" <=> c.writeResult = "ok"
<1>1. CASE c.socket = "closed"
  BY <1>1 DEF SocketClosed
<1>2. CASE c.socket # "closed"
  <2> DEFINE e == [c EXCEPT !.armed = {}]
             rr == IF e.readResult = "pending" THEN "error" ELSE e.readResult
             wr == IF e.writeResult = "pending" THEN "error" ELSE e.writeResult
  <2>1. e \in ConnType
    BY DEF ConnType
  <2>2. e.state = c.state /\ (e.protocol <=> c.protocol) /\ (e.alive <=> c.alive)
        /\ e.read = c.read /\ (e.write <=> c.write) /\ e.messageQueue = c.messageQueue
        /\ e.writeResult = c.writeResult
    BY DEF ConnType
  <2>3. rr \in Results /\ wr \in Results
    BY <2>1, ConnFields DEF Results
  <2>4. wr = "ok" <=> c.writeResult = "ok"
    BY <2>2
  <2>5. d = [e EXCEPT !.socket = "closed", !.readResult = rr, !.writeResult = wr]
    BY <1>2 DEF SocketClosed, Abort
  <2> HIDE DEF e, rr, wr
  <2>6. d \in ConnType
    BY <2>1, <2>3, <2>5 DEF ConnType
  <2>7. d.state = e.state /\ (d.protocol <=> e.protocol) /\ (d.alive <=> e.alive)
        /\ d.read = e.read /\ (d.write <=> e.write) /\ d.messageQueue = e.messageQueue
        /\ d.writeResult = wr
    BY <2>1, <2>5 DEF ConnType
  <2> QED BY <2>2, <2>4, <2>6, <2>7
<1> QED BY <1>1, <1>2

LEMMA ClosedFacts ==
    ASSUME NEW c \in ConnType, NEW force \in BOOLEAN, NEW d, d = Closed(c, force)
    PROVE  /\ d \in ConnType
           /\ d.state = "CLOSED" /\ (d.protocol <=> c.protocol) /\ (d.alive <=> c.alive)
           /\ d.read = c.read /\ (d.write <=> c.write)
           /\ d.messageQueue = c.messageQueue
           /\ d.writeResult = "ok" <=> c.writeResult = "ok"
<1> DEFINE m == [c EXCEPT !.in_manager = FALSE]
           e == [m EXCEPT !.state = "CLOSED"]
<1>1. m \in ConnType /\ m.state = c.state /\ (m.protocol <=> c.protocol)
      /\ (m.alive <=> c.alive) /\ m.read = c.read /\ (m.write <=> c.write)
      /\ m.messageQueue = c.messageQueue /\ m.writeResult = c.writeResult
  BY DEF ConnType
<1>2. d = IF c.state # "OPEN" THEN m
          ELSE IF ClosesSocket(c, force) THEN SocketClosed(e) ELSE e
  BY DEF Closed
<1> HIDE DEF m
<1>3. e \in ConnType /\ e.state = "CLOSED" /\ (e.protocol <=> m.protocol)
      /\ (e.alive <=> m.alive) /\ e.read = m.read /\ (e.write <=> m.write)
      /\ e.messageQueue = m.messageQueue /\ e.writeResult = m.writeResult
  BY <1>1 DEF ConnType
<1> HIDE DEF e
<1>4. CASE c.state # "OPEN"
  BY <1>1, <1>2, <1>4, ConnFields
<1>5. CASE c.state = "OPEN" /\ ~ClosesSocket(c, force)
  BY <1>1, <1>2, <1>3, <1>5
<1>6. CASE c.state = "OPEN" /\ ClosesSocket(c, force)
  <2>1. d = SocketClosed(e)
    BY <1>2, <1>6
  <2> QED BY <1>1, <1>3, <2>1, SocketClosedFacts
<1> QED BY <1>4, <1>5, <1>6

\* Starting a read leaves the writing side alone.
LEMMA StartReadFacts ==
    ASSUME NEW c \in ConnType, NEW op \in {"header", "body"}, NEW d, d = StartRead(c, op)
    PROVE  /\ d \in ConnType
           /\ d.state = c.state /\ (d.protocol <=> c.protocol) /\ (d.alive <=> c.alive)
           /\ d.read = op /\ (d.write <=> c.write)
           /\ d.messageQueue = c.messageQueue
           /\ d.writeResult = c.writeResult
BY DEF StartRead, Started, ConnType, Results, Timers

\* Starting to write a message changes nothing but the writing side.
LEMMA InternalSendFacts ==
    ASSUME NEW c \in ConnType, NEW d, d = InternalSend(c)
    PROVE  /\ d \in ConnType
           /\ d.state = c.state /\ (d.protocol <=> c.protocol) /\ (d.alive <=> c.alive)
           /\ d.read = c.read /\ d.write
           /\ d.messageQueue = c.messageQueue
           /\ d.writeResult # "ok"
BY DEF InternalSend, Started, ConnType, Results, Timers

\* A message that is sent waits behind those that are being written.
LEMMA SentFacts ==
    ASSUME NEW c \in ConnType, NEW m \in Messages,
           NEW p \in Seq(Messages), NEW a \in Seq(Messages),
           c.state = "OPEN", InTransit(c, p, a)
    PROVE  LET d == Sent(c, m) IN
           /\ d \in ConnType
           /\ d.state = "OPEN" /\ (d.protocol <=> c.protocol) /\ (d.alive <=> c.alive)
           /\ d.read = c.read /\ d.write
           /\ InTransit(d, p, Append(a, m))
<1> DEFINE d == Sent(c, m)
           b == Append(a, m)
<1> DEFINE q == Append(c.messageQueue, m)
           e == [c EXCEPT !.messageQueue = q]
<1>a. c.messageQueue \in Seq(Messages) /\ q \in Seq(Messages) /\ q # <<>>
  BY ConnFields
<1>b. d = IF c.messageQueue = <<>> THEN InternalSend(e) ELSE e
  BY DEF Sent, NoPendingWrite
<1> SUFFICES /\ d \in ConnType
             /\ d.state = "OPEN" /\ (d.protocol <=> c.protocol) /\ (d.alive <=> c.alive)
             /\ d.read = c.read /\ d.write
             /\ InTransit(d, p, b)
  OBVIOUS
<1>d. b = Append(a, m)
  OBVIOUS
<1> HIDE DEF q, d, b
<1>c. e \in ConnType /\ e.messageQueue = q /\ e.state = "OPEN"
      /\ (e.protocol <=> c.protocol) /\ (e.alive <=> c.alive) /\ e.read = c.read
      /\ (e.write <=> c.write) /\ e.writeResult = c.writeResult
  BY <1>a DEF ConnType
<1> HIDE DEF e
<1>1. CASE c.messageQueue = <<>>
  <2>1. /\ d \in ConnType /\ d.state = "OPEN" /\ (d.protocol <=> c.protocol)
        /\ (d.alive <=> c.alive) /\ d.read = c.read /\ d.write
        /\ d.messageQueue = q /\ d.writeResult # "ok"
    BY <1>b, <1>c, <1>1, InternalSendFacts
  <2>2. a = p
    BY <1>1 DEF InTransit
  <2>3. q = <<m>>
    BY <1>1 DEF q
  <2>4. b = p \o <<m>> /\ <<m>> \in Seq(Messages)
    BY <1>d, <2>2
  <2>5. IsPrefix(p, b)
    BY <2>4, RestMakesPrefix
  <2> QED BY <1>a, <2>1, <2>3, <2>4, <2>5 DEF InTransit, Unwritten
<1>2. CASE c.messageQueue # <<>>
  <2> DEFINE u == Unwritten(c)
  <2>1. d = e /\ c.write
    BY <1>b, <1>2 DEF InTransit
  <2>2. a = p \o u
    BY <2>1 DEF InTransit
  <2>3. u \in Seq(Messages) /\ Unwritten(d) = Append(u, m)
    <3>1. CASE c.writeResult = "ok"
      <4>1. u = Tail(c.messageQueue) /\ Unwritten(d) = Tail(q)
        BY <1>c, <2>1, <3>1 DEF Unwritten
      <4> QED BY <1>a, <1>2, <4>1, TailAppend DEF q
    <3>2. CASE c.writeResult # "ok"
      <4>1. u = c.messageQueue /\ Unwritten(d) = q
        BY <1>c, <2>1, <3>2 DEF Unwritten
      <4> QED BY <1>a, <4>1 DEF q
    <3> QED BY <3>1, <3>2
  <2> HIDE DEF u
  <2>4. b = p \o Append(u, m) /\ Append(u, m) \in Seq(Messages)
    BY <1>d, <2>2, <2>3
  <2>5. IsPrefix(p, b)
    BY <2>4, RestMakesPrefix
  <2> QED BY <1>a, <1>c, <2>1, <2>3, <2>4, <2>5 DEF InTransit
<1> QED BY <1>1, <1>2

\* Closing keeps what is in transit.
LEMMA ClosedInTransit ==
    ASSUME NEW c \in ConnType, NEW force \in BOOLEAN, NEW p, NEW a, InTransit(c, p, a),
           NEW d, d = Closed(c, force)
    PROVE  InTransit(d, p, a)
<1>1. /\ d.state = "CLOSED" /\ (d.write <=> c.write) /\ d.messageQueue = c.messageQueue
      /\ d.writeResult = "ok" <=> c.writeResult = "ok"
  BY ClosedFacts
<1>2. Unwritten(d) = Unwritten(c)
  BY <1>1 DEF Unwritten
<1> QED BY <1>1, <1>2 DEF InTransit

\* The first close is the one that releases.
LEMMA ClosedReleases ==
    ASSUME NEW c \in ConnType, NEW force \in BOOLEAN, ReleasedAtClose(c, released),
           CloseEffects(c), NEW d, d = Closed(c, force)
    PROVE  ReleasedAtClose(d, released')
BY ClosedFacts DEF ReleasedAtClose, CloseEffects, Releases, ConnType

\* A handler of the reading side leaves what is in transit alone.
LEMMA SameInTransit ==
    ASSUME NEW c, NEW d, NEW p, NEW a, InTransit(c, p, a),
           d.state = c.state, (d.write <=> c.write), d.messageQueue = c.messageQueue,
           d.writeResult = "ok" <=> c.writeResult = "ok"
    PROVE  InTransit(d, p, a)
BY DEF InTransit, Unwritten

\* The read that has ended
LEMMA ReadHandledFacts ==
    ASSUME conn \in ConnType, NEW c, c = ReadHandled
    PROVE  /\ c \in ConnType
           /\ c.state = conn.state /\ (c.protocol <=> conn.protocol) /\ (c.alive <=> conn.alive)
           /\ c.read = "none" /\ (c.write <=> conn.write)
           /\ c.messageQueue = conn.messageQueue
           /\ c.writeResult = conn.writeResult
BY DEF ReadHandled, ConnType, Timers

\* A handler that closes the connection keeps the invariant.
LEMMA ClosingKeepsInv ==
    ASSUME ConnectionInv, NEW c \in ConnType, NEW force \in BOOLEAN,
           c.state = conn.state, (c.protocol <=> conn.protocol), c.alive, (c.write <=> conn.write),
           c.messageQueue = conn.messageQueue,
           c.writeResult = conn.writeResult,
           conn' = Closed(c, force), CloseEffects(c), UNCHANGED <<peer, accepted>>
    PROVE  ConnectionInv'
<1>1. InTransit(c, peer, accepted)
  BY SameInTransit DEF ConnectionInv
<1>2. ReleasedAtClose(c, released)
  BY DEF ConnectionInv, ReleasedAtClose
<1>3. conn' \in ConnType /\ conn'.state = "CLOSED" /\ (conn'.alive <=> c.alive)
  BY ClosedFacts
<1>4. InTransit(conn', peer, accepted)
  BY <1>1, ClosedInTransit
<1>5. ReleasedAtClose(conn', released')
  BY <1>2, ClosedReleases
<1> QED BY <1>3, <1>4, <1>5 DEF ConnectionInv, KeepsReading

LEMMA ConnectionInitInv == ConnectionInit => ConnectionInv
<1> SUFFICES ASSUME ConnectionInit PROVE ConnectionInv
  OBVIOUS
<1>1. conn \in ConnType
  BY DEF ConnectionInit, ConnType, Results, Timers
<1>2. conn.state = "OPEN" /\ conn.read = "header" /\ conn.alive /\ ~conn.write
      /\ conn.messageQueue = <<>>
  BY DEF ConnectionInit
<1>3. peer = <<>> /\ accepted = <<>> /\ released = 0
  BY DEF ConnectionInit
<1>4. IsPrefix(peer, accepted)
  BY <1>3 DEF IsPrefix
<1> QED BY <1>1, <1>2, <1>3, <1>4
        DEF ConnectionInv, InTransit, ReleasedAtClose, KeepsReading

LEMMA ReadCompletesInv == ConnectionInv /\ ReadCompletes => ConnectionInv'
<1> SUFFICES ASSUME ConnectionInv, ReadCompletes PROVE ConnectionInv'
  OBVIOUS
<1>1. /\ conn' \in ConnType
      /\ conn'.state = conn.state /\ (conn'.protocol <=> conn.protocol)
      /\ (conn'.alive <=> conn.alive) /\ conn'.read = conn.read
      /\ (conn'.write <=> conn.write) /\ conn'.messageQueue = conn.messageQueue
      /\ conn'.writeResult = conn.writeResult
  BY DEF ConnectionInv, ReadCompletes, ConnType, Results
<1>2. UNCHANGED <<peer, accepted, released>>
  BY DEF ReadCompletes
<1>3. InTransit(conn', peer, accepted)
  BY <1>1, SameInTransit DEF ConnectionInv
<1> QED BY <1>1, <1>2, <1>3 DEF ConnectionInv, ReleasedAtClose, KeepsReading

\* The peer gets the message at the front of the queue.
LEMMA WriteSucceedsInv == ConnectionInv /\ WriteSucceeds => ConnectionInv'
<1> SUFFICES ASSUME ConnectionInv, WriteSucceeds PROVE ConnectionInv'
  OBVIOUS
<1> DEFINE q == conn.messageQueue
<1>1. /\ conn' \in ConnType
      /\ conn'.state = conn.state /\ (conn'.protocol <=> conn.protocol)
      /\ (conn'.alive <=> conn.alive) /\ conn'.read = conn.read
      /\ conn'.write /\ conn'.messageQueue = q /\ conn'.writeResult = "ok"
  BY DEF ConnectionInv, WriteSucceeds, ConnType, Results
<1>2. UNCHANGED <<accepted, released>> /\ peer' = Append(peer, Head(q))
  BY DEF WriteSucceeds
<1>3. q \in Seq(Messages) /\ q # <<>> /\ accepted = peer \o q
      /\ peer \in Seq(Messages) /\ accepted \in Seq(Messages)
  BY ConnFields DEF ConnectionInv, WriteSucceeds, InTransit, Unwritten
<1> HIDE DEF q
<1>4. peer' \in Seq(Messages) /\ Tail(q) \in Seq(Messages)
      /\ accepted = peer' \o Tail(q)
  BY <1>2, <1>3
<1>5. IsPrefix(peer', accepted)
  BY <1>4, RestMakesPrefix
<1>6. InTransit(conn', peer', accepted')
  BY <1>1, <1>2, <1>3, <1>4, <1>5 DEF InTransit, Unwritten
<1>7. ReleasedAtClose(conn', released')
  BY <1>1, <1>2 DEF ConnectionInv, ReleasedAtClose
<1>8. KeepsReading(conn')
  BY <1>1 DEF ConnectionInv, KeepsReading, WriteSucceeds
<1> QED BY <1>1, <1>2, <1>3, <1>4, <1>6, <1>7, <1>8 DEF ConnectionInv

\* Nothing is lost from the queue when the socket breaks or is closed under it.
LEMMA AbortFacts ==
    ASSUME NEW c \in ConnType, NEW d, d = Abort(c)
    PROVE  /\ d \in ConnType
           /\ d.state = c.state /\ (d.protocol <=> c.protocol) /\ (d.alive <=> c.alive)
           /\ d.read = c.read /\ (d.write <=> c.write)
           /\ d.messageQueue = c.messageQueue
           /\ d.writeResult = "ok" <=> c.writeResult = "ok"
<1> DEFINE rr == IF c.readResult = "pending" THEN "error" ELSE c.readResult
           wr == IF c.writeResult = "pending" THEN "error" ELSE c.writeResult
<1>1. rr \in Results /\ wr \in Results
  BY ConnFields DEF Results
<1>2. wr = "ok" <=> c.writeResult = "ok"
  OBVIOUS
<1>3. d = [c EXCEPT !.socket = "closed", !.readResult = rr, !.writeResult = wr]
  BY DEF Abort
<1> HIDE DEF rr, wr
<1>4. d \in ConnType
  BY <1>1, <1>3 DEF ConnType
<1> QED BY <1>2, <1>3, <1>4 DEF ConnType

LEMMA WriteFailsInv == ConnectionInv /\ WriteFails => ConnectionInv'
<1> SUFFICES ASSUME ConnectionInv, WriteFails PROVE ConnectionInv'
  OBVIOUS
<1> DEFINE d == Abort(conn)
<1>1. /\ d \in ConnType
      /\ d.state = conn.state /\ (d.protocol <=> conn.protocol)
      /\ (d.alive <=> conn.alive) /\ d.read = conn.read
      /\ (d.write <=> conn.write) /\ d.messageQueue = conn.messageQueue
      /\ d.writeResult = "ok" <=> conn.writeResult = "ok"
  BY AbortFacts DEF ConnectionInv
<1>2. UNCHANGED <<peer, accepted, released>> /\ conn' = [d EXCEPT !.socket = "broken"]
  BY DEF WriteFails
<1> HIDE DEF d
<1>3. /\ conn' \in ConnType
      /\ conn'.state = d.state /\ (conn'.protocol <=> d.protocol)
      /\ (conn'.alive <=> d.alive) /\ conn'.read = d.read
      /\ (conn'.write <=> d.write) /\ conn'.messageQueue = d.messageQueue
      /\ conn'.writeResult = d.writeResult
  BY <1>1, <1>2 DEF ConnType
<1>4. InTransit(conn', peer, accepted)
  BY <1>1, <1>3, SameInTransit DEF ConnectionInv
<1> QED BY <1>1, <1>2, <1>3, <1>4 DEF ConnectionInv, ReleasedAtClose, KeepsReading

LEMMA TimerExpiresInv ==
    ASSUME ConnectionInv, NEW t \in Timers, TimerExpires(t)
    PROVE  ConnectionInv'
<1>1. /\ conn' \in ConnType
      /\ conn'.state = conn.state /\ (conn'.protocol <=> conn.protocol)
      /\ (conn'.alive <=> conn.alive) /\ conn'.read = conn.read
      /\ (conn'.write <=> conn.write) /\ conn'.messageQueue = conn.messageQueue
      /\ conn'.writeResult = conn.writeResult
  BY DEF ConnectionInv, TimerExpires, ConnType
<1>2. UNCHANGED <<peer, accepted, released>>
  BY DEF TimerExpires
<1>3. InTransit(conn', peer, accepted)
  BY <1>1, SameInTransit DEF ConnectionInv
<1> QED BY <1>1, <1>2, <1>3 DEF ConnectionInv, ReleasedAtClose, KeepsReading

\* A timer that fires closes the connection, if there still is one.
LEMMA HandleTimeoutInv ==
    ASSUME ConnectionInv, NEW t \in Timers, HandleTimeout(t)
    PROVE  ConnectionInv'
<1> DEFINE c == [conn EXCEPT !.fired = @ \ {t}]
<1>1. /\ c \in ConnType
      /\ c.state = conn.state /\ (c.protocol <=> conn.protocol)
      /\ (c.alive <=> conn.alive) /\ c.read = conn.read
      /\ (c.write <=> conn.write) /\ c.messageQueue = conn.messageQueue
      /\ c.writeResult = conn.writeResult
  BY DEF ConnectionInv, ConnType
<1>2. UNCHANGED <<peer, accepted>>
      /\ IF c.alive THEN conn' = Closed(c, TRUE) /\ CloseEffects(c)
         ELSE conn' = c /\ UNCHANGED released
  BY DEF HandleTimeout
<1> HIDE DEF c
<1>3. CASE c.alive
  BY <1>1, <1>2, <1>3, ClosingKeepsInv
<1>4. CASE ~c.alive
  <2>1. InTransit(c, peer, accepted)
    BY <1>1, SameInTransit DEF ConnectionInv
  <2> QED BY <1>1, <1>2, <1>4, <2>1 DEF ConnectionInv, ReleasedAtClose, KeepsReading
<1> QED BY <1>3, <1>4

LEMMA ParseHeaderInv == ConnectionInv /\ ParseHeader => ConnectionInv'
<1> SUFFICES ASSUME ConnectionInv, ParseHeader PROVE ConnectionInv'
  OBVIOUS
<1> DEFINE c == ReadHandled
<1>1. /\ c \in ConnType
      /\ c.state = conn.state /\ (c.protocol <=> conn.protocol) /\ (c.alive <=> conn.alive)
      /\ c.read = "none" /\ (c.write <=> conn.write)
      /\ c.messageQueue = conn.messageQueue
      /\ c.writeResult = conn.writeResult
  BY ReadHandledFacts DEF ConnectionInv
<1>2. conn.alive /\ UNCHANGED <<peer, accepted>>
  BY ConnFields DEF ConnectionInv, KeepsReading, ParseHeader
<1>3. \/ conn' = Closed(c, TRUE) /\ CloseEffects(c)
      \/ conn' = Closed(c, FALSE) /\ CloseEffects(c)
      \/ conn' = (IF c.state = "OPEN" THEN StartRead(c, "body") ELSE c)
         /\ UNCHANGED released
  BY DEF ParseHeader
<1> HIDE DEF c
<1>4. CASE conn' = Closed(c, TRUE) /\ CloseEffects(c)
  BY <1>1, <1>2, <1>4, ClosingKeepsInv
<1>5. CASE conn' = Closed(c, FALSE) /\ CloseEffects(c)
  BY <1>1, <1>2, <1>5, ClosingKeepsInv
<1>6. CASE conn' = (IF c.state = "OPEN" THEN StartRead(c, "body") ELSE c)
           /\ UNCHANGED released
  <2>1. /\ conn' \in ConnType
        /\ conn'.state = conn.state /\ (conn'.protocol <=> conn.protocol)
        /\ (conn'.alive <=> conn.alive) /\ (conn.state = "OPEN" => conn'.read = "body")
        /\ (conn'.write <=> conn.write) /\ conn'.messageQueue = conn.messageQueue
        /\ conn'.writeResult = conn.writeResult
    BY <1>1, <1>6, StartReadFacts
  <2>2. InTransit(conn', peer, accepted)
    BY <2>1, SameInTransit DEF ConnectionInv
  <2> QED BY <1>2, <1>6, <2>1, <2>2 DEF ConnectionInv, ReleasedAtClose, KeepsReading
<1> QED BY <1>3, <1>4, <1>5, <1>6

LEMMA ParsePacketEndsInv == ConnectionInv /\ ParsePacketEnds => ConnectionInv'
<1> SUFFICES ASSUME ConnectionInv, ParsePacketEnds PROVE ConnectionInv'
  OBVIOUS
<1> DEFINE c == ReadHandled
<1>1. /\ c \in ConnType
      /\ c.state = conn.state /\ (c.protocol <=> conn.protocol) /\ (c.alive <=> conn.alive)
      /\ c.read = "none" /\ (c.write <=> conn.write)
      /\ c.messageQueue = conn.messageQueue
      /\ c.writeResult = conn.writeResult
  BY ReadHandledFacts DEF ConnectionInv
<1>2. conn.alive /\ UNCHANGED <<peer, accepted>>
  BY ConnFields DEF ConnectionInv, KeepsReading, ParsePacketEnds
<1>3. \/ conn' = Closed(c, TRUE) /\ CloseEffects(c)
      \/ conn' = c /\ c.state # "OPEN" /\ UNCHANGED released
  BY DEF ParsePacketEnds
<1> HIDE DEF c
<1>4. CASE conn' = Closed(c, TRUE) /\ CloseEffects(c)
  BY <1>1, <1>2, <1>4, ClosingKeepsInv
<1>5. CASE conn' = c /\ c.state # "OPEN" /\ UNCHANGED released
  <2>1. InTransit(c, peer, accepted)
    BY <1>1, SameInTransit DEF ConnectionInv
  <2> QED BY <1>1, <1>2, <1>5, <2>1 DEF ConnectionInv, ReleasedAtClose, KeepsReading
<1> QED BY <1>3, <1>4, <1>5

LEMMA UnknownProtocolInv == ConnectionInv /\ UnknownProtocol => ConnectionInv'
<1> SUFFICES ASSUME ConnectionInv, UnknownProtocol PROVE ConnectionInv'
  OBVIOUS
<1> DEFINE r == ReadHandled
           c == [r EXCEPT !.receivedFirst = TRUE]
<1>1. /\ r \in ConnType
      /\ r.state = conn.state /\ (r.protocol <=> conn.protocol) /\ (r.alive <=> conn.alive)
      /\ r.read = "none" /\ (r.write <=> conn.write)
      /\ r.messageQueue = conn.messageQueue
      /\ r.writeResult = conn.writeResult
  BY ReadHandledFacts DEF ConnectionInv
<1>2. conn.alive /\ UNCHANGED <<peer, accepted>>
  BY ConnFields DEF ConnectionInv, KeepsReading, UnknownProtocol
<1>3. conn' = Closed(c, TRUE) /\ CloseEffects(c)
  BY DEF UnknownProtocol
<1> HIDE DEF r
<1>4. /\ c \in ConnType
      /\ c.state = r.state /\ (c.protocol <=> r.protocol) /\ (c.alive <=> r.alive)
      /\ (c.write <=> r.write) /\ c.messageQueue = r.messageQueue
      /\ c.writeResult = r.writeResult
  BY <1>1 DEF ConnType
<1> HIDE DEF c
<1> QED BY <1>1, <1>2, <1>3, <1>4, ClosingKeepsInv

\* The protocol answers with at most one message.
LEMMA AnswerFacts ==
    ASSUME NEW c \in ConnType, NEW p \in Seq(Messages), NEW a \in Seq(Messages),
           c.state = "OPEN", InTransit(c, p, a),
           NEW answer, answer = <<>> \/ \E m \in Messages : answer = <<m>>
    PROVE  LET d == IF answer = <<>> THEN c ELSE Sent(c, answer[1]) IN
           /\ d \in ConnType /\ d.state = "OPEN"
           /\ (d.protocol <=> c.protocol) /\ (d.alive <=> c.alive)
           /\ InTransit(d, p, a \o answer) /\ a \o answer \in Seq(Messages)
<1> DEFINE d == IF answer = <<>> THEN c ELSE Sent(c, answer[1])
<1> SUFFICES /\ d \in ConnType /\ d.state = "OPEN"
             /\ (d.protocol <=> c.protocol) /\ (d.alive <=> c.alive)
             /\ InTransit(d, p, a \o answer) /\ a \o answer \in Seq(Messages)
  OBVIOUS
<1>1. CASE answer = <<>>
  <2>1. d = c /\ a \o answer = a
    BY <1>1
  <2> QED BY <2>1
<1>2. ASSUME NEW m \in Messages, answer = <<m>>
      PROVE  /\ d \in ConnType /\ d.state = "OPEN"
             /\ (d.protocol <=> c.protocol) /\ (d.alive <=> c.alive)
             /\ InTransit(d, p, a \o answer) /\ a \o answer \in Seq(Messages)
  <2>1. d = Sent(c, m) /\ a \o answer = Append(a, m) /\ Append(a, m) \in Seq(Messages)
    BY <1>2
  <2> HIDE DEF d
  <2> QED BY <2>1, SentFacts
<1> QED BY <1>1, <1>2

\* An answer is queued before the connection is closed or the next read begins.
LEMMA ParsePacketInv ==
    ASSUME ConnectionInv, NEW answer, answer = <<>> \/ \E m \in Messages : answer = <<m>>,
           NEW disconnect \in BOOLEAN, ParsePacket(answer, disconnect)
    PROVE  ConnectionInv'
<1> DEFINE r == ReadHandled
           c == [r EXCEPT !.receivedFirst = TRUE, !.protocol = TRUE]
           d == IF answer = <<>> THEN c ELSE Sent(c, answer[1])
           e == IF disconnect THEN Closed(d, FALSE) ELSE d
<1>1. /\ r \in ConnType
      /\ r.state = conn.state /\ (r.alive <=> conn.alive)
      /\ (r.write <=> conn.write)
      /\ r.messageQueue = conn.messageQueue
      /\ r.writeResult = conn.writeResult
  BY ReadHandledFacts DEF ConnectionInv
<1>2. /\ conn.state = "OPEN" /\ conn.alive /\ released = 0
      /\ peer' = peer /\ accepted' = accepted \o answer
  BY ConnFields DEF ConnectionInv, KeepsReading, ReleasedAtClose, ParsePacket
<1>3. /\ conn' = StartRead(e, "header")
      /\ IF disconnect THEN CloseEffects(d) ELSE UNCHANGED released
  BY DEF ParsePacket
<1> HIDE DEF r
<1>4. /\ c \in ConnType
      /\ c.state = r.state /\ c.protocol /\ (c.alive <=> r.alive)
      /\ (c.write <=> r.write) /\ c.messageQueue = r.messageQueue
      /\ c.writeResult = r.writeResult
  BY <1>1 DEF ConnType
<1> HIDE DEF c
<1>5. InTransit(c, peer, accepted)
  BY <1>1, <1>4, SameInTransit DEF ConnectionInv
<1>6. /\ d \in ConnType /\ d.state = "OPEN" /\ d.protocol /\ d.alive
      /\ InTransit(d, peer, accepted') /\ accepted' \in Seq(Messages)
  <2>1. peer \in Seq(Messages) /\ accepted \in Seq(Messages)
    BY DEF ConnectionInv
  <2>2. c.state = "OPEN"
    BY <1>1, <1>2, <1>4
  <2>3. d = IF answer = <<>> THEN c ELSE Sent(c, answer[1])
    OBVIOUS
  <2> HIDE DEF d
  <2>4. /\ d \in ConnType /\ d.state = "OPEN"
        /\ (d.protocol <=> c.protocol) /\ (d.alive <=> c.alive)
        /\ InTransit(d, peer, accepted') /\ accepted' \in Seq(Messages)
    BY <1>2, <1>4, <1>5, <2>1, <2>2, <2>3, AnswerFacts
  <2> QED BY <1>1, <1>2, <1>4, <2>4
<1> HIDE DEF d
<1>7. /\ e \in ConnType /\ e.protocol /\ e.alive
      /\ InTransit(e, peer, accepted') /\ ReleasedAtClose(e, released')
  <2>1. CASE disconnect
    <3>1. e = Closed(d, FALSE) /\ CloseEffects(d)
      BY <1>3, <2>1
    <3>2. ReleasedAtClose(d, released)
      BY <1>2, <1>6 DEF ReleasedAtClose
    <3>3. e \in ConnType /\ (e.protocol <=> d.protocol) /\ (e.alive <=> d.alive)
      BY <1>6, <3>1, ClosedFacts
    <3>4. ReleasedAtClose(e, released')
      BY <1>6, <3>1, <3>2, ClosedReleases
    <3>5. InTransit(e, peer, accepted')
      BY <1>6, <3>1, ClosedInTransit
    <3> QED BY <1>6, <3>3, <3>4, <3>5
  <2>2. CASE ~disconnect
    <3>1. e = d /\ released' = released
      BY <1>3, <2>2
    <3> HIDE DEF e
    <3> QED BY <1>2, <1>6, <3>1 DEF ReleasedAtClose
  <2> QED BY <2>1, <2>2
<1> HIDE DEF e
<1>8. /\ conn' \in ConnType
      /\ conn'.state = e.state /\ (conn'.protocol <=> e.protocol)
      /\ (conn'.alive <=> e.alive) /\ conn'.read = "header"
      /\ (conn'.write <=> e.write) /\ conn'.messageQueue = e.messageQueue
      /\ conn'.writeResult = e.writeResult
  <2> DEFINE h == StartRead(e, "header")
  <2>1. /\ h \in ConnType
        /\ h.state = e.state /\ (h.protocol <=> e.protocol)
        /\ (h.alive <=> e.alive) /\ h.read = "header"
        /\ (h.write <=> e.write) /\ h.messageQueue = e.messageQueue
        /\ h.writeResult = e.writeResult
    BY <1>7, StartReadFacts
  <2> QED BY <1>3, <2>1
<1>9. InTransit(conn', peer, accepted')
  BY <1>7, <1>8, SameInTransit
<1>10. ReleasedAtClose(conn', released')
  BY <1>7, <1>8 DEF ReleasedAtClose
<1>11. KeepsReading(conn')
  BY <1>7, <1>8 DEF KeepsReading
<1>12. peer' \in Seq(Messages)
  BY <1>2 DEF ConnectionInv
<1> QED BY <1>2, <1>6, <1>8, <1>9, <1>10, <1>11, <1>12 DEF ConnectionInv

\* The write that has ended leaves the queue.
LEMMA WriteHandledFacts ==
    ASSUME conn \in ConnType, conn.messageQueue # <<>>, NEW c, c = WriteHandled
    PROVE  /\ c \in ConnType
           /\ c.state = conn.state /\ (c.protocol <=> conn.protocol)
           /\ (c.alive <=> conn.alive) /\ c.read = conn.read /\ ~c.write
           /\ c.messageQueue = Tail(conn.messageQueue)
<1> DEFINE q == Tail(conn.messageQueue)
<1>1. q \in Seq(Messages)
  BY ConnFields
<1>2. c = [conn EXCEPT !.armed = @ \ {"write"}, !.write = FALSE, !.messageQueue = q]
  BY DEF WriteHandled
<1> HIDE DEF q
<1>3. c \in ConnType
  BY <1>1, <1>2 DEF ConnType
<1>4. c.state = conn.state /\ (c.protocol <=> conn.protocol)
      /\ (c.alive <=> conn.alive) /\ c.read = conn.read /\ ~c.write
      /\ c.messageQueue = q
  BY <1>2 DEF ConnType
<1> QED BY <1>3, <1>4 DEF q

\* After a failed write the queue is dropped and the connection closed; after a
\* good one the next message is written, or nothing is left to write.
LEMMA OnWriteOperationInv == ConnectionInv /\ OnWriteOperation => ConnectionInv'
<1> SUFFICES ASSUME ConnectionInv, OnWriteOperation PROVE ConnectionInv'
  OBVIOUS
<1> DEFINE c == WriteHandled
           f == [c EXCEPT !.messageQueue = <<>>]
           q == Tail(conn.messageQueue)
<1>0. conn \in ConnType /\ conn.messageQueue # <<>> /\ conn.alive
      /\ IsPrefix(peer, accepted)
      /\ peer \in Seq(Messages) /\ accepted \in Seq(Messages)
      /\ conn.messageQueue \in Seq(Messages) /\ q \in Seq(Messages)
  BY ConnFields DEF ConnectionInv, OnWriteOperation, InTransit, KeepsReading
<1>1. /\ c \in ConnType
      /\ c.state = conn.state /\ (c.protocol <=> conn.protocol)
      /\ (c.alive <=> conn.alive) /\ c.read = conn.read /\ ~c.write
      /\ c.messageQueue = q
  BY <1>0, WriteHandledFacts
<1>2. UNCHANGED <<peer, accepted>>
  BY DEF OnWriteOperation
<1>3. \/ conn' = Closed(f, TRUE) /\ CloseEffects(c)
      \/ /\ conn.write /\ conn.writeResult = "ok" /\ UNCHANGED released
         /\ conn' = IF c.messageQueue # <<>> THEN InternalSend(c)
                    ELSE IF ClosesAfterWrite(c) THEN SocketClosed(c) ELSE c
  BY DEF OnWriteOperation
<1> HIDE DEF c
<1>4. CASE conn' = Closed(f, TRUE) /\ CloseEffects(c)
  <2>1. /\ f \in ConnType
        /\ f.state = c.state /\ (f.protocol <=> c.protocol)
        /\ (f.alive <=> c.alive) /\ f.read = c.read /\ (f.write <=> c.write)
        /\ f.messageQueue = <<>>
    <3>1. <<>> \in Seq(Messages)
      OBVIOUS
    <3> QED BY <1>1, <3>1 DEF ConnType
  <2>2. CloseEffects(f)
    BY <1>4, <2>1 DEF CloseEffects, Releases
  <2> HIDE DEF f
  <2>3. ReleasedAtClose(f, released)
    BY <1>1, <2>1 DEF ConnectionInv, ReleasedAtClose
  <2>4. ReleasedAtClose(conn', released')
    BY <1>4, <2>1, <2>2, <2>3, ClosedReleases
  <2>5. /\ conn' \in ConnType /\ conn'.state = "CLOSED"
        /\ (conn'.alive <=> f.alive) /\ (conn'.write <=> f.write)
        /\ conn'.messageQueue = f.messageQueue
    BY <1>4, <2>1, ClosedFacts
  <2>6. InTransit(conn', peer, accepted)
    BY <1>0, <1>1, <2>1, <2>5 DEF InTransit
  <2>7. KeepsReading(conn')
    BY <1>0, <1>1, <2>1, <2>5 DEF KeepsReading
  <2> QED BY <1>0, <1>2, <2>4, <2>5, <2>6, <2>7 DEF ConnectionInv
<1>5. CASE /\ conn.write /\ conn.writeResult = "ok" /\ UNCHANGED released
           /\ conn' = IF c.messageQueue # <<>> THEN InternalSend(c)
                      ELSE IF ClosesAfterWrite(c) THEN SocketClosed(c) ELSE c
  <2>1. accepted = peer \o q
    BY <1>5 DEF ConnectionInv, InTransit, Unwritten
  <2>2. /\ conn' \in ConnType
        /\ conn'.state = c.state /\ (conn'.protocol <=> c.protocol)
        /\ (conn'.alive <=> c.alive) /\ conn'.read = c.read
        /\ conn'.messageQueue = c.messageQueue
        /\ (conn'.write <=> c.messageQueue # <<>>)
        /\ (conn'.write => conn'.writeResult # "ok")
    <3>1. CASE c.messageQueue # <<>>
      <4>1. conn' = InternalSend(c)
        BY <1>5, <3>1
      <4> QED BY <1>1, <3>1, <4>1, InternalSendFacts
    <3>2. CASE c.messageQueue = <<>> /\ ClosesAfterWrite(c)
      <4>1. conn' = SocketClosed(c)
        BY <1>5, <3>2
      <4> QED BY <1>1, <3>2, <4>1, SocketClosedFacts
    <3>3. CASE c.messageQueue = <<>> /\ ~ClosesAfterWrite(c)
      BY <1>1, <1>5, <3>3
    <3> QED BY <3>1, <3>2, <3>3
  <2>3. q = <<>> => accepted = peer
    <3>1. peer \o <<>> = peer
      BY <1>0
    <3> QED BY <2>1, <3>1
  <2> HIDE DEF q
  <2>4. InTransit(conn', peer, accepted)
    BY <1>0, <1>1, <2>1, <2>2, <2>3 DEF InTransit, Unwritten
  <2>5. ReleasedAtClose(conn', released')
    BY <1>1, <1>5, <2>2 DEF ConnectionInv, ReleasedAtClose
  <2>6. KeepsReading(conn')
    BY <1>0, <1>1, <2>2 DEF ConnectionInv, KeepsReading
  <2> QED BY <1>0, <1>2, <2>2, <2>4, <2>5, <2>6 DEF ConnectionInv
<1> QED BY <1>3, <1>4, <1>5

LEMMA SendInv ==
    ASSUME ConnectionInv, NEW m \in Messages, Send(m)
    PROVE  ConnectionInv'
<1>1. /\ conn \in ConnType /\ conn.state = "OPEN" /\ InTransit(conn, peer, accepted)
      /\ peer \in Seq(Messages) /\ accepted \in Seq(Messages)
  BY DEF ConnectionInv, Send
<1>2. /\ conn' = Sent(conn, m) /\ accepted' = Append(accepted, m)
      /\ UNCHANGED <<peer, released>>
  BY DEF Send
<1>3. accepted' \in Seq(Messages)
  BY <1>1, <1>2
<1>4. LET d == Sent(conn, m) IN
      /\ d \in ConnType
      /\ d.state = "OPEN" /\ (d.protocol <=> conn.protocol) /\ (d.alive <=> conn.alive)
      /\ d.read = conn.read
      /\ InTransit(d, peer, Append(accepted, m))
  BY <1>1, SentFacts
<1>5. ReleasedAtClose(conn', released')
  BY <1>1, <1>2, <1>4 DEF ConnectionInv, ReleasedAtClose
<1>6. KeepsReading(conn')
  BY <1>1, <1>2, <1>4 DEF ConnectionInv, KeepsReading
<1> QED BY <1>1, <1>2, <1>3, <1>4, <1>5, <1>6 DEF ConnectionInv

LEMMA DisconnectInv == ConnectionInv /\ Disconnect => ConnectionInv'
<1> SUFFICES ASSUME ConnectionInv, Disconnect PROVE ConnectionInv'
  OBVIOUS
<1>1. conn \in ConnType /\ conn.alive
  BY DEF ConnectionInv, Disconnect
<1>2. conn' = Closed(conn, FALSE) /\ CloseEffects(conn) /\ UNCHANGED <<peer, accepted>>
  BY DEF Disconnect
<1> QED BY <1>1, <1>2, ClosingKeepsInv

\* closeAll closes the socket under the connection, which learns of it later.
LEMMA CloseAllInv == ConnectionInv /\ CloseAll => ConnectionInv'
<1> SUFFICES ASSUME ConnectionInv, CloseAll PROVE ConnectionInv'
  OBVIOUS
<1> DEFINE c == [conn EXCEPT !.in_manager = FALSE]
<1>1. /\ c \in ConnType
      /\ c.state = conn.state /\ (c.protocol <=> conn.protocol)
      /\ (c.alive <=> conn.alive) /\ c.read = conn.read
      /\ (c.write <=> conn.write) /\ c.messageQueue = conn.messageQueue
      /\ c.writeResult = conn.writeResult
  BY DEF ConnectionInv, ConnType
<1>2. UNCHANGED <<peer, accepted, released>> /\ conn' = Abort(c)
  BY DEF CloseAll
<1> HIDE DEF c
<1>3. /\ conn' \in ConnType
      /\ conn'.state = c.state /\ (conn'.protocol <=> c.protocol)
      /\ (conn'.alive <=> c.alive) /\ conn'.read = c.read
      /\ (conn'.write <=> c.write) /\ conn'.messageQueue = c.messageQueue
      /\ conn'.writeResult = "ok" <=> c.writeResult = "ok"
  BY <1>1, <1>2, AbortFacts
<1>4. InTransit(conn', peer, accepted)
  BY <1>1, <1>3, SameInTransit DEF ConnectionInv
<1>5. ReleasedAtClose(conn', released')
  BY <1>1, <1>2, <1>3 DEF ConnectionInv, ReleasedAtClose
<1>6. KeepsReading(conn')
  BY <1>1, <1>2, <1>3 DEF ConnectionInv, KeepsReading
<1> QED BY <1>2, <1>3, <1>4, <1>5, <1>6 DEF ConnectionInv

\* Only a closed connection is destroyed.
LEMMA DestroyInv == ConnectionInv /\ Destroy => ConnectionInv'
<1> SUFFICES ASSUME ConnectionInv, Destroy PROVE ConnectionInv'
  OBVIOUS
<1> DEFINE c == SocketClosed(conn)
<1>1. /\ c \in ConnType
      /\ c.state = conn.state /\ (c.protocol <=> conn.protocol)
      /\ c.read = conn.read
      /\ (c.write <=> conn.write) /\ c.messageQueue = conn.messageQueue
      /\ c.writeResult = "ok" <=> conn.writeResult = "ok"
  BY SocketClosedFacts DEF ConnectionInv
<1>2. /\ UNCHANGED <<peer, accepted, released>> /\ conn' = [c EXCEPT !.alive = FALSE]
      /\ conn.read = "none" /\ ~conn.write
  BY DEF Destroy
<1> HIDE DEF c
<1>3. /\ conn' \in ConnType
      /\ conn'.state = c.state /\ (conn'.protocol <=> c.protocol)
      /\ ~conn'.alive /\ conn'.read = c.read
      /\ (conn'.write <=> c.write) /\ conn'.messageQueue = c.messageQueue
      /\ conn'.writeResult = c.writeResult
  BY <1>1, <1>2 DEF ConnType
<1>4. InTransit(conn', peer, accepted)
  BY <1>1, <1>3, SameInTransit DEF ConnectionInv
<1>5. ReleasedAtClose(conn', released')
  BY <1>1, <1>2, <1>3 DEF ConnectionInv, ReleasedAtClose
<1>6. KeepsReading(conn')
  BY <1>1, <1>2, <1>3 DEF ConnectionInv, KeepsReading
<1> QED BY <1>2, <1>3, <1>4, <1>5, <1>6 DEF ConnectionInv

\* The invariant of one connection: whatever is between send() and the peer is
\* in the queue, the release is posted with the first close, and an open
\* connection goes on reading (connection.cpp).
THEOREM ConnectionInvariant == ConnectionSpec => []ConnectionInv
<1>1. ConnectionInv /\ [ConnectionNext]_connectionVars => ConnectionInv'
  <2> SUFFICES ASSUME ConnectionInv, [ConnectionNext]_connectionVars
               PROVE  ConnectionInv'
    OBVIOUS
  <2>1. CASE ReadCompletes
    BY <2>1, ReadCompletesInv
  <2>2. CASE WriteSucceeds
    BY <2>2, WriteSucceedsInv
  <2>3. CASE WriteFails
    BY <2>3, WriteFailsInv
  <2>4. ASSUME NEW t \in Timers, TimerExpires(t) PROVE ConnectionInv'
    BY <2>4, TimerExpiresInv
  <2>5. ASSUME NEW t \in Timers, HandleTimeout(t) PROVE ConnectionInv'
    BY <2>5, HandleTimeoutInv
  <2>6. CASE Handlers
    <3>1. CASE ParseHeader
      BY <3>1, ParseHeaderInv
    <3>2. CASE ParsePacketEnds
      BY <3>2, ParsePacketEndsInv
    <3>3. CASE UnknownProtocol
      BY <3>3, UnknownProtocolInv
    <3>4. ASSUME NEW b \in BOOLEAN, ParsePacket(<<>>, b) PROVE ConnectionInv'
      BY <3>4, ParsePacketInv
    <3>5. ASSUME NEW m \in Messages, NEW b \in BOOLEAN, ParsePacket(<<m>>, b)
          PROVE  ConnectionInv'
      BY <3>5, ParsePacketInv
    <3> QED BY <2>6, <3>1, <3>2, <3>3, <3>4, <3>5 DEF Handlers
  <2>7. CASE OnWriteOperation
    BY <2>7, OnWriteOperationInv
  <2>8. ASSUME NEW m \in Messages, Send(m) PROVE ConnectionInv'
    BY <2>8, SendInv
  <2>9. CASE Disconnect
    BY <2>9, DisconnectInv
  <2>10. CASE CloseAll
    BY <2>10, CloseAllInv
  <2>11. CASE Destroy
    BY <2>11, DestroyInv
  <2>12. CASE UNCHANGED connectionVars
    BY <2>12 DEF connectionVars, ConnectionInv
  <2> QED BY <2>1, <2>2, <2>3, <2>4, <2>5, <2>6, <2>7, <2>8, <2>9, <2>10, <2>11, <2>12
          DEF ConnectionNext
<1> QED BY ConnectionInitInv, <1>1, PTL DEF ConnectionSpec

\* Whatever mixture of closing, timeouts and answers there is, the peer receives
\* a prefix of what send() accepted, and the protocol is released exactly once
\* (Connection::close, onWriteOperation, handleTimeout).
THEOREM ConnectionAlwaysSafe == ConnectionSpec => []ConnectionSafe
<1>1. ConnectionInv => ConnectionSafe
  <2> SUFFICES ASSUME ConnectionInv PROVE ConnectionSafe
    OBVIOUS
  <2>1. PeerSeesPrefix
    BY DEF ConnectionInv, InTransit, PeerSeesPrefix
  <2>2. conn.state \in {"OPEN", "CLOSED"}
    BY ConnFields DEF ConnectionInv
  <2>3. ReleasedOnce
    BY <2>2 DEF ConnectionInv, ReleasedAtClose, KeepsReading, ReleasedOnce
  <2> QED BY <2>1, <2>3 DEF ConnectionSafe
<1> QED BY ConnectionInvariant, <1>1, PTL
-------------------------------------------------------------------------------
USE DatabaseAssumption

\* What a sequence contains after an element was added
LEMMA ContainsAppend ==
    ASSUME NEW M, NEW s \in Seq(M), NEW x \in M, NEW y
    PROVE  Contains(Append(s, x), y) <=> Contains(s, y) \/ y = x
<1>1. Len(Append(s, x)) = Len(s) + 1 /\ Append(s, x)[Len(s) + 1] = x
      /\ \A i \in 1..Len(s) : Append(s, x)[i] = s[i]
  OBVIOUS
<1>2. 1..Len(s) + 1 = 1..Len(s) \cup {Len(s) + 1}
  OBVIOUS
<1> QED BY <1>1, <1>2 DEF Contains

\* Counting one more
LEMMA CountUp ==
    ASSUME NEW Q, NEW f \in [Q -> Nat], NEW x \in Q, NEW g, g = [f EXCEPT ![x] = @ + 1]
    PROVE  g \in [Q -> Nat]
<1>1. f[x] + 1 \in Nat
  OBVIOUS
<1> QED BY <1>1

LEMMA DbInitInv == DbInit => DbInv
<1> SUFFICES ASSUME DbInit PROVE DbInv
  OBVIOUS
<1> USE DEF DbInit, Runners, DbThreadStates, DbPCs
<1>1. DbTypes
  BY DEF DbTypes
<1>2. ListIsRest
  BY DEF ListIsRest
<1>3. ExecutedSoFar
  BY DEF ExecutedSoFar, Taken
<1>4. ThreadHolds /\ FlushHolds /\ HeldNotYet /\ ShutdownFlushes
  BY DEF ThreadHolds, FlushHolds, HeldNotYet, ShutdownFlushes
<1>5. AppliedSoFar
  BY DEF AppliedSoFar
<1> QED BY <1>1, <1>2, <1>3, <1>4, <1>5 DEF DbInv

\* The list, what is in hand and what has been executed
dbWork == <<tasks, running, runStep, handed, finished, applied, lost>>

\* Steps that change neither of them, only where the threads are
LEMMA QuietStep ==
    ASSUME DbInv, UNCHANGED dbWork, dbPc' \in DbPCs, dbThreadState' \in DbThreadStates,
           dbShutdownStep' \in {"none", "flushing", "unlocked", "done"},
           dbPc = "running" => dbPc' = "running",
           dbShutdownStep' = "none" => dbShutdownStep = "none",
           dbShutdownStep' # "none" => dbThreadState' = "TERMINATED",
           dbShutdownStep' \in {"unlocked", "done"} => tasks = <<>>,
           dbShutdownStep = "flushing" => dbShutdownStep' = "flushing" \/ tasks = <<>>
    PROVE  DbInv'
<1> USE DEF dbWork
<1>1. DbTypes'
  BY DEF DbInv, DbTypes
<1>2. Taken' = Taken /\ ListIsRest'
  BY DEF DbInv, ListIsRest, Taken
<1>3. ExecutedSoFar'
  BY <1>2 DEF DbInv, ExecutedSoFar
<1>4. ThreadHolds'
  BY <1>2 DEF DbInv, ThreadHolds
<1>5. FlushHolds' /\ HeldNotYet'
  BY DEF DbInv, FlushHolds, HeldNotYet
<1>6. ShutdownFlushes'
  BY DEF DbInv, ShutdownFlushes
<1>7. AppliedSoFar'
  BY DEF DbInv, AppliedSoFar
<1> QED BY <1>1, <1>2, <1>3, <1>4, <1>5, <1>6, <1>7 DEF DbInv

\* The steps of the threads that only move on
LEMMA ThreadStepsInv ==
    ASSUME DbInv, DbTestLoop \/ DbWaitForTask \/ DbSpuriousWakeup \/ DbWokenForNothing
    PROVE  DbInv'
<1>1. UNCHANGED dbWork /\ UNCHANGED <<dbThreadState, dbShutdownStep>> /\ dbPc' \in DbPCs
      /\ dbPc # "running"
  BY DEF DbTestLoop, DbWaitForTask, DbSpuriousWakeup, DbWokenForNothing, dbWork, DbPCs
<1>2. DbTypes /\ ShutdownFlushes
  BY DEF DbInv
<1> QED BY <1>1, <1>2, QuietStep DEF DbTypes, ShutdownFlushes

LEMMA NotifiesInv ==
    ASSUME DbInv, DbShutdownNotify \/ \E th \in DbThreads : DbNotifyAdded(th)
    PROVE  DbInv'
<1>1. DbTypes /\ ShutdownFlushes
  BY DEF DbInv
<1>2. UNCHANGED dbWork /\ UNCHANGED dbThreadState /\ dbPc' \in DbPCs
      /\ (dbPc = "running" => dbPc' = "running")
  BY <1>1 DEF DbTypes, DbShutdownNotify, DbNotifyAdded, DbNotified, dbWork, DbPCs
<1>3. dbShutdownStep' = dbShutdownStep
      \/ (dbShutdownStep = "unlocked" /\ dbShutdownStep' = "done")
  BY DEF DbShutdownNotify, DbNotifyAdded
<1> QED BY <1>1, <1>2, <1>3, QuietStep DEF DbTypes, ShutdownFlushes

LEMMA StopsInv ==
    ASSUME DbInv, DbStop \/ ShutdownBegin \/ ShutdownUnlock
    PROVE  DbInv'
<1>1. DbTypes /\ ShutdownFlushes
  BY DEF DbInv
<1>2. UNCHANGED dbWork /\ UNCHANGED dbPc
  BY DEF DbStop, ShutdownBegin, ShutdownUnlock, dbWork
<1>3. \/ /\ dbThreadState = "RUNNING" /\ dbThreadState' = "CLOSING"
         /\ dbShutdownStep' = dbShutdownStep
      \/ /\ dbShutdownStep = "none" /\ dbShutdownStep' = "flushing"
         /\ dbThreadState' = "TERMINATED"
      \/ /\ dbShutdownStep = "flushing" /\ dbShutdownStep' = "unlocked"
         /\ tasks = <<>> /\ dbThreadState' = dbThreadState
  BY DEF DbStop, ShutdownBegin, ShutdownUnlock, DbFlushed
<1> QED BY <1>1, <1>2, <1>3, QuietStep DEF DbTypes, ShutdownFlushes, DbThreadStates

\* addTask puts a new query at the end of the list.
LEMMA DbAddTaskInv ==
    ASSUME DbInv, NEW th \in DbThreads, NEW q \in Queries, DbAddTask(th, q)
    PROVE  DbInv'
<1>1. /\ tasks' = Append(tasks, q) /\ handed' = Append(handed, q)
      /\ dbThreadState = "RUNNING" /\ q \notin Range(handed)
      /\ UNCHANGED <<dbThreadState, dbPc, running, runStep, dbShutdownStep,
                     finished, applied, lost>>
  BY DEF DbAddTask
<1>2. DbTypes /\ ListIsRest /\ ExecutedSoFar /\ ThreadHolds /\ FlushHolds
      /\ HeldNotYet /\ ShutdownFlushes /\ AppliedSoFar
  BY DEF DbInv
<1>3. dbShutdownStep = "none"
  BY <1>1, <1>2 DEF ShutdownFlushes
<1>4. tasks \in Seq(Queries) /\ handed \in Seq(Queries)
  BY <1>2 DEF DbTypes
<1>5. /\ Len(tasks') = Len(tasks) + 1 /\ Len(handed') = Len(handed) + 1
      /\ Len(tasks) \in Nat /\ Len(handed) \in Nat
      /\ tasks'[Len(tasks) + 1] = q /\ handed'[Len(handed) + 1] = q
      /\ \A i \in 1..Len(tasks) : tasks'[i] = tasks[i]
      /\ \A i \in 1..Len(handed) : handed'[i] = handed[i]
      /\ Taken' = Taken
  BY <1>1, <1>4 DEF Taken
<1>6. \A i \in 1..Len(handed) : handed[i] # q
  BY <1>1, <1>4 DEF Range
<1>7. DbTypes'
  BY <1>1, <1>2 DEF DbTypes
<1>8. ListIsRest'
  <2>1. Len(tasks') <= Len(handed')
    BY <1>2, <1>5 DEF ListIsRest
  <2>2. \A i \in 1..Len(tasks') : tasks'[i] = handed'[Taken' + i]
    <3> SUFFICES ASSUME NEW i \in 1..Len(tasks') PROVE tasks'[i] = handed'[Taken + i]
      BY <1>5
    <3>1. CASE i = Len(tasks) + 1
      BY <1>5, <3>1 DEF Taken
    <3>2. CASE i \in 1..Len(tasks)
      <4>1. Taken + i \in 1..Len(handed)
        BY <1>2, <1>5, <3>2 DEF Taken, ListIsRest
      <4> QED BY <1>2, <1>5, <3>2, <4>1 DEF ListIsRest
    <3> QED BY <1>5, <3>1, <3>2
  <2>3. \A i, j \in 1..Len(handed') : handed'[i] = handed'[j] => i = j
    BY <1>2, <1>5, <1>6 DEF ListIsRest
  <2> QED BY <2>1, <2>2, <2>3 DEF ListIsRest
<1>9. ExecutedSoFar'
  <2>1. Taken \in Nat /\ Taken <= Len(handed)
    BY <1>2, <1>5 DEF Taken, ListIsRest
  <2>2. ~Contains(finished, q)
    BY <1>2, <1>6 DEF ExecutedSoFar, Contains
  <2>3. \A x \in Queries : Contains(finished', x) => Contains(handed', x)
    BY <1>1, <1>2, <1>4, ContainsAppend DEF ExecutedSoFar
  <2> QED BY <1>1, <1>2, <1>5, <2>1, <2>2, <2>3 DEF ExecutedSoFar
<1>10. ThreadHolds'
  <2> SUFFICES ASSUME running["thread"] # NoQuery
               PROVE  dbPc = "running" /\ \E i \in 1..Taken : running["thread"] = handed'[i]
                                                      /\ (dbShutdownStep = "none" => i = Taken)
    BY <1>1, <1>5 DEF ThreadHolds
  <2>1. PICK i \in 1..Taken : running["thread"] = handed[i]
                              /\ (dbShutdownStep = "none" => i = Taken)
    BY <1>2 DEF ThreadHolds
  <2>2. i \in 1..Len(handed)
    BY <1>2, <1>5 DEF Taken, ListIsRest
  <2> QED BY <1>2, <1>5, <2>1, <2>2 DEF ThreadHolds
<1>11. FlushHolds' /\ HeldNotYet' /\ ShutdownFlushes' /\ AppliedSoFar'
  BY <1>1, <1>2, <1>3 DEF FlushHolds, HeldNotYet, ShutdownFlushes, AppliedSoFar
<1> QED BY <1>7, <1>8, <1>9, <1>10, <1>11 DEF DbInv

\* The database thread takes the front of the list.
LEMMA DbTakeTaskInv == DbInv /\ DbTakeTask => DbInv'
<1> SUFFICES ASSUME DbInv, DbTakeTask PROVE DbInv'
  OBVIOUS
<1>1. /\ tasks # <<>> /\ tasks' = Tail(tasks) /\ dbPc # "running" /\ dbPc' = "running"
      /\ running' = [running EXCEPT !["thread"] = Head(tasks)]
      /\ dbShutdownStep # "flushing"
      /\ UNCHANGED <<dbThreadState, runStep, dbShutdownStep, handed, finished,
                     applied, lost>>
  BY DEF DbTakeTask, TakeFront, TaskLockFree
<1>2. DbTypes /\ ListIsRest /\ ExecutedSoFar /\ ThreadHolds /\ FlushHolds
      /\ HeldNotYet /\ ShutdownFlushes /\ AppliedSoFar
  BY DEF DbInv
<1>3. /\ tasks \in Seq(Queries) /\ handed \in Seq(Queries) /\ finished \in Seq(Queries)
      /\ running \in [Runners -> Queries \cup {NoQuery}]
      /\ runStep \in [Runners -> {"query", "post"}]
      /\ dbShutdownStep \in {"none", "flushing", "unlocked", "done"}
  BY <1>2 DEF DbTypes
<1>4. dbShutdownStep = "none" /\ running["thread"] = NoQuery /\ running["flush"] = NoQuery
  BY <1>1, <1>2, <1>3 DEF ShutdownFlushes, ThreadHolds, FlushHolds
<1>5. runStep["thread"] = "query" /\ runStep["flush"] = "query"
  BY <1>2, <1>3, <1>4 DEF HeldNotYet, Runners
<1>6. /\ Len(tasks) \in Nat /\ Len(tasks) >= 1 /\ Len(handed) \in Nat
      /\ Len(tasks') = Len(tasks) - 1 /\ tasks' \in Seq(Queries)
      /\ \A i \in 1..Len(tasks') : tasks'[i] = tasks[i + 1]
      /\ Head(tasks) = tasks[1] /\ Head(tasks) \in Queries
  BY <1>1, <1>3
<1>7. Taken \in Nat /\ Taken' = Taken + 1 /\ Taken' <= Len(handed)
      /\ Head(tasks) = handed[Taken']
  BY <1>1, <1>2, <1>6 DEF Taken, ListIsRest
<1>8. running'["thread"] = Head(tasks) /\ running'["flush"] = NoQuery
  BY <1>1, <1>3, <1>4 DEF Runners
<1>9. ~Contains(finished, Head(tasks))
  BY <1>2, <1>4, <1>5, <1>6, <1>7 DEF ExecutedSoFar
<1>10. DbTypes'
  BY <1>1, <1>2, <1>6 DEF DbTypes, DbPCs
<1>11. ListIsRest'
  <2>1. \A i \in 1..Len(tasks') : tasks'[i] = handed[Taken' + i]
    <3> TAKE i \in 1..Len(tasks')
    <3>1. i + 1 \in 1..Len(tasks)
      BY <1>6
    <3>2. tasks[i + 1] = handed[Taken + (i + 1)]
      BY <1>2, <3>1 DEF ListIsRest
    <3>3. Taken + (i + 1) = Taken' + i
      <4>1. ASSUME NEW m \in Nat, NEW k, k = m + 1 PROVE m + (i + 1) = k + i
        BY <4>1
      <4> QED BY <1>7, <4>1
    <3> QED BY <1>6, <3>2, <3>3
  <2> QED BY <1>1, <1>2, <1>6, <2>1 DEF ListIsRest
<1>12. ExecutedSoFar'
  <2>1. \A i \in 1..Taken : Contains(finished, handed[i])
    <3> TAKE i \in 1..Taken
    <3>1. handed[i] \in Queries
      BY <1>3, <1>6, <1>7
    <3> QED BY <1>2, <1>4, <3>1 DEF ExecutedSoFar
  <2>2. \A i \in 1..Taken' :
          \/ Contains(finished', handed'[i])
          \/ running'["thread"] = handed'[i] /\ runStep'["thread"] = "query"
    BY <1>1, <1>5, <1>7, <1>8, <2>1
  <2>3. \A i \in Taken' + 1..Len(handed) : ~Contains(finished, handed[i])
    <3> SUFFICES ASSUME NEW i \in Taken' + 1..Len(handed), Contains(finished, handed[i])
                 PROVE  FALSE
      OBVIOUS
    <3>1. i \in Taken + 1..Len(handed)
      BY <1>6, <1>7
    <3> QED BY <1>2, <1>5, <3>1 DEF ExecutedSoFar
  <2> QED BY <1>1, <1>2, <2>2, <2>3 DEF ExecutedSoFar
<1>13. ThreadHolds'
  BY <1>1, <1>7, <1>8 DEF ThreadHolds
<1>14. FlushHolds' /\ ShutdownFlushes' /\ AppliedSoFar'
  BY <1>1, <1>2, <1>4, <1>8 DEF FlushHolds, ShutdownFlushes, AppliedSoFar
<1>15. HeldNotYet'
  BY <1>1, <1>5, <1>8, <1>9 DEF HeldNotYet, Runners
<1> QED BY <1>10, <1>11, <1>12, <1>13, <1>14, <1>15 DEF DbInv

\* flush looks at the front of the list.
LEMMA FlushNextInv == DbInv /\ FlushNext => DbInv'
<1> SUFFICES ASSUME DbInv, FlushNext PROVE DbInv'
  OBVIOUS
<1>1. /\ tasks # <<>> /\ dbShutdownStep = "flushing" /\ running["flush"] = NoQuery
      /\ running' = [running EXCEPT !["flush"] = Head(tasks)]
      /\ UNCHANGED <<dbThreadState, dbPc, tasks, runStep, dbShutdownStep, handed,
                     finished, applied, lost>>
  BY DEF FlushNext
<1>2. DbTypes /\ ListIsRest /\ ExecutedSoFar /\ ThreadHolds /\ FlushHolds
      /\ HeldNotYet /\ ShutdownFlushes /\ AppliedSoFar
  BY DEF DbInv
<1>3. /\ tasks \in Seq(Queries) /\ handed \in Seq(Queries)
      /\ running \in [Runners -> Queries \cup {NoQuery}]
      /\ runStep \in [Runners -> {"query", "post"}]
  BY <1>2 DEF DbTypes
<1>4. Head(tasks) = tasks[1] /\ Head(tasks) \in Queries /\ Len(tasks) >= 1
      /\ Len(tasks) \in Nat /\ Len(handed) \in Nat
  BY <1>1, <1>3
<1>5. /\ running'["flush"] = tasks[1] /\ running'["thread"] = running["thread"]
      /\ Taken' = Taken
  BY <1>1, <1>3, <1>4 DEF Runners, Taken
<1>6. runStep["flush"] = "query"
  BY <1>1, <1>2, <1>3 DEF HeldNotYet, Runners
<1>7. ~Contains(finished, tasks[1])
  <2>1. tasks[1] = handed[Taken + 1] /\ Taken + 1 \in Taken + 1..Len(handed)
    BY <1>2, <1>4 DEF ListIsRest, Taken
  <2> QED BY <1>2, <1>6, <2>1 DEF ExecutedSoFar
<1>8. DbTypes'
  BY <1>1, <1>2, <1>4 DEF DbTypes
<1>9. ListIsRest'
  BY <1>1, <1>2, <1>5 DEF ListIsRest
<1>10. ExecutedSoFar'
  BY <1>1, <1>2, <1>5, <1>6 DEF ExecutedSoFar
<1>11. ThreadHolds' /\ FlushHolds' /\ ShutdownFlushes' /\ AppliedSoFar'
  BY <1>1, <1>2, <1>5 DEF ThreadHolds, FlushHolds, ShutdownFlushes, AppliedSoFar
<1>12. HeldNotYet'
  BY <1>1, <1>2, <1>5, <1>6, <1>7 DEF HeldNotYet, Runners
<1> QED BY <1>8, <1>9, <1>10, <1>11, <1>12 DEF DbInv

\* Where the queries in hand stand among those accepted
LEMMA HeldAreHanded ==
    ASSUME DbInv
    PROVE  /\ running["thread"] # NoQuery =>
                \E i \in 1..Len(handed) : i <= Taken /\ running["thread"] = handed[i]
           /\ running["flush"] # NoQuery =>
                Taken + 1 \in 1..Len(handed) /\ running["flush"] = handed[Taken + 1]
           /\ running["thread"] # NoQuery /\ running["flush"] # NoQuery
                => running["thread"] # running["flush"]
<1>1. DbTypes /\ ListIsRest /\ ThreadHolds /\ FlushHolds
  BY DEF DbInv
<1>2. tasks \in Seq(Queries) /\ handed \in Seq(Queries)
      /\ Len(tasks) \in Nat /\ Len(handed) \in Nat /\ Taken \in Nat /\ Taken <= Len(handed)
  BY <1>1 DEF DbTypes, ListIsRest, Taken
<1>3. running["thread"] # NoQuery =>
          \E i \in 1..Len(handed) : i <= Taken /\ running["thread"] = handed[i]
  BY <1>1, <1>2 DEF ThreadHolds
<1>4. ASSUME running["flush"] # NoQuery
      PROVE  Taken + 1 \in 1..Len(handed) /\ running["flush"] = handed[Taken + 1]
  <2>1. tasks # <<>> /\ running["flush"] = tasks[1]
    BY <1>1, <1>4 DEF FlushHolds
  <2>2. Len(tasks) >= 1
    BY <1>2, <2>1
  <2> QED BY <1>1, <1>2, <2>1, <2>2 DEF ListIsRest, Taken
<1>5. \A i \in 1..Len(handed) : i <= Taken /\ Taken + 1 \in 1..Len(handed)
                                => handed[i] # handed[Taken + 1]
  BY <1>1, <1>2 DEF ListIsRest
<1> QED BY <1>3, <1>4, <1>5

\* A lost reply may have applied the query.
LEMMA QueryLostInv ==
    ASSUME DbInv, NEW r \in Runners, QueryLost(r)
    PROVE  DbInv'
<1> DEFINE q == running[r]
<1>1. DbTypes /\ AppliedSoFar
  BY DEF DbInv
<1>2. /\ lost' = [lost EXCEPT ![q] = @ + 1]
      /\ applied' = [applied EXCEPT ![q] = @ + 1] \/ applied' = applied
      /\ UNCHANGED <<dbThreadState, tasks, dbPc, running, runStep, dbShutdownStep, handed,
                     finished>>
      /\ q # NoQuery
  BY DEF QueryLost, MayQuery
<1>3. q \in Queries
  BY <1>1, <1>2 DEF DbTypes
<1> HIDE DEF q
<1>4. DbTypes'
  <2>1. applied' \in [Queries -> Nat] /\ lost' \in [Queries -> Nat]
    BY <1>1, <1>2, <1>3, CountUp DEF DbTypes
  <2> QED BY <1>1, <1>2, <2>1 DEF DbTypes
<1>5. AppliedSoFar'
  BY <1>1, <1>2, <1>3 DEF AppliedSoFar, DbTypes
<1>6. Taken' = Taken /\ ListIsRest' /\ ExecutedSoFar' /\ ThreadHolds'
  BY <1>2 DEF DbInv, ListIsRest, Taken, ExecutedSoFar, ThreadHolds
<1>7. FlushHolds' /\ HeldNotYet' /\ ShutdownFlushes'
  BY <1>2 DEF DbInv, FlushHolds, HeldNotYet, ShutdownFlushes
<1> QED BY <1>4, <1>5, <1>6, <1>7 DEF DbInv

\* The query that is answered was not executed before.
LEMMA QueryAnsweredInv ==
    ASSUME DbInv, NEW r \in Runners, QueryAnswered(r)
    PROVE  DbInv'
<1> DEFINE q == running[r]
<1>1. DbTypes /\ ListIsRest /\ ExecutedSoFar /\ ThreadHolds /\ FlushHolds
      /\ HeldNotYet /\ ShutdownFlushes /\ AppliedSoFar
  BY DEF DbInv
<1>2. /\ applied' = [applied EXCEPT ![q] = @ + 1] \/ applied' = applied
      /\ finished' = Append(finished, q)
      /\ runStep' = [runStep EXCEPT ![r] = "post"]
      /\ UNCHANGED <<dbThreadState, tasks, dbPc, running, dbShutdownStep, handed, lost>>
      /\ q # NoQuery /\ runStep[r] = "query"
  BY DEF QueryAnswered, MayQuery
<1>3. /\ q \in Queries /\ finished \in Seq(Queries) /\ handed \in Seq(Queries)
      /\ runStep \in [Runners -> {"query", "post"}]
      /\ running \in [Runners -> Queries \cup {NoQuery}]
      /\ applied \in [Queries -> Nat] /\ lost \in [Queries -> Nat]
  BY <1>1, <1>2 DEF DbTypes
<1>4. \A x : Contains(finished', x) <=> Contains(finished, x) \/ x = q
  BY <1>2, <1>3, ContainsAppend
<1>5. ~Contains(finished, q)
  BY <1>1, <1>2 DEF HeldNotYet
<1>6. runStep'[r] = "post" /\ \A o \in Runners : o # r => runStep'[o] = runStep[o]
  BY <1>2, <1>3
<1>7. Taken' = Taken
  BY <1>2 DEF Taken
<1>8. Len(handed) \in Nat /\ Len(tasks) \in Nat /\ Taken \in Nat /\ Taken <= Len(handed)
  BY <1>1 DEF DbTypes, ListIsRest, Taken
<1>9. DbTypes'
  <2> HIDE DEF q
  <2>1. applied' \in [Queries -> Nat]
    BY <1>2, <1>3, CountUp
  <2>2. finished' \in Seq(Queries) /\ runStep' \in [Runners -> {"query", "post"}]
    BY <1>2, <1>3
  <2> QED BY <1>1, <1>2, <2>1, <2>2 DEF DbTypes
<1>10. ListIsRest'
  BY <1>1, <1>2, <1>7 DEF ListIsRest
<1>11. ThreadHolds' /\ FlushHolds' /\ ShutdownFlushes'
  BY <1>1, <1>2, <1>7 DEF ThreadHolds, FlushHolds, ShutdownFlushes
<1>12. AppliedSoFar'
  <2> SUFFICES ASSUME NEW x \in Queries
               PROVE  applied'[x] <= lost[x] + (IF Contains(finished', x) THEN 1 ELSE 0)
    BY <1>2 DEF AppliedSoFar
  <2>1. applied[x] <= lost[x] + (IF Contains(finished, x) THEN 1 ELSE 0)
    BY <1>1 DEF AppliedSoFar
  <2> HIDE DEF q
  <2>2. CASE x = q
    <3>1. applied[x] <= lost[x]
      BY <1>3, <1>5, <2>1, <2>2
    <3>2. applied'[x] <= applied[x] + 1
      BY <1>2, <1>3, <2>2
    <3>3. applied'[x] \in Nat /\ applied[x] \in Nat /\ lost[x] \in Nat
      BY <1>2, <1>3, <2>2
    <3> QED BY <1>4, <2>2, <3>1, <3>2, <3>3
  <2>3. CASE x # q
    <3>1. applied'[x] = applied[x]
      BY <1>2, <1>3, <2>3
    <3> QED BY <1>4, <2>1, <2>3, <3>1
  <2> QED BY <2>2, <2>3
<1>13. \A o \in Runners : o # r /\ running[o] # NoQuery => running[o] # q
  BY <1>2, HeldAreHanded DEF Runners
<1>14. HeldNotYet'
  BY <1>1, <1>2, <1>4, <1>6, <1>13 DEF HeldNotYet
<1>15. ExecutedSoFar'
  <2>1. ASSUME NEW i \in 1..Taken
        PROVE  \/ Contains(finished', handed[i])
               \/ running["thread"] = handed[i] /\ runStep'["thread"] = "query"
    <3>1. Contains(finished, handed[i])
          \/ (running["thread"] = handed[i] /\ runStep["thread"] = "query")
      BY <1>1 DEF ExecutedSoFar
    <3> QED BY <1>4, <1>6, <3>1 DEF Runners
  <2>2. ASSUME NEW i \in Taken + 1..Len(handed), Contains(finished', handed[i])
        PROVE  /\ i = Taken + 1
               /\ running["flush"] = handed[i] /\ runStep'["flush"] = "post"
    <3>1. CASE Contains(finished, handed[i])
      <4>1. /\ i = Taken + 1
            /\ running["flush"] = handed[i] /\ runStep["flush"] = "post"
        BY <1>1, <3>1 DEF ExecutedSoFar
      <4> QED BY <1>2, <1>6, <4>1 DEF Runners
    <3>2. CASE handed[i] = q
      <4>1. CASE r = "thread"
        <5>1. PICK j \in 1..Len(handed) : j <= Taken /\ q = handed[j]
          BY <1>2, <4>1, HeldAreHanded
        <5> QED BY <1>1, <1>8, <3>2, <5>1 DEF ListIsRest
      <4>2. CASE r = "flush"
        <5>1. Taken + 1 \in 1..Len(handed) /\ q = handed[Taken + 1]
          BY <1>2, <4>2, HeldAreHanded
        <5>2. i = Taken + 1
          BY <1>1, <1>8, <3>2, <5>1 DEF ListIsRest
        <5> QED BY <1>6, <3>2, <4>2, <5>2
      <4> QED BY <4>1, <4>2 DEF Runners
    <3> QED BY <1>4, <2>2, <3>1, <3>2
  <2>3. Contains(handed, q)
    <3>1. \E j \in 1..Len(handed) : q = handed[j]
      BY <1>2, HeldAreHanded DEF Runners
    <3> QED BY <3>1 DEF Contains
  <2>4. \A x \in Queries : Contains(finished', x) => Contains(handed', x)
    BY <1>1, <1>2, <1>4, <2>3 DEF ExecutedSoFar
  <2> QED BY <1>2, <1>7, <2>1, <2>2, <2>4 DEF ExecutedSoFar
<1> QED BY <1>9, <1>10, <1>11, <1>12, <1>14, <1>15 DEF DbInv

\* The database thread lets go of a query that was executed ...
LEMMA ThreadPostsInv == DbInv /\ PostCallback("thread") => DbInv'
<1> SUFFICES ASSUME DbInv, PostCallback("thread") PROVE DbInv'
  OBVIOUS
<1>1. DbTypes /\ ListIsRest /\ ExecutedSoFar /\ ThreadHolds /\ FlushHolds
      /\ HeldNotYet /\ ShutdownFlushes /\ AppliedSoFar
  BY DEF DbInv
<1>2. /\ running' = [running EXCEPT !["thread"] = NoQuery]
      /\ runStep' = [runStep EXCEPT !["thread"] = "query"]
      /\ dbPc' = "loop" /\ runStep["thread"] = "post"
      /\ UNCHANGED <<dbThreadState, tasks, dbShutdownStep, handed, finished, applied, lost>>
  BY DEF PostCallback
<1>3. /\ runStep \in [Runners -> {"query", "post"}]
      /\ running \in [Runners -> Queries \cup {NoQuery}]
  BY <1>1 DEF DbTypes
<1>4. /\ running'["thread"] = NoQuery /\ running'["flush"] = running["flush"]
      /\ runStep'["thread"] = "query" /\ runStep'["flush"] = runStep["flush"]
      /\ Taken' = Taken
  BY <1>2, <1>3 DEF Runners, Taken
<1>5. DbTypes'
  BY <1>1, <1>2 DEF DbTypes, DbPCs
<1>6. ListIsRest' /\ ShutdownFlushes' /\ AppliedSoFar'
  BY <1>1, <1>2, <1>4 DEF ListIsRest, ShutdownFlushes, AppliedSoFar
<1>7. ExecutedSoFar'
  BY <1>1, <1>2, <1>4 DEF ExecutedSoFar
<1>8. ThreadHolds' /\ FlushHolds'
  BY <1>1, <1>2, <1>4 DEF ThreadHolds, FlushHolds
<1>9. HeldNotYet'
  BY <1>1, <1>2, <1>4 DEF HeldNotYet, Runners
<1> QED BY <1>5, <1>6, <1>7, <1>8, <1>9 DEF DbInv

\* ... and flush takes it off the list.
LEMMA FlushPostsInv == DbInv /\ PostCallback("flush") => DbInv'
<1> SUFFICES ASSUME DbInv, PostCallback("flush") PROVE DbInv'
  OBVIOUS
<1>1. DbTypes /\ ListIsRest /\ ExecutedSoFar /\ ThreadHolds /\ FlushHolds
      /\ HeldNotYet /\ ShutdownFlushes /\ AppliedSoFar
  BY DEF DbInv
<1>2. /\ running' = [running EXCEPT !["flush"] = NoQuery]
      /\ runStep' = [runStep EXCEPT !["flush"] = "query"]
      /\ tasks' = Tail(tasks) /\ runStep["flush"] = "post" /\ running["flush"] # NoQuery
      /\ UNCHANGED <<dbThreadState, dbPc, dbShutdownStep, handed, finished, applied, lost>>
  BY DEF PostCallback, PopFlushed
<1>3. /\ runStep \in [Runners -> {"query", "post"}]
      /\ running \in [Runners -> Queries \cup {NoQuery}]
      /\ tasks \in Seq(Queries) /\ handed \in Seq(Queries)
  BY <1>1 DEF DbTypes
<1>4. /\ running'["thread"] = running["thread"] /\ running'["flush"] = NoQuery
      /\ runStep'["thread"] = runStep["thread"] /\ runStep'["flush"] = "query"
  BY <1>2, <1>3 DEF Runners
<1>5. tasks # <<>> /\ dbShutdownStep = "flushing"
  BY <1>1, <1>2 DEF FlushHolds
<1>6. /\ Len(tasks) \in Nat /\ Len(tasks) >= 1 /\ Len(handed) \in Nat
      /\ Len(tasks') = Len(tasks) - 1 /\ tasks' \in Seq(Queries)
      /\ \A i \in 1..Len(tasks') : tasks'[i] = tasks[i + 1]
  BY <1>2, <1>3, <1>5
<1>7. Taken \in Nat /\ Taken' = Taken + 1 /\ Taken' <= Len(handed)
  BY <1>1, <1>2, <1>6 DEF Taken, ListIsRest
<1>8. Contains(finished, handed[Taken + 1])
  BY <1>1, <1>2, HeldAreHanded DEF HeldNotYet, Runners
<1>9. DbTypes'
  BY <1>1, <1>2, <1>6 DEF DbTypes
<1>10. ListIsRest'
  <2>1. \A i \in 1..Len(tasks') : tasks'[i] = handed[Taken' + i]
    <3> TAKE i \in 1..Len(tasks')
    <3>1. i + 1 \in 1..Len(tasks)
      BY <1>6
    <3>2. tasks[i + 1] = handed[Taken + (i + 1)]
      BY <1>1, <3>1 DEF ListIsRest
    <3>3. Taken + (i + 1) = Taken' + i
      BY <1>7
    <3> QED BY <1>6, <3>2, <3>3
  <2> QED BY <1>1, <1>2, <1>6, <2>1 DEF ListIsRest
<1>11. ExecutedSoFar'
  <2>1. \A i \in 1..Taken' :
          \/ Contains(finished', handed'[i])
          \/ running'["thread"] = handed'[i] /\ runStep'["thread"] = "query"
    <3> TAKE i \in 1..Taken'
    <3>1. i \in 1..Taken \/ i = Taken + 1
      BY <1>7
    <3> QED BY <1>1, <1>2, <1>4, <1>8, <3>1 DEF ExecutedSoFar
  <2>2. \A i \in Taken' + 1..Len(handed) : ~Contains(finished, handed[i])
    <3> TAKE i \in Taken' + 1..Len(handed)
    <3>1. i \in Taken + 1..Len(handed) /\ i # Taken + 1
      BY <1>6, <1>7
    <3> QED BY <1>1, <3>1 DEF ExecutedSoFar
  <2> QED BY <1>1, <1>2, <2>1, <2>2 DEF ExecutedSoFar
<1>12. ThreadHolds'
  <2> SUFFICES ASSUME running["thread"] # NoQuery
               PROVE  dbPc = "running" /\ \E i \in 1..Taken' : running["thread"] = handed[i]
    BY <1>2, <1>4, <1>5 DEF ThreadHolds
  <2>1. PICK i \in 1..Taken : running["thread"] = handed[i]
    BY <1>1 DEF ThreadHolds
  <2>2. i \in 1..Taken'
    BY <1>7
  <2> QED BY <1>1, <2>1, <2>2 DEF ThreadHolds
<1>13. FlushHolds' /\ ShutdownFlushes' /\ AppliedSoFar'
  BY <1>1, <1>2, <1>4, <1>5 DEF FlushHolds, ShutdownFlushes, AppliedSoFar
<1>14. HeldNotYet'
  BY <1>1, <1>2, <1>4 DEF HeldNotYet, Runners
<1> QED BY <1>9, <1>10, <1>11, <1>12, <1>13, <1>14 DEF DbInv

\* The invariant of the database thread: the list is the end of what addTask
\* accepted, what has left it is executed or in the thread's hand, and what is in
\* hand has been applied only as often as replies were lost (databasetasks.cpp).
THEOREM DbInvariant == DbSpec => []DbInv
<1>1. DbInv /\ [DbNext]_dbVars => DbInv'
  <2> SUFFICES ASSUME DbInv, [DbNext]_dbVars PROVE DbInv'
    OBVIOUS
  <2>1. ASSUME NEW th \in DbThreads, NEW q \in Queries, DbAddTask(th, q) PROVE DbInv'
    BY <2>1, DbAddTaskInv
  <2>2. ASSUME NEW th \in DbThreads, DbNotifyAdded(th) PROVE DbInv'
    BY <2>2, NotifiesInv
  <2>3. CASE DbThreadMain
    BY <2>3, ThreadStepsInv, DbTakeTaskInv DEF DbThreadMain
  <2>4. CASE DbSpuriousWakeup
    BY <2>4, ThreadStepsInv
  <2>5. ASSUME NEW r \in Runners, QueryLost(r) \/ RunTask(r) PROVE DbInv'
    BY <2>5, QueryLostInv, QueryAnsweredInv, ThreadPostsInv, FlushPostsInv
       DEF RunTask, Runners
  <2>6. CASE DbStop \/ ShutdownBegin
    BY <2>6, StopsInv
  <2>7. CASE DbShutdown
    BY <2>7, FlushNextInv, StopsInv, NotifiesInv DEF DbShutdown
  <2>8. CASE UNCHANGED dbVars
    <3>1. UNCHANGED dbWork /\ UNCHANGED <<dbPc, dbThreadState, dbShutdownStep>>
      BY <2>8 DEF dbVars, dbWork
    <3>2. DbTypes /\ ShutdownFlushes
      BY DEF DbInv
    <3> QED BY <3>1, <3>2, QuietStep DEF DbTypes, ShutdownFlushes
  <2> QED BY <2>1, <2>2, <2>3, <2>4, <2>5, <2>6, <2>7, <2>8 DEF DbNext
<1> QED BY DbInitInv, <1>1, PTL DEF DbSpec

\* Lost replies, retries and the flush of shutdown neither apply a query more
\* often than its replies were lost, nor let one query overtake another, but for
\* the one in the thread's hand (DatabaseTasks::flush, Database::executeQuery):
\* the invariants in QueriesServed.
THEOREM QueriesInOrder == DbSpec => [](AppliedOnce /\ FinishedInOrder)
<1>1. DbInv => AppliedOnce /\ FinishedInOrder
  <2> SUFFICES ASSUME DbInv PROVE AppliedOnce /\ FinishedInOrder
    OBVIOUS
  <2>1. DbTypes /\ ListIsRest /\ ExecutedSoFar /\ ThreadHolds /\ FlushHolds /\ AppliedSoFar
    BY DEF DbInv
  <2>2. AppliedOnce
    <3> SUFFICES ASSUME NEW q \in Queries PROVE applied[q] <= 1 + lost[q]
      BY DEF AppliedOnce
    <3>1. applied[q] \in Nat /\ lost[q] \in Nat
      BY <2>1 DEF DbTypes
    <3> QED BY <2>1, <3>1 DEF AppliedSoFar
  <2>3. FinishedInOrder
    <3> SUFFICES ASSUME NEW i \in 1..Len(handed), NEW j \in 1..Len(handed), i < j,
                        Contains(finished, handed[j]), ~Contains(finished, handed[i])
                 PROVE  running["thread"] = handed[i] /\ dbShutdownStep # "none"
      BY DEF FinishedInOrder
    <3>1. /\ Len(handed) \in Nat /\ Taken \in Nat /\ Taken <= Len(handed)
          /\ handed[i] \in Queries
      BY <2>1 DEF DbTypes, ListIsRest, Taken
    <3>2. i <= Taken
      BY <2>1, <3>1 DEF ExecutedSoFar
    <3>3. running["thread"] = handed[i]
      BY <2>1, <3>1, <3>2 DEF ExecutedSoFar
    <3>4. ASSUME dbShutdownStep = "none" PROVE FALSE
      <4>1. running["flush"] = NoQuery
        BY <2>1, <3>4 DEF FlushHolds
      <4>2. running["thread"] # NoQuery
        BY <3>1, <3>3
      <4>3. PICK k \in 1..Taken : running["thread"] = handed[k] /\ k = Taken
        BY <2>1, <3>4, <4>2 DEF ThreadHolds
      <4>4. i = Taken
        <5>1. k \in 1..Len(handed) /\ handed[i] = handed[k]
          BY <3>1, <3>3, <4>3
        <5>2. i = k
          BY <2>1, <5>1 DEF ListIsRest
        <5> QED BY <4>3, <5>2
      <4>5. handed[j] \in Queries /\ j \in Taken + 1..Len(handed)
        BY <2>1, <3>1, <4>4 DEF DbTypes
      <4> QED BY <2>1, <4>1, <4>5 DEF ExecutedSoFar
    <3> QED BY <3>3, <3>4
  <2> QED BY <2>2, <2>3
<1> QED BY DbInvariant, <1>1, PTL
-------------------------------------------------------------------------------
(* OutputMessagePool: the stream of each protocol.                           *)

\* What is with a connection (s) and waits in a buffer (b), of n packets written.
InOrder(n, b, s) ==
    /\ n \in Nat /\ b \in Seq(Nat) /\ s \in Seq(Nat) /\ Len(b) <= Room /\ Len(b) <= n
    /\ \A i \in 1 .. Len(b) : b[i] = n - Len(b) + i
    /\ \A i \in 1 .. Len(s) : s[i] \in 1 .. n - Len(b)
    /\ \A i, j \in 1 .. Len(s) : i < j => s[i] < s[j]

NotIn(s, k) == \A i \in 1 .. Len(s) : s[i] # k

\* What is missing before the buffer are whole buffers.
GoneWhole(top, s) ==
    \A k \in 1 .. top : NotIn(s, k) =>
        \E a \in 1 .. top : /\ a + Room - 1 <= top
                            /\ k \in a .. a + Room - 1
                            /\ \A m \in a .. a + Room - 1 : NotIn(s, m)

WholeBefore(n, b, s) == GoneWhole(n - Len(b), s)

\* The inductive invariant of the pool
PoolInv ==
    /\ scheduled \in Nat
    /\ bufferedProtocols # <<>> => scheduled > 0
    /\ DOMAIN outputBuffer = Protocols /\ DOMAIN sent = Protocols /\ DOMAIN written = Protocols
    /\ \A p \in Protocols :
          /\ InOrder(written[p], outputBuffer[p], sent[p])
          /\ p \notin lostConnections => WholeBefore(written[p], outputBuffer[p], sent[p])

\* A packet joins the buffer, or the first one of a new buffer takes its place.
LEMMA WriteInOrder ==
    ASSUME NEW n, NEW b, NEW s, InOrder(n, b, s)
    PROVE  LET c == Append(GetOutputBuffer(b), n + 1)
           IN  /\ InOrder(n + 1, c, s)
               /\ GoneWhole(n - Len(b), s) => GoneWhole((n + 1) - Len(c), s)
<1> DEFINE c == Append(GetOutputBuffer(b), n + 1)
<1>1. n \in Nat /\ b \in Seq(Nat) /\ s \in Seq(Nat) /\ Len(b) \in Nat /\ Len(b) <= Room /\ Len(b) <= n
      /\ Room \in Nat /\ Room >= 1 /\ n + 1 \in Nat
  BY OutputAssumption DEF InOrder
<1>2. CASE b # <<>> /\ Fits(b)
  <2>1. c = Append(b, n + 1)
    BY <1>2 DEF GetOutputBuffer
  <2>2. /\ c \in Seq(Nat) /\ Len(c) = Len(b) + 1 /\ c[Len(b) + 1] = n + 1
        /\ \A i \in 1 .. Len(b) : c[i] = b[i]
    <3> DEFINE m == n + 1
    <3>1. m \in Nat
      BY <1>1
    <3> HIDE DEF m
    <3>2. /\ Append(b, m) \in Seq(Nat) /\ Len(Append(b, m)) = Len(b) + 1 /\ Append(b, m)[Len(b) + 1] = m
          /\ \A i \in 1 .. Len(b) : Append(b, m)[i] = b[i]
      BY <1>1, <3>1
    <3> QED BY <2>1, <3>2 DEF m
  <2> HIDE DEF c
  <2>3. Len(c) <= Room /\ Len(c) <= n + 1 /\ (n + 1) - Len(c) = n - Len(b)
    BY <1>1, <1>2, <2>2 DEF Fits
  <2>4. \A i \in 1 .. Len(c) : c[i] = (n + 1) - Len(c) + i
    <3> TAKE i \in 1 .. Len(c)
    <3>1. CASE i = Len(b) + 1
      BY <1>1, <2>2, <2>3, <3>1
    <3>2. CASE i # Len(b) + 1
      <4>1. i \in 1 .. Len(b)
        BY <1>1, <2>2, <3>2
      <4>2. b[i] = n - Len(b) + i
        BY <4>1 DEF InOrder
      <4> QED BY <2>2, <2>3, <4>1, <4>2
    <3> QED BY <3>1, <3>2
  <2>5. InOrder(n + 1, c, s)
    BY <1>1, <2>2, <2>3, <2>4 DEF InOrder
  <2> QED BY <2>3, <2>5 DEF c
<1>3. CASE ~(b # <<>> /\ Fits(b))
  <2>1. c = <<n + 1>>
    <3>1. GetOutputBuffer(b) = <<>>
      BY <1>3 DEF GetOutputBuffer
    <3>2. Append(<<>>, n + 1) = <<n + 1>>
      OBVIOUS
    <3> QED BY <3>1, <3>2
  <2>2. c \in Seq(Nat) /\ Len(c) = 1 /\ c[1] = n + 1 /\ (n + 1) - Len(c) = n
    <3>1. ASSUME NEW m \in Nat PROVE <<m>> \in Seq(Nat) /\ Len(<<m>>) = 1 /\ <<m>>[1] = m
      OBVIOUS
    <3>2. c \in Seq(Nat) /\ Len(c) = 1 /\ c[1] = n + 1
      BY <1>1, <2>1, <3>1
    <3> QED BY <1>1, <3>2
  <2> HIDE DEF c
  <2>3. InOrder(n + 1, c, s)
    BY <1>1, <2>2 DEF InOrder
  <2>4. Len(b) = 0 \/ Len(b) = Room
    BY <1>1, <1>3 DEF Fits
  <2>5. ASSUME Len(b) = Room, GoneWhole(n - Len(b), s) PROVE GoneWhole(n, s)
    <3> SUFFICES ASSUME NEW k \in 1 .. n, NotIn(s, k)
                 PROVE  \E a \in 1 .. n : /\ a + Room - 1 <= n
                                          /\ k \in a .. a + Room - 1
                                          /\ \A m \in a .. a + Room - 1 : NotIn(s, m)
      BY DEF GoneWhole
    <3>1. CASE k \in 1 .. n - Len(b)
      <4>1. PICK a \in 1 .. n - Len(b) : /\ a + Room - 1 <= n - Len(b)
                                         /\ k \in a .. a + Room - 1
                                         /\ \A m \in a .. a + Room - 1 : NotIn(s, m)
        BY <2>5, <3>1 DEF GoneWhole
      <4>2. a \in 1 .. n /\ a + Room - 1 <= n
        BY <1>1, <4>1
      <4> QED BY <4>1, <4>2
    <3>2. CASE k \notin 1 .. n - Len(b)
      <4>1. /\ n - Room + 1 \in 1 .. n /\ (n - Room + 1) + Room - 1 = n
            /\ k \in (n - Room + 1) .. n
        BY <1>1, <2>5, <3>2
      <4>2. \A m \in (n - Room + 1) .. n : NotIn(s, m)
        BY <1>1, <2>5 DEF InOrder, NotIn
      <4>3. (n - Room + 1) + Room - 1 <= n
        BY <1>1, <4>1
      <4> QED BY <4>1, <4>2, <4>3
    <3> QED BY <3>1, <3>2
  <2>6. GoneWhole(n - Len(b), s) => GoneWhole(n, s)
    <3>1. Len(b) = 0 => n - Len(b) = n
      BY <1>1
    <3> QED BY <2>4, <2>5, <3>1
  <2> QED BY <2>2, <2>3, <2>6 DEF c
<1> QED BY <1>2, <1>3

\* A buffer that is taken goes behind what the connection has.
LEMMA SendInOrder ==
    ASSUME NEW n, NEW b, NEW s, InOrder(n, b, s)
    PROVE  /\ InOrder(n, <<>>, s \o b)
           /\ GoneWhole(n - Len(b), s) => GoneWhole(n - Len(<<>>), s \o b)
           /\ InOrder(n, <<>>, s \o <<>>)
<1> DEFINE t == s \o b
<1>1. /\ n \in Nat /\ b \in Seq(Nat) /\ s \in Seq(Nat) /\ Len(b) \in Nat /\ Len(s) \in Nat
      /\ Len(b) <= Room /\ Len(b) <= n /\ Room \in Nat /\ Room >= 1
  BY OutputAssumption DEF InOrder
<1>2. /\ t \in Seq(Nat) /\ Len(t) = Len(s) + Len(b)
      /\ \A i \in 1 .. Len(s) : t[i] = s[i]
      /\ \A i \in 1 .. Len(t) : i > Len(s) => i - Len(s) \in 1 .. Len(b) /\ t[i] = b[i - Len(s)]
  BY <1>1
<1>3. \A i \in 1 .. Len(b) : t[Len(s) + i] = b[i] /\ Len(s) + i \in 1 .. Len(t)
  BY <1>1, <1>2
<1> HIDE DEF t
<1>4. \A i \in 1 .. Len(s) : s[i] \in 1 .. n - Len(b)
  BY DEF InOrder
<1>5. \A i \in 1 .. Len(b) : b[i] = n - Len(b) + i
  BY DEF InOrder
<1>6. \A i \in 1 .. Len(t) : i > Len(s) => t[i] = n - Len(b) + (i - Len(s))
  BY <1>2, <1>5
<1>7. \A i \in 1 .. Len(t) : t[i] \in 1 .. n
  <2> TAKE i \in 1 .. Len(t)
  <2>1. CASE i <= Len(s)
    <3>1. i \in 1 .. Len(s)
      BY <1>1, <1>2, <2>1
    <3>2. t[i] = s[i] /\ s[i] \in 1 .. n - Len(b)
      BY <1>2, <1>4, <3>1
    <3> QED BY <1>1, <3>2
  <2>2. CASE i > Len(s)
    BY <1>1, <1>2, <1>6, <2>2
  <2> QED BY <1>1, <1>2, <2>1, <2>2
<1>8. \A i, j \in 1 .. Len(t) : i < j => t[i] < t[j]
  <2> TAKE i, j \in 1 .. Len(t)
  <2>1. CASE i < j /\ j <= Len(s)
    <3>1. i \in 1 .. Len(s) /\ j \in 1 .. Len(s)
      BY <1>1, <1>2, <2>1
    <3> QED BY <1>2, <2>1, <3>1 DEF InOrder
  <2>2. CASE i <= Len(s) /\ j > Len(s)
    <3>0. i \in 1 .. Len(s)
      BY <1>1, <1>2, <2>2
    <3>1. t[i] \in 1 .. n - Len(b)
      BY <1>2, <1>4, <3>0
    <3>2. t[j] = n - Len(b) + (j - Len(s)) /\ j - Len(s) > 0
      BY <1>1, <1>2, <1>6, <2>2
    <3> QED BY <1>1, <1>2, <3>1, <3>2
  <2>3. CASE i < j /\ i > Len(s)
    <3>1. t[i] = n - Len(b) + (i - Len(s)) /\ t[j] = n - Len(b) + (j - Len(s))
      BY <1>1, <1>2, <1>6, <2>3
    <3> QED BY <1>1, <1>2, <2>3, <3>1
  <2> QED BY <1>1, <1>2, <2>1, <2>2, <2>3
<1>9. InOrder(n, <<>>, t)
  <2>1. <<>> \in Seq(Nat) /\ Len(<<>>) = 0 /\ n - Len(<<>>) = n
    BY <1>1
  <2> QED BY <1>1, <1>2, <1>7, <1>8, <2>1 DEF InOrder
<1>10. ASSUME GoneWhole(n - Len(b), s) PROVE GoneWhole(n, t)
  <2> SUFFICES ASSUME NEW k \in 1 .. n, NotIn(t, k)
               PROVE  \E a \in 1 .. n : /\ a + Room - 1 <= n
                                        /\ k \in a .. a + Room - 1
                                        /\ \A m \in a .. a + Room - 1 : NotIn(t, m)
    BY DEF GoneWhole
  <2>1. k \in 1 .. n - Len(b)
    <3> SUFFICES ASSUME k > n - Len(b) PROVE FALSE
      BY <1>1
    <3>1. k - (n - Len(b)) \in 1 .. Len(b)
      BY <1>1
    <3>2. b[k - (n - Len(b))] = n - Len(b) + (k - (n - Len(b)))
      BY <1>5, <3>1
    <3>3. n - Len(b) + (k - (n - Len(b))) = k
      BY <1>1
    <3> QED BY <1>3, <3>1, <3>2, <3>3 DEF NotIn
  <2>2. NotIn(s, k)
    BY <1>1, <1>2 DEF NotIn
  <2>3. PICK a \in 1 .. n - Len(b) : /\ a + Room - 1 <= n - Len(b)
                                     /\ k \in a .. a + Room - 1
                                     /\ \A m \in a .. a + Room - 1 : NotIn(s, m)
    BY <1>10, <2>1, <2>2 DEF GoneWhole
  <2>4. a \in 1 .. n /\ a + Room - 1 <= n
    BY <1>1, <2>3
  <2>5. ASSUME NEW m \in a .. a + Room - 1 PROVE NotIn(t, m)
    <3> SUFFICES ASSUME NEW i \in 1 .. Len(t), t[i] = m PROVE FALSE
      BY DEF NotIn
    <3>1. CASE i <= Len(s)
      <4>1. i \in 1 .. Len(s) /\ s[i] = m
        BY <1>1, <1>2, <3>1
      <4> QED BY <2>3, <4>1 DEF NotIn
    <3>2. CASE i > Len(s)
      BY <1>1, <1>2, <1>6, <2>3, <3>2
    <3> QED BY <1>1, <1>2, <3>1, <3>2
  <2> QED BY <2>3, <2>4, <2>5
<1>11. n - Len(<<>>) = n
  BY <1>1
<1>12. InOrder(n, <<>>, s \o <<>>)
  <2>1. s \o <<>> = s
    BY <1>1
  <2>2. \A i \in 1 .. Len(s) : s[i] \in 1 .. n
    BY <1>1, <1>4
  <2>3. <<>> \in Seq(Nat) /\ Len(<<>>) = 0
    OBVIOUS
  <2> QED BY <1>1, <1>11, <2>1, <2>2, <2>3 DEF InOrder
<1> QED BY <1>9, <1>10, <1>11, <1>12 DEF t

LEMMA PoolInitGood == PoolInit => PoolInv
<1> SUFFICES ASSUME PoolInit PROVE PoolInv
  OBVIOUS
<1>1. InOrder(0, <<>>, <<>>)
  <2>1. <<>> \in Seq(Nat) /\ Len(<<>>) = 0 /\ 0 <= Room
    BY OutputAssumption
  <2> QED BY <2>1 DEF InOrder
<1>2. WholeBefore(0, <<>>, <<>>)
  BY DEF GoneWhole, WholeBefore
<1>3. \A p \in Protocols : written[p] = 0 /\ outputBuffer[p] = <<>> /\ sent[p] = <<>>
  BY DEF PoolInit
<1>4. bufferedProtocols = <<>> /\ scheduled = 0
  BY DEF PoolInit
<1>5. DOMAIN outputBuffer = Protocols /\ DOMAIN sent = Protocols /\ DOMAIN written = Protocols
  BY DEF PoolInit
<1> QED BY <1>1, <1>2, <1>3, <1>4, <1>5 DEF PoolInv

\* Protocols come and go: the first one starts the chain, the last one ends it.
LEMMA ChainGood ==
    ASSUME PoolInv, NEW p \in Protocols, AddProtocolToAutosend(p) \/ RemoveProtocolFromAutosend(p)
    PROVE  PoolInv'
<1>1. outputBuffer' = outputBuffer /\ sent' = sent /\ written' = written /\ lostConnections' = lostConnections
  BY DEF AddProtocolToAutosend, RemoveProtocolFromAutosend
<1>2. scheduled' \in Nat /\ (bufferedProtocols' # <<>> => scheduled' > 0)
  <2>1. CASE AddProtocolToAutosend(p)
    BY <2>1 DEF AddProtocolToAutosend, StartsChain, PoolInv
  <2>2. CASE RemoveProtocolFromAutosend(p)
    <3>1. bufferedProtocols # <<>>
      BY <2>2 DEF RemoveProtocolFromAutosend, Contains, PoolInv
    <3> QED BY <2>2, <3>1 DEF RemoveProtocolFromAutosend, PoolInv
  <2> QED BY <2>1, <2>2
<1> QED BY <1>1, <1>2 DEF PoolInv

LEMMA WriteGood == ASSUME PoolInv, NEW o \in Protocols, Write(o) PROVE PoolInv'
<1> DEFINE c == Append(GetOutputBuffer(outputBuffer[o]), written[o] + 1)
<1>1. /\ outputBuffer' = [outputBuffer EXCEPT ![o] = c]
      /\ written' = [written EXCEPT ![o] = written[o] + 1]
      /\ sent' = sent /\ lostConnections' = lostConnections /\ bufferedProtocols' = bufferedProtocols /\ scheduled' = scheduled
  BY DEF Write
<1>2. /\ InOrder(written[o] + 1, c, sent[o])
      /\ o \notin lostConnections => WholeBefore(written[o] + 1, c, sent[o])
  <2>1. InOrder(written[o], outputBuffer[o], sent[o])
    BY DEF PoolInv
  <2>2. o \notin lostConnections => GoneWhole(written[o] - Len(outputBuffer[o]), sent[o])
    BY DEF PoolInv, WholeBefore
  <2>3. /\ InOrder(written[o] + 1, c, sent[o])
        /\ GoneWhole(written[o] - Len(outputBuffer[o]), sent[o]) => GoneWhole((written[o] + 1) - Len(c), sent[o])
    BY <2>1, WriteInOrder
  <2> QED BY <2>2, <2>3 DEF WholeBefore
<1> HIDE DEF c
<1>3. /\ DOMAIN outputBuffer' = Protocols /\ DOMAIN sent' = Protocols /\ DOMAIN written' = Protocols
      /\ outputBuffer'[o] = c /\ written'[o] = written[o] + 1
      /\ \A p \in Protocols \ {o} : outputBuffer'[p] = outputBuffer[p] /\ written'[p] = written[p]
  BY <1>1 DEF PoolInv
<1>4. ASSUME NEW p \in Protocols
      PROVE  /\ InOrder(written'[p], outputBuffer'[p], sent'[p])
             /\ p \notin lostConnections' => WholeBefore(written'[p], outputBuffer'[p], sent'[p])
  <2>1. CASE p = o
    <3>1. outputBuffer'[o] = c /\ written'[o] = written[o] + 1 /\ sent'[o] = sent[o] /\ lostConnections' = lostConnections
      BY <1>1, <1>3
    <3>2. InOrder(written'[o], outputBuffer'[o], sent'[o])
      BY <1>2, <3>1
    <3>3. o \notin lostConnections' => WholeBefore(written'[o], outputBuffer'[o], sent'[o])
      BY <1>2, <3>1
    <3> QED BY <2>1, <3>2, <3>3
  <2>2. CASE p # o
    <3>1. outputBuffer'[p] = outputBuffer[p] /\ written'[p] = written[p] /\ sent'[p] = sent[p]
      BY <1>1, <1>3, <2>2
    <3> QED BY <1>1, <3>1 DEF PoolInv
  <2> QED BY <2>1, <2>2
<1> QED BY <1>1, <1>3, <1>4 DEF PoolInv

LEMMA SendAllGood == ASSUME PoolInv, SendAll PROVE PoolInv'
<1>1. /\ bufferedProtocols' = bufferedProtocols /\ lostConnections' = lostConnections /\ written' = written
      /\ scheduled' \in Nat /\ (bufferedProtocols' # <<>> => scheduled' > 0)
  BY DEF SendAll, ContinuesChain, PoolInv
<1>2. DOMAIN outputBuffer' = Protocols /\ DOMAIN sent' = Protocols /\ DOMAIN written' = Protocols
  BY DEF SendAll, PoolInv
<1>3. ASSUME NEW p \in Protocols
      PROVE  /\ InOrder(written'[p], outputBuffer'[p], sent'[p])
             /\ p \notin lostConnections' => WholeBefore(written'[p], outputBuffer'[p], sent'[p])
  <2>1. /\ InOrder(written[p], outputBuffer[p], sent[p])
        /\ p \notin lostConnections => WholeBefore(written[p], outputBuffer[p], sent[p])
    BY DEF PoolInv
  <2>2. CASE p \notin Flushed
    <3>1. outputBuffer'[p] = outputBuffer[p] /\ sent'[p] = sent[p]
      BY <2>2 DEF SendAll
    <3> QED BY <1>1, <2>1, <3>1
  <2>3. CASE p \in Flushed /\ p \notin lostConnections
    <3>1. outputBuffer'[p] = <<>> /\ sent'[p] = sent[p] \o outputBuffer[p]
      BY <2>3 DEF SendAll, SendTakes
    <3> QED BY <1>1, <2>1, <2>3, <3>1, SendInOrder DEF WholeBefore
  <2>4. CASE p \in Flushed /\ p \in lostConnections
    <3>1. outputBuffer'[p] = <<>> /\ sent'[p] = sent[p] \o <<>>
      BY <2>4 DEF SendAll, SendTakes
    <3> QED BY <1>1, <2>1, <2>4, <3>1, SendInOrder DEF WholeBefore
  <2> QED BY <2>2, <2>3, <2>4
<1> QED BY <1>1, <1>2, <1>3 DEF PoolInv

LEMMA GoneGood == ASSUME PoolInv, NEW p \in Protocols, ConnectionGone(p) PROVE PoolInv'
BY DEF ConnectionGone, PoolInv

LEMMA PoolNextGood == PoolInv /\ [PoolNext]_poolVars => PoolInv'
<1> SUFFICES ASSUME PoolInv, [PoolNext]_poolVars PROVE PoolInv'
  OBVIOUS
<1>1. CASE UNCHANGED poolVars
  BY <1>1 DEF poolVars, PoolInv
<1> QED BY <1>1, ChainGood, WriteGood, SendAllGood, GoneGood DEF PoolNext

\* However protocols come and go, bursts overrun their buffers and connections end, a
\* sendAll is to come while a protocol is registered; what a client gets is in order,
\* nothing twice, and what it misses are whole buffers that were full
\* (Protocol::getOutputBuffer, OutputMessagePool::sendAll).
THEOREM PoolAlwaysFlows == PoolSpec => []PoolFlows
<1>1. PoolInv => PoolFlows
  <2> SUFFICES ASSUME PoolInv PROVE PoolFlows
    OBVIOUS
  <2>1. ASSUME NEW p \in Protocols
        PROVE  LET stream == sent[p] \o outputBuffer[p] IN
               \A i, j \in DOMAIN stream : i < j => stream[i] < stream[j]
    <3>1. InOrder(written[p], outputBuffer[p], sent[p])
      BY DEF PoolInv
    <3>2. InOrder(written[p], <<>>, sent[p] \o outputBuffer[p])
      BY <3>1, SendInOrder
    <3>3. DOMAIN (sent[p] \o outputBuffer[p]) = 1 .. Len(sent[p] \o outputBuffer[p])
      BY <3>2 DEF InOrder
    <3> QED BY <3>2, <3>3 DEF InOrder
  <2>2. ASSUME NEW p \in Protocols, p \notin lostConnections, NEW k \in 1 .. written[p], Missing(p, k)
        PROVE  \E a \in 1 .. written[p] : /\ k \in a .. a + Room - 1
                                          /\ \A m \in a .. a + Room - 1 : Missing(p, m)
    <3> DEFINE n == written[p]  b == outputBuffer[p]  s == sent[p]
    <3>1. InOrder(n, b, s) /\ GoneWhole(n - Len(b), s)
      BY <2>2 DEF PoolInv, WholeBefore
    <3>2. n \in Nat /\ Room \in Nat \ {0} /\ Len(b) \in Nat /\ Len(b) <= n /\ \A i \in 1 .. Len(b) : b[i] = n - Len(b) + i
      BY <3>1, OutputAssumption DEF InOrder
    <3>3. ASSUME NEW m \in 1 .. n
          PROVE  Missing(p, m) <=> NotIn(s, m) /\ m <= n - Len(b)
      <4>1. Contains(s, m) <=> ~NotIn(s, m)
        BY DEF Contains, NotIn
      <4>2. Contains(b, m) <=> m > n - Len(b)
        <5>1. ASSUME m > n - Len(b) PROVE Contains(b, m)
          <6>1. m - (n - Len(b)) \in 1 .. Len(b) /\ n - Len(b) + (m - (n - Len(b))) = m
            BY <3>2, <5>1
          <6>2. b[m - (n - Len(b))] = n - Len(b) + (m - (n - Len(b)))
            BY <3>2, <6>1
          <6> QED BY <6>1, <6>2 DEF Contains
        <5>2. ASSUME Contains(b, m) PROVE m > n - Len(b)
          <6>1. PICK i \in 1 .. Len(b) : b[i] = m
            BY <5>2 DEF Contains
          <6> QED BY <3>2, <6>1
        <5> QED BY <5>1, <5>2
      <4>3. m > n - Len(b) <=> ~(m <= n - Len(b))
        BY <3>2
      <4> QED BY <4>1, <4>2, <4>3 DEF Missing
    <3> HIDE DEF n, b, s
    <3>4. k \in 1 .. n - Len(b) /\ NotIn(s, k)
      BY <2>2, <3>2, <3>3 DEF n
    <3>5. PICK a \in 1 .. n - Len(b) : /\ a + Room - 1 <= n - Len(b)
                                       /\ k \in a .. a + Room - 1
                                       /\ \A m \in a .. a + Room - 1 : NotIn(s, m)
      BY <3>1, <3>2, <3>4 DEF GoneWhole
    <3>6. ASSUME NEW m \in a .. a + Room - 1 PROVE Missing(p, m)
      <4>1. m \in 1 .. n /\ m <= n - Len(b)
        BY <3>2, <3>5
      <4> QED BY <3>3, <3>5, <4>1
    <3>7. a \in 1 .. n
      BY <3>2, <3>5
    <3> QED BY <3>5, <3>6, <3>7 DEF n
  <2> QED BY <2>1, <2>2 DEF PoolFlows, PoolInv
<1> QED BY <1>1, PoolInitGood, PoolNextGood, PTL DEF PoolSpec
-------------------------------------------------------------------------------
(* The server: its process and its gates.                                    *)

\* r is a record with the fields in F.
HasFields(r, F) == DOMAIN r = F /\ r = [f \in F |-> r[f]]

\* s is a sequence, whatever of.
IsSeq(s) == \E T : s \in Seq(T)

-------------------------------------------------------------------------------
(* The process.                                                              *)
SrvFields == {"main", "early", "stage", "plan", "game", "manager", "running", "stopped", "ports",
              "acceptors", "stopping", "death", "due", "errors", "asked", "tasks", "current",
              "dispatcher", "scheduler", "database"}
PortFields == {"services", "accept", "open", "pending"}
OpenJob(p) == [t |-> "open", p |-> p]

\* The loader is at work or about to be.
Loading(s) == s.stage \in 1 .. 11

\* d is s but for the fields in F.
Kept(d, s, F) == HasFields(d, SrvFields) /\ \A f \in SrvFields \ F : d[f] = s[f]

\* The shape of the records.
ThreadShape(s) == HasFields(s.scheduler, {"state", "at"}) /\ HasFields(s.database, {"state", "at"})
TaskShape(s) ==
    /\ HasFields(s.current, {"t", "p"})
    /\ IsSeq(s.tasks)
    /\ \A i \in DOMAIN s.tasks : HasFields(s.tasks[i], {"t", "p"}) /\ s.tasks[i].t # "none"
PortShape(s) ==
    /\ HasFields(s.ports, DOMAIN s.ports)
    /\ \A p \in DOMAIN s.ports : HasFields(s.ports[p], PortFields) /\ IsSeq(s.ports[p].services)
    /\ s.acceptors \subseteq DOMAIN s.ports /\ s.due \subseteq DOMAIN s.ports /\ s.stopping \subseteq DOMAIN s.ports
    /\ 0 \notin DOMAIN s.ports
FlagShape(s) == s.early \in BOOLEAN /\ s.manager \in BOOLEAN /\ s.running \in BOOLEAN /\ s.death \in BOOLEAN
SrvShape(s) == HasFields(s, SrvFields) /\ ThreadShape(s) /\ TaskShape(s) /\ PortShape(s) /\ FlagShape(s)

\* A task of this kind runs or waits.
Comes(s, t) == s.current.t = t \/ \E i \in DOMAIN s.tasks : s.tasks[i].t = t

\* The loader is one task, the first of all, and how far it came decides about the
\* state of the game and about what may be asked for.
LoadGood(s) ==
    /\ Loading(s) \/ s.stage = 12 \/ s.stage \in {-1, -2, -3, -5, -10}
    /\ s.current.t = "load" => Loading(s)
    /\ Loading(s) => s.current.t = "load" \/ (s.tasks # <<>> /\ s.tasks[1].t = "load")
    /\ \A i \in DOMAIN s.tasks : s.tasks[i].t = "load" => i = 1 /\ s.current = NoJob /\ s.stage = 1
    /\ DOMAIN s.ports # {} => s.stage \in 8 .. 12 \/ s.stage = -10
    /\ s.stage \in 1 .. 6 \cup {-1, -2, -3, -5} => s.game = "STARTUP"
    /\ s.stage \in 7 .. 11 \cup {-10} => s.game \in {"INIT", "SHUTDOWN"}
    /\ s.stage = 12 => s.game \in {"NORMAL", "SHUTDOWN"}
    /\ s.manager <=> s.stage = 12
    /\ Comes(s, "close") => s.stage \in {12, -10}

\* The task that ends the dispatcher is there, or has been.
EndComes(s) == Comes(s, "end") \/ s.dispatcher = "TERMINATED"

\* Game::shutdown is handed over.
ShutComes(s) == Comes(s, "shutdown")

\* The main thread, and who ended what.
EndGood(s) ==
    /\ s.main \in {"wait", "waiting", "woken", "running", "join", "ended"}
    /\ s.stopped \in {"no", "ignored", "done"}
    /\ s.main = "running" => DOMAIN s.ports # {}
    /\ Loading(s) /\ ~s.early => s.main \in {"wait", "waiting"}
    /\ EndComes(s) => s.main \in {"join", "ended"} \/ s.stopped # "no"
    /\ s.stopped # "no" => ~Loading(s)
    /\ s.running => s.main = "running"
    /\ s.stopped = "done" => s.main \in {"running", "join", "ended"}
    /\ s.stopped = "done" /\ s.main = "running" => s.death
    /\ s.stopped # "done" => s.acceptors = DOMAIN s.ports /\ s.stopping = {}
    /\ EndComes(s) \/ s.game = "SHUTDOWN" => s.scheduler.state # "RUNNING"
    /\ s.stopped # "no" => s.game = "SHUTDOWN"
    /\ s.death => s.stopped = "done"
    /\ s.stopped = "done" => ~s.running
    /\ s.game = "SHUTDOWN" => s.dispatcher # "RUNNING"
    /\ s.scheduler.state = "RUNNING" => s.dispatcher = "RUNNING"

\* Game::shutdown runs once, and in an orderly run the end of the dispatcher is the
\* last of its tasks.
LastGood(s) ==
    /\ ShutComes(s) => s.game = "SHUTDOWN" /\ s.stopped = "no"
    /\ s.current.t = "shutdown" => \A i \in DOMAIN s.tasks : s.tasks[i].t # "shutdown"
    /\ \A i, j \in DOMAIN s.tasks : s.tasks[i].t = "shutdown" /\ s.tasks[j].t = "shutdown" => i = j
    /\ DOMAIN s.ports # {} /\ ~s.early =>
          /\ s.main \in {"join", "ended"} => s.stopped = "done"
          /\ EndComes(s) => s.dispatcher # "RUNNING"
          /\ \A i \in DOMAIN s.tasks :
                s.tasks[i].t = "end" => i = Len(s.tasks) /\ s.current.t # "end" /\ s.dispatcher # "TERMINATED"
          /\ s.current.t = "end" \/ s.dispatcher = "TERMINATED" => s.tasks = <<>>

\* No port shares the game.
SharedGood(s) ==
    \A p \in DOMAIN s.ports :
        (\E i \in DOMAIN s.ports[p].services : SendsFirst(s.ports[p].services[i])) => Len(s.ports[p].services) = 1

\* While the scheduler runs, a port accepts or its opening is under way, once.
OpenTask(s, p) == \E i \in DOMAIN s.tasks : s.tasks[i] = OpenJob(p)
PortGood(s, p) ==
    /\ s.ports[p].services # <<>>
    /\ s.ports[p].accept \in {"none", "wait", "ok", "error"}
    /\ s.ports[p].accept # "none" => ~s.ports[p].pending /\ p \notin s.due /\ s.current # OpenJob(p) /\ ~OpenTask(s, p)
    /\ p \in s.due => s.current # OpenJob(p) /\ ~OpenTask(s, p)
    /\ s.current = OpenJob(p) => ~OpenTask(s, p)
    /\ \A i, j \in DOMAIN s.tasks : s.tasks[i] = OpenJob(p) /\ s.tasks[j] = OpenJob(p) => i = j
    /\ s.ports[p].accept = "none" => p \in s.due \/ s.current = OpenJob(p) \/ OpenTask(s, p)
ServeGood(s) ==
    s.scheduler.state = "RUNNING" =>
        /\ \A p \in DOMAIN s.ports : PortGood(s, p)
        /\ s.current.t = "open" => s.current.p \in DOMAIN s.ports
        /\ \A i \in DOMAIN s.tasks : s.tasks[i].t = "open" => s.tasks[i].p \in DOMAIN s.ports

SrvGood(s) == SrvShape(s) /\ LoadGood(s) /\ EndGood(s) /\ LastGood(s) /\ SharedGood(s) /\ ServeGood(s)

\* One of the gates: its record, and what is counted at it.
ConnectFields == {"kind", "known", "since", "left", "count", "burst"}
BanFields == {"kind", "table", "row", "queue", "twice", "lost", "wrong", "history", "lists",
              "checks", "expiries"}
StatusFields == {"kind", "own", "since", "tasks", "sent"}
PremiumFields == {"kind", "begun", "days", "lastDay", "now", "first", "logins"}

\* An address that comes often at once is counted.
ConnectGood(g) ==
    /\ HasFields(g, ConnectFields)
    /\ g.since \in Int /\ g.left \in Int /\ g.count \in 0 .. 5 /\ g.burst \in 0 .. g.count + 1

\* Statements wait for the database only while the ban they are about has expired.
BanGood(g) ==
    /\ HasFields(g, BanFields)
    /\ ~g.wrong /\ (g.lost => g.twice) /\ g.lists \in Nat
    /\ ~g.twice => /\ g.queue \in {<<>>, <<"insert", "delete">>, <<"delete">>}
                   /\ g.queue # <<>> => g.row = "expired"

\* The day that is being used began a whole number of days after the first.
PremiumGood(g) ==
    /\ HasFields(g, PremiumFields)
    /\ g.begun \in {0, PremiumDays, Unlimited}
    /\ g.now \in Nat \ {0} /\ g.first \in Nat /\ g.lastDay \in Nat /\ g.first <= g.now
    /\ g.first = 0 => g.lastDay = 0 /\ g.days = g.begun
    /\ g.begun \in {0, Unlimited} => g.days = g.begun
    /\ g.first # 0 /\ g.begun \notin {0, Unlimited} =>
         \/ g.days = 0 /\ g.begun * DayLength <= g.now - g.first
         \/ /\ g.days \in 1 .. g.begun /\ g.lastDay \in 1 .. g.now /\ g.now - g.lastDay < DayLength
            /\ g.lastDay = g.first + (g.begun - g.days) * DayLength

GateGood(g) ==
    /\ g.kind = "connect" => ConnectGood(g)
    /\ g.kind = "bans" => BanGood(g)
    /\ g.kind = "status" => HasFields(g, StatusFields)
    /\ g.kind = "premium" => PremiumGood(g)

ServerInv == (srv = SrvGone \/ SrvGood(srv)) /\ GateGood(gate)

-------------------------------------------------------------------------------
(* The gates.                                                                *)
\* Division by a day, as multiplication.
LEMMA DivIs ==
    ASSUME NEW D \in Nat \ {0}, NEW n \in Nat, NEW q \in Nat, q * D <= n, n < q * D + D
    PROVE  n \div D = q
OBVIOUS

\* Whole days are at least so many when their time has passed.
LEMMA DivAtLeast ==
    ASSUME NEW D \in Nat \ {0}, NEW n \in Nat, NEW q \in Nat
    PROVE  n \div D >= q <=> q * D <= n
OBVIOUS

\* Ban::acceptConnection: the count grows with the burst.
LEMMA ConnectInv ==
    ASSUME GateGood(gate), NEW gap \in Gaps, Connect(gap)
    PROVE  GateGood(gate')
<1>1. gate.kind = "connect" /\ gate' = AcceptConnection(gate, gap)
  BY DEF Connect
<1>2. HasFields(gate, ConnectFields)
  BY <1>1 DEF GateGood, ConnectGood
<1>3. gate.since \in Int /\ gate.left \in Int /\ gate.count \in 0 .. 5 /\ gate.burst \in 0 .. gate.count + 1
  BY <1>1 DEF GateGood, ConnectGood
<1> DEFINE since == IF gate.since + gap > 21 THEN 21 ELSE gate.since + gap
           left == IF gap > gate.left THEN 0 ELSE gate.left - gap
           burst == IF since <= 2 THEN gate.burst + 1 ELSE 1
<1>4. gap \in Int /\ gap >= 0 /\ since \in Int /\ left \in Nat /\ burst \in {1, gate.burst + 1}
      /\ (since > 2 => burst = 1)
  BY <1>3 DEF Gaps
<1>5. gate' = CASE ~ gate.known ->
                [gate EXCEPT !.known = TRUE, !.since = 0, !.count = 1, !.burst = 1]
          [] gate.known /\ left > 0 ->
                [gate EXCEPT !.since = since, !.left = left + 1, !.burst = 0]
          [] gate.known /\ left = 0 /\ since > 20 ->
                [gate EXCEPT !.since = 0, !.left = 0, !.count = 1, !.burst = burst]
          [] gate.known /\ left = 0 /\ since <= 20 /\ gate.count < 5 ->
                [gate EXCEPT !.since = 0, !.left = 0, !.count = @ + 1, !.burst = burst]
          [] gate.known /\ left = 0 /\ since <= 20 /\ gate.count >= 5 ->
                IF since <= 2
                THEN [gate EXCEPT !.since = 0, !.left = 12, !.count = 0, !.burst = 0]
                ELSE [gate EXCEPT !.since = 0, !.left = 0, !.count = 0, !.burst = burst]
  BY <1>1, Zenon DEF AcceptConnection
<1> HIDE DEF since, left, burst
<1>7. CASE ~gate.known
  <2>1. gate' = [gate EXCEPT !.known = TRUE, !.since = 0, !.count = 1, !.burst = 1]
    BY <1>3, <1>4, <1>5, <1>7
  <2>2. /\ HasFields(gate', ConnectFields) /\ gate'.kind = "connect"
        /\ gate'.since = 0 /\ gate'.left = gate.left /\ gate'.count = 1 /\ gate'.burst = 1
    BY <1>1, <1>2, <2>1 DEF HasFields, ConnectFields
  <2>3. 0 \in Int /\ gate.left \in Int /\ 1 \in 0 .. 5 /\ 1 \in 0 .. (1) + 1
    BY <1>3, <1>4, <1>7
  <2> QED BY <2>2, <2>3 DEF GateGood, ConnectGood
<1>8. CASE gate.known /\ left > 0
  <2>1. gate' = [gate EXCEPT !.since = since, !.left = left + 1, !.burst = 0]
    BY <1>3, <1>4, <1>5, <1>8
  <2>2. /\ HasFields(gate', ConnectFields) /\ gate'.kind = "connect"
        /\ gate'.since = since /\ gate'.left = left + 1 /\ gate'.count = gate.count /\ gate'.burst = 0
    BY <1>1, <1>2, <2>1 DEF HasFields, ConnectFields
  <2>3. since \in Int /\ left + 1 \in Int /\ gate.count \in 0 .. 5 /\ 0 \in 0 .. (gate.count) + 1
    BY <1>3, <1>4, <1>8
  <2> QED BY <2>2, <2>3 DEF GateGood, ConnectGood
<1>9. CASE gate.known /\ left = 0 /\ since > 20
  <2>1. gate' = [gate EXCEPT !.since = 0, !.left = 0, !.count = 1, !.burst = burst]
    BY <1>3, <1>4, <1>5, <1>9
  <2>2. /\ HasFields(gate', ConnectFields) /\ gate'.kind = "connect"
        /\ gate'.since = 0 /\ gate'.left = 0 /\ gate'.count = 1 /\ gate'.burst = burst
    BY <1>1, <1>2, <2>1 DEF HasFields, ConnectFields
  <2>3. 0 \in Int /\ 0 \in Int /\ 1 \in 0 .. 5 /\ burst \in 0 .. (1) + 1
    BY <1>3, <1>4, <1>9
  <2> QED BY <2>2, <2>3 DEF GateGood, ConnectGood
<1>10. CASE gate.known /\ left = 0 /\ since <= 20 /\ gate.count < 5
  <2>1. gate' = [gate EXCEPT !.since = 0, !.left = 0, !.count = @ + 1, !.burst = burst]
    BY <1>3, <1>4, <1>5, <1>10
  <2>2. /\ HasFields(gate', ConnectFields) /\ gate'.kind = "connect"
        /\ gate'.since = 0 /\ gate'.left = 0 /\ gate'.count = gate.count + 1 /\ gate'.burst = burst
    BY <1>1, <1>2, <2>1 DEF HasFields, ConnectFields
  <2>3. 0 \in Int /\ 0 \in Int /\ gate.count + 1 \in 0 .. 5 /\ burst \in 0 .. (gate.count + 1) + 1
    BY <1>3, <1>4, <1>10
  <2> QED BY <2>2, <2>3 DEF GateGood, ConnectGood
<1>11. CASE gate.known /\ left = 0 /\ since <= 20 /\ gate.count >= 5 /\ since <= 2
  <2>1. gate' = [gate EXCEPT !.since = 0, !.left = 12, !.count = 0, !.burst = 0]
    BY <1>3, <1>4, <1>5, <1>11
  <2>2. /\ HasFields(gate', ConnectFields) /\ gate'.kind = "connect"
        /\ gate'.since = 0 /\ gate'.left = 12 /\ gate'.count = 0 /\ gate'.burst = 0
    BY <1>1, <1>2, <2>1 DEF HasFields, ConnectFields
  <2>3. 0 \in Int /\ 12 \in Int /\ 0 \in 0 .. 5 /\ 0 \in 0 .. (0) + 1
    BY <1>3, <1>4, <1>11
  <2> QED BY <2>2, <2>3 DEF GateGood, ConnectGood
<1>12. CASE gate.known /\ left = 0 /\ since <= 20 /\ gate.count >= 5 /\ ~(since <= 2)
  <2>1. gate' = [gate EXCEPT !.since = 0, !.left = 0, !.count = 0, !.burst = burst]
    BY <1>3, <1>4, <1>5, <1>12
  <2>2. /\ HasFields(gate', ConnectFields) /\ gate'.kind = "connect"
        /\ gate'.since = 0 /\ gate'.left = 0 /\ gate'.count = 0 /\ gate'.burst = burst
    BY <1>1, <1>2, <2>1 DEF HasFields, ConnectFields
  <2>3. 0 \in Int /\ 0 \in Int /\ 0 \in 0 .. 5 /\ burst \in 0 .. (0) + 1
    BY <1>3, <1>4, <1>12
  <2> QED BY <2>2, <2>3 DEF GateGood, ConnectGood
<1> QED BY <1>3, <1>4, <1>7, <1>8, <1>9, <1>10, <1>11, <1>12

\* A check of an expired ban hands its statements over.
LEMMA CheckBanGood ==
    ASSUME NEW g, BanGood(g)
    PROVE  LET h == CheckBan(g)
           IN  BanGood(h) /\ \A f \in BanFields \ {"queue", "twice"} : h[f] = g[f]
<1> DEFINE more == IF g.table = "account" THEN <<"insert", "delete">> ELSE <<"delete">>
           q == g.queue \o more
           t == g.twice \/ g.queue # <<>>
           h == [g EXCEPT !.queue = q, !.twice = t]
<1>1. CASE g.row # "expired"
  BY <1>1 DEF CheckBan
<1>2. CASE g.row = "expired"
  <2>1. CheckBan(g) = h
    BY <1>2 DEF CheckBan
  <2>2. <<>> \o <<"insert", "delete">> = <<"insert", "delete">> /\ <<>> \o <<"delete">> = <<"delete">>
    OBVIOUS
  <2>3. ~t => q \in {<<"insert", "delete">>, <<"delete">>} /\ ~g.twice
    <3>1. CASE g.table = "account"
      BY <2>2, <3>1
    <3>2. CASE g.table # "account"
      BY <2>2, <3>2
    <3> QED BY <3>1, <3>2
  <2>4. g.twice => t
    OBVIOUS
  <2> HIDE DEF more, q, t
  <2>5. HasFields(h, BanFields) /\ h.queue = q /\ (h.twice <=> t) /\ \A f \in BanFields \ {"queue", "twice"} : h[f] = g[f]
    BY DEF BanGood, HasFields, BanFields
  <2> HIDE DEF h
  <2>6. h.row = g.row /\ h.wrong = g.wrong /\ h.lost = g.lost /\ h.lists = g.lists
    BY <2>5 DEF BanFields
  <2>7. BanGood(h)
    BY <1>2, <2>3, <2>4, <2>5, <2>6 DEF BanGood
  <2> QED BY <2>1, <2>5, <2>7
<1> QED BY <1>1, <1>2

\* One who is banned gets no list.
LEMMA AskToEnterInv ==
    ASSUME GateGood(gate), NEW m \in FirstMessages, AskToEnter(m)
    PROVE  GateGood(gate')
<1> DEFINE c == CheckBan(gate)
           g == FirstMessage(gate, m)
           w == gate.wrong \/ (m = "fine" /\ gate.row = "current" /\ g.lists > gate.lists)
<1>1. gate.kind = "bans" /\ BanGood(gate)
      /\ gate' = [g EXCEPT !.checks = @ - 1, !.wrong = @ \/ (m = "fine" /\ gate.row = "current" /\ g.lists > gate.lists)]
  BY DEF AskToEnter, GateGood
<1>2. BanGood(c) /\ c.lists = gate.lists /\ c.kind = gate.kind
  BY <1>1, CheckBanGood DEF BanFields
<1>3. \/ g = gate
      \/ g = c /\ m # "fine"
      \/ g = [c EXCEPT !.lists = @ + 1] /\ gate.row # "current"
  BY DEF FirstMessages, FirstMessage, IsBanned
<1> HIDE DEF c, g
<1>4. BanGood(g) /\ g.kind = "bans" /\ (m = "fine" /\ gate.row = "current" => g.lists = gate.lists)
  <2>1. CASE g = gate
    BY <1>1, <2>1
  <2>2. CASE g = c /\ m # "fine"
    BY <1>1, <1>2, <2>2
  <2>3. CASE g = [c EXCEPT !.lists = @ + 1] /\ gate.row # "current"
    <3>1. HasFields(g, BanFields) /\ g.lists = c.lists + 1 /\ \A f \in BanFields \ {"lists"} : g[f] = c[f]
      BY <1>2, <2>3 DEF BanGood, HasFields, BanFields
    <3>2. g.row = c.row /\ g.wrong = c.wrong /\ g.lost = c.lost /\ g.twice = c.twice /\ g.queue = c.queue /\ g.kind = c.kind
      BY <3>1 DEF BanFields
    <3> QED BY <1>1, <1>2, <2>3, <3>1, <3>2 DEF BanGood
  <2> QED BY <1>3, <2>1, <2>2, <2>3
<1>5. m = "fine" /\ gate.row = "current" => ~(g.lists > gate.lists)
  BY <1>1, <1>4 DEF BanGood
<1>6. HasFields(gate', BanFields) /\ (gate'.wrong <=> g.wrong)
      /\ \A f \in BanFields \ {"checks", "wrong"} : gate'[f] = g[f]
  BY <1>1, <1>4, <1>5 DEF BanGood, HasFields, BanFields
<1>7. gate'.row = g.row /\ gate'.lists = g.lists /\ gate'.lost = g.lost /\ gate'.twice = g.twice
      /\ gate'.queue = g.queue /\ gate'.kind = g.kind
  BY <1>6 DEF BanFields
<1> QED BY <1>4, <1>6, <1>7 DEF BanGood, GateGood

\* The statements run, the list is sent, a ban is set and expires.
LEMMA BanStepInv ==
    ASSUME GateGood(gate), GetCharacterList \/ RunStatement \/ BanAgain \/ BanExpires
    PROVE  GateGood(gate')
<1>1. gate.kind = "bans" /\ BanGood(gate)
  BY DEF GetCharacterList, RunStatement, BanAgain, BanExpires, GateGood
<1>2. HasFields(gate, BanFields)
  BY <1>1 DEF BanGood
<1>3. CASE GetCharacterList
  <2>1. HasFields(gate', BanFields) /\ gate'.lists = gate.lists - 1 /\ \A f \in BanFields \ {"lists"} : gate'[f] = gate[f]
    BY <1>2, <1>3 DEF GetCharacterList, HasFields, BanFields
  <2>2. gate'.row = gate.row /\ gate'.wrong = gate.wrong /\ gate'.lost = gate.lost /\ gate'.twice = gate.twice
        /\ gate'.queue = gate.queue /\ gate'.kind = gate.kind
    BY <2>1 DEF BanFields
  <2> QED BY <1>1, <1>3, <2>1, <2>2 DEF GetCharacterList, BanGood, GateGood
<1>4. CASE BanAgain
  <2>1. HasFields(gate', BanFields) /\ gate'.row = "current" /\ \A f \in BanFields \ {"row"} : gate'[f] = gate[f]
    BY <1>2, <1>4 DEF BanAgain, HasFields, BanFields
  <2>2. gate'.wrong = gate.wrong /\ gate'.lost = gate.lost /\ gate'.twice = gate.twice
        /\ gate'.queue = gate.queue /\ gate'.kind = gate.kind /\ gate'.lists = gate.lists
    BY <2>1 DEF BanFields
  <2> QED BY <1>1, <1>4, <2>1, <2>2 DEF BanAgain, BanGood, GateGood
<1>5. CASE BanExpires
  <2>1. HasFields(gate', BanFields) /\ gate'.row = "expired" /\ \A f \in BanFields \ {"row", "expiries"} : gate'[f] = gate[f]
    BY <1>2, <1>5 DEF BanExpires, HasFields, BanFields
  <2>2. gate'.wrong = gate.wrong /\ gate'.lost = gate.lost /\ gate'.twice = gate.twice
        /\ gate'.queue = gate.queue /\ gate'.kind = gate.kind /\ gate'.lists = gate.lists
    BY <2>1 DEF BanFields
  <2> QED BY <1>1, <1>5, <2>1, <2>2 DEF BanExpires, BanGood, GateGood
<1>6. CASE RunStatement
  <2> DEFINE q == Tail(gate.queue)
             l == gate.lost \/ gate.row = "current"
             g == [gate EXCEPT !.queue = q]
  <2>1. gate.queue # <<>> /\ \/ Head(gate.queue) = "insert" /\ gate' = [g EXCEPT !.history = @ + 1]
                             \/ Head(gate.queue) # "insert" /\ gate' = [g EXCEPT !.row = "none", !.lost = @ \/ gate.row = "current"]
    BY <1>6 DEF RunStatement
  <2>2. Head(<<"insert", "delete">>) = "insert" /\ Head(<<"delete">>) = "delete"
        /\ Tail(<<"insert", "delete">>) = <<"delete">> /\ Tail(<<"delete">>) = <<>>
    OBVIOUS
  <2>3. ~gate.twice => gate.row = "expired" /\ \/ q = <<"delete">> /\ Head(gate.queue) = "insert"
                                               \/ q = <<>> /\ Head(gate.queue) # "insert"
    BY <1>1, <2>1, <2>2 DEF BanGood
  <2> HIDE DEF q
  <2>4. CASE Head(gate.queue) = "insert" /\ gate' = [g EXCEPT !.history = @ + 1]
    <3>1. HasFields(gate', BanFields) /\ gate'.queue = q /\ \A f \in BanFields \ {"queue", "history"} : gate'[f] = gate[f]
      BY <1>2, <2>4 DEF HasFields, BanFields
    <3>2. gate'.row = gate.row /\ gate'.wrong = gate.wrong /\ gate'.lost = gate.lost /\ gate'.twice = gate.twice
          /\ gate'.kind = gate.kind /\ gate'.lists = gate.lists
      BY <3>1 DEF BanFields
    <3>3. ~gate.twice => q = <<"delete">> /\ gate.row = "expired"
      BY <2>3, <2>4
    <3> QED BY <1>1, <3>1, <3>2, <3>3 DEF BanGood, GateGood
  <2>5. CASE Head(gate.queue) # "insert" /\ gate' = [g EXCEPT !.row = "none", !.lost = @ \/ gate.row = "current"]
    <3>1. gate' = [gate EXCEPT !.queue = q, !.row = "none", !.lost = l]
      BY <1>2, <2>5 DEF HasFields, BanFields
    <3>2. ~gate.twice => q = <<>> /\ (l <=> gate.lost)
      BY <2>3, <2>5
    <3>3. (l => gate.lost \/ gate.row = "current") /\ (l \in BOOLEAN)
      OBVIOUS
    <3> HIDE DEF l
    <3>4. HasFields(gate', BanFields) /\ gate'.queue = q /\ gate'.row = "none" /\ gate'.lost = l
          /\ \A f \in BanFields \ {"queue", "row", "lost"} : gate'[f] = gate[f]
      BY <1>2, <3>1 DEF HasFields, BanFields
    <3>5. gate'.wrong = gate.wrong /\ gate'.twice = gate.twice /\ gate'.kind = gate.kind /\ gate'.lists = gate.lists
      BY <3>4 DEF BanFields
    <3>6. l => gate.twice
      BY <1>1, <3>2, <3>3 DEF BanGood
    <3> QED BY <1>1, <3>2, <3>4, <3>5, <3>6 DEF BanGood, GateGood
  <2> QED BY <2>1, <2>4, <2>5
<1> QED BY <1>3, <1>4, <1>5, <1>6

\* Requests for the status.
LEMMA StatusInv ==
    ASSUME GateGood(gate),
           (\E asked \in Asks, known \in BOOLEAN : StatusMessage(asked, known)) \/ AnswerStatus \/ StatusTime
    PROVE  GateGood(gate')
<1>1. gate.kind = "status" /\ HasFields(gate, StatusFields)
  BY DEF StatusMessage, AnswerStatus, StatusTime, GateGood
<1>2. \E a, b, c : gate' = [gate EXCEPT !.since = a, !.tasks = b, !.sent = c]
  <2>1. gate = [gate EXCEPT !.since = gate.since, !.tasks = gate.tasks, !.sent = gate.sent]
    BY <1>1 DEF HasFields, StatusFields
  <2>2. CASE StatusTime
    <3>1. gate' = [gate EXCEPT !.since = gate.since + 1, !.tasks = gate.tasks, !.sent = gate.sent]
      BY <1>1, <2>2 DEF StatusTime, HasFields, StatusFields
    <3> QED BY <3>1
  <2>3. CASE AnswerStatus
    <3> DEFINE i == SendInfo(Head(gate.tasks))
               t == Tail(gate.tasks)
    <3>0. gate' = [gate EXCEPT !.tasks = t, !.sent = i]
      BY <2>3 DEF AnswerStatus
    <3> HIDE DEF i, t
    <3>1. gate' = [gate EXCEPT !.since = gate.since, !.tasks = t, !.sent = i]
      BY <1>1, <3>0 DEF HasFields, StatusFields
    <3> QED BY <3>1
  <2>4. ASSUME NEW asked, NEW known, StatusMessage(asked, known)
        PROVE  \E a, b, c : gate' = [gate EXCEPT !.since = a, !.tasks = b, !.sent = c]
    <3> DEFINE t == IF known THEN Append(gate.tasks, asked) ELSE gate.tasks
    <3>0. gate' = gate \/ gate' = [gate EXCEPT !.since = 0, !.tasks = t]
      BY <2>4 DEF StatusMessage
    <3> HIDE DEF t
    <3>1. CASE gate' = gate
      BY <2>1, <3>1
    <3>2. CASE gate' = [gate EXCEPT !.since = 0, !.tasks = t]
      <4>1. gate' = [gate EXCEPT !.since = 0, !.tasks = t, !.sent = gate.sent]
        BY <1>1, <3>2 DEF HasFields, StatusFields
      <4> QED BY <4>1
    <3> QED BY <3>0, <3>1, <3>2
  <2> QED BY <2>2, <2>3, <2>4
<1>3. PICK a, b, c : gate' = [gate EXCEPT !.since = a, !.tasks = b, !.sent = c]
  BY <1>2
<1>4. gate'.kind = "status" /\ HasFields(gate', StatusFields)
  BY <1>1, <1>3 DEF HasFields, StatusFields
<1> QED BY <1>4 DEF GateGood

\* Game::updatePremium: a day is taken when it is over, and none twice.
LEMMA PremiumLoginInv ==
    ASSUME GateGood(gate), NEW wait \in 0 .. (2 * DayLength - 1), PremiumLogin(wait)
    PROVE  GateGood(gate')
<1> DEFINE now == gate.now + wait
           logins == gate.logins - 1
           g == [gate EXCEPT !.now = now, !.logins = logins]
           u == UpdatePremium(g)
           first == IF gate.first = 0 THEN now ELSE gate.first
           days == (g.now - g.lastDay) \div DayLength
<1>1. gate.kind = "premium" /\ gate' = [u EXCEPT !.first = IF @ = 0 THEN g.now ELSE @]
  BY DEF PremiumLogin
<1>2. PremiumGood(gate) /\ HasFields(gate, PremiumFields)
  BY <1>1 DEF GateGood, PremiumGood
<1>3. DayLength \in Nat \ {0} /\ PremiumDays \in Nat /\ PremiumDays <= 65535 /\ wait \in Nat
  <2>1. DayLength \in Nat \ {0} /\ PremiumDays \in Nat /\ PremiumDays <= 65535
    BY ServerAssumption
  <2> QED BY <2>1
<1>4. /\ gate.begun \in {0, PremiumDays, Unlimited}
      /\ gate.now \in Nat \ {0} /\ gate.first \in Nat /\ gate.lastDay \in Nat /\ gate.first <= gate.now
      /\ gate.first = 0 => gate.lastDay = 0 /\ gate.days = gate.begun
      /\ gate.begun \in {0, Unlimited} => gate.days = gate.begun
      /\ gate.first # 0 /\ gate.begun \notin {0, Unlimited} =>
           \/ gate.days = 0 /\ gate.begun * DayLength <= gate.now - gate.first
           \/ /\ gate.days \in 1 .. gate.begun /\ gate.lastDay \in 1 .. gate.now /\ gate.now - gate.lastDay < DayLength
              /\ gate.lastDay = gate.first + (gate.begun - gate.days) * DayLength
  BY <1>2 DEF PremiumGood
<1>5. now \in Nat \ {0} /\ now >= gate.now /\ first \in Nat \ {0} /\ first <= now
  BY <1>3, <1>4
<1> HIDE DEF now, logins
<1>6. HasFields(g, PremiumFields) /\ g.now = now /\ g.kind = "premium" /\ g.begun = gate.begun
      /\ g.days = gate.days /\ g.lastDay = gate.lastDay /\ g.first = gate.first
  BY <1>1, <1>2 DEF HasFields, PremiumFields
<1> HIDE DEF g
<1>10. u = IF g.days \in {0, Unlimited} THEN [g EXCEPT !.lastDay = 0]
           ELSE CASE g.lastDay = 0 -> [g EXCEPT !.lastDay = g.now]
                  [] g.lastDay # 0 /\ days = 0 -> g
                  [] g.lastDay # 0 /\ days > 0 /\ days >= g.days ->
                        [g EXCEPT !.days = 0, !.lastDay = 0]
                  [] g.lastDay # 0 /\ days > 0 /\ days < g.days ->
                        [g EXCEPT !.days = @ - days,
                                  !.lastDay = g.now - ((g.now - g.lastDay) % DayLength)]
  BY Zenon DEF UpdatePremium
<1> HIDE DEF u
<1> DEFINE Writes(d, l) == /\ HasFields(u, PremiumFields) /\ u.now = now /\ u.kind = "premium" /\ u.begun = gate.begun
                           /\ u.days = d /\ u.lastDay = l /\ u.first = gate.first
<1>7. ASSUME NEW d, NEW l, Writes(d, l)
      PROVE  /\ HasFields(gate', PremiumFields) /\ gate'.kind = "premium" /\ gate'.begun = gate.begun
             /\ gate'.days = d /\ gate'.lastDay = l /\ gate'.now = now /\ gate'.first = first
  BY <1>1, <1>6, <1>7 DEF HasFields, PremiumFields
<1>8. CASE gate.days \in {0, Unlimited}
  <2>1. u = [g EXCEPT !.lastDay = 0]
    BY <1>6, <1>8, <1>10
  <2>2. Writes(gate.days, 0)
    BY <1>6, <2>1 DEF HasFields, PremiumFields
  <2> HIDE DEF first
  <2>3. /\ HasFields(gate', PremiumFields) /\ gate'.kind = "premium" /\ gate'.begun = gate.begun
        /\ gate'.days = gate.days /\ gate'.lastDay = 0 /\ gate'.now = now /\ gate'.first = first
    BY <1>7, <2>2, Zenon
  <2>4. gate.begun \notin {0, Unlimited} => gate.first # 0 /\ gate.days = 0
    <3>1. gate.begun \notin {0, Unlimited} => gate.begun \in Nat /\ gate.begun < 65535
      BY <1>3, <1>4 DEF Unlimited
    <3>2. gate.begun \notin {0, Unlimited} => gate.first # 0
      BY <1>4, <1>8
    <3> QED BY <1>4, <1>8, <3>1, <3>2 DEF Unlimited
  <2>5. gate.begun \notin {0, Unlimited} => gate.begun * DayLength <= now - first
    BY <1>3, <1>4, <1>5, <2>4 DEF first
  <2>6. PremiumGood(gate')
    BY <1>3, <1>4, <1>5, <2>3, <2>4, <2>5 DEF PremiumGood
  <2> QED BY <2>3, <2>6 DEF GateGood
<1>9. CASE gate.days \notin {0, Unlimited}
  <2>0. gate.begun \notin {0, Unlimited} /\ gate.begun \in Nat
    <3>1. gate.begun \notin {0, Unlimited}
      BY <1>4, <1>9
    <3> QED BY <1>3, <1>4, <3>1
  <2>1. CASE gate.lastDay = 0
    <3>1. u = [g EXCEPT !.lastDay = now]
      BY <1>6, <1>9, <1>10, <2>1
    <3>2. Writes(gate.days, now)
      BY <1>6, <3>1 DEF HasFields, PremiumFields
    <3> HIDE DEF first
    <3>3. /\ HasFields(gate', PremiumFields) /\ gate'.kind = "premium" /\ gate'.begun = gate.begun
          /\ gate'.days = gate.days /\ gate'.lastDay = now /\ gate'.now = now /\ gate'.first = first
      BY <1>7, <3>2, Zenon
    <3>4. gate.first = 0
      BY <1>4, <1>9, <2>0, <2>1
    <3>5. gate.days = gate.begun /\ first = now
      BY <1>4, <3>4 DEF first
    <3>6. PremiumGood(gate')
      BY <1>3, <1>4, <1>5, <2>0, <3>3, <3>5 DEF PremiumGood
    <3> QED BY <3>3, <3>6 DEF GateGood
  <2>2. CASE gate.lastDay # 0
    <3>1. gate.first # 0 /\ first = gate.first /\ gate.days \in 1 .. gate.begun /\ gate.lastDay \in 1 .. gate.now
          /\ gate.now - gate.lastDay < DayLength
          /\ gate.lastDay = gate.first + (gate.begun - gate.days) * DayLength
      BY <1>4, <1>9, <2>0, <2>2
    <3>2. now - gate.lastDay \in Nat
      BY <1>4, <1>5, <3>1
    <3>3. /\ days \in Nat /\ days * DayLength <= now - gate.lastDay /\ now - gate.lastDay < days * DayLength + DayLength
          /\ (now - gate.lastDay) % DayLength = now - gate.lastDay - days * DayLength
      <4>1. days = (now - gate.lastDay) \div DayLength
        BY <1>6
      <4> DEFINE n == now - gate.lastDay
      <4>2. n \in Nat
        BY <3>2
      <4> HIDE DEF days, n
      <4>3. /\ n \div DayLength \in Nat /\ (n \div DayLength) * DayLength <= n
            /\ n < (n \div DayLength) * DayLength + DayLength
            /\ n % DayLength = n - (n \div DayLength) * DayLength
        BY <1>3, <4>2
      <4>4. days = n \div DayLength
        BY <4>1 DEF n
      <4>5. days \in Nat /\ days * DayLength <= n /\ n < days * DayLength + DayLength
            /\ n % DayLength = n - days * DayLength
        BY <4>3, <4>4, Zenon
      <4> QED BY <4>5 DEF n
    <3> HIDE DEF first, days
    <3>4. CASE days = 0
      <4>1. u = g
        BY <1>6, <1>9, <1>10, <2>2, <3>4
      <4>2. Writes(gate.days, gate.lastDay)
        BY <1>6, <4>1 DEF HasFields, PremiumFields
      <4>3. /\ HasFields(gate', PremiumFields) /\ gate'.kind = "premium" /\ gate'.begun = gate.begun
            /\ gate'.days = gate.days /\ gate'.lastDay = gate.lastDay /\ gate'.now = now /\ gate'.first = first
        BY <1>7, <4>2, Zenon
      <4>4. now - gate.lastDay < DayLength /\ gate.lastDay <= now
        BY <1>3, <1>4, <1>5, <3>1, <3>3, <3>4
      <4>5. PremiumGood(gate')
        BY <1>3, <1>4, <1>5, <2>0, <3>1, <4>3, <4>4 DEF PremiumGood
      <4> QED BY <4>3, <4>5 DEF GateGood
    <3>5. CASE days > 0 /\ days >= gate.days
      <4>2. u = [g EXCEPT !.days = 0, !.lastDay = 0]
        <5>1. days # 0 /\ ~(days < gate.days)
          BY <3>1, <3>3, <3>5
        <5> QED BY <1>6, <1>9, <1>10, <2>2, <3>5, <5>1
      <4>1. Writes(0, 0)
        BY <1>6, <4>2 DEF HasFields, PremiumFields
      <4>3. /\ HasFields(gate', PremiumFields) /\ gate'.kind = "premium" /\ gate'.begun = gate.begun
            /\ gate'.days = 0 /\ gate'.lastDay = 0 /\ gate'.now = now /\ gate'.first = first
        BY <1>7, <4>1, Zenon
      <4>4. gate.days * DayLength <= days * DayLength
        BY <1>3, <3>1, <3>3, <3>5
      <4>5. gate.begun * DayLength <= now - first
        BY <1>3, <1>4, <1>5, <2>0, <3>1, <3>3, <4>4
      <4>6. PremiumGood(gate')
        BY <1>3, <1>4, <1>5, <2>0, <3>1, <4>3, <4>5 DEF PremiumGood
      <4> QED BY <4>3, <4>6 DEF GateGood
    <3>6. CASE days > 0 /\ days < gate.days
      <4> DEFINE rest == (g.now - g.lastDay) % DayLength
                 last == now - rest
      <4>1. Writes(gate.days - days, last)
        <5>1. days # 0 /\ ~(days >= gate.days)
          BY <3>1, <3>3, <3>6
        <5>2. u = [g EXCEPT !.days = @ - days, !.lastDay = g.now - rest]
          BY <1>6, <1>9, <1>10, <2>2, <3>6, <5>1
        <5> HIDE DEF rest
        <5> QED BY <1>6, <5>2 DEF HasFields, PremiumFields
      <4>9. rest = now - gate.lastDay - days * DayLength
        BY <1>6, <3>3
      <4>5. days * DayLength \in Nat
        BY <1>3, <3>3
      <4>2. last = gate.lastDay + days * DayLength
        <5> DEFINE d == days * DayLength
        <5>1. rest = now - gate.lastDay - d /\ d \in Nat
          BY <4>5, <4>9
        <5> HIDE DEF d, rest
        <5>2. last = gate.lastDay + d
          BY <1>4, <1>5, <5>1
        <5> QED BY <5>2 DEF d
      <4> HIDE DEF last
      <4>3. /\ HasFields(gate', PremiumFields) /\ gate'.kind = "premium" /\ gate'.begun = gate.begun
            /\ gate'.days = gate.days - days /\ gate'.lastDay = last /\ gate'.now = now /\ gate'.first = first
        BY <1>7, <4>1, Zenon
      <4>4. gate.days - days \in 1 .. gate.begun
        BY <2>0, <3>1, <3>3, <3>6
      <4>6. last \in 1 .. now /\ now - last < DayLength
        BY <1>3, <1>4, <1>5, <3>1, <3>3, <4>2, <4>5
      <4>7. last = first + (gate.begun - (gate.days - days)) * DayLength
        <5>1. gate.begun - (gate.days - days) = (gate.begun - gate.days) + days
          BY <2>0, <3>1, <3>3
        <5>2. ((gate.begun - gate.days) + days) * DayLength = (gate.begun - gate.days) * DayLength + days * DayLength
          BY <1>3, <2>0, <3>1, <3>3
        <5>3. (gate.begun - gate.days) * DayLength \in Int
          BY <1>3, <2>0, <3>1
        <5> QED BY <1>4, <3>1, <4>2, <4>5, <5>1, <5>2, <5>3
      <4>8. PremiumGood(gate')
        BY <1>3, <1>4, <1>5, <2>0, <3>1, <4>3, <4>4, <4>6, <4>7 DEF PremiumGood
      <4> QED BY <4>3, <4>8 DEF GateGood
    <3> QED BY <3>1, <3>3, <3>4, <3>5, <3>6
  <2> QED BY <2>1, <2>2
<1> QED BY <1>8, <1>9

\* A step at a gate keeps what is known of it.
LEMMA GateNextInv ==
    ASSUME GateGood(gate), GateNext
    PROVE  GateGood(gate')
<1>1. CASE \E gap \in Gaps : Connect(gap)
  BY <1>1, ConnectInv
<1>2. CASE \E m \in FirstMessages : AskToEnter(m)
  BY <1>2, AskToEnterInv
<1>3. CASE GetCharacterList \/ RunStatement \/ BanAgain \/ BanExpires
  BY <1>3, BanStepInv
<1>4. CASE (\E asked \in Asks, known \in BOOLEAN : StatusMessage(asked, known)) \/ AnswerStatus \/ StatusTime
  BY <1>4, StatusInv
<1>5. CASE \E wait \in 0 .. (2 * DayLength - 1) : PremiumLogin(wait)
  <2>1. PICK wait \in 0 .. (2 * DayLength - 1) : PremiumLogin(wait)
    BY <1>5
  <2> QED BY <2>1, PremiumLoginInv
<1> QED BY <1>1, <1>2, <1>3, <1>4, <1>5 DEF GateNext

\* The gates as they begin.
LEMMA GatesBegin ==
    ASSUME NEW g \in Gates
    PROVE  GateGood(g)
<1>1. CASE g = [kind |-> "connect", known |-> FALSE, since |-> 0, left |-> 0, count |-> 0, burst |-> 0]
  <2>1. HasFields(g, ConnectFields)
    BY <1>1 DEF HasFields, ConnectFields
  <2> QED BY <1>1, <2>1 DEF GateGood, ConnectGood
<1>2. CASE g \in [kind : {"bans"}, table : {"account", "address"}, row : {"none", "expired"},
                  queue : {<<>>}, twice : {FALSE}, lost : {FALSE}, wrong : {FALSE},
                  history : {0}, lists : {0}, checks : {BanChecks}, expiries : {1}]
  <2>1. HasFields(g, BanFields)
    BY <1>2 DEF HasFields, BanFields
  <2>2. g.kind = "bans" /\ ~g.wrong /\ ~g.lost /\ g.lists = 0 /\ g.queue = <<>>
    BY <1>2
  <2> QED BY <2>1, <2>2 DEF GateGood, BanGood
<1>3. CASE g \in [kind : {"status"}, own : BOOLEAN, since : {StatusTimeout}, tasks : {<<>>}, sent : {<<>>}]
  <2>1. HasFields(g, StatusFields) /\ g.kind = "status"
    BY <1>3 DEF HasFields, StatusFields
  <2> QED BY <2>1 DEF GateGood
<1>4. CASE \E d \in {0, PremiumDays, Unlimited} :
              g = [kind |-> "premium", begun |-> d, days |-> d, lastDay |-> 0,
                   now |-> 1, first |-> 0, logins |-> PremiumLogins]
  <2>1. PICK d \in {0, PremiumDays, Unlimited} :
              g = [kind |-> "premium", begun |-> d, days |-> d, lastDay |-> 0,
                   now |-> 1, first |-> 0, logins |-> PremiumLogins]
    BY <1>4
  <2>2. HasFields(g, PremiumFields) /\ g.kind = "premium" /\ g.begun = d /\ g.days = d /\ g.lastDay = 0 /\ g.now = 1 /\ g.first = 0
    BY <2>1 DEF HasFields, PremiumFields
  <2> QED BY <2>2 DEF GateGood, PremiumGood
<1> QED BY <1>1, <1>2, <1>3, <1>4 DEF Gates

\* What is known of a gate is enough.
LEMMA GateEnough ==
    ASSUME GateGood(gate)
    PROVE  BurstsEnd /\ BansHold /\ PremiumCounts
<1>1. BurstsEnd
  BY DEF GateGood, ConnectGood, BurstsEnd
<1>2. BansHold
  <2> SUFFICES ASSUME gate.kind = "bans" PROVE BansHold
    BY DEF BansHold
  <2>1. BanGood(gate)
    BY DEF GateGood
  <2>2. ASSUME ~gate.twice, NEW i \in DOMAIN gate.queue, NEW j \in DOMAIN gate.queue,
               gate.queue[i] = "delete", gate.queue[j] = "delete"
        PROVE  i = j
    <3>1. CASE gate.queue = <<>>
      BY <2>2, <3>1
    <3>2. CASE gate.queue = <<"insert", "delete">>
      BY <2>2, <3>2
    <3>3. CASE gate.queue = <<"delete">>
      BY <2>2, <3>3
    <3> QED BY <2>1, <2>2, <3>1, <3>2, <3>3 DEF BanGood
  <2> QED BY <2>1, <2>2 DEF BansHold, BanGood
<1>3. PremiumCounts
  <2> SUFFICES ASSUME gate.kind = "premium", gate.first # 0 PROVE PremiumCounts
    BY DEF PremiumCounts
  <2> DEFINE n == gate.now - gate.first
             gone == n \div DayLength
  <2>1. PremiumGood(gate)
    BY DEF GateGood
  <2>2. CASE gate.begun \in {0, Unlimited}
    BY <2>1, <2>2 DEF PremiumGood, PremiumCounts
  <2>3. CASE gate.begun \notin {0, Unlimited}
    <3>1. gate.begun \in Nat /\ DayLength \in Nat \ {0}
      BY <2>1, <2>3, ServerAssumption DEF PremiumGood
    <3>2. n \in Nat
      BY <2>1 DEF PremiumGood
    <3>3. \/ gate.days = 0 /\ gate.begun * DayLength <= n
          \/ /\ gate.days \in 1 .. gate.begun /\ gate.lastDay \in 1 .. gate.now /\ gate.now - gate.lastDay < DayLength
             /\ gate.lastDay = gate.first + (gate.begun - gate.days) * DayLength
      BY <2>1, <2>3 DEF PremiumGood
    <3>4. gate.days = IF gone >= gate.begun THEN 0 ELSE gate.begun - gone
      <4>1. CASE gate.days = 0 /\ gate.begun * DayLength <= n
        <5> HIDE DEF n
        <5>1. gone >= gate.begun
          BY <3>1, <3>2, <4>1, DivAtLeast
        <5> QED BY <4>1, <5>1
      <4>2. CASE /\ gate.days \in 1 .. gate.begun /\ gate.lastDay \in 1 .. gate.now /\ gate.now - gate.lastDay < DayLength
                 /\ gate.lastDay = gate.first + (gate.begun - gate.days) * DayLength
        <5> DEFINE q == gate.begun - gate.days
                   m == q * DayLength
        <5>1. q \in Nat
          BY <3>1, <4>2
        <5>2. m \in Nat
          <6> HIDE DEF q
          <6> QED BY <3>1, <5>1
        <5>3. gate.lastDay = gate.first + m
          BY <4>2
        <5>4. gate.now \in Nat /\ gate.first \in Nat
          BY <2>1 DEF PremiumGood
        <5> HIDE DEF q, m
        <5>5. m <= n /\ n < m + DayLength
          BY <3>1, <4>2, <5>2, <5>3, <5>4
        <5>6. q * DayLength <= n /\ n < q * DayLength + DayLength
          BY <5>5 DEF m
        <5> HIDE DEF n
        <5>7. n \div DayLength = q
          BY <3>1, <3>2, <5>1, <5>6, DivIs
        <5> HIDE DEF gone
        <5>8. gone = gate.begun - gate.days
          BY <5>7 DEF gone, q
        <5> QED BY <3>1, <4>2, <5>8
      <4> QED BY <3>3, <4>1, <4>2
    <3> QED BY <2>3, <3>4, Zenon DEF PremiumCounts
  <2> QED BY <2>2, <2>3
<1> QED BY <1>1, <1>2, <1>3
-------------------------------------------------------------------------------
(* Lists, loader stages, and what a step that leaves some fields alone keeps. *)
\* What is appended comes last.
LEMMA AddedIs ==
    ASSUME NEW s, IsSeq(s), NEW x
    PROVE  /\ IsSeq(Append(s, x)) /\ Len(s) \in Nat /\ DOMAIN s = 1 .. Len(s) /\ Len(Append(s, x)) = Len(s) + 1
           /\ DOMAIN Append(s, x) = 1 .. Len(s) + 1 /\ Append(s, x)[Len(s) + 1] = x
           /\ \A i \in DOMAIN s : Append(s, x)[i] = s[i]
<1>1. PICK T : s \in Seq(T)
  BY DEF IsSeq
<1>2. s \in Seq(T \cup {x}) /\ x \in T \cup {x}
  BY <1>1
<1>3. Append(s, x) \in Seq(T \cup {x})
  BY <1>2
<1> QED BY <1>2, <1>3 DEF IsSeq

\* What is taken from the front leaves the others one place nearer.
LEMMA TakenIs ==
    ASSUME NEW s, IsSeq(s), s # <<>>
    PROVE  /\ IsSeq(Tail(s)) /\ Len(s) \in Nat \ {0} /\ DOMAIN s = 1 .. Len(s) /\ Len(Tail(s)) = Len(s) - 1
           /\ DOMAIN Tail(s) = 1 .. Len(s) - 1 /\ Head(s) = s[1]
           /\ \A i \in DOMAIN Tail(s) : Tail(s)[i] = s[i + 1]
<1>1. PICK T : s \in Seq(T)
  BY DEF IsSeq
<1>2. Tail(s) \in Seq(T)
  BY <1>1
<1> QED BY <1>1, <1>2 DEF IsSeq

\* mainLoader's parts by their number.
LEMMA StagesAre ==
    /\ Len(Stages) = 11 /\ DOMAIN Stages = 1 .. 11 /\ AtResolve = 10
    /\ \A i \in 1 .. 11 :
          /\ Stages[i] \in Fallible => i \in {1, 2, 3, 5, 10}
          /\ Stages[i] \in {"config", "connect", "setup", "data", "resolve"} => i \in {1, 2, 3, 5, 10}
          /\ Stages[i] = "start" => i = 4
          /\ Stages[i] = "init" => i = 6
          /\ Stages[i] \in Protocols3 => i \in 7 .. 9
          /\ Stages[i] = "online" => i = 11
<1>1. Len(Stages) = 11 /\ DOMAIN Stages = 1 .. 11
  BY DEF Stages
<1>2. /\ Stages[1] = "config" /\ Stages[2] = "connect" /\ Stages[3] = "setup" /\ Stages[4] = "start"
      /\ Stages[5] = "data" /\ Stages[6] = "init" /\ Stages[7] = "game" /\ Stages[8] = "login"
      /\ Stages[9] = "status" /\ Stages[10] = "resolve" /\ Stages[11] = "online"
  BY DEF Stages
<1>3. \A i \in 1 .. 11 : i = 1 \/ i = 2 \/ i = 3 \/ i = 4 \/ i = 5 \/ i = 6 \/ i = 7 \/ i = 8 \/ i = 9 \/ i = 10 \/ i = 11
  OBVIOUS
<1>4. \A i \in DOMAIN Stages : Stages[i] = "resolve" <=> i = 10
  BY <1>1, <1>2, <1>3
<1>5. AtResolve = 10
  BY <1>1, <1>4 DEF AtResolve
<1> QED BY <1>1, <1>2, <1>3, <1>5 DEF Fallible, Protocols3

\* Without a task of its own the loader is neither at work nor about to be.
LEMMA LoaderIsATask ==
    ASSUME NEW s, TaskShape(s), LoadGood(s), \A i \in DOMAIN s.tasks : s.tasks[i].t # "load", s.current.t # "load"
    PROVE  ~Loading(s)
<1>1. PICK T : s.tasks \in Seq(T)
  BY DEF TaskShape, IsSeq
<1>2. s.tasks # <<>> => 1 \in DOMAIN s.tasks
  BY <1>1
<1>3. Loading(s) => s.tasks # <<>> /\ s.tasks[1].t = "load"
  BY DEF LoadGood
<1> QED BY <1>2, <1>3

\* The parts of the invariant, for a step that leaves their fields alone.
LEMMA TaskShapeKept ==
    ASSUME NEW s, NEW d, NEW F, TaskShape(s), Kept(d, s, F), "current" \notin F, "tasks" \notin F
    PROVE  TaskShape(d)
<1>1. d.current = s.current /\ d.tasks = s.tasks
  BY DEF Kept, SrvFields
<1> QED BY <1>1 DEF TaskShape

\* Likewise for the threads.
LEMMA ThreadShapeKept ==
    ASSUME NEW s, NEW d, NEW F, ThreadShape(s), Kept(d, s, F), "scheduler" \notin F, "database" \notin F
    PROVE  ThreadShape(d)
<1>1. d.scheduler = s.scheduler /\ d.database = s.database
  BY DEF Kept, SrvFields
<1> QED BY <1>1 DEF ThreadShape

\* Likewise for the ports.
LEMMA PortShapeKept ==
    ASSUME NEW s, NEW d, NEW F, PortShape(s), Kept(d, s, F), {"ports", "acceptors", "due", "stopping"} \cap F = {}
    PROVE  PortShape(d)
<1>1. d.ports = s.ports /\ d.acceptors = s.acceptors /\ d.due = s.due /\ d.stopping = s.stopping
  BY DEF Kept, SrvFields
<1> QED BY <1>1 DEF PortShape

\* Likewise for the flags.
LEMMA FlagShapeKept ==
    ASSUME NEW s, NEW d, NEW F, FlagShape(s), Kept(d, s, F), {"early", "manager", "running", "death"} \cap F = {}
    PROVE  FlagShape(d)
<1>1. d.early = s.early /\ d.manager = s.manager /\ d.running = s.running /\ d.death = s.death
  BY DEF Kept, SrvFields
<1> QED BY <1>1 DEF FlagShape

\* Likewise for how far the loader has come.
LEMMA LoadKept ==
    ASSUME NEW s, NEW d, NEW F, LoadGood(s), Kept(d, s, F), {"stage", "current", "tasks", "game", "manager"} \cap F = {},
           DOMAIN d.ports = DOMAIN s.ports
    PROVE  LoadGood(d)
<1>1. d.stage = s.stage /\ d.current = s.current /\ d.tasks = s.tasks /\ d.game = s.game /\ d.manager = s.manager
  BY DEF Kept, SrvFields
<1> QED BY <1>1 DEF LoadGood, Loading, Comes

\* Likewise for who ended what.
LEMMA EndKept ==
    ASSUME NEW s, NEW d, NEW F, EndGood(s), Kept(d, s, F),
           {"main", "stopped", "stage", "early", "current", "tasks", "dispatcher", "running", "death", "acceptors",
            "stopping", "game"} \cap F = {},
           DOMAIN d.ports = DOMAIN s.ports, d.scheduler.state = s.scheduler.state
    PROVE  EndGood(d)
<1>1. d.main = s.main /\ d.stopped = s.stopped /\ d.stage = s.stage /\ d.early = s.early /\ d.current = s.current
      /\ d.tasks = s.tasks /\ d.dispatcher = s.dispatcher
  BY DEF Kept, SrvFields
<1>2. d.running = s.running /\ d.death = s.death /\ d.acceptors = s.acceptors /\ d.stopping = s.stopping
      /\ d.game = s.game
  BY DEF Kept, SrvFields
<1> QED BY <1>1, <1>2 DEF EndGood, Loading, EndComes, Comes

\* Likewise for the last tasks.
LEMMA LastKept ==
    ASSUME NEW s, NEW d, NEW F, LastGood(s), Kept(d, s, F),
           {"main", "stopped", "early", "current", "tasks", "dispatcher", "game"} \cap F = {},
           DOMAIN d.ports = DOMAIN s.ports
    PROVE  LastGood(d)
<1>1. d.main = s.main /\ d.stopped = s.stopped /\ d.early = s.early /\ d.current = s.current
      /\ d.tasks = s.tasks /\ d.dispatcher = s.dispatcher /\ d.game = s.game
  BY DEF Kept, SrvFields
<1> QED BY <1>1 DEF LastGood, EndComes, ShutComes, Comes

\* Likewise for the services of a port.
LEMMA SharedKept ==
    ASSUME NEW s, NEW d, NEW F, SharedGood(s), Kept(d, s, F), "ports" \notin F
    PROVE  SharedGood(d)
<1>1. d.ports = s.ports
  BY DEF Kept, SrvFields
<1> QED BY <1>1 DEF SharedGood

\* Likewise for what is under way for a port.
LEMMA ServeKept ==
    ASSUME NEW s, NEW d, NEW F, ServeGood(s), Kept(d, s, F), {"ports", "due", "current", "tasks"} \cap F = {},
           d.scheduler.state = "RUNNING" => s.scheduler.state = "RUNNING"
    PROVE  ServeGood(d)
<1>1. d.ports = s.ports /\ d.due = s.due /\ d.current = s.current /\ d.tasks = s.tasks
  BY DEF Kept, SrvFields
<1> QED BY <1>1 DEF ServeGood, PortGood, OpenTask

\* The ports themselves.
LEMMA PortsKept ==
    ASSUME NEW s, NEW d, NEW F, Kept(d, s, F), "ports" \notin F
    PROVE  d.ports = s.ports /\ DOMAIN d.ports = DOMAIN s.ports
BY DEF Kept, SrvFields
-------------------------------------------------------------------------------
(* The threads and main.                                                     *)
\* The scheduler and the database thread test, wait and wake up.
LEMMA ThreadsInv ==
    ASSUME SrvGood(srv), ThreadStep \/ ThreadWorks
    PROVE  SrvGood(srv')
<1>1. HasFields(srv, SrvFields) /\ ThreadShape(srv)
  BY DEF SrvGood, SrvShape
<1>2. ASSUME NEW h, HasFields(h, {"state", "at"}), h.at \in {"loop", "tested"}
      PROVE  HasFields(LoopStep(h), {"state", "at"}) /\ LoopStep(h).state = h.state
  <2> DEFINE a == IF h.state = "TERMINATED" THEN "exited" ELSE "tested"
  <2>1. LoopStep(h) = [h EXCEPT !.at = a] \/ LoopStep(h) = [h EXCEPT !.at = "waiting"]
    BY <1>2 DEF LoopStep
  <2> HIDE DEF a
  <2>2. CASE LoopStep(h) = [h EXCEPT !.at = a]
    BY <1>2, <2>2 DEF HasFields
  <2>3. CASE LoopStep(h) = [h EXCEPT !.at = "waiting"]
    BY <1>2, <2>3 DEF HasFields
  <2> QED BY <2>1, <2>2, <2>3
<1>3. \/ Kept(srv', srv, {"scheduler"}) /\ HasFields(srv'.scheduler, {"state", "at"}) /\ srv'.scheduler.state = srv.scheduler.state
      \/ Kept(srv', srv, {"database"}) /\ HasFields(srv'.database, {"state", "at"})
  <2>1. CASE srv.scheduler.at \in {"loop", "tested"} /\ srv' = [srv EXCEPT !.scheduler = LoopStep(@)]
    <3> DEFINE h == LoopStep(srv.scheduler)
    <3>1. HasFields(h, {"state", "at"}) /\ h.state = srv.scheduler.state
      BY <1>1, <1>2, <2>1 DEF ThreadShape
    <3>2. srv' = [srv EXCEPT !.scheduler = h]
      BY <2>1
    <3> HIDE DEF h
    <3>3. Kept(srv', srv, {"scheduler"}) /\ srv'.scheduler = h
      BY <1>1, <3>2 DEF Kept, HasFields, SrvFields
    <3> QED BY <3>1, <3>3
  <2>2. CASE srv.database.at \in {"loop", "tested"} /\ srv' = [srv EXCEPT !.database = LoopStep(@)]
    <3> DEFINE h == LoopStep(srv.database)
    <3>1. HasFields(h, {"state", "at"})
      BY <1>1, <1>2, <2>2 DEF ThreadShape
    <3>2. srv' = [srv EXCEPT !.database = h]
      BY <2>2
    <3> HIDE DEF h
    <3>3. Kept(srv', srv, {"database"}) /\ srv'.database = h
      BY <1>1, <3>2 DEF Kept, HasFields, SrvFields
    <3> QED BY <3>1, <3>3
  <2>3. CASE srv' = [srv EXCEPT !.scheduler.at = "loop"]
    <3> DEFINE h == [srv.scheduler EXCEPT !.at = "loop"]
    <3>1. HasFields(h, {"state", "at"}) /\ h.state = srv.scheduler.state
      BY <1>1 DEF ThreadShape, HasFields
    <3>2. srv' = [srv EXCEPT !.scheduler = h]
      BY <2>3
    <3> HIDE DEF h
    <3>3. Kept(srv', srv, {"scheduler"}) /\ srv'.scheduler = h
      BY <1>1, <3>2 DEF Kept, HasFields, SrvFields
    <3> QED BY <3>1, <3>3
  <2>4. CASE srv' = [srv EXCEPT !.database.at = "loop"]
    <3> DEFINE h == [srv.database EXCEPT !.at = "loop"]
    <3>1. HasFields(h, {"state", "at"})
      BY <1>1 DEF ThreadShape, HasFields
    <3>2. srv' = [srv EXCEPT !.database = h]
      BY <2>4
    <3> HIDE DEF h
    <3>3. Kept(srv', srv, {"database"}) /\ srv'.database = h
      BY <1>1, <3>2 DEF Kept, HasFields, SrvFields
    <3> QED BY <3>1, <3>3
  <2> QED BY <2>1, <2>2, <2>3, <2>4 DEF ThreadStep, ThreadWorks
<1>4. PICK F : F \subseteq {"scheduler", "database"} /\ Kept(srv', srv, F)
  BY <1>3
<1>5. srv'.scheduler.state = srv.scheduler.state /\ ThreadShape(srv')
  <2>1. CASE Kept(srv', srv, {"scheduler"}) /\ HasFields(srv'.scheduler, {"state", "at"}) /\ srv'.scheduler.state = srv.scheduler.state
    <3>1. srv'.database = srv.database
      BY <2>1 DEF Kept, SrvFields
    <3> QED BY <1>1, <2>1, <3>1 DEF ThreadShape
  <2>2. CASE Kept(srv', srv, {"database"}) /\ HasFields(srv'.database, {"state", "at"})
    <3>1. srv'.scheduler = srv.scheduler
      BY <2>2 DEF Kept, SrvFields
    <3> QED BY <1>1, <2>2, <3>1 DEF ThreadShape
  <2> QED BY <1>3, <2>1, <2>2
<1>6. DOMAIN srv'.ports = DOMAIN srv.ports
  BY <1>4, PortsKept
<1>7. SrvShape(srv')
  BY <1>4, <1>5, TaskShapeKept, PortShapeKept, FlagShapeKept DEF SrvGood, SrvShape, Kept
<1>8. LoadGood(srv') /\ SharedGood(srv')
  BY <1>4, <1>6, LoadKept, SharedKept DEF SrvGood
<1>9. EndGood(srv') /\ LastGood(srv')
  BY <1>4, <1>5, <1>6, EndKept, LastKept DEF SrvGood
<1>10. ServeGood(srv')
  BY <1>4, <1>5, ServeKept DEF SrvGood
<1> QED BY <1>7, <1>8, <1>9, <1>10 DEF SrvGood

\* A step of main.
LEMMA MainInv ==
    ASSUME SrvGood(srv), NEW F, F = {"main", "early", "running", "death"}, Kept(srv', srv, F), FlagShape(srv'),
           EndGood(srv'), LastGood(srv')
    PROVE  SrvGood(srv')
<1>1. DOMAIN srv'.ports = DOMAIN srv.ports /\ srv'.scheduler = srv.scheduler
  BY DEF Kept, SrvFields
<1>2. SrvShape(srv')
  BY TaskShapeKept, ThreadShapeKept, PortShapeKept DEF SrvGood, SrvShape, Kept
<1>3. LoadGood(srv') /\ SharedGood(srv') /\ ServeGood(srv')
  BY <1>1, LoadKept, SharedKept, ServeKept DEF SrvGood
<1> QED BY <1>2, <1>3 DEF SrvGood

\* main waits, is woken for no reason, and joins the threads.
LEMMA MainStepsInv ==
    ASSUME SrvGood(srv), MainWaits \/ SpuriousWakeup \/ MainJoins \/ ServicesDie
    PROVE  SrvGood(srv')
<1> DEFINE F == {"main", "early", "running", "death"}
<1>1. HasFields(srv, SrvFields) /\ FlagShape(srv) /\ EndGood(srv) /\ LastGood(srv)
  BY DEF SrvGood, SrvShape
<1>2. /\ Kept(srv', srv, F) /\ FlagShape(srv') /\ srv'.running = srv.running
      /\ \/ srv.main = "wait" /\ srv'.main = "waiting" /\ srv'.early = srv.early /\ srv'.death = srv.death
         \/ srv.main = "waiting" /\ srv'.main = "woken" /\ srv'.early = TRUE /\ srv'.death = srv.death
         \/ srv.main = "join" /\ srv'.main = "ended" /\ srv'.early = srv.early /\ srv'.death = srv.death
         \/ srv.main = "running" /\ srv.death /\ srv'.main = "join" /\ srv'.early = srv.early /\ srv'.death = FALSE
  <2>1. CASE MainWaits
    BY <1>1, <2>1 DEF MainWaits, Kept, HasFields, SrvFields, FlagShape
  <2>2. CASE SpuriousWakeup
    BY <1>1, <2>2 DEF SpuriousWakeup, Kept, HasFields, SrvFields, FlagShape
  <2>3. CASE MainJoins
    BY <1>1, <2>3 DEF MainJoins, Kept, HasFields, SrvFields, FlagShape
  <2>4. CASE ServicesDie
    BY <1>1, <2>4 DEF ServicesDie, Kept, HasFields, SrvFields, FlagShape
  <2> QED BY <2>1, <2>2, <2>3, <2>4
<1>3. srv'.stopped = srv.stopped /\ srv'.stage = srv.stage /\ srv'.current = srv.current /\ srv'.tasks = srv.tasks
      /\ srv'.dispatcher = srv.dispatcher /\ srv'.game = srv.game
  BY <1>2 DEF Kept, SrvFields
<1>4. srv'.acceptors = srv.acceptors /\ srv'.stopping = srv.stopping /\ srv'.scheduler = srv.scheduler
      /\ srv'.ports = srv.ports
  BY <1>2 DEF Kept, SrvFields
<1>5. (EndComes(srv') <=> EndComes(srv)) /\ (ShutComes(srv') <=> ShutComes(srv)) /\ (Loading(srv') <=> Loading(srv))
  BY <1>3 DEF EndComes, ShutComes, Loading, Comes
<1>6. EndGood(srv')
  BY <1>1, <1>2, <1>3, <1>4, <1>5 DEF EndGood, FlagShape
<1>7. LastGood(srv')
  <2>1. srv'.main \in {"join", "ended"} => srv.main \in {"join", "ended"} \/ srv.stopped = "done"
    BY <1>1, <1>2 DEF EndGood
  <2>2. ~srv'.early => ~srv.early
    BY <1>2
  <2> QED BY <1>1, <1>3, <1>4, <1>5, <2>1, <2>2 DEF LastGood
<1> QED BY <1>2, <1>6, <1>7, MainInv

\* Notifying and terminating a thread keep its record.
LEMMA TerminatedIs ==
    ASSUME NEW h, HasFields(h, {"state", "at"})
    PROVE  HasFields(Terminated(h), {"state", "at"}) /\ Terminated(h).state = "TERMINATED"
<1> DEFINE k == [h EXCEPT !.state = "TERMINATED"]
<1>1. HasFields(k, {"state", "at"}) /\ k.state = "TERMINATED"
  BY DEF HasFields
<1> HIDE DEF k
<1>2. NotifiedThread(k) = k \/ NotifiedThread(k) = [k EXCEPT !.at = "loop"]
  BY DEF NotifiedThread
<1>3. HasFields(NotifiedThread(k), {"state", "at"}) /\ NotifiedThread(k).state = "TERMINATED"
  <2>1. CASE NotifiedThread(k) = k
    BY <1>1, <2>1
  <2>2. CASE NotifiedThread(k) = [k EXCEPT !.at = "loop"]
    BY <1>1, <2>2 DEF HasFields
  <2> QED BY <1>2, <2>1, <2>2
<1> QED BY <1>3 DEF Terminated, k

\* The three calls that end the threads.
ThreadsEnded(d, s) ==
    /\ Kept(d, s, {"tasks", "scheduler", "database", "due"})
    /\ d.tasks = Append(s.tasks, Job("end")) /\ d.due = {}
    /\ ThreadShape(d) /\ d.scheduler.state = "TERMINATED"

\* The three calls of the shutdown.
LEMMA ShutThreadsDoes ==
    ASSUME NEW s, SrvShape(s)
    PROVE  ThreadsEnded(ShutThreads(s), s)
<1> DEFINE a == Terminated(s.scheduler)
           b == Terminated(s.database)
           e == Append(s.tasks, Job("end"))
           c == [s EXCEPT !.scheduler = a, !.due = {}, !.database = b]
           d == [c EXCEPT !.tasks = e]
<1>1. HasFields(s, SrvFields) /\ HasFields(a, {"state", "at"}) /\ HasFields(b, {"state", "at"}) /\ a.state = "TERMINATED"
  BY TerminatedIs DEF SrvShape, ThreadShape
<1>2. c = [s EXCEPT !.scheduler = Terminated(@), !.due = {}, !.database = Terminated(@)]
  OBVIOUS
<1>3. c.tasks = s.tasks
  <2> HIDE DEF a, b
  <2> QED BY <1>1 DEF HasFields, SrvFields
<1>4. ShutThreads(s) = d
  <2>1. ShutThreads(s) = PushEnd(c)
    BY <1>2 DEF ShutThreads
  <2> HIDE DEF c
  <2>2. PushEnd(c) = d
    BY <1>3 DEF PushEnd
  <2> QED BY <2>1, <2>2
<1> HIDE DEF a, b, e
<1>5. Kept(d, s, {"tasks", "scheduler", "database", "due"}) /\ d.tasks = e /\ d.due = {} /\ d.scheduler = a /\ d.database = b
  BY <1>1 DEF Kept, HasFields, SrvFields
<1> HIDE DEF d
<1> QED BY <1>1, <1>4, <1>5 DEF ThreadsEnded, ThreadShape, e

\* A list with the end of the dispatcher put last.
LEMMA EndAppended ==
    ASSUME NEW s, NEW d, TaskShape(s), d.tasks = Append(s.tasks, Job("end")), HasFields(d.current, {"t", "p"})
    PROVE  /\ TaskShape(d) /\ EndComes(d)
           /\ DOMAIN s.tasks = 1 .. Len(s.tasks) /\ Len(s.tasks) \in Nat
           /\ DOMAIN d.tasks = 1 .. Len(s.tasks) + 1 /\ Len(d.tasks) = Len(s.tasks) + 1
           /\ d.tasks[Len(s.tasks) + 1].t = "end" /\ \A i \in DOMAIN s.tasks : d.tasks[i] = s.tasks[i]
<1> DEFINE e == Job("end")
<1>1. HasFields(e, {"t", "p"}) /\ e.t = "end"
  BY DEF Job, HasFields
<1> HIDE DEF e
<1>2. /\ IsSeq(d.tasks) /\ Len(s.tasks) \in Nat /\ DOMAIN s.tasks = 1 .. Len(s.tasks) /\ Len(d.tasks) = Len(s.tasks) + 1
      /\ DOMAIN d.tasks = 1 .. Len(s.tasks) + 1 /\ d.tasks[Len(s.tasks) + 1] = e
      /\ \A i \in DOMAIN s.tasks : d.tasks[i] = s.tasks[i]
  BY AddedIs DEF TaskShape, e
<1>3. \A i \in DOMAIN d.tasks : i = Len(s.tasks) + 1 \/ i \in DOMAIN s.tasks
  BY <1>2
<1>4. TaskShape(d)
  BY <1>1, <1>2, <1>3 DEF TaskShape
<1>5. EndComes(d)
  BY <1>1, <1>2 DEF EndComes, Comes
<1> QED BY <1>1, <1>2, <1>4, <1>5

\* main after its wait: it runs the services, or ends everything.
LEMMA MainGoesOnInv ==
    ASSUME SrvGood(srv), MainGoesOn
    PROVE  SrvGood(srv')
<1>1. HasFields(srv, SrvFields) /\ SrvShape(srv) /\ EndGood(srv) /\ LastGood(srv) /\ srv.main = "woken"
  BY DEF SrvGood, SrvShape, MainGoesOn
<1>2. CASE srv.acceptors # {}
  <2>1. srv' = [srv EXCEPT !.main = "running", !.running = TRUE]
    BY <1>2 DEF MainGoesOn
  <2> DEFINE F == {"main", "early", "running", "death"}
  <2>2. Kept(srv', srv, F) /\ srv'.main = "running" /\ srv'.running = TRUE /\ srv'.early = srv.early /\ srv'.death = srv.death
    BY <1>1, <2>1 DEF Kept, HasFields, SrvFields
  <2>3. srv'.stopped = srv.stopped /\ srv'.stage = srv.stage /\ srv'.current = srv.current /\ srv'.tasks = srv.tasks
        /\ srv'.dispatcher = srv.dispatcher /\ srv'.game = srv.game /\ srv'.manager = srv.manager
    BY <2>2 DEF Kept, SrvFields
  <2>4. srv'.acceptors = srv.acceptors /\ srv'.stopping = srv.stopping /\ srv'.scheduler = srv.scheduler
        /\ srv'.ports = srv.ports
    BY <2>2 DEF Kept, SrvFields
  <2>5. (EndComes(srv') <=> EndComes(srv)) /\ (ShutComes(srv') <=> ShutComes(srv)) /\ (Loading(srv') <=> Loading(srv))
    BY <2>3 DEF EndComes, ShutComes, Loading, Comes
  <2>6. DOMAIN srv.ports # {}
    BY <1>1, <1>2 DEF SrvShape, PortShape
  <2>7. EndGood(srv')
    BY <1>1, <2>2, <2>3, <2>4, <2>5, <2>6 DEF EndGood
  <2>8. LastGood(srv')
    BY <1>1, <2>2, <2>3, <2>4, <2>5 DEF LastGood
  <2>9. FlagShape(srv')
    BY <1>1, <2>2, <2>3 DEF SrvShape, FlagShape
  <2> QED BY <2>2, <2>7, <2>8, <2>9, MainInv
<1>3. CASE srv.acceptors = {}
  <2> DEFINE c == ShutThreads(srv)
             F == {"main", "tasks", "scheduler", "database", "due"}
  <2>1. srv' = [c EXCEPT !.main = "join"]
    BY <1>3 DEF MainGoesOn
  <2>2. ThreadsEnded(c, srv)
    BY <1>1, ShutThreadsDoes
  <2> HIDE DEF c
  <2>3. HasFields(srv', SrvFields) /\ srv'.main = "join" /\ \A f \in SrvFields \ {"main"} : srv'[f] = c[f]
    BY <2>1, <2>2 DEF ThreadsEnded, Kept, HasFields, SrvFields
  <2>4. Kept(srv', srv, F)
    BY <2>2, <2>3 DEF ThreadsEnded, Kept
  <2>5. srv'.tasks = Append(srv.tasks, Job("end")) /\ srv'.due = {} /\ srv'.scheduler = c.scheduler /\ srv'.database = c.database
    BY <2>2, <2>3 DEF ThreadsEnded, SrvFields
  <2>6. ThreadShape(srv') /\ srv'.scheduler.state = "TERMINATED"
    BY <2>2, <2>5 DEF ThreadsEnded, ThreadShape
  <2>7. srv'.stopped = srv.stopped /\ srv'.stage = srv.stage /\ srv'.current = srv.current /\ srv'.early = srv.early
        /\ srv'.dispatcher = srv.dispatcher /\ srv'.game = srv.game /\ srv'.manager = srv.manager
    BY <2>4 DEF Kept, SrvFields
  <2>8. srv'.acceptors = srv.acceptors /\ srv'.stopping = srv.stopping /\ srv'.ports = srv.ports
        /\ srv'.running = srv.running /\ srv'.death = srv.death
    BY <2>4 DEF Kept, SrvFields
  <2>9. TaskShape(srv) /\ HasFields(srv'.current, {"t", "p"})
    BY <1>1, <2>7 DEF SrvShape, TaskShape
  <2>10. /\ TaskShape(srv') /\ EndComes(srv')
         /\ DOMAIN srv.tasks = 1 .. Len(srv.tasks) /\ Len(srv.tasks) \in Nat
         /\ DOMAIN srv'.tasks = 1 .. Len(srv.tasks) + 1
         /\ srv'.tasks[Len(srv.tasks) + 1].t = "end" /\ \A i \in DOMAIN srv.tasks : srv'.tasks[i] = srv.tasks[i]
    BY <2>5, <2>9, EndAppended
  <2>11. \A i \in DOMAIN srv'.tasks : srv'.tasks[i].t # "end" => i \in DOMAIN srv.tasks /\ srv'.tasks[i] = srv.tasks[i]
    BY <2>10
  <2>12. srv.stopped # "done" /\ DOMAIN srv.ports = {}
    BY <1>1, <1>3 DEF EndGood
  <2>13. SrvShape(srv')
    <3>1. PortShape(srv')
      BY <1>1, <2>5, <2>8 DEF SrvShape, PortShape
    <3>2. FlagShape(srv')
      BY <1>1, <2>4, FlagShapeKept DEF SrvShape
    <3> QED BY <2>3, <2>6, <2>10, <3>1, <3>2 DEF SrvShape
  <2>14. LoadGood(srv')
    <3>1. LoadGood(srv)
      BY DEF SrvGood
    <3>2. srv.tasks # <<>> => 1 \in DOMAIN srv.tasks
      BY <2>9, <2>10 DEF TaskShape, IsSeq
    <3>3. srv'.tasks # <<>>
      BY <2>10
    <3>4. Loading(srv') => srv'.current.t = "load" \/ (srv'.tasks # <<>> /\ srv'.tasks[1].t = "load")
      BY <2>7, <2>10, <3>1, <3>2, <3>3 DEF LoadGood, Loading
    <3>5. \A i \in DOMAIN srv'.tasks : srv'.tasks[i].t = "load" => i = 1 /\ srv'.current = NoJob /\ srv'.stage = 1
      BY <2>7, <2>11, <3>1 DEF LoadGood
    <3>6. Comes(srv', "close") => Comes(srv, "close")
      BY <2>7, <2>11 DEF Comes
    <3> QED BY <2>7, <2>8, <3>1, <3>4, <3>5, <3>6 DEF LoadGood, Loading
  <2>15. EndGood(srv')
    <3>1. srv'.running = FALSE
      BY <1>1, <2>8 DEF EndGood, SrvShape, FlagShape
    <3>2. Loading(srv') <=> Loading(srv)
      BY <2>7 DEF Loading
    <3> QED BY <1>1, <2>3, <2>6, <2>7, <2>8, <2>10, <2>12, <3>1, <3>2 DEF EndGood
  <2>16. LastGood(srv')
    <3>1. ShutComes(srv') => ShutComes(srv)
      BY <2>7, <2>11 DEF ShutComes, Comes
    <3> QED BY <1>1, <2>7, <2>8, <2>11, <2>12, <3>1 DEF LastGood
  <2>17. SharedGood(srv') /\ ServeGood(srv')
    BY <2>6, <2>8 DEF SrvGood, SharedGood, ServeGood
  <2> QED BY <2>13, <2>14, <2>15, <2>16, <2>17 DEF SrvGood
<1> QED BY <1>2, <1>3

\* The dispatcher takes its next task.
LEMMA TakeJobInv ==
    ASSUME SrvGood(srv), TakeJob
    PROVE  SrvGood(srv')
<1> DEFINE h == Head(srv.tasks)
           q == Tail(srv.tasks)
           F == {"current", "tasks"}
<1>1. HasFields(srv, SrvFields) /\ TaskShape(srv) /\ EndGood(srv) /\ LastGood(srv) /\ LoadGood(srv) /\ ServeGood(srv)
      /\ srv.current = NoJob /\ srv.tasks # <<>> /\ srv.dispatcher # "TERMINATED"
  BY DEF SrvGood, SrvShape, TakeJob
<1>2. /\ IsSeq(q) /\ Len(srv.tasks) \in Nat \ {0} /\ DOMAIN srv.tasks = 1 .. Len(srv.tasks) /\ Len(q) = Len(srv.tasks) - 1
      /\ DOMAIN q = 1 .. Len(srv.tasks) - 1 /\ h = srv.tasks[1]
      /\ \A i \in DOMAIN q : q[i] = srv.tasks[i + 1]
  BY <1>1, TakenIs DEF TaskShape
<1>3. srv' = [srv EXCEPT !.current = h, !.tasks = q]
  BY DEF TakeJob
<1> HIDE DEF h, q
<1>4. Kept(srv', srv, F) /\ srv'.current = h /\ srv'.tasks = q
  BY <1>1, <1>3 DEF Kept, HasFields, SrvFields
<1>5. 1 \in DOMAIN srv.tasks /\ \A i \in DOMAIN q : i + 1 \in DOMAIN srv.tasks /\ i + 1 # 1
  BY <1>2
<1>6. \A i \in DOMAIN srv.tasks : i = 1 \/ (i - 1 \in DOMAIN q /\ q[i - 1] = srv.tasks[i])
  BY <1>2
<1>7. HasFields(h, {"t", "p"}) /\ h.t # "none" /\ TaskShape(srv')
  BY <1>1, <1>2, <1>4, <1>5 DEF TaskShape
<1>8. srv.current.t = "none"
  BY <1>1 DEF NoJob
<1>9. \A t : t # "none" => (Comes(srv', t) <=> Comes(srv, t))
  <2> SUFFICES ASSUME NEW t, t # "none" PROVE Comes(srv', t) <=> Comes(srv, t)
    OBVIOUS
  <2>1. ASSUME Comes(srv', t) PROVE Comes(srv, t)
    <3>1. CASE srv'.current.t = t
      BY <1>2, <1>4, <1>5, <3>1 DEF Comes
    <3>2. CASE \E i \in DOMAIN q : q[i].t = t
      BY <1>2, <1>5, <3>2 DEF Comes
    <3> QED BY <1>4, <2>1, <3>1, <3>2 DEF Comes
  <2>2. ASSUME Comes(srv, t) PROVE Comes(srv', t)
    <3>1. PICK i \in DOMAIN srv.tasks : srv.tasks[i].t = t
      BY <1>8, <2>2 DEF Comes
    <3>2. CASE i = 1
      BY <1>2, <1>4, <3>1, <3>2 DEF Comes
    <3>3. CASE i - 1 \in DOMAIN q /\ q[i - 1] = srv.tasks[i]
      BY <1>4, <3>1, <3>3 DEF Comes
    <3> QED BY <1>6, <3>2, <3>3
  <2> QED BY <2>1, <2>2
<1>10. srv'.main = srv.main /\ srv'.stopped = srv.stopped /\ srv'.stage = srv.stage /\ srv'.early = srv.early
       /\ srv'.dispatcher = srv.dispatcher /\ srv'.game = srv.game /\ srv'.manager = srv.manager
  BY <1>4 DEF Kept, SrvFields
<1>11. srv'.acceptors = srv.acceptors /\ srv'.stopping = srv.stopping /\ srv'.ports = srv.ports /\ srv'.due = srv.due
       /\ srv'.running = srv.running /\ srv'.death = srv.death /\ srv'.scheduler = srv.scheduler
  BY <1>4 DEF Kept, SrvFields
<1>12. (EndComes(srv') <=> EndComes(srv)) /\ (ShutComes(srv') <=> ShutComes(srv)) /\ (Loading(srv') <=> Loading(srv))
  BY <1>9, <1>10 DEF EndComes, ShutComes, Loading
<1>13. SrvShape(srv')
  <2>1. ThreadShape(srv) /\ PortShape(srv) /\ FlagShape(srv)
    BY DEF SrvGood, SrvShape
  <2>2. ThreadShape(srv') /\ PortShape(srv') /\ FlagShape(srv')
    BY <1>11, <2>1, <1>4 DEF ThreadShape, PortShape, FlagShape, Kept, SrvFields
  <2> QED BY <1>4, <1>7, <2>2 DEF SrvShape, Kept
<1>14. LoadGood(srv')
  <2>1. \A i \in DOMAIN srv'.tasks : srv'.tasks[i].t # "load"
    <3>1. \A i \in DOMAIN srv.tasks : srv.tasks[i].t = "load" => i = 1
      BY <1>1 DEF LoadGood
    <3> QED BY <1>2, <1>4, <1>5, <3>1
  <2>2. Loading(srv') => srv'.current.t = "load"
    BY <1>1, <1>2, <1>4, <1>8, <1>12 DEF LoadGood
  <2>3. srv'.current.t = "load" => Loading(srv')
    <3>1. srv.tasks[1].t = "load" => srv.stage = 1
      BY <1>1, <1>5 DEF LoadGood
    <3> QED BY <1>2, <1>4, <1>10, <3>1 DEF Loading
  <2>4. Comes(srv', "close") => srv'.stage \in {12, -10}
    BY <1>1, <1>9, <1>10 DEF LoadGood
  <2> QED BY <1>1, <1>10, <1>11, <1>12, <2>1, <2>2, <2>3, <2>4 DEF LoadGood
<1>15. EndGood(srv')
  BY <1>1, <1>10, <1>11, <1>12 DEF EndGood
<1>16. LastGood(srv')
  <2>1. srv'.current.t = "shutdown" => \A i \in DOMAIN srv'.tasks : srv'.tasks[i].t # "shutdown"
    <3>1. ASSUME srv.tasks[1].t = "shutdown", NEW i \in DOMAIN q, q[i].t = "shutdown"
          PROVE  FALSE
      <4>1. i + 1 = 1
        BY <1>1, <1>2, <1>5, <3>1 DEF LastGood
      <4> QED BY <1>5, <3>1, <4>1
    <3> QED BY <1>2, <1>4, <3>1
  <2>2. \A i, j \in DOMAIN srv'.tasks : srv'.tasks[i].t = "shutdown" /\ srv'.tasks[j].t = "shutdown" => i = j
    <3> SUFFICES ASSUME NEW i \in DOMAIN q, NEW j \in DOMAIN q, q[i].t = "shutdown", q[j].t = "shutdown" PROVE i = j
      BY <1>4
    <3>1. i + 1 = j + 1
      BY <1>1, <1>2, <1>5 DEF LastGood
    <3> QED BY <1>2, <3>1
  <2>3. ASSUME DOMAIN srv.ports # {}, ~srv.early
        PROVE  /\ \A i \in DOMAIN srv'.tasks :
                     srv'.tasks[i].t = "end" => i = Len(srv'.tasks) /\ srv'.current.t # "end" /\ srv'.dispatcher # "TERMINATED"
               /\ srv'.current.t = "end" \/ srv'.dispatcher = "TERMINATED" => srv'.tasks = <<>>
    <3>1. \A i \in DOMAIN srv.tasks : srv.tasks[i].t = "end" => i = Len(srv.tasks)
      BY <1>1, <2>3 DEF LastGood
    <3>2. ASSUME NEW i \in DOMAIN q, q[i].t = "end"
          PROVE  i = Len(q) /\ h.t # "end"
      <4>1. i + 1 = Len(srv.tasks)
        BY <1>2, <1>5, <3>1, <3>2
      <4>2. Len(srv.tasks) # 1
        BY <1>2, <4>1, <3>2
      <4> QED BY <1>2, <1>5, <3>1, <4>1, <4>2
    <3>3. h.t = "end" => q = <<>>
      <4>1. h.t = "end" => Len(q) = 0
        <5>1. h.t = "end" => 1 = Len(srv.tasks)
          BY <1>2, <1>5, <3>1
        <5>2. Len(q) = Len(srv.tasks) - 1
          BY <1>2
        <5> QED BY <5>1, <5>2
      <4> QED BY <1>2, <4>1 DEF IsSeq
    <3> QED BY <1>1, <1>4, <1>10, <3>2, <3>3
  <2> QED BY <1>1, <1>10, <1>11, <1>12, <2>1, <2>2, <2>3 DEF LastGood
<1>17. SharedGood(srv')
  BY <1>4, SharedKept DEF SrvGood
<1>18. ServeGood(srv')
  <2> SUFFICES ASSUME srv.scheduler.state = "RUNNING" PROVE ServeGood(srv')
    BY <1>11 DEF ServeGood
  <2>1. ASSUME NEW p \in DOMAIN srv.ports
        PROVE  PortGood(srv', p)
    <3>1. PortGood(srv, p)
      BY <1>1, <2>1 DEF ServeGood
    <3>2. srv.current # OpenJob(p)
      BY <1>8 DEF OpenJob
    <3>3. (srv'.current = OpenJob(p) \/ OpenTask(srv', p)) <=> OpenTask(srv, p)
      BY <1>2, <1>4, <1>5, <1>6 DEF OpenTask
    <3>4. srv'.current = OpenJob(p) => ~OpenTask(srv', p)
      <4> SUFFICES ASSUME h = OpenJob(p), NEW i \in DOMAIN q, q[i] = OpenJob(p) PROVE FALSE
        BY <1>4 DEF OpenTask
      <4>1. i + 1 \in DOMAIN srv.tasks /\ i + 1 # 1 /\ srv.tasks[i + 1] = OpenJob(p) /\ srv.tasks[1] = OpenJob(p)
        BY <1>2, <1>5
      <4> QED BY <1>5, <3>1, <4>1 DEF PortGood
    <3>5. \A i, j \in DOMAIN srv'.tasks : srv'.tasks[i] = OpenJob(p) /\ srv'.tasks[j] = OpenJob(p) => i = j
      <4> SUFFICES ASSUME NEW i \in DOMAIN q, NEW j \in DOMAIN q, q[i] = OpenJob(p), q[j] = OpenJob(p) PROVE i = j
        BY <1>4
      <4>1. i + 1 = j + 1
        BY <1>2, <1>5, <3>1 DEF PortGood
      <4> QED BY <1>2, <4>1
    <3> QED BY <1>11, <3>1, <3>2, <3>3, <3>4, <3>5 DEF PortGood
  <2>2. srv'.current.t = "open" => srv'.current.p \in DOMAIN srv.ports
    BY <1>1, <1>2, <1>4, <1>5 DEF ServeGood
  <2>3. \A i \in DOMAIN srv'.tasks : srv'.tasks[i].t = "open" => srv'.tasks[i].p \in DOMAIN srv.ports
    BY <1>1, <1>2, <1>4, <1>5 DEF ServeGood
  <2> QED BY <1>11, <2>1, <2>2, <2>3 DEF ServeGood
<1> QED BY <1>13, <1>14, <1>15, <1>16, <1>17, <1>18 DEF SrvGood
-------------------------------------------------------------------------------
(* The end.                                                                  *)
\* The task of Dispatcher::shutdown.
LEMMA EndDispatcherInv ==
    ASSUME SrvGood(srv), EndDispatcher
    PROVE  SrvGood(srv')
<1> DEFINE F == {"current", "dispatcher"}
<1>1. HasFields(srv, SrvFields) /\ TaskShape(srv) /\ EndGood(srv) /\ LastGood(srv) /\ LoadGood(srv) /\ ServeGood(srv)
      /\ srv.current.t = "end"
  BY DEF SrvGood, SrvShape, EndDispatcher, Running
<1>2. Kept(srv', srv, F) /\ srv'.current = NoJob /\ srv'.dispatcher = "TERMINATED"
  BY <1>1 DEF EndDispatcher, Done, Kept, HasFields, SrvFields
<1>3. HasFields(NoJob, {"t", "p"}) /\ NoJob.t = "none"
  BY DEF NoJob, HasFields
<1>4. srv'.main = srv.main /\ srv'.stopped = srv.stopped /\ srv'.stage = srv.stage /\ srv'.early = srv.early
       /\ srv'.tasks = srv.tasks /\ srv'.game = srv.game /\ srv'.manager = srv.manager
  BY <1>2 DEF Kept, SrvFields
<1>5. srv'.acceptors = srv.acceptors /\ srv'.stopping = srv.stopping /\ srv'.ports = srv.ports /\ srv'.due = srv.due
       /\ srv'.running = srv.running /\ srv'.death = srv.death /\ srv'.scheduler = srv.scheduler
  BY <1>2 DEF Kept, SrvFields
<1>6. EndComes(srv) /\ EndComes(srv') /\ srv.scheduler.state # "RUNNING" /\ (ShutComes(srv') => ShutComes(srv))
      /\ (Loading(srv') <=> Loading(srv))
  BY <1>1, <1>2, <1>3, <1>4 DEF EndComes, ShutComes, Comes, Loading, EndGood
<1>7. SrvShape(srv')
  <2>1. TaskShape(srv')
    BY <1>1, <1>2, <1>3, <1>4 DEF TaskShape
  <2>2. ThreadShape(srv')
    BY <1>2, ThreadShapeKept DEF SrvGood, SrvShape
  <2>3. PortShape(srv')
    BY <1>2, PortShapeKept DEF SrvGood, SrvShape
  <2>4. FlagShape(srv')
    BY <1>2, FlagShapeKept DEF SrvGood, SrvShape
  <2> QED BY <1>2, <2>1, <2>2, <2>3, <2>4 DEF SrvShape, Kept
<1>8. LoadGood(srv')
  <2>1. \A i \in DOMAIN srv.tasks : srv.tasks[i].t # "load"
    BY <1>1, <1>3 DEF LoadGood
  <2>2. ~Loading(srv)
    BY <1>1, <2>1, LoaderIsATask
  <2>3. Comes(srv', "close") => Comes(srv, "close")
    BY <1>2, <1>3, <1>4 DEF Comes
  <2> QED BY <1>1, <1>2, <1>3, <1>4, <1>5, <1>6, <2>1, <2>2, <2>3 DEF LoadGood
<1>9. EndGood(srv')
  BY <1>1, <1>2, <1>4, <1>5, <1>6 DEF EndGood
<1>10. LastGood(srv')
  <2>1. ShutComes(srv') => srv'.game = "SHUTDOWN" /\ srv'.stopped = "no"
    BY <1>1, <1>4, <1>6 DEF LastGood
  <2>2. ASSUME DOMAIN srv.ports # {}, ~srv.early
        PROVE  srv.tasks = <<>> /\ (srv.main \in {"join", "ended"} => srv.stopped = "done")
    BY <1>1, <2>2 DEF LastGood
  <2>3. srv'.current.t # "shutdown"
    BY <1>2, <1>3
  <2> QED BY <1>1, <1>2, <1>4, <1>5, <2>1, <2>2, <2>3 DEF LastGood
<1>11. SharedGood(srv') /\ ServeGood(srv')
  BY <1>5, <1>6 DEF SrvGood, SharedGood, ServeGood
<1> QED BY <1>7, <1>8, <1>9, <1>10, <1>11 DEF SrvGood

\* Game::shutdown: the threads are told to end, and the services stop or do not.
LEMMA GameShutdownInv ==
    ASSUME SrvGood(srv), GameShutdown, srv.main # "ended"
    PROVE  SrvGood(srv')
<1> DEFINE c == ShutThreads(srv)
           e == StopServices(c)
           G == {"tasks", "scheduler", "database", "due"}
           F == {"current", "tasks", "scheduler", "database", "due", "stopped", "running", "stopping", "acceptors", "death"}
<1>1. HasFields(srv, SrvFields) /\ SrvShape(srv) /\ TaskShape(srv) /\ PortShape(srv) /\ FlagShape(srv)
      /\ EndGood(srv) /\ LastGood(srv) /\ LoadGood(srv)
  BY DEF SrvGood, SrvShape
<1>2. srv.current.t = "shutdown" /\ srv' = [e EXCEPT !.current = NoJob]
  BY DEF GameShutdown, Running, Done
<1>3. ThreadsEnded(c, srv)
  BY <1>1, ShutThreadsDoes
<1> HIDE DEF c
<1>4. HasFields(c, SrvFields) /\ c.acceptors = srv.acceptors /\ c.stopping = srv.stopping /\ c.running = srv.running
      /\ c.death = srv.death /\ c.manager = srv.manager /\ c.stopped = srv.stopped
  BY <1>3 DEF ThreadsEnded, Kept, SrvFields
<1>5. /\ HasFields(e, SrvFields) /\ \A f \in SrvFields \ {"stopped", "running", "stopping", "acceptors", "death"} : e[f] = c[f]
      /\ \/ e.stopped = "ignored" /\ e.running = c.running /\ e.stopping = c.stopping /\ e.acceptors = c.acceptors /\ e.death = c.death
         \/ /\ srv.running
            /\ e.stopped = "done" /\ e.running = FALSE /\ e.stopping = c.acceptors /\ e.acceptors = {} /\ e.death = TRUE
  <2>1. CASE ~c.manager \/ ~c.running
    <3>1. e = [c EXCEPT !.stopped = "ignored"]
      BY <2>1 DEF StopServices
    <3> HIDE DEF e
    <3> QED BY <1>4, <3>1 DEF HasFields, SrvFields
  <2>2. CASE ~(~c.manager \/ ~c.running)
    <3>1. e = [c EXCEPT !.running = FALSE, !.stopping = c.acceptors, !.acceptors = {}, !.death = TRUE, !.stopped = "done"]
      BY <2>2 DEF StopServices
    <3>2. srv.running
      BY <1>4, <2>2
    <3> HIDE DEF e
    <3> QED BY <1>4, <3>1, <3>2 DEF HasFields, SrvFields
  <2> QED BY <2>1, <2>2
<1> HIDE DEF e
<1>6. HasFields(srv', SrvFields) /\ srv'.current = NoJob /\ \A f \in SrvFields \ {"current"} : srv'[f] = e[f]
  BY <1>2, <1>5 DEF HasFields, SrvFields
<1>7. Kept(srv', srv, F)
  BY <1>3, <1>5, <1>6 DEF ThreadsEnded, Kept
<1>8. srv'.tasks = Append(srv.tasks, Job("end")) /\ srv'.due = {} /\ srv'.scheduler = c.scheduler /\ srv'.database = c.database
  BY <1>3, <1>5, <1>6 DEF ThreadsEnded, SrvFields
<1>9. \/ srv'.stopped = "ignored" /\ srv'.running = srv.running /\ srv'.stopping = srv.stopping
         /\ srv'.acceptors = srv.acceptors /\ srv'.death = srv.death
      \/ /\ srv.running
         /\ srv'.stopped = "done" /\ srv'.running = FALSE /\ srv'.stopping = srv.acceptors
         /\ srv'.acceptors = {} /\ srv'.death = TRUE
  BY <1>4, <1>5, <1>6 DEF SrvFields
<1>10. ThreadShape(srv') /\ srv'.scheduler.state = "TERMINATED"
  BY <1>3, <1>8 DEF ThreadsEnded, ThreadShape
<1>11. srv'.main = srv.main /\ srv'.stage = srv.stage /\ srv'.early = srv.early
       /\ srv'.dispatcher = srv.dispatcher /\ srv'.game = srv.game /\ srv'.manager = srv.manager /\ srv'.ports = srv.ports
  BY <1>7 DEF Kept, SrvFields
<1>12. HasFields(NoJob, {"t", "p"}) /\ NoJob.t = "none"
  BY DEF NoJob, HasFields
<1>13. /\ TaskShape(srv') /\ EndComes(srv')
       /\ DOMAIN srv.tasks = 1 .. Len(srv.tasks) /\ Len(srv.tasks) \in Nat
       /\ DOMAIN srv'.tasks = 1 .. Len(srv.tasks) + 1 /\ Len(srv'.tasks) = Len(srv.tasks) + 1
       /\ srv'.tasks[Len(srv.tasks) + 1].t = "end" /\ \A i \in DOMAIN srv.tasks : srv'.tasks[i] = srv.tasks[i]
  <2>1. HasFields(srv'.current, {"t", "p"})
    BY <1>6, <1>12
  <2> QED BY <1>1, <1>8, <2>1, EndAppended
<1>14. \A i \in DOMAIN srv'.tasks : i = Len(srv'.tasks) \/ (i \in DOMAIN srv.tasks /\ srv'.tasks[i] = srv.tasks[i])
  BY <1>13
<1>15. /\ ~Loading(srv) /\ \A i \in DOMAIN srv.tasks : srv.tasks[i].t # "load" /\ srv.tasks[i].t # "shutdown"
  <2>1. \A i \in DOMAIN srv.tasks : srv.tasks[i].t # "load"
    BY <1>1, <1>2, <1>12 DEF LoadGood
  <2>2. \A i \in DOMAIN srv.tasks : srv.tasks[i].t # "shutdown"
    BY <1>1, <1>2 DEF LastGood
  <2>3. ~Loading(srv)
    BY <1>1, <1>2, <2>1, LoaderIsATask
  <2> QED BY <2>1, <2>2, <2>3
<1>16. srv.game = "SHUTDOWN" /\ srv.stopped = "no" /\ srv.main # "ended" /\ srv.dispatcher # "RUNNING"
       /\ (DOMAIN srv.ports # {} /\ ~srv.early => srv.main # "join" /\ ~EndComes(srv))
  <2>1. ShutComes(srv)
    BY <1>2 DEF ShutComes, Comes
  <2> QED BY <1>1, <2>1 DEF LastGood, EndGood
<1>17. \A i \in DOMAIN srv'.tasks : srv'.tasks[i].t # "load" /\ srv'.tasks[i].t # "shutdown"
  BY <1>13, <1>14, <1>15
<1>18. SrvShape(srv')
  <2>1. PortShape(srv')
    BY <1>1, <1>8, <1>9, <1>11 DEF PortShape
  <2>2. FlagShape(srv')
    BY <1>1, <1>9, <1>11 DEF FlagShape
  <2> QED BY <1>6, <1>10, <1>13, <2>1, <2>2 DEF SrvShape
<1>19. LoadGood(srv')
  <2>1. Comes(srv', "close") => Comes(srv, "close")
    BY <1>6, <1>12, <1>13, <1>14 DEF Comes
  <2>2. ~Loading(srv')
    BY <1>11, <1>15 DEF Loading
  <2> QED BY <1>1, <1>6, <1>11, <1>12, <1>17, <2>1, <2>2 DEF LoadGood, Loading
<1>20. EndGood(srv')
  <2>1. ~Loading(srv')
    BY <1>11, <1>15 DEF Loading
  <2> QED BY <1>1, <1>9, <1>10, <1>11, <1>16, <2>1 DEF EndGood
<1>21. LastGood(srv')
  <2>1. ~ShutComes(srv')
    BY <1>6, <1>12, <1>17 DEF ShutComes, Comes
  <2>2. ASSUME DOMAIN srv.ports # {}, ~srv.early, NEW i \in DOMAIN srv'.tasks, srv'.tasks[i].t = "end"
        PROVE  i = Len(srv'.tasks)
    BY <1>14, <1>16, <2>2 DEF EndComes, Comes
  <2>3. DOMAIN srv.ports # {} /\ ~srv.early => srv.dispatcher # "TERMINATED" /\ srv.main \notin {"join", "ended"}
    BY <1>16 DEF EndComes
  <2>4. srv'.current.t = "none"
    BY <1>6, <1>12
  <2> QED BY <1>11, <1>16, <1>17, <2>1, <2>2, <2>3, <2>4 DEF LastGood
<1>22. SharedGood(srv') /\ ServeGood(srv')
  BY <1>10, <1>11 DEF SrvGood, SharedGood, ServeGood
<1> QED BY <1>18, <1>19, <1>20, <1>21, <1>22 DEF SrvGood

\* Game::setGameState: there is no way back from the shutdown, which is handed over
\* while the dispatcher still takes tasks and closes the three threads.
GameClosed(d, s) ==
    /\ Kept(d, s, {"game", "tasks", "scheduler", "database", "dispatcher"})
    /\ d.game = "SHUTDOWN" /\ d.dispatcher = "CLOSING"
    /\ d.tasks = IF s.dispatcher = "RUNNING" THEN Append(s.tasks, Job("shutdown")) ELSE s.tasks
    /\ ThreadShape(d) /\ d.scheduler.state = "CLOSING"

\* Game::setGameState: nothing, a new state, or the shutdown.
LEMMA SetGameStateDoes ==
    ASSUME NEW s, SrvShape(s), NEW new
    PROVE  LET d == SetGameState(s, new)
           IN  \/ s.game \in {"SHUTDOWN", new} /\ d = s
               \/ s.game \notin {"SHUTDOWN", new} /\ new # "SHUTDOWN" /\ Kept(d, s, {"game"}) /\ d.game = new
               \/ s.game # "SHUTDOWN" /\ new = "SHUTDOWN" /\ GameClosed(d, s)
<1>1. CASE s.game \in {"SHUTDOWN", new}
  BY <1>1 DEF SetGameState
<1>2. CASE s.game \notin {"SHUTDOWN", new} /\ new # "SHUTDOWN"
  <2>1. SetGameState(s, new) = [s EXCEPT !.game = new]
    BY <1>2 DEF SetGameState
  <2>2. Kept([s EXCEPT !.game = new], s, {"game"}) /\ [s EXCEPT !.game = new].game = new
    BY DEF SrvShape, Kept, HasFields, SrvFields
  <2> QED BY <1>2, <2>1, <2>2
<1>3. CASE s.game # "SHUTDOWN" /\ new = "SHUTDOWN"
  <2> DEFINE c == [s EXCEPT !.game = new]
             j == Job("shutdown")
             e == AddJob(c, j, FALSE)
             a == [e.scheduler EXCEPT !.state = "CLOSING"]
             b == [e.database EXCEPT !.state = "CLOSING"]
             d == [e EXCEPT !.scheduler = a, !.database = b, !.dispatcher = "CLOSING"]
             q == IF s.dispatcher = "RUNNING" THEN Append(s.tasks, j) ELSE s.tasks
  <2>1. SetGameState(s, new) = d
    BY <1>3 DEF SetGameState
  <2>2. Kept(c, s, {"game"}) /\ c.game = "SHUTDOWN" /\ c.dispatcher = s.dispatcher /\ c.tasks = s.tasks
        /\ c.scheduler = s.scheduler /\ c.database = s.database
    BY <1>3 DEF SrvShape, Kept, HasFields, SrvFields
  <2> HIDE DEF c, j
  <2>3. e = IF s.dispatcher # "RUNNING" THEN c ELSE [c EXCEPT !.tasks = Append(s.tasks, j)]
    BY <2>2 DEF AddJob
  <2> HIDE DEF e
  <2>4. HasFields(e, SrvFields) /\ e.tasks = q /\ \A f \in SrvFields \ {"tasks"} : e[f] = c[f]
    <3>1. CASE s.dispatcher # "RUNNING"
      BY <2>2, <2>3, <3>1 DEF Kept
    <3>2. CASE s.dispatcher = "RUNNING"
      <4>1. e = [c EXCEPT !.tasks = q]
        BY <2>3, <3>2
      <4> HIDE DEF q
      <4> QED BY <2>2, <4>1 DEF Kept, HasFields, SrvFields
    <3> QED BY <3>1, <3>2
  <2>5. e.scheduler = s.scheduler /\ e.database = s.database /\ e.game = "SHUTDOWN"
    BY <2>2, <2>4 DEF SrvFields
  <2>6. HasFields(a, {"state", "at"}) /\ HasFields(b, {"state", "at"}) /\ a.state = "CLOSING"
    BY <2>5 DEF SrvShape, ThreadShape, HasFields
  <2> HIDE DEF a, b, q
  <2>7. HasFields(d, SrvFields) /\ d.scheduler = a /\ d.database = b /\ d.dispatcher = "CLOSING" /\ d.tasks = q /\ d.game = "SHUTDOWN"
        /\ \A f \in SrvFields \ {"tasks", "scheduler", "database", "dispatcher"} : d[f] = c[f]
    BY <2>4, <2>5 DEF HasFields, SrvFields
  <2> HIDE DEF d
  <2>8. Kept(d, s, {"game", "tasks", "scheduler", "database", "dispatcher"})
    BY <2>2, <2>7 DEF Kept
  <2>9. GameClosed(d, s)
    BY <2>6, <2>7, <2>8 DEF GameClosed, ThreadShape, q, j
  <2> QED BY <1>3, <2>1, <2>9
<1> QED BY <1>1, <1>2, <1>3

\* A game that is closed.
LEMMA ClosedInv ==
    ASSUME NEW s, NEW d, SrvGood(s), GameClosed(d, s), s.game # "SHUTDOWN", s.stage \in 7 .. 12 \/ s.stage = -10
    PROVE  SrvGood(d)
<1> DEFINE j == Job("shutdown")
           F == {"game", "tasks", "scheduler", "database", "dispatcher"}
<1>1. HasFields(s, SrvFields) /\ SrvShape(s) /\ TaskShape(s) /\ EndGood(s) /\ LastGood(s) /\ LoadGood(s)
  BY DEF SrvGood, SrvShape
<1>2. Kept(d, s, F) /\ HasFields(d, SrvFields) /\ d.game = "SHUTDOWN" /\ d.dispatcher = "CLOSING" /\ ThreadShape(d)
      /\ d.scheduler.state = "CLOSING"
  BY DEF GameClosed, Kept
<1>3. HasFields(j, {"t", "p"}) /\ j.t = "shutdown"
  BY DEF Job, HasFields
<1>4. \/ s.dispatcher = "RUNNING" /\ d.tasks = Append(s.tasks, j)
      \/ s.dispatcher # "RUNNING" /\ d.tasks = s.tasks
  BY DEF GameClosed
<1> HIDE DEF j
<1>5. IsSeq(s.tasks) /\ DOMAIN s.tasks = 1 .. Len(s.tasks) /\ Len(s.tasks) \in Nat
  BY <1>1, AddedIs DEF TaskShape
<1>6. /\ IsSeq(d.tasks) /\ \A i \in DOMAIN s.tasks : i \in DOMAIN d.tasks /\ d.tasks[i] = s.tasks[i]
      /\ \A i \in DOMAIN d.tasks : \/ i \in DOMAIN s.tasks /\ d.tasks[i] = s.tasks[i]
                                   \/ s.dispatcher = "RUNNING" /\ i = Len(s.tasks) + 1 /\ d.tasks[i] = j
  <2>1. CASE s.dispatcher = "RUNNING" /\ d.tasks = Append(s.tasks, j)
    <3>1. IsSeq(d.tasks) /\ DOMAIN d.tasks = 1 .. Len(s.tasks) + 1 /\ d.tasks[Len(s.tasks) + 1] = j
          /\ \A i \in DOMAIN s.tasks : d.tasks[i] = s.tasks[i]
      BY <1>5, <2>1, AddedIs
    <3> QED BY <1>5, <2>1, <3>1
  <2>2. CASE s.dispatcher # "RUNNING" /\ d.tasks = s.tasks
    BY <1>5, <2>2
  <2> QED BY <1>4, <2>1, <2>2
<1>7. d.main = s.main /\ d.stopped = s.stopped /\ d.stage = s.stage /\ d.early = s.early
       /\ d.current = s.current /\ d.manager = s.manager
  BY <1>2 DEF Kept, SrvFields
<1>8. d.acceptors = s.acceptors /\ d.stopping = s.stopping /\ d.ports = s.ports /\ d.due = s.due
       /\ d.running = s.running /\ d.death = s.death
  BY <1>2 DEF Kept, SrvFields
<1>9. TaskShape(d)
  BY <1>1, <1>3, <1>6, <1>7 DEF TaskShape
<1>10. SrvShape(d)
  BY <1>2, <1>9, PortShapeKept, FlagShapeKept DEF SrvGood, SrvShape
<1>11. \A t : t # "shutdown" => (Comes(d, t) <=> Comes(s, t))
  BY <1>3, <1>6, <1>7 DEF Comes
<1>12. (Loading(d) <=> Loading(s)) /\ s.stopped = "no" /\ ~ShutComes(s) /\ (EndComes(d) => EndComes(s))
  BY <1>1, <1>2, <1>7, <1>11 DEF Loading, EndGood, LastGood, EndComes
<1>13. LoadGood(d)
  <2>1. \A i \in DOMAIN d.tasks : d.tasks[i].t = "load" => i = 1 /\ d.current = NoJob /\ d.stage = 1
    BY <1>1, <1>3, <1>6, <1>7 DEF LoadGood
  <2>2. Loading(d) => d.current.t = "load"
    <3>1. Loading(s) => s.current.t = "load" \/ (1 \in DOMAIN s.tasks /\ s.tasks[1].t = "load")
      BY <1>1, <1>5 DEF LoadGood, IsSeq
    <3> QED BY <1>1, <1>7, <1>12, <3>1 DEF LoadGood
  <2> QED BY <1>1, <1>2, <1>7, <1>8, <1>11, <1>12, <2>1, <2>2 DEF LoadGood
<1>14. EndGood(d)
  BY <1>1, <1>2, <1>7, <1>8, <1>12 DEF EndGood
<1>15. LastGood(d)
  <2>1. \A i \in DOMAIN d.tasks : d.tasks[i].t = "shutdown" => i = Len(s.tasks) + 1
    BY <1>6, <1>12 DEF ShutComes, Comes
  <2>2. s.current.t # "shutdown"
    BY <1>12 DEF ShutComes, Comes
  <2>3. ASSUME DOMAIN s.ports # {}, ~s.early
        PROVE  /\ s.main \in {"join", "ended"} => s.stopped = "done"
               /\ EndComes(s) => s.dispatcher # "RUNNING"
               /\ \A i \in DOMAIN s.tasks : s.tasks[i].t = "end" => i = Len(s.tasks) /\ s.current.t # "end"
               /\ s.current.t = "end" => s.tasks = <<>>
    BY <1>1, <2>3 DEF LastGood
  <2>4. s.dispatcher # "RUNNING" => d.tasks = s.tasks
    BY <1>4
  <2>5. ASSUME DOMAIN s.ports # {}, ~s.early, NEW i \in DOMAIN d.tasks, d.tasks[i].t = "end"
        PROVE  i = Len(d.tasks) /\ d.current.t # "end"
    <3>1. i \in DOMAIN s.tasks /\ d.tasks[i] = s.tasks[i]
      BY <1>3, <1>6, <2>5
    <3>2. EndComes(s)
      BY <2>5, <3>1 DEF EndComes, Comes
    <3> QED BY <1>7, <2>3, <2>4, <2>5, <3>1, <3>2
  <2>6. ASSUME DOMAIN s.ports # {}, ~s.early, s.current.t = "end"
        PROVE  d.tasks = <<>>
    <3>1. EndComes(s)
      BY <2>6 DEF EndComes, Comes
    <3> QED BY <2>3, <2>4, <2>6, <3>1
  <2> QED BY <1>2, <1>7, <1>8, <1>12, <2>1, <2>2, <2>3, <2>5, <2>6 DEF LastGood
<1>16. SharedGood(d) /\ ServeGood(d)
  BY <1>2, <1>8 DEF SrvGood, SharedGood, ServeGood
<1> QED BY <1>10, <1>13, <1>14, <1>15, <1>16 DEF SrvGood

\* A task that asks for the end has come as far as the game's state.
LEMMA CloseGameInv ==
    ASSUME SrvGood(srv), CloseGame
    PROVE  SrvGood(srv')
<1> DEFINE c == SetGameState(srv, "SHUTDOWN")
<1>1. srv.current.t = "close" /\ srv' = [c EXCEPT !.current = NoJob]
  BY DEF CloseGame, Running, Done
<1>2. SrvShape(srv) /\ LoadGood(srv)
  BY DEF SrvGood
<1>3. srv.stage \in {12, -10}
  BY <1>1, <1>2 DEF LoadGood, Comes
<1>4. c = srv \/ (srv.game # "SHUTDOWN" /\ GameClosed(c, srv))
  BY <1>2, SetGameStateDoes
<1> HIDE DEF c
<1>5. SrvGood(c) /\ c.current = srv.current
  <2>1. CASE c = srv
    BY <2>1
  <2>2. CASE srv.game # "SHUTDOWN" /\ GameClosed(c, srv)
    BY <1>3, <2>2, ClosedInv DEF GameClosed, Kept, SrvFields
  <2> QED BY <1>4, <2>1, <2>2
<1>6. SrvShape(c) /\ TaskShape(c) /\ LoadGood(c) /\ EndGood(c) /\ LastGood(c) /\ ServeGood(c)
  BY <1>5 DEF SrvGood, SrvShape
<1> DEFINE F == {"current"}
<1>7. Kept(srv', c, F) /\ srv'.current = NoJob
  BY <1>1, <1>6 DEF SrvShape, Kept, HasFields, SrvFields
<1>8. HasFields(NoJob, {"t", "p"}) /\ NoJob.t = "none"
  BY DEF NoJob, HasFields
<1>9. srv'.main = c.main /\ srv'.stopped = c.stopped /\ srv'.stage = c.stage /\ srv'.early = c.early
       /\ srv'.tasks = c.tasks /\ srv'.game = c.game /\ srv'.manager = c.manager /\ srv'.dispatcher = c.dispatcher
  BY <1>7 DEF Kept, SrvFields
<1>10. srv'.acceptors = c.acceptors /\ srv'.stopping = c.stopping /\ srv'.ports = c.ports /\ srv'.due = c.due
       /\ srv'.running = c.running /\ srv'.death = c.death /\ srv'.scheduler = c.scheduler
  BY <1>7 DEF Kept, SrvFields
<1>11. \A t : t \notin {"close", "none"} => (Comes(srv', t) <=> Comes(c, t))
  BY <1>1, <1>5, <1>7, <1>8, <1>9 DEF Comes
<1>12. (Loading(srv') <=> Loading(c)) /\ (EndComes(srv') <=> EndComes(c)) /\ (ShutComes(srv') <=> ShutComes(c))
  BY <1>9, <1>11 DEF Loading, EndComes, ShutComes
<1>13. SrvShape(srv')
  <2>1. TaskShape(srv')
    BY <1>6, <1>7, <1>8, <1>9 DEF TaskShape
  <2>2. ThreadShape(srv')
    BY <1>6, <1>7, ThreadShapeKept DEF SrvShape
  <2>3. PortShape(srv')
    BY <1>6, <1>7, PortShapeKept DEF SrvShape
  <2>4. FlagShape(srv')
    BY <1>6, <1>7, FlagShapeKept DEF SrvShape
  <2> QED BY <1>7, <2>1, <2>2, <2>3, <2>4 DEF SrvShape, Kept
<1>14. LoadGood(srv')
  <2>1. \A i \in DOMAIN c.tasks : c.tasks[i].t # "load"
    BY <1>1, <1>5, <1>6, <1>8 DEF LoadGood
  <2>2. ~Loading(c)
    BY <1>1, <1>5, <1>6, <2>1, LoaderIsATask DEF SrvShape
  <2>3. Comes(srv', "close") => Comes(c, "close")
    BY <1>7, <1>8, <1>9 DEF Comes
  <2> QED BY <1>6, <1>7, <1>8, <1>9, <1>10, <1>12, <2>1, <2>2, <2>3 DEF LoadGood
<1>15. EndGood(srv')
  BY <1>6, <1>9, <1>10, <1>12 DEF EndGood
<1>16. LastGood(srv')
  <2>1. srv'.current.t = "none"
    BY <1>7, <1>8
  <2> QED BY <1>6, <1>9, <1>10, <1>12, <2>1 DEF LastGood
<1>17. SharedGood(srv')
  BY <1>5, <1>10 DEF SrvGood, SharedGood
<1>18. ServeGood(srv')
  <2>1. \A p : c.current # OpenJob(p) /\ srv'.current # OpenJob(p)
    BY <1>1, <1>5, <1>7, <1>8 DEF OpenJob
  <2>2. srv'.current.t # "open"
    BY <1>7, <1>8
  <2> QED BY <1>6, <1>9, <1>10, <2>1, <2>2 DEF ServeGood, PortGood, OpenTask
<1> QED BY <1>13, <1>14, <1>15, <1>16, <1>17, <1>18 DEF SrvGood

\* The end is asked for.
LEMMA AskShutdownInv ==
    ASSUME SrvGood(srv), AskShutdown
    PROVE  SrvGood(srv')
<1> DEFINE j == Job("close")
           q == Append(srv.tasks, j)
           F == {"tasks", "asked"}
<1>1. HasFields(srv, SrvFields) /\ SrvShape(srv) /\ TaskShape(srv) /\ LoadGood(srv) /\ EndGood(srv) /\ LastGood(srv)
      /\ ServeGood(srv) /\ srv.current = NoJob /\ srv.dispatcher = "RUNNING"
  BY DEF SrvGood, SrvShape, AskShutdown
<1>2. srv.stage \in {12, -10}
  BY <1>1, StagesAre DEF AskShutdown, LoadGood, Loading
<1>3. srv' = [[srv EXCEPT !.tasks = q] EXCEPT !.asked = TRUE]
  BY DEF AskShutdown, AddJob
<1>4. HasFields(j, {"t", "p"}) /\ j.t = "close"
  BY DEF Job, HasFields
<1> HIDE DEF j
<1>5. /\ IsSeq(q) /\ Len(srv.tasks) \in Nat /\ DOMAIN srv.tasks = 1 .. Len(srv.tasks)
      /\ DOMAIN q = 1 .. Len(srv.tasks) + 1 /\ q[Len(srv.tasks) + 1] = j
      /\ \A i \in DOMAIN srv.tasks : q[i] = srv.tasks[i]
  BY <1>1, AddedIs DEF TaskShape
<1> HIDE DEF q
<1>6. Kept(srv', srv, F) /\ srv'.tasks = q
  BY <1>1, <1>3 DEF Kept, HasFields, SrvFields
<1>7. \A i \in DOMAIN q : \/ i = Len(srv.tasks) + 1 /\ q[i] = j
                          \/ i \in DOMAIN srv.tasks /\ q[i] = srv.tasks[i]
  BY <1>5
<1>8. \A i \in DOMAIN q : q[i].t # "close" => i \in DOMAIN srv.tasks /\ q[i] = srv.tasks[i]
  BY <1>4, <1>7
<1>9. srv'.main = srv.main /\ srv'.stopped = srv.stopped /\ srv'.stage = srv.stage /\ srv'.early = srv.early
       /\ srv'.current = srv.current /\ srv'.game = srv.game /\ srv'.manager = srv.manager /\ srv'.dispatcher = srv.dispatcher
  BY <1>6 DEF Kept, SrvFields
<1>10. srv'.acceptors = srv.acceptors /\ srv'.stopping = srv.stopping /\ srv'.ports = srv.ports /\ srv'.due = srv.due
       /\ srv'.running = srv.running /\ srv'.death = srv.death /\ srv'.scheduler = srv.scheduler
  BY <1>6 DEF Kept, SrvFields
<1>11. \A t : t # "close" => (Comes(srv', t) => Comes(srv, t))
  BY <1>6, <1>8, <1>9 DEF Comes
<1>12. (Loading(srv') <=> Loading(srv)) /\ (EndComes(srv') => EndComes(srv)) /\ (ShutComes(srv') => ShutComes(srv))
       /\ ~Loading(srv)
  BY <1>2, <1>9, <1>11 DEF Loading, EndComes, ShutComes
<1>13. SrvShape(srv')
  <2>1. TaskShape(srv')
    BY <1>1, <1>4, <1>5, <1>6, <1>7, <1>9 DEF TaskShape
  <2>2. ThreadShape(srv')
    BY <1>1, <1>6, ThreadShapeKept DEF SrvShape
  <2>3. PortShape(srv')
    BY <1>1, <1>6, PortShapeKept DEF SrvShape
  <2>4. FlagShape(srv')
    BY <1>1, <1>6, FlagShapeKept DEF SrvShape
  <2> QED BY <1>6, <2>1, <2>2, <2>3, <2>4 DEF SrvShape, Kept
<1>14. LoadGood(srv')
  <2>1. \A i \in DOMAIN srv.tasks : srv.tasks[i].t # "load"
    BY <1>1, <1>12 DEF LoadGood, Loading
  <2>2. \A i \in DOMAIN srv'.tasks : srv'.tasks[i].t # "load"
    BY <1>6, <1>8, <2>1
  <2> QED BY <1>1, <1>2, <1>9, <1>10, <1>12, <2>2 DEF LoadGood
<1>15. EndGood(srv')
  BY <1>1, <1>9, <1>10, <1>12 DEF EndGood
<1>16. LastGood(srv')
  <2>1. DOMAIN srv.ports # {} /\ ~srv.early => ~EndComes(srv) /\ (srv.main \in {"join", "ended"} => srv.stopped = "done")
    BY <1>1 DEF LastGood
  <2>2. \A i \in DOMAIN srv.tasks : srv.tasks[i].t = "end" => EndComes(srv)
    BY DEF EndComes, Comes
  <2>3. \A i \in DOMAIN srv'.tasks : srv'.tasks[i].t \in {"end", "shutdown"} => i \in DOMAIN srv.tasks /\ srv'.tasks[i] = srv.tasks[i]
    BY <1>6, <1>8
  <2>4. srv'.current.t = "none" /\ srv'.dispatcher # "TERMINATED"
    BY <1>1, <1>9 DEF NoJob
  <2> QED BY <1>1, <1>9, <1>10, <1>12, <2>1, <2>2, <2>3, <2>4 DEF LastGood
<1>17. SharedGood(srv')
  BY <1>6, SharedKept DEF SrvGood
<1>18. ServeGood(srv')
  <2>1. \A i \in DOMAIN srv'.tasks : srv'.tasks[i].t = "open" => i \in DOMAIN srv.tasks /\ srv'.tasks[i] = srv.tasks[i]
    BY <1>6, <1>8
  <2>2. \A p : OpenJob(p).t = "open"
    BY DEF OpenJob
  <2>3. \A p : OpenTask(srv', p) <=> OpenTask(srv, p)
    BY <1>5, <1>6, <2>1, <2>2 DEF OpenTask
  <2> QED BY <1>1, <1>9, <1>10, <2>1, <2>2, <2>3 DEF ServeGood, PortGood
<1> QED BY <1>13, <1>14, <1>15, <1>16, <1>17, <1>18 DEF SrvGood
-------------------------------------------------------------------------------
(* The loader.                                                               *)
\* While the loader runs, nothing else does, and nothing has been stopped.
LEMMA LoaderRuns ==
    ASSUME NEW s, SrvGood(s), s.current.t = "load"
    PROVE  /\ Loading(s) /\ s.stage \in 1 .. 11 /\ s.stopped = "no" /\ ~s.death /\ s.stopping = {} /\ s.acceptors = DOMAIN s.ports
           /\ s.current # NoJob /\ (\A i \in DOMAIN s.tasks : s.tasks[i].t # "load")
           /\ ~Comes(s, "close") /\ \A p : s.current # OpenJob(p)
<1>1. LoadGood(s) /\ EndGood(s)
  BY DEF SrvGood
<1>2. NoJob.t = "none" /\ \A p : OpenJob(p).t = "open"
  BY DEF NoJob, OpenJob
<1>3. Loading(s) /\ s.stage \in 1 .. 11
  BY <1>1 DEF LoadGood, Loading
<1> QED BY <1>1, <1>2, <1>3 DEF LoadGood, EndGood

\* The loader goes on to its next part.
LEMMA LoaderGoesOn ==
    ASSUME NEW s, NEW d, SrvGood(s), s.current.t = "load", s.stage # 11,
           Kept(d, s, {"stage", "database", "game", "asked"}), ThreadShape(d), d.stage = s.stage + 1,
           d.game = IF s.stage = 6 THEN "INIT" ELSE s.game
    PROVE  SrvGood(d)
<1> DEFINE F == {"stage", "database", "game", "asked"}
<1>1. SrvShape(s) /\ LoadGood(s) /\ EndGood(s) /\ LastGood(s)
  BY DEF SrvGood
<1>2. /\ Loading(s) /\ s.stage \in 1 .. 11 /\ s.stopped = "no"
      /\ s.current # NoJob /\ (\A i \in DOMAIN s.tasks : s.tasks[i].t # "load") /\ ~Comes(s, "close")
  BY LoaderRuns
<1>3. d.main = s.main /\ d.stopped = s.stopped /\ d.tasks = s.tasks /\ d.early = s.early
       /\ d.current = s.current /\ d.manager = s.manager /\ d.dispatcher = s.dispatcher
  BY DEF Kept, SrvFields
<1>4. d.acceptors = s.acceptors /\ d.stopping = s.stopping /\ d.ports = s.ports /\ d.due = s.due
       /\ d.running = s.running /\ d.death = s.death /\ d.scheduler = s.scheduler
  BY DEF Kept, SrvFields
<1>5. Loading(d) /\ d.stage \in 2 .. 11 /\ (EndComes(d) <=> EndComes(s)) /\ (ShutComes(d) <=> ShutComes(s)) /\ ~Comes(d, "close")
  BY <1>2, <1>3 DEF Loading, EndComes, ShutComes, Comes
<1>6. s.stage = 6 => s.game = "STARTUP"
  BY <1>1 DEF LoadGood
<1>7. SrvShape(d)
  <2>1. TaskShape(d)
    BY <1>1, TaskShapeKept DEF SrvShape
  <2>2. PortShape(d)
    BY <1>1, PortShapeKept DEF SrvShape
  <2>3. FlagShape(d)
    BY <1>1, FlagShapeKept DEF SrvShape
  <2> QED BY <2>1, <2>2, <2>3 DEF SrvShape, Kept
<1>8. LoadGood(d)
  <2>1. DOMAIN d.ports # {} => d.stage \in 8 .. 12
    BY <1>1, <1>2, <1>4, <1>5 DEF LoadGood
  <2>2. (d.stage \in 1 .. 6 => d.game = "STARTUP") /\ (d.stage \in 7 .. 11 => d.game \in {"INIT", "SHUTDOWN"})
    BY <1>1, <1>2, <1>5 DEF LoadGood
  <2>3. ~d.manager
    BY <1>1, <1>2, <1>3 DEF LoadGood
  <2> QED BY <1>2, <1>3, <1>5, <2>1, <2>2, <2>3 DEF LoadGood, Loading
<1>9. EndGood(d)
  <2>1. d.game = "SHUTDOWN" <=> s.game = "SHUTDOWN"
    BY <1>6
  <2> QED BY <1>1, <1>2, <1>3, <1>4, <1>5, <2>1 DEF EndGood
<1>10. LastGood(d)
  <2>1. d.game = "SHUTDOWN" <=> s.game = "SHUTDOWN"
    BY <1>6
  <2> QED BY <1>1, <1>3, <1>4, <1>5, <2>1 DEF LastGood
<1>11. SharedGood(d) /\ ServeGood(d)
  BY <1>4, SharedKept, ServeKept DEF SrvGood
<1> QED BY <1>7, <1>8, <1>9, <1>10, <1>11 DEF SrvGood

\* The loader is through, or gives up, and wakes main.
LEMMA LoaderEnds ==
    ASSUME NEW s, NEW d, SrvGood(s), s.current.t = "load",
           Kept(d, s, {"stage", "manager", "game", "main", "current"}), d.current = NoJob,
           d.main = IF s.main = "waiting" THEN "woken" ELSE s.main,
           \/ /\ s.stage = 11 /\ d.stage = 12 /\ d.manager = TRUE
              /\ d.game = IF s.game = "SHUTDOWN" THEN s.game ELSE "NORMAL"
           \/ /\ s.stage \in {1, 2, 3, 5, 10} /\ d.stage = -s.stage
              /\ d.manager = s.manager /\ d.game = s.game
    PROVE  SrvGood(d)
<1> DEFINE F == {"stage", "manager", "game", "main", "current"}
<1>1. SrvShape(s) /\ TaskShape(s) /\ FlagShape(s) /\ LoadGood(s) /\ EndGood(s) /\ LastGood(s)
  BY DEF SrvGood, SrvShape
<1>2. /\ Loading(s) /\ s.stage \in 1 .. 11 /\ s.stopped = "no"
      /\ s.current # NoJob /\ (\A i \in DOMAIN s.tasks : s.tasks[i].t # "load") /\ ~Comes(s, "close")
      /\ \A p : s.current # OpenJob(p)
  BY LoaderRuns
<1>3. HasFields(NoJob, {"t", "p"}) /\ NoJob.t = "none"
  BY DEF NoJob, HasFields
<1>4. d.stopped = s.stopped /\ d.tasks = s.tasks /\ d.early = s.early /\ d.dispatcher = s.dispatcher
  BY DEF Kept, SrvFields
<1>5. d.acceptors = s.acceptors /\ d.stopping = s.stopping /\ d.ports = s.ports /\ d.due = s.due
       /\ d.running = s.running /\ d.death = s.death /\ d.scheduler = s.scheduler
  BY DEF Kept, SrvFields
<1>6. d.stage \in {12, -1, -2, -3, -5, -10} /\ ~Loading(d)
  BY DEF Loading
<1>7. \A t : t # "none" => (Comes(d, t) => Comes(s, t))
  BY <1>3, <1>4 DEF Comes
<1>8. \A t : t \notin {"none", "load"} => (Comes(s, t) => Comes(d, t))
  BY <1>4 DEF Comes
<1>9. (EndComes(d) <=> EndComes(s)) /\ (ShutComes(d) <=> ShutComes(s)) /\ ~Comes(d, "close")
  BY <1>2, <1>4, <1>7, <1>8 DEF EndComes, ShutComes
<1>10. d.game = "SHUTDOWN" <=> s.game = "SHUTDOWN"
  BY <1>1
<1>11. SrvShape(d)
  <2>1. TaskShape(d)
    BY <1>1, <1>3, <1>4 DEF TaskShape
  <2>2. ThreadShape(d) /\ PortShape(d)
    BY <1>1, ThreadShapeKept, PortShapeKept DEF SrvShape
  <2>3. FlagShape(d)
    BY <1>1, <1>4, <1>5 DEF FlagShape
  <2> QED BY <2>1, <2>2, <2>3 DEF SrvShape, Kept
<1>12. LoadGood(d)
  <2>1. DOMAIN d.ports # {} => d.stage \in {12, -10}
    BY <1>1, <1>2, <1>5 DEF LoadGood
  <2>2. /\ d.stage \in {-1, -2, -3, -5} => d.game = "STARTUP"
        /\ d.stage = -10 => d.game \in {"INIT", "SHUTDOWN"}
        /\ d.stage = 12 => d.game \in {"NORMAL", "SHUTDOWN"}
    BY <1>1, <1>2 DEF LoadGood
  <2>3. d.manager <=> d.stage = 12
    BY <1>1, <1>2 DEF LoadGood
  <2>4. d.current.t = "none" /\ \A i \in DOMAIN d.tasks : d.tasks[i].t # "load"
    BY <1>2, <1>3, <1>4
  <2> QED BY <1>6, <1>9, <2>1, <2>2, <2>3, <2>4 DEF LoadGood, Loading
<1>13. EndGood(d)
  <2>1. d.main = s.main \/ (s.main = "waiting" /\ d.main = "woken")
    OBVIOUS
  <2> QED BY <1>1, <1>2, <1>4, <1>5, <1>6, <1>9, <1>10, <2>1 DEF EndGood
<1>14. LastGood(d)
  <2>1. d.current.t = "none"
    BY <1>3
  <2>2. d.main \in {"join", "ended"} => s.main \in {"join", "ended"}
    OBVIOUS
  <2> QED BY <1>1, <1>4, <1>5, <1>9, <1>10, <2>1, <2>2 DEF LastGood
<1>15. SharedGood(d)
  BY <1>5 DEF SrvGood, SharedGood
<1>16. ServeGood(d)
  <2>1. \A p : d.current # OpenJob(p)
    BY <1>3 DEF OpenJob
  <2>2. d.current.t # "open"
    BY <1>3
  <2> QED BY <1>2, <1>4, <1>5, <2>1, <2>2 DEF SrvGood, ServeGood, PortGood, OpenTask
<1> QED BY <1>11, <1>12, <1>13, <1>14, <1>15, <1>16 DEF SrvGood

\* startupErrorMessage.
LEMMA LoadFailsInv ==
    ASSUME SrvGood(srv), LoadFails
    PROVE  SrvGood(srv')
<1> DEFINE c == [srv EXCEPT !.stage = - @]
           l == LoaderSignal(c)
           m == IF srv.main = "waiting" THEN "woken" ELSE srv.main
           F == {"stage", "manager", "game", "main", "current"}
<1>1. HasFields(srv, SrvFields) /\ srv.current.t = "load" /\ Stages[srv.stage] \in Fallible
      /\ srv' = [l EXCEPT !.current = NoJob]
  BY DEF SrvGood, SrvShape, LoadFails, Running, Done
<1>2. srv.stage \in {1, 2, 3, 5, 10}
  BY <1>1, LoaderRuns, StagesAre
<1>3. HasFields(c, SrvFields) /\ c.stage = -srv.stage /\ c.main = srv.main /\ \A f \in SrvFields \ {"stage"} : c[f] = srv[f]
  BY <1>1 DEF HasFields, SrvFields
<1> HIDE DEF c
<1>4. l = c \/ l = [c EXCEPT !.main = "woken"]
  BY DEF LoaderSignal
<1>5. HasFields(l, SrvFields) /\ l.main = m /\ \A f \in SrvFields \ {"main"} : l[f] = c[f]
  <2>1. CASE srv.main = "waiting"
    <3>1. l = [c EXCEPT !.main = "woken"]
      BY <1>3, <2>1 DEF LoaderSignal
    <3> HIDE DEF l
    <3> QED BY <1>3, <2>1, <3>1 DEF HasFields, SrvFields
  <2>2. CASE srv.main # "waiting"
    BY <1>3, <2>2 DEF LoaderSignal
  <2> QED BY <2>1, <2>2
<1> HIDE DEF l
<1>6. HasFields(srv', SrvFields) /\ srv'.current = NoJob /\ \A f \in SrvFields \ {"current"} : srv'[f] = l[f]
  BY <1>1, <1>5 DEF HasFields, SrvFields
<1>7. Kept(srv', srv, F)
  BY <1>3, <1>5, <1>6 DEF Kept
<1>8. srv'.main = m /\ srv'.stage = -srv.stage /\ srv'.manager = srv.manager /\ srv'.game = srv.game
  BY <1>3, <1>5, <1>6 DEF SrvFields
<1> QED BY <1>1, <1>2, <1>6, <1>7, <1>8, LoaderEnds

\* The last part: services->add is through, the game opens and main is woken.
LEMMA LoadOnlineInv ==
    ASSUME SrvGood(srv), srv.current.t = "load", srv.stage = 11,
           srv' = Done(LoaderSignal(SetGameState([srv EXCEPT !.stage = 12, !.manager = TRUE], "NORMAL")))
    PROVE  SrvGood(srv')
<1> DEFINE c == [srv EXCEPT !.stage = 12, !.manager = TRUE]
           g == SetGameState(c, "NORMAL")
           l == LoaderSignal(g)
           m == IF srv.main = "waiting" THEN "woken" ELSE srv.main
           F == {"stage", "manager", "game", "main", "current"}
<1>1. HasFields(srv, SrvFields) /\ srv' = [l EXCEPT !.current = NoJob]
  BY DEF SrvGood, SrvShape, Done
<1>2. srv.game \in {"INIT", "SHUTDOWN"}
  BY DEF SrvGood, LoadGood
<1>3. HasFields(c, SrvFields) /\ c.stage = 12 /\ c.manager = TRUE /\ c.main = srv.main /\ c.game = srv.game
      /\ \A f \in SrvFields \ {"stage", "manager"} : c[f] = srv[f]
  BY <1>1 DEF HasFields, SrvFields
<1> HIDE DEF c
<1>4. HasFields(g, SrvFields) /\ g.game = (IF srv.game = "SHUTDOWN" THEN srv.game ELSE "NORMAL")
      /\ \A f \in SrvFields \ {"game"} : g[f] = c[f]
  <2>1. CASE srv.game = "SHUTDOWN"
    BY <1>3, <2>1 DEF SetGameState
  <2>2. CASE srv.game = "INIT"
    <3>1. g = [c EXCEPT !.game = "NORMAL"]
      BY <1>3, <2>2 DEF SetGameState
    <3> HIDE DEF g
    <3> QED BY <1>3, <2>2, <3>1 DEF HasFields, SrvFields
  <2> QED BY <1>2, <2>1, <2>2
<1>5. g.main = srv.main
  BY <1>3, <1>4 DEF SrvFields
<1> HIDE DEF g
<1>6. HasFields(l, SrvFields) /\ l.main = m /\ \A f \in SrvFields \ {"main"} : l[f] = g[f]
  <2>1. CASE srv.main = "waiting"
    <3>1. l = [g EXCEPT !.main = "woken"]
      BY <1>5, <2>1 DEF LoaderSignal
    <3> HIDE DEF l
    <3> QED BY <1>4, <2>1, <3>1 DEF HasFields, SrvFields
  <2>2. CASE srv.main # "waiting"
    BY <1>4, <1>5, <2>2 DEF LoaderSignal
  <2> QED BY <2>1, <2>2
<1> HIDE DEF l
<1>7. HasFields(srv', SrvFields) /\ srv'.current = NoJob /\ \A f \in SrvFields \ {"current"} : srv'[f] = l[f]
  BY <1>1, <1>6 DEF HasFields, SrvFields
<1>8. Kept(srv', srv, F)
  BY <1>3, <1>4, <1>6, <1>7 DEF Kept
<1>9. srv'.main = m /\ srv'.stage = 12 /\ srv'.manager = TRUE /\ srv'.game = IF srv.game = "SHUTDOWN" THEN srv.game ELSE "NORMAL"
  BY <1>3, <1>4, <1>6, <1>7 DEF SrvFields
<1> QED BY <1>7, <1>8, <1>9, LoaderEnds

\* The scripts of the start, which may already ask for the end.
LEMMA LoadInitInv ==
    ASSUME SrvGood(srv), srv.current.t = "load", srv.stage = 6, NEW asked,
           \/ srv' = SetGameState([srv EXCEPT !.stage = 7, !.asked = asked], "INIT")
           \/ srv' = SetGameState(SetGameState([srv EXCEPT !.stage = 7, !.asked = asked], "INIT"), "SHUTDOWN")
    PROVE  SrvGood(srv')
<1> DEFINE c == [srv EXCEPT !.stage = 7, !.asked = asked]
           g == SetGameState(c, "INIT")
           F == {"stage", "database", "game", "asked"}
<1>1. HasFields(srv, SrvFields) /\ srv.game = "STARTUP"
  BY DEF SrvGood, SrvShape, LoadGood
<1>2. HasFields(c, SrvFields) /\ c.stage = 7 /\ c.game = "STARTUP" /\ \A f \in SrvFields \ {"stage", "asked"} : c[f] = srv[f]
  BY <1>1 DEF HasFields, SrvFields
<1> HIDE DEF c
<1>3. g = [c EXCEPT !.game = "INIT"]
  BY <1>2 DEF SetGameState
<1>4. srv' = g \/ srv' = SetGameState(g, "SHUTDOWN")
  BY DEF c
<1> HIDE DEF g
<1>5. HasFields(g, SrvFields) /\ g.game = "INIT" /\ \A f \in SrvFields \ {"game"} : g[f] = c[f]
  BY <1>2, <1>3 DEF HasFields, SrvFields
<1>6. Kept(g, srv, F)
  BY <1>2, <1>5 DEF Kept
<1>7. g.stage = 7 /\ g.database = srv.database /\ g.scheduler = srv.scheduler
  BY <1>2, <1>5 DEF SrvFields
<1>8. ThreadShape(g)
  BY <1>7 DEF SrvGood, SrvShape, ThreadShape
<1>9. SrvGood(g)
  <2>1. g.stage = srv.stage + 1 /\ g.game = IF srv.stage = 6 THEN "INIT" ELSE srv.game
    BY <1>5, <1>7
  <2> QED BY <1>6, <1>8, <2>1, LoaderGoesOn
<1>10. GameClosed(SetGameState(g, "SHUTDOWN"), g)
  <2>1. SrvShape(g)
    BY <1>9 DEF SrvGood
  <2> QED BY <1>5, <2>1, SetGameStateDoes
<1>11. SrvGood(SetGameState(g, "SHUTDOWN"))
  BY <1>5, <1>7, <1>9, <1>10, ClosedInv
<1> QED BY <1>4, <1>9, <1>11
-------------------------------------------------------------------------------
(* Ports.                                                                    *)
\* A port and its record.
PortRec(s, p) ==
    HasFields(s, SrvFields) /\ HasFields(s.ports, DOMAIN s.ports) /\ p \in DOMAIN s.ports /\ HasFields(s.ports[p], PortFields)

\* d is s but for port p, whose record has these fields, and the fields in F.
PortIs(d, s, p, F, services, accept, open, pending) ==
    /\ Kept(d, s, F \cup {"ports"})
    /\ HasFields(d.ports, DOMAIN s.ports)
    /\ \A n \in DOMAIN s.ports \ {p} : d.ports[n] = s.ports[n]
    /\ HasFields(d.ports[p], PortFields)
    /\ d.ports[p].services = services /\ d.ports[p].accept = accept /\ d.ports[p].open = open
    /\ d.ports[p].pending = pending

\* A port that is written.
LEMMA PortWritten ==
    ASSUME NEW s, NEW p, PortRec(s, p), NEW r, HasFields(r, PortFields),
           NEW d, d = [s EXCEPT !.ports[p] = r]
    PROVE  PortIs(d, s, p, {}, r.services, r.accept, r.open, r.pending)
<1> DEFINE q == [s.ports EXCEPT ![p] = r]
<1>1. HasFields(q, DOMAIN s.ports) /\ q[p] = r /\ \A n \in DOMAIN s.ports \ {p} : q[n] = s.ports[n]
  BY DEF PortRec, HasFields
<1>2. d = [s EXCEPT !.ports = q]
  OBVIOUS
<1> HIDE DEF q
<1>3. Kept(d, s, {"ports"}) /\ d.ports = q
  BY <1>2 DEF PortRec, Kept, HasFields, SrvFields
<1> QED BY <1>1, <1>3 DEF PortIs

\* The port that is written is a port again.
LEMMA PortIsRec ==
    ASSUME NEW s, NEW p, PortRec(s, p), NEW d, NEW F, NEW a, NEW b, NEW c, NEW e, PortIs(d, s, p, F, a, b, c, e)
    PROVE  PortRec(d, p) /\ DOMAIN d.ports = DOMAIN s.ports
BY DEF PortRec, PortIs, Kept, HasFields

\* Two writes to one port, one after the other.
LEMMA PortThen ==
    ASSUME NEW s, NEW p, PortRec(s, p), NEW c, NEW d, NEW F, NEW G,
           NEW a1, NEW a2, NEW a3, NEW a4, PortIs(c, s, p, F, a1, a2, a3, a4),
           NEW b1, NEW b2, NEW b3, NEW b4, PortIs(d, c, p, G, b1, b2, b3, b4)
    PROVE  PortIs(d, s, p, F \cup G, b1, b2, b3, b4)
<1>1. DOMAIN c.ports = DOMAIN s.ports
  BY DEF PortIs, HasFields
<1>2. Kept(d, s, (F \cup G) \cup {"ports"})
  BY DEF PortIs, Kept
<1> QED BY <1>1, <1>2 DEF PortIs

\* One field of a port is written.
LEMMA AcceptWritten ==
    ASSUME NEW s, NEW p, PortRec(s, p), NEW x, NEW d, d = [s EXCEPT !.ports[p].accept = x]
    PROVE  PortIs(d, s, p, {}, s.ports[p].services, x, s.ports[p].open, s.ports[p].pending)
<1> DEFINE r == [s.ports[p] EXCEPT !.accept = x]
<1>1. d = [s EXCEPT !.ports[p] = r]
  OBVIOUS
<1>2. HasFields(r, PortFields) /\ r.services = s.ports[p].services /\ r.accept = x /\ r.open = s.ports[p].open
      /\ r.pending = s.ports[p].pending
  BY DEF PortRec, HasFields, PortFields
<1> HIDE DEF r
<1>3. PortIs(d, s, p, {}, r.services, r.accept, r.open, r.pending)
  BY <1>1, <1>2, PortWritten
<1> QED BY <1>2, <1>3

\* Likewise for whether its acceptor is open.
LEMMA OpenWritten ==
    ASSUME NEW s, NEW p, PortRec(s, p), NEW x, NEW d, d = [s EXCEPT !.ports[p].open = x]
    PROVE  PortIs(d, s, p, {}, s.ports[p].services, s.ports[p].accept, x, s.ports[p].pending)
<1> DEFINE r == [s.ports[p] EXCEPT !.open = x]
<1>1. d = [s EXCEPT !.ports[p] = r]
  OBVIOUS
<1>2. HasFields(r, PortFields) /\ r.services = s.ports[p].services /\ r.accept = s.ports[p].accept /\ r.open = x
      /\ r.pending = s.ports[p].pending
  BY DEF PortRec, HasFields, PortFields
<1> HIDE DEF r
<1>3. PortIs(d, s, p, {}, r.services, r.accept, r.open, r.pending)
  BY <1>1, <1>2, PortWritten
<1> QED BY <1>2, <1>3

\* Likewise for whether its opening is due.
LEMMA PendingWritten ==
    ASSUME NEW s, NEW p, PortRec(s, p), NEW x, NEW d, d = [s EXCEPT !.ports[p].pending = x]
    PROVE  PortIs(d, s, p, {}, s.ports[p].services, s.ports[p].accept, s.ports[p].open, x)
<1> DEFINE r == [s.ports[p] EXCEPT !.pending = x]
<1>1. d = [s EXCEPT !.ports[p] = r]
  OBVIOUS
<1>2. HasFields(r, PortFields) /\ r.services = s.ports[p].services /\ r.accept = s.ports[p].accept
      /\ r.open = s.ports[p].open /\ r.pending = x
  BY DEF PortRec, HasFields, PortFields
<1> HIDE DEF r
<1>3. PortIs(d, s, p, {}, r.services, r.accept, r.open, r.pending)
  BY <1>1, <1>2, PortWritten
<1> QED BY <1>2, <1>3

\* Likewise for its services.
LEMMA ServicesWritten ==
    ASSUME NEW s, NEW p, PortRec(s, p), NEW x, NEW d, d = [s EXCEPT !.ports[p].services = x]
    PROVE  PortIs(d, s, p, {}, x, s.ports[p].accept, s.ports[p].open, s.ports[p].pending)
<1> DEFINE r == [s.ports[p] EXCEPT !.services = x]
<1>1. d = [s EXCEPT !.ports[p] = r]
  OBVIOUS
<1>2. HasFields(r, PortFields) /\ r.services = x /\ r.accept = s.ports[p].accept /\ r.open = s.ports[p].open
      /\ r.pending = s.ports[p].pending
  BY DEF PortRec, HasFields, PortFields
<1> HIDE DEF r
<1>3. PortIs(d, s, p, {}, r.services, r.accept, r.open, r.pending)
  BY <1>1, <1>2, PortWritten
<1> QED BY <1>2, <1>3

\* ServicePort::close, accept and the call to open again.
LEMMA ClosePortDoes ==
    ASSUME NEW s, NEW p, PortRec(s, p)
    PROVE  PortIs(ClosePort(s, p), s, p, {}, s.ports[p].services,
                  IF s.ports[p].accept = "wait" THEN "aborted" ELSE s.ports[p].accept, FALSE, s.ports[p].pending)
<1> DEFINE a == IF s.ports[p].accept = "wait" THEN "aborted" ELSE s.ports[p].accept
           c == [s EXCEPT !.ports[p].open = FALSE]
           d == [c EXCEPT !.ports[p].accept = a]
<1>1. PortIs(c, s, p, {}, s.ports[p].services, s.ports[p].accept, FALSE, s.ports[p].pending)
  BY OpenWritten
<1>2. PortRec(c, p) /\ c.ports[p].accept = s.ports[p].accept /\ c.ports[p].services = s.ports[p].services
      /\ c.ports[p].open = FALSE /\ c.ports[p].pending = s.ports[p].pending
  BY <1>1, PortIsRec DEF PortIs
<1>3. ClosePort(s, p) = d
  <2>1. ClosePort(s, p) = [c EXCEPT !.ports[p].accept = IF @ = "wait" THEN "aborted" ELSE @]
    BY DEF ClosePort
  <2>2. [c EXCEPT !.ports[p].accept = IF @ = "wait" THEN "aborted" ELSE @]
          = [c EXCEPT !.ports[p].accept = IF c.ports[p].accept = "wait" THEN "aborted" ELSE c.ports[p].accept]
    OBVIOUS
  <2> HIDE DEF c
  <2> QED BY <1>2, <2>1, <2>2
<1> HIDE DEF a, c
<1>4. PortIs(d, c, p, {}, c.ports[p].services, a, c.ports[p].open, c.ports[p].pending)
  BY <1>2, AcceptWritten
<1> HIDE DEF d
<1>5. PortIs(d, s, p, {} \cup {}, s.ports[p].services, a, FALSE, s.ports[p].pending)
  BY <1>1, <1>2, <1>4, PortThen
<1> QED BY <1>3, <1>5 DEF a

\* ServicePort::accept.
LEMMA AcceptNextDoes ==
    ASSUME NEW s, NEW p, PortRec(s, p)
    PROVE  PortIs(AcceptNext(s, p), s, p, {}, s.ports[p].services, IF s.ports[p].open THEN "wait" ELSE "error",
                  s.ports[p].open, s.ports[p].pending)
<1> DEFINE a == IF s.ports[p].open THEN "wait" ELSE "error"
<1>1. AcceptNext(s, p) = [s EXCEPT !.ports[p].accept = a]
  BY DEF AcceptNext
<1> HIDE DEF a
<1>2. PortIs(AcceptNext(s, p), s, p, {}, s.ports[p].services, a, s.ports[p].open, s.ports[p].pending)
  BY <1>1, AcceptWritten
<1> QED BY <1>2 DEF a

\* The record of p is that of s, and its opening is due where the scheduler takes it.
LEMMA OpenLaterDoes ==
    ASSUME NEW s, HasFields(s, SrvFields), NEW p
    PROVE  LET d == OpenLater(s, p)
           IN  /\ Kept(d, s, {"due"})
               /\ d.due = IF s.scheduler.state = "RUNNING" THEN s.due \cup {p} ELSE s.due
<1>1. CASE s.scheduler.state = "RUNNING"
  <2> DEFINE u == s.due \cup {p}
  <2>1. OpenLater(s, p) = [s EXCEPT !.due = u]
    BY <1>1 DEF OpenLater
  <2> HIDE DEF u
  <2>2. Kept([s EXCEPT !.due = u], s, {"due"}) /\ [s EXCEPT !.due = u].due = u
    BY DEF Kept, HasFields, SrvFields
  <2> QED BY <1>1, <2>1, <2>2 DEF u
<1>2. CASE s.scheduler.state # "RUNNING"
  BY <1>2 DEF OpenLater, Kept
<1> QED BY <1>1, <1>2

\* ServicePort::open.
LEMMA OpenPortDoes ==
    ASSUME NEW s, NEW p, PortRec(s, p), NEW ok \in BOOLEAN
    PROVE  LET d == OpenPort(s, p, ok)
               a == IF s.ports[p].accept = "wait" THEN "aborted" ELSE s.ports[p].accept
           IN  /\ ok => PortIs(d, s, p, {}, s.ports[p].services, "wait", TRUE, FALSE)
               /\ ~ok => /\ PortIs(d, s, p, {"due", "errors"}, s.ports[p].services, a, FALSE, TRUE)
                         /\ d.due = IF s.scheduler.state = "RUNNING" THEN s.due \cup {p} ELSE s.due
<1> DEFINE a == IF s.ports[p].accept = "wait" THEN "aborted" ELSE s.ports[p].accept
           v == s.ports[p].services
           c == ClosePort(s, p)
           t == [c EXCEPT !.ports[p].pending = FALSE]
           d == OpenPort(s, p, ok)
<1>1. PortIs(c, s, p, {}, v, a, FALSE, s.ports[p].pending)
  BY ClosePortDoes
<1> HIDE DEF a, v, c
<1>2. PortRec(c, p) /\ c.ports[p].accept = a /\ c.ports[p].services = v /\ c.ports[p].open = FALSE
  BY <1>1, PortIsRec DEF PortIs
<1>3. PortIs(t, c, p, {}, c.ports[p].services, c.ports[p].accept, c.ports[p].open, FALSE)
  BY <1>2, PendingWritten
<1>4. d = IF ok THEN AcceptNext([t EXCEPT !.ports[p].open = TRUE], p)
          ELSE OpenLater([t EXCEPT !.ports[p].pending = TRUE, !.errors = @ - 1], p)
  BY DEF OpenPort, c
<1> HIDE DEF t, d
<1>5. PortIs(t, s, p, {} \cup {}, v, a, FALSE, FALSE)
  <2>1. PortIs(t, c, p, {}, v, a, FALSE, FALSE)
    BY <1>2, <1>3
  <2> QED BY <1>1, <2>1, PortThen
<1>6. PortRec(t, p) /\ t.ports[p].accept = a /\ t.ports[p].services = v /\ t.ports[p].open = FALSE /\ t.ports[p].pending = FALSE
  BY <1>5, PortIsRec DEF PortIs
<1>7. CASE ok
  <2> DEFINE u == [t EXCEPT !.ports[p].open = TRUE]
  <2>1. PortIs(u, t, p, {}, v, a, TRUE, FALSE)
    BY <1>6, OpenWritten
  <2>2. d = AcceptNext(u, p)
    BY <1>4, <1>7
  <2> HIDE DEF u
  <2>3. PortRec(u, p) /\ u.ports[p].accept = a /\ u.ports[p].services = v /\ u.ports[p].open = TRUE /\ u.ports[p].pending = FALSE
    BY <1>6, <2>1, PortIsRec DEF PortIs
  <2>4. PortIs(d, u, p, {}, v, "wait", TRUE, FALSE)
    <3>1. PortIs(d, u, p, {}, u.ports[p].services, IF u.ports[p].open THEN "wait" ELSE "error", u.ports[p].open, u.ports[p].pending)
      BY <2>2, <2>3, AcceptNextDoes
    <3> QED BY <2>3, <3>1
  <2>5. PortIs(u, s, p, ({} \cup {}) \cup {}, v, a, TRUE, FALSE)
    BY <1>5, <2>1, PortThen
  <2>6. PortIs(d, s, p, (({} \cup {}) \cup {}) \cup {}, v, "wait", TRUE, FALSE)
    BY <2>4, <2>5, PortThen
  <2>7. PortIs(d, s, p, {}, v, "wait", TRUE, FALSE)
    BY <2>6
  <2> QED BY <1>7, <2>7 DEF d, v
<1>8. CASE ~ok
  <2> DEFINE u == [t EXCEPT !.ports[p].pending = TRUE]
             n == t.errors - 1
             w == [u EXCEPT !.errors = n]
  <2>1. PortIs(u, t, p, {}, v, a, FALSE, TRUE)
    BY <1>6, PendingWritten
  <2>2. u.errors = t.errors
    BY <2>1 DEF PortIs, Kept, SrvFields
  <2>3. [t EXCEPT !.ports[p].pending = TRUE, !.errors = @ - 1] = [u EXCEPT !.errors = @ - 1]
    OBVIOUS
  <2> HIDE DEF u
  <2>4. d = OpenLater(w, p)
    BY <1>4, <1>8, <2>2, <2>3
  <2> HIDE DEF n
  <2>5. PortIs(u, s, p, ({} \cup {}) \cup {}, v, a, FALSE, TRUE)
    BY <1>5, <2>1, PortThen
  <2>6. HasFields(w, SrvFields) /\ \A f \in SrvFields \ {"errors"} : w[f] = u[f]
    BY <2>1 DEF PortIs, Kept, HasFields, SrvFields
  <2> HIDE DEF w
  <2>7. Kept(d, w, {"due"}) /\ d.due = IF w.scheduler.state = "RUNNING" THEN w.due \cup {p} ELSE w.due
    BY <2>4, <2>6, OpenLaterDoes
  <2>8. w.scheduler = s.scheduler /\ w.due = s.due
    BY <2>5, <2>6 DEF PortIs, Kept, SrvFields
  <2>9. d.ports = u.ports
    BY <2>6, <2>7 DEF Kept, SrvFields
  <2>10. Kept(d, s, {"due", "errors"} \cup {"ports"})
    BY <2>5, <2>6, <2>7 DEF PortIs, Kept
  <2>11. PortIs(d, s, p, {"due", "errors"}, v, a, FALSE, TRUE)
    BY <2>5, <2>9, <2>10 DEF PortIs
  <2> QED BY <1>8, <2>7, <2>8, <2>11 DEF d, v, a
<1> QED BY <1>7, <1>8

\* A step that writes ports, and may end the task that opened one.
LEMMA PortsInv ==
    ASSUME NEW s, NEW d, SrvGood(s), Kept(d, s, {"ports", "due", "errors", "stopping", "current"}),
           d.current = s.current \/ (s.current.t = "open" /\ d.current = NoJob),
           HasFields(d.ports, DOMAIN s.ports),
           \A n \in DOMAIN s.ports : HasFields(d.ports[n], PortFields) /\ d.ports[n].services = s.ports[n].services,
           d.due \subseteq DOMAIN s.ports, d.stopping \subseteq s.stopping, ServeGood(d)
    PROVE  SrvGood(d)
<1>1. SrvShape(s) /\ TaskShape(s) /\ PortShape(s) /\ LoadGood(s) /\ EndGood(s) /\ LastGood(s) /\ SharedGood(s)
  BY DEF SrvGood, SrvShape
<1>2. d.main = s.main /\ d.stopped = s.stopped /\ d.stage = s.stage /\ d.early = s.early
       /\ d.tasks = s.tasks /\ d.game = s.game /\ d.manager = s.manager /\ d.dispatcher = s.dispatcher
  BY DEF Kept, SrvFields
<1>3. d.acceptors = s.acceptors /\ d.running = s.running /\ d.death = s.death /\ d.scheduler = s.scheduler
      /\ DOMAIN d.ports = DOMAIN s.ports
  BY DEF Kept, SrvFields, HasFields
<1>4. HasFields(NoJob, {"t", "p"}) /\ NoJob.t = "none"
  BY DEF NoJob, HasFields
<1>5. \A t : t \notin {"open", "none"} => (Comes(d, t) <=> Comes(s, t))
  BY <1>2, <1>4 DEF Comes
<1>6. (Loading(d) <=> Loading(s)) /\ (EndComes(d) <=> EndComes(s)) /\ (ShutComes(d) <=> ShutComes(s))
      /\ (Comes(d, "close") <=> Comes(s, "close"))
  BY <1>2, <1>5 DEF Loading, EndComes, ShutComes
<1>7. SrvShape(d)
  <2>1. TaskShape(d)
    BY <1>1, <1>2, <1>4 DEF TaskShape
  <2>2. ThreadShape(d)
    BY <1>1, ThreadShapeKept DEF SrvShape
  <2>3. PortShape(d)
    BY <1>1, <1>3 DEF PortShape
  <2>4. FlagShape(d)
    BY <1>1, FlagShapeKept DEF SrvShape
  <2> QED BY <2>1, <2>2, <2>3, <2>4 DEF SrvShape, Kept
<1>8. LoadGood(d)
  <2>1. CASE d.current = s.current
    BY <1>1, <1>2, <1>3, <1>6, <2>1 DEF LoadGood
  <2>2. CASE s.current.t = "open" /\ d.current = NoJob
    <3>1. \A i \in DOMAIN s.tasks : s.tasks[i].t # "load"
      BY <1>1, <1>4, <2>2 DEF LoadGood
    <3>2. ~Loading(s)
      BY <1>1, <2>2, <3>1, LoaderIsATask
    <3> QED BY <1>1, <1>2, <1>3, <1>4, <1>6, <2>2, <3>1, <3>2 DEF LoadGood
  <2> QED BY <2>1, <2>2
<1>9. EndGood(d)
  BY <1>1, <1>2, <1>3, <1>6 DEF EndGood
<1>10. LastGood(d)
  <2>1. d.current.t \in {"shutdown", "end"} => s.current.t = d.current.t
    BY <1>4
  <2>2. s.current.t = "end" => d.current.t = "end"
    OBVIOUS
  <2> QED BY <1>1, <1>2, <1>3, <1>6, <2>1, <2>2 DEF LastGood
<1>11. SharedGood(d)
  BY <1>1, <1>3 DEF SharedGood
<1> QED BY <1>7, <1>8, <1>9, <1>10, <1>11 DEF SrvGood

\* How ServeGood follows when one port is written.
LEMMA OnePortServes ==
    ASSUME NEW s, NEW d, NEW p, NEW b, NEW c, NEW e, SrvGood(s), PortRec(s, p),
           PortIs(d, s, p, {"due", "errors"}, s.ports[p].services, b, c, e),
           d.due = s.due \/ d.due = s.due \cup {p},
           s.scheduler.state = "RUNNING" => PortGood(d, p)
    PROVE  SrvGood(d)
<1>1. ServeGood(s) /\ PortShape(s)
  BY DEF SrvGood, SrvShape
<1>2. Kept(d, s, {"ports", "due", "errors", "stopping", "current"}) /\ d.current = s.current /\ d.tasks = s.tasks
      /\ d.scheduler = s.scheduler /\ d.stopping = s.stopping
  BY DEF PortIs, Kept, SrvFields
<1>3. HasFields(d.ports, DOMAIN s.ports) /\ DOMAIN d.ports = DOMAIN s.ports
      /\ \A n \in DOMAIN s.ports : HasFields(d.ports[n], PortFields) /\ d.ports[n].services = s.ports[n].services
  <2>1. DOMAIN d.ports = DOMAIN s.ports
    BY DEF PortIs, HasFields
  <2>2. ASSUME NEW n \in DOMAIN s.ports
        PROVE  HasFields(d.ports[n], PortFields) /\ d.ports[n].services = s.ports[n].services
    <3>1. CASE n = p
      BY <3>1 DEF PortIs
    <3>2. CASE n # p
      BY <1>1, <2>2, <3>2 DEF PortIs, PortShape
    <3> QED BY <3>1, <3>2
  <2> QED BY <2>1, <2>2 DEF PortIs
<1>4. ASSUME s.scheduler.state = "RUNNING", NEW n \in DOMAIN s.ports, n # p
      PROVE  PortGood(d, n)
  <2>1. d.ports[n] = s.ports[n] /\ (n \in d.due <=> n \in s.due) /\ PortGood(s, n)
    BY <1>1, <1>4 DEF PortIs, ServeGood
  <2> QED BY <1>2, <2>1 DEF PortGood, OpenTask
<1>5. ServeGood(d)
  BY <1>1, <1>2, <1>3, <1>4 DEF ServeGood
<1>6. d.due \subseteq DOMAIN s.ports
  BY <1>1 DEF PortShape, PortRec
<1> QED BY <1>2, <1>3, <1>5, <1>6, PortsInv

\* A client or an error comes to a port that waits.
LEMMA AcceptEndsInv ==
    ASSUME SrvGood(srv), NEW p, AcceptEnds(p)
    PROVE  SrvGood(srv')
<1>1. p \in DOMAIN srv.ports /\ srv.ports[p].accept = "wait" /\ ServeGood(srv)
  BY DEF AcceptEnds, SrvGood
<1>2. PortRec(srv, p)
  BY <1>1 DEF SrvGood, SrvShape, PortShape, PortRec
<1>3. \E x \in {"ok", "error"} : PortIs(srv', srv, p, {"errors"}, srv.ports[p].services, x, srv.ports[p].open, srv.ports[p].pending)
  <2>1. CASE srv' = [srv EXCEPT !.ports[p].accept = "ok"]
    <3>1. PortIs(srv', srv, p, {}, srv.ports[p].services, "ok", srv.ports[p].open, srv.ports[p].pending)
      BY <1>2, <2>1, AcceptWritten
    <3>2. PortIs(srv', srv, p, {"errors"}, srv.ports[p].services, "ok", srv.ports[p].open, srv.ports[p].pending)
      BY <3>1 DEF PortIs, Kept
    <3> QED BY <3>2
  <2>2. CASE srv' = [srv EXCEPT !.ports[p].accept = "error", !.errors = @ - 1]
    <3> DEFINE c == [srv EXCEPT !.ports[p].accept = "error"]
               n == c.errors - 1
    <3>1. PortIs(c, srv, p, {}, srv.ports[p].services, "error", srv.ports[p].open, srv.ports[p].pending)
      BY <1>2, AcceptWritten
    <3>2. srv' = [c EXCEPT !.errors = n]
      <4>1. srv' = [c EXCEPT !.errors = @ - 1]
        BY <2>2
      <4> HIDE DEF c
      <4> QED BY <4>1
    <3> HIDE DEF c, n
    <3>3. HasFields(srv', SrvFields) /\ \A f \in SrvFields \ {"errors"} : srv'[f] = c[f]
      BY <3>1, <3>2 DEF PortIs, Kept, HasFields, SrvFields
    <3>4. srv'.ports = c.ports
      BY <3>3 DEF SrvFields
    <3>5. Kept(srv', srv, {"errors"} \cup {"ports"})
      BY <3>1, <3>3 DEF PortIs, Kept
    <3>6. PortIs(srv', srv, p, {"errors"}, srv.ports[p].services, "error", srv.ports[p].open, srv.ports[p].pending)
      BY <3>1, <3>4, <3>5 DEF PortIs
    <3> QED BY <3>6
  <2> QED BY <2>1, <2>2 DEF AcceptEnds
<1>4. PICK x \in {"ok", "error"} :
           PortIs(srv', srv, p, {"due", "errors"}, srv.ports[p].services, x, srv.ports[p].open, srv.ports[p].pending)
  BY <1>3 DEF PortIs, Kept
<1>5. srv'.due = srv.due /\ srv'.current = srv.current /\ srv'.tasks = srv.tasks
  BY <1>3 DEF PortIs, Kept, SrvFields
<1>6. srv.scheduler.state = "RUNNING" => PortGood(srv', p)
  <2>1. srv.scheduler.state = "RUNNING" => PortGood(srv, p)
    BY <1>1 DEF ServeGood
  <2> QED BY <1>1, <1>4, <1>5, <2>1 DEF PortIs, PortGood, OpenTask
<1>7. srv'.due = srv.due \/ srv'.due = srv.due \cup {p}
  BY <1>5
<1> DEFINE o == srv.ports[p].open
           e == srv.ports[p].pending
<1>8. PortIs(srv', srv, p, {"due", "errors"}, srv.ports[p].services, x, o, e)
  BY <1>4
<1> HIDE DEF o, e
<1> QED BY <1>2, <1>6, <1>7, <1>8, OnePortServes

\* ServicePort::onAccept.
LEMMA HandleAcceptInv ==
    ASSUME SrvGood(srv), NEW p, HandleAccept(p)
    PROVE  SrvGood(srv')
<1> DEFINE v == srv.ports[p].services
           a == srv.ports[p].accept
           t == [srv EXCEPT !.ports[p].accept = "none"]
<1>1. p \in DOMAIN srv.ports /\ srv.ports[p].accept \in {"ok", "error", "aborted"} /\ ServeGood(srv) /\ HasFields(srv, SrvFields)
  BY DEF HandleAccept, SrvGood, SrvShape
<1>2. PortRec(srv, p)
  BY <1>1 DEF SrvGood, SrvShape, PortShape, PortRec
<1>3. PortIs(t, srv, p, {}, v, "none", srv.ports[p].open, srv.ports[p].pending)
  BY <1>2, AcceptWritten
<1>4. /\ srv.scheduler.state = "RUNNING" => PortGood(srv, p)
      /\ srv.scheduler.state = "RUNNING" => v # <<>> /\ ~srv.ports[p].pending /\ p \notin srv.due
                                            /\ srv.current # OpenJob(p) /\ ~OpenTask(srv, p)
  <2>1. srv.scheduler.state = "RUNNING" => PortGood(srv, p)
    BY <1>1 DEF ServeGood
  <2>2. PortGood(srv, p) => v # <<>> /\ ~srv.ports[p].pending /\ p \notin srv.due
                              /\ srv.current # OpenJob(p) /\ ~OpenTask(srv, p)
    BY <1>1 DEF PortGood
  <2> QED BY <2>1, <2>2
<1>5. PortRec(t, p) /\ t.ports[p].accept = "none" /\ t.ports[p].services = v /\ t.ports[p].pending = srv.ports[p].pending
  BY <1>2, <1>3, PortIsRec DEF PortIs
<1>6. srv' = CASE a = "ok" -> IF v = <<>> THEN t ELSE AcceptNext(t, p)
               [] a = "error" /\ ~ srv.ports[p].pending ->
                     OpenLater([ClosePort(t, p) EXCEPT !.ports[p].pending = TRUE], p)
               [] OTHER -> t
  BY DEF HandleAccept, OnAccept
<1> HIDE DEF t
<1>7. CASE srv' = t /\ (srv.scheduler.state # "RUNNING" \/ ~PortGood(srv, p))
  <2>1. t.due = srv.due
    BY <1>3 DEF PortIs, Kept, SrvFields
  <2>2. PortIs(srv', srv, p, {"due", "errors"}, v, "none", srv.ports[p].open, srv.ports[p].pending)
    BY <1>3, <1>7 DEF PortIs, Kept
  <2>3. srv.scheduler.state # "RUNNING" /\ srv'.due = srv.due
    BY <1>4, <1>7, <2>1
  <2>4. srv'.due = srv.due \/ srv'.due = srv.due \cup {p}
    BY <2>3
  <2>5. srv.scheduler.state = "RUNNING" => PortGood(srv', p)
    BY <2>3
  <2> DEFINE b == "none"
             o == srv.ports[p].open
             e == srv.ports[p].pending
  <2>6. PortIs(srv', srv, p, {"due", "errors"}, srv.ports[p].services, b, o, e)
    BY <2>2
  <2> HIDE DEF b, o, e
  <2> QED BY <1>2, <2>4, <2>5, <2>6, OnePortServes
<1>8. CASE a = "ok" /\ v # <<>>
  <2>1. srv' = AcceptNext(t, p)
    BY <1>6, <1>8
  <2>2. PortIs(srv', t, p, {}, v, IF t.ports[p].open THEN "wait" ELSE "error", t.ports[p].open, srv.ports[p].pending)
    BY <1>5, <2>1, AcceptNextDoes
  <2>3. PortIs(srv', srv, p, {} \cup {}, v, IF t.ports[p].open THEN "wait" ELSE "error", t.ports[p].open, srv.ports[p].pending)
    BY <1>2, <1>3, <2>2, PortThen
  <2>4. srv'.due = srv.due /\ srv'.stopping = srv.stopping /\ srv'.current = srv.current /\ srv'.tasks = srv.tasks
    BY <2>3 DEF PortIs, Kept, SrvFields
  <2>5. srv.scheduler.state = "RUNNING" => PortGood(srv', p)
    <3>1. srv.scheduler.state = "RUNNING" => \A i, j \in DOMAIN srv.tasks : srv.tasks[i] = OpenJob(p) /\ srv.tasks[j] = OpenJob(p) => i = j
      BY <1>4 DEF PortGood
    <3> QED BY <1>4, <2>3, <2>4, <3>1 DEF PortIs, PortGood, OpenTask
  <2>6. PortIs(srv', srv, p, {"due", "errors"}, v, IF t.ports[p].open THEN "wait" ELSE "error", t.ports[p].open, srv.ports[p].pending)
    BY <2>3 DEF PortIs, Kept
  <2> DEFINE b == IF t.ports[p].open THEN "wait" ELSE "error"
             o == t.ports[p].open
             e == srv.ports[p].pending
  <2>7. PortIs(srv', srv, p, {"due", "errors"}, srv.ports[p].services, b, o, e)
    BY <2>6
  <2> HIDE DEF b, o, e
  <2> QED BY <1>2, <2>4, <2>5, <2>7, OnePortServes
<1>9. CASE a = "error" /\ ~ srv.ports[p].pending
  <2> DEFINE c == ClosePort(t, p)
             u == [c EXCEPT !.ports[p].pending = TRUE]
  <2>1. srv' = OpenLater(u, p)
    BY <1>6, <1>9
  <2>2. PortIs(c, t, p, {}, v, "none", FALSE, srv.ports[p].pending)
    <3>1. PortIs(c, t, p, {}, t.ports[p].services, IF t.ports[p].accept = "wait" THEN "aborted" ELSE t.ports[p].accept,
                 FALSE, t.ports[p].pending)
      BY <1>5, ClosePortDoes
    <3> QED BY <1>5, <3>1
  <2> HIDE DEF c
  <2>3. PortRec(c, p) /\ c.ports[p].accept = "none" /\ c.ports[p].services = v /\ c.ports[p].open = FALSE
    BY <1>5, <2>2, PortIsRec DEF PortIs
  <2>4. PortIs(u, c, p, {}, v, "none", FALSE, TRUE)
    <3>1. PortIs(u, c, p, {}, c.ports[p].services, c.ports[p].accept, c.ports[p].open, TRUE)
      BY <2>3, PendingWritten
    <3> QED BY <2>3, <3>1
  <2> HIDE DEF u
  <2>5. PortIs(c, srv, p, {} \cup {}, v, "none", FALSE, srv.ports[p].pending)
    BY <1>2, <1>3, <2>2, PortThen
  <2>6. PortIs(u, srv, p, ({} \cup {}) \cup {}, v, "none", FALSE, TRUE)
    <3> DEFINE E == {}
               G == {} \cup {}
               b == "none"
               f == FALSE
               y == TRUE
               e == srv.ports[p].pending
    <3>1. PortIs(c, srv, p, G, v, b, f, e)
      BY <2>5
    <3>2. PortIs(u, c, p, E, v, b, f, y)
      BY <2>4
    <3>3. PortRec(srv, p)
      BY <1>2
    <3> HIDE DEF E, G, b, f, y, e
    <3>4. PortIs(u, srv, p, G \cup E, v, b, f, y)
      BY <3>1, <3>2, <3>3, PortThen
    <3> QED BY <3>4 DEF E, G, b, f, y
  <2>7. HasFields(u, SrvFields) /\ u.scheduler = srv.scheduler /\ u.due = srv.due
    BY <2>6 DEF PortIs, Kept, SrvFields
  <2>8. Kept(srv', u, {"due"}) /\ srv'.due = IF srv.scheduler.state = "RUNNING" THEN srv.due \cup {p} ELSE srv.due
    BY <2>1, <2>7, OpenLaterDoes
  <2>9. srv'.ports = u.ports
    BY <2>8 DEF Kept, SrvFields
  <2>10. Kept(srv', srv, {"due"} \cup {"ports"})
    BY <2>6, <2>8 DEF PortIs, Kept
  <2>11. PortIs(srv', srv, p, {"due"}, v, "none", FALSE, TRUE)
    BY <2>6, <2>9, <2>10 DEF PortIs
  <2>12. srv'.stopping = srv.stopping /\ srv'.current = srv.current /\ srv'.tasks = srv.tasks
    BY <2>11 DEF PortIs, Kept, SrvFields
  <2>13. srv.scheduler.state = "RUNNING" => PortGood(srv', p)
    <3>1. srv.scheduler.state = "RUNNING" => \A i, j \in DOMAIN srv.tasks : srv.tasks[i] = OpenJob(p) /\ srv.tasks[j] = OpenJob(p) => i = j
      BY <1>4 DEF PortGood
    <3> QED BY <1>4, <2>8, <2>11, <2>12, <3>1 DEF PortIs, PortGood, OpenTask
  <2>14. PortIs(srv', srv, p, {"due", "errors"}, v, "none", FALSE, TRUE)
    BY <2>11 DEF PortIs, Kept
  <2> QED BY <1>2, <2>8, <2>13, <2>14, OnePortServes
<1>10. \/ srv' = t /\ (srv.scheduler.state # "RUNNING" \/ ~PortGood(srv, p))
       \/ a = "ok" /\ v # <<>>
       \/ a = "error" /\ ~ srv.ports[p].pending
  <2>1. a = "ok" \/ a = "error" \/ a = "aborted"
    BY <1>1
  <2>2. CASE a = "ok"
    BY <1>4, <1>6, <2>2
  <2>3. CASE a = "error"
    BY <1>4, <1>6, <2>3
  <2>4. CASE a = "aborted"
    <3>1. srv' = t
      BY <1>6, <2>4
    <3>2. ~PortGood(srv, p)
      BY <2>4 DEF PortGood
    <3> QED BY <3>1, <3>2
  <2> QED BY <2>1, <2>2, <2>3, <2>4
<1> QED BY <1>7, <1>8, <1>9, <1>10

\* The posted ServicePort::onStopServer: the scheduler is long told to end.
LEMMA OnStopServerInv ==
    ASSUME SrvGood(srv), NEW p, OnStopServer(p)
    PROVE  SrvGood(srv')
<1> DEFINE k == srv.stopping \ {p}
           c == [srv EXCEPT !.stopping = k]
<1>1. p \in srv.stopping /\ srv' = ClosePort(c, p) /\ HasFields(srv, SrvFields) /\ PortShape(srv) /\ EndGood(srv)
  BY DEF OnStopServer, SrvGood, SrvShape
<1>2. p \in DOMAIN srv.ports /\ srv.scheduler.state # "RUNNING"
  BY <1>1 DEF PortShape, EndGood
<1> HIDE DEF k
<1>3. HasFields(c, SrvFields) /\ c.stopping = k /\ \A f \in SrvFields \ {"stopping"} : c[f] = srv[f]
  BY <1>1 DEF HasFields, SrvFields
<1> HIDE DEF c
<1>4. c.ports = srv.ports
  BY <1>3 DEF SrvFields
<1>5. PortRec(c, p)
  BY <1>1, <1>2, <1>3, <1>4 DEF PortRec, PortShape
<1>6. PortIs(srv', c, p, {}, c.ports[p].services, IF c.ports[p].accept = "wait" THEN "aborted" ELSE c.ports[p].accept, FALSE, c.ports[p].pending)
  BY <1>1, <1>5, ClosePortDoes
<1>7. srv'.stopping = k /\ srv'.due = srv.due
  BY <1>3, <1>6 DEF PortIs, Kept, SrvFields
<1>8. Kept(srv', srv, {"ports", "due", "errors", "stopping", "current"}) /\ srv'.current = srv.current /\ srv'.scheduler = srv.scheduler
  BY <1>3, <1>6 DEF PortIs, Kept, SrvFields
<1>9. HasFields(srv'.ports, DOMAIN srv.ports)
      /\ \A n \in DOMAIN srv.ports : HasFields(srv'.ports[n], PortFields) /\ srv'.ports[n].services = srv.ports[n].services
  BY <1>1, <1>4, <1>6 DEF PortIs, PortShape
<1>10. ServeGood(srv')
  BY <1>2, <1>8 DEF ServeGood
<1>11. srv'.due \subseteq DOMAIN srv.ports /\ srv'.stopping \subseteq srv.stopping
  BY <1>1, <1>7 DEF PortShape, k
<1> QED BY <1>8, <1>9, <1>10, <1>11, PortsInv

\* ServicePort::openAcceptor.
LEMMA OpenAcceptorInv ==
    ASSUME SrvGood(srv), OpenAcceptor
    PROVE  SrvGood(srv')
<1> DEFINE p == srv.current.p
<1>1. PICK ok \in BOOLEAN : srv' = Done(IF Alive1(srv, p) THEN OpenPort(srv, p, ok) ELSE srv)
  BY DEF OpenAcceptor
<1>2. srv.current.t = "open" /\ HasFields(srv, SrvFields) /\ TaskShape(srv) /\ PortShape(srv) /\ ServeGood(srv) /\ EndGood(srv)
  BY DEF OpenAcceptor, Running, SrvGood, SrvShape
<1>3. srv.current = OpenJob(p)
  BY <1>2 DEF TaskShape, OpenJob, HasFields
<1>4. HasFields(NoJob, {"t", "p"}) /\ NoJob.t = "none"
  BY DEF NoJob, HasFields
<1> DEFINE c == IF Alive1(srv, p) THEN OpenPort(srv, p, ok) ELSE srv
<1>5. srv' = [c EXCEPT !.current = NoJob]
  BY <1>1 DEF Done
<1>6. srv.scheduler.state = "RUNNING" => p \in DOMAIN srv.ports /\ PortGood(srv, p) /\ Alive1(srv, p)
  <2>1. srv.scheduler.state = "RUNNING" => srv.acceptors = DOMAIN srv.ports
    BY <1>2 DEF EndGood
  <2> QED BY <1>2, <2>1 DEF ServeGood, Alive1
<1>7. CASE Alive1(srv, p)
  <2> DEFINE a == IF srv.ports[p].accept = "wait" THEN "aborted" ELSE srv.ports[p].accept
             v == srv.ports[p].services
  <2>1. p \in DOMAIN srv.ports
    BY <1>7 DEF Alive1
  <2>2. PortRec(srv, p)
    BY <1>2, <2>1 DEF PortShape, PortRec
  <2>3. /\ ok => PortIs(c, srv, p, {}, v, "wait", TRUE, FALSE)
        /\ ~ok => /\ PortIs(c, srv, p, {"due", "errors"}, v, a, FALSE, TRUE)
                  /\ c.due = IF srv.scheduler.state = "RUNNING" THEN srv.due \cup {p} ELSE srv.due
    <3>1. c = OpenPort(srv, p, ok)
      BY <1>7
    <3> HIDE DEF c, p
    <3> QED BY <2>2, <3>1, OpenPortDoes
  <2> HIDE DEF c, p, a, v
  <2>4. Kept(c, srv, {"ports", "due", "errors"}) /\ HasFields(c.ports, DOMAIN srv.ports)
        /\ \A n \in DOMAIN srv.ports \ {p} : c.ports[n] = srv.ports[n]
    BY <2>3 DEF PortIs, Kept
  <2>5. HasFields(c.ports[p], PortFields) /\ c.ports[p].services = v
    BY <2>3 DEF PortIs
  <2>6. \/ ok /\ c.ports[p].accept = "wait" /\ c.ports[p].pending = FALSE /\ c.due = srv.due
        \/ ~ok /\ c.ports[p].accept = a /\ c.due = IF srv.scheduler.state = "RUNNING" THEN srv.due \cup {p} ELSE srv.due
    <3>1. CASE ok
      BY <2>3, <3>1 DEF PortIs, Kept, SrvFields
    <3>2. CASE ~ok
      BY <2>3, <3>2 DEF PortIs
    <3> QED BY <3>1, <3>2
  <2>7. HasFields(srv', SrvFields) /\ srv'.current = NoJob /\ \A f \in SrvFields \ {"current"} : srv'[f] = c[f]
    BY <1>5, <2>4 DEF Kept, HasFields, SrvFields
  <2>8. Kept(srv', srv, {"ports", "due", "errors", "stopping", "current"})
    BY <2>4, <2>7 DEF Kept
  <2>9. srv'.ports = c.ports /\ srv'.due = c.due
    BY <2>7 DEF SrvFields
  <2>10. srv'.stopping = srv.stopping /\ srv'.tasks = srv.tasks /\ srv'.scheduler = srv.scheduler
    BY <2>4, <2>7 DEF Kept, SrvFields
  <2>11. \A n \in DOMAIN srv.ports : HasFields(srv'.ports[n], PortFields) /\ srv'.ports[n].services = srv.ports[n].services
    BY <1>2, <2>4, <2>5, <2>9 DEF PortShape, v
  <2>12. ServeGood(srv')
    <3> SUFFICES ASSUME srv.scheduler.state = "RUNNING" PROVE ServeGood(srv')
      BY <2>10 DEF ServeGood
    <3>1. \A n : srv'.current # OpenJob(n)
      BY <1>4, <2>7 DEF OpenJob
    <3>2. ASSUME NEW n \in DOMAIN srv.ports, n # p
          PROVE  PortGood(srv', n)
      <4>1. srv'.ports[n] = srv.ports[n] /\ (n \in srv'.due <=> n \in srv.due) /\ PortGood(srv, n)
        BY <1>2, <2>4, <2>6, <2>9, <3>2 DEF ServeGood
      <4>2. srv.current # OpenJob(n)
        BY <1>3, <3>2 DEF OpenJob
      <4> QED BY <2>10, <3>1, <4>1, <4>2 DEF PortGood, OpenTask
    <3>3. PortGood(srv', p)
      <4>1. srv.ports[p].accept = "none" /\ ~OpenTask(srv, p) /\ p \notin srv.due /\ v # <<>>
            /\ \A i, j \in DOMAIN srv.tasks : srv.tasks[i] = OpenJob(p) /\ srv.tasks[j] = OpenJob(p) => i = j
        BY <1>3, <1>6 DEF PortGood, v
      <4>2. a = "none"
        BY <4>1 DEF a
      <4>3. ~OpenTask(srv', p)
        BY <2>10, <4>1 DEF OpenTask
      <4> QED BY <2>5, <2>6, <2>9, <2>10, <3>1, <4>1, <4>2, <4>3 DEF PortGood
    <3>4. srv'.current.t # "open" /\ DOMAIN srv'.ports = DOMAIN srv.ports
      BY <1>4, <2>4, <2>7, <2>9 DEF HasFields
    <3> QED BY <1>2, <2>10, <3>2, <3>3, <3>4 DEF ServeGood
  <2>13. srv'.due \subseteq DOMAIN srv.ports
    BY <1>2, <2>1, <2>6, <2>9 DEF PortShape
  <2> QED BY <1>2, <2>4, <2>7, <2>8, <2>9, <2>10, <2>11, <2>12, <2>13, PortsInv
<1>8. CASE ~Alive1(srv, p)
  <2>1. srv' = [srv EXCEPT !.current = NoJob]
    BY <1>5, <1>8
  <2>2. Kept(srv', srv, {"ports", "due", "errors", "stopping", "current"}) /\ srv'.current = NoJob
    BY <1>2, <2>1 DEF Kept, HasFields, SrvFields
  <2>3. srv'.ports = srv.ports /\ srv'.due = srv.due /\ srv'.stopping = srv.stopping /\ srv'.scheduler = srv.scheduler
    BY <1>2, <2>1 DEF HasFields, SrvFields
  <2>4. ServeGood(srv')
    BY <1>6, <1>8, <2>3 DEF ServeGood
  <2> QED BY <1>2, <2>2, <2>3, <2>4, PortsInv DEF PortShape
<1> QED BY <1>7, <1>8

\* The scheduler's time-out: the opening of a port goes to the front of the tasks.
LEMMA OpenDueInv ==
    ASSUME SrvGood(srv), NEW p, OpenDue(p)
    PROVE  SrvGood(srv')
<1> DEFINE j == OpenJob(p)
           h == [srv.scheduler EXCEPT !.at = "loop"]
           u == srv.due \ {p}
           c == [srv EXCEPT !.due = u, !.scheduler = h]
           q == <<j>> \o srv.tasks
           F == {"due", "scheduler", "tasks"}
<1>1. HasFields(srv, SrvFields) /\ SrvShape(srv) /\ TaskShape(srv) /\ PortShape(srv) /\ LoadGood(srv) /\ EndGood(srv)
      /\ LastGood(srv) /\ ServeGood(srv) /\ p \in srv.due
  BY DEF SrvGood, SrvShape, OpenDue
<1>2. HasFields(j, {"t", "p"}) /\ j.t = "open" /\ j.p = p
  BY DEF OpenJob, HasFields
<1>3. HasFields(h, {"state", "at"}) /\ h.state = srv.scheduler.state
  BY <1>1 DEF SrvShape, ThreadShape, HasFields
<1>4. srv' = AddJob(c, j, TRUE)
  BY DEF OpenDue, OpenJob
<1> HIDE DEF j, h, u
<1>5. HasFields(c, SrvFields) /\ c.due = u /\ c.scheduler = h /\ \A f \in SrvFields \ {"due", "scheduler"} : c[f] = srv[f]
  BY <1>1 DEF HasFields, SrvFields
<1> HIDE DEF c
<1>6. c.tasks = srv.tasks /\ c.dispatcher = srv.dispatcher
  BY <1>5 DEF SrvFields
<1>7. \/ srv.dispatcher # "RUNNING" /\ srv' = c
      \/ srv.dispatcher = "RUNNING" /\ srv' = [c EXCEPT !.tasks = q]
  BY <1>4, <1>6 DEF AddJob
<1>8. /\ IsSeq(q) /\ Len(srv.tasks) \in Nat /\ DOMAIN srv.tasks = 1 .. Len(srv.tasks)
      /\ DOMAIN q = 1 .. Len(srv.tasks) + 1 /\ q[1] = j
      /\ \A i \in DOMAIN srv.tasks : q[i + 1] = srv.tasks[i]
      /\ \A i \in DOMAIN q : i # 1 => i - 1 \in DOMAIN srv.tasks /\ q[i] = srv.tasks[i - 1]
  <2>1. PICK T : srv.tasks \in Seq(T)
    BY <1>1 DEF TaskShape, IsSeq
  <2>2. srv.tasks \in Seq(T \cup {j}) /\ <<j>> \in Seq(T \cup {j}) /\ Len(<<j>>) = 1 /\ <<j>>[1] = j
    BY <2>1
  <2>3. q \in Seq(T \cup {j}) /\ Len(q) = 1 + Len(srv.tasks)
        /\ \A i \in 1 .. Len(q) : q[i] = IF i <= 1 THEN <<j>>[i] ELSE srv.tasks[i - 1]
    BY <2>2
  <2> HIDE DEF q
  <2>4. Len(srv.tasks) \in Nat /\ DOMAIN srv.tasks = 1 .. Len(srv.tasks) /\ DOMAIN q = 1 .. Len(srv.tasks) + 1
        /\ IsSeq(q)
    BY <2>2, <2>3 DEF IsSeq
  <2>5. q[1] = j
    BY <2>2, <2>3, <2>4
  <2>6. \A i \in DOMAIN srv.tasks : q[i + 1] = srv.tasks[i]
    BY <2>3, <2>4
  <2>7. \A i \in DOMAIN q : i # 1 => i - 1 \in DOMAIN srv.tasks /\ q[i] = srv.tasks[i - 1]
    BY <2>3, <2>4
  <2> QED BY <2>4, <2>5, <2>6, <2>7
<1> HIDE DEF q
<1>9. /\ HasFields(srv', SrvFields) /\ \A f \in SrvFields \ {"tasks"} : srv'[f] = c[f]
      /\ \/ srv.dispatcher # "RUNNING" /\ srv'.tasks = srv.tasks
         \/ srv.dispatcher = "RUNNING" /\ srv'.tasks = q
  <2>1. CASE srv.dispatcher # "RUNNING" /\ srv' = c
    BY <1>5, <1>6, <2>1
  <2>2. CASE srv.dispatcher = "RUNNING" /\ srv' = [c EXCEPT !.tasks = q]
    BY <1>5, <2>2 DEF HasFields, SrvFields
  <2> QED BY <1>7, <2>1, <2>2
<1>10. Kept(srv', srv, F)
  BY <1>5, <1>9 DEF Kept
<1>11. srv'.due = u /\ srv'.scheduler = h
  BY <1>5, <1>9 DEF SrvFields
<1>12. srv'.main = srv.main /\ srv'.stopped = srv.stopped /\ srv'.stage = srv.stage /\ srv'.early = srv.early
       /\ srv'.current = srv.current /\ srv'.game = srv.game /\ srv'.manager = srv.manager /\ srv'.dispatcher = srv.dispatcher
  BY <1>10 DEF Kept, SrvFields
<1>13. srv'.acceptors = srv.acceptors /\ srv'.stopping = srv.stopping /\ srv'.ports = srv.ports
       /\ srv'.running = srv.running /\ srv'.death = srv.death /\ srv'.database = srv.database
  BY <1>10 DEF Kept, SrvFields
<1>14. /\ \A i \in DOMAIN srv'.tasks : \/ srv.dispatcher = "RUNNING" /\ i = 1 /\ srv'.tasks[i] = j
                                       \/ \E k \in DOMAIN srv.tasks : srv'.tasks[i] = srv.tasks[k]
       /\ \A k \in DOMAIN srv.tasks : \E i \in DOMAIN srv'.tasks : srv'.tasks[i] = srv.tasks[k]
  <2>1. CASE srv.dispatcher # "RUNNING" /\ srv'.tasks = srv.tasks
    BY <2>1
  <2>2. CASE srv.dispatcher = "RUNNING" /\ srv'.tasks = q
    <3>1. \A k \in DOMAIN srv.tasks : k + 1 \in DOMAIN q
      BY <1>8
    <3> QED BY <1>8, <2>2, <3>1
  <2> QED BY <1>9, <2>1, <2>2
<1>15. \A t : t # "open" => (Comes(srv', t) <=> Comes(srv, t))
  BY <1>2, <1>12, <1>14 DEF Comes
<1>16. (Loading(srv') <=> Loading(srv)) /\ (EndComes(srv') <=> EndComes(srv)) /\ (ShutComes(srv') <=> ShutComes(srv))
       /\ (Comes(srv', "close") <=> Comes(srv, "close"))
  BY <1>12, <1>15 DEF Loading, EndComes, ShutComes
<1>17. p \in DOMAIN srv.ports /\ (srv.stage \in 8 .. 12 \/ srv.stage = -10)
  BY <1>1 DEF PortShape, LoadGood
<1>18. SrvShape(srv')
  <2>1. TaskShape(srv')
    <3>1. IsSeq(srv'.tasks)
      BY <1>1, <1>8, <1>9 DEF TaskShape
    <3>2. \A i \in DOMAIN srv'.tasks : HasFields(srv'.tasks[i], {"t", "p"}) /\ srv'.tasks[i].t # "none"
      BY <1>1, <1>2, <1>14 DEF TaskShape
    <3> QED BY <1>1, <1>12, <3>1, <3>2 DEF TaskShape
  <2>2. ThreadShape(srv')
    BY <1>1, <1>3, <1>11, <1>13 DEF SrvShape, ThreadShape
  <2>3. PortShape(srv')
    BY <1>1, <1>11, <1>13 DEF PortShape, u
  <2>4. FlagShape(srv')
    BY <1>1, <1>10, FlagShapeKept DEF SrvShape
  <2> QED BY <1>10, <2>1, <2>2, <2>3, <2>4 DEF SrvShape, Kept
<1>19. LoadGood(srv')
  <2>1. \A i \in DOMAIN srv.tasks : srv.tasks[i].t # "load"
    BY <1>1, <1>17 DEF LoadGood
  <2>2. \A i \in DOMAIN srv'.tasks : srv'.tasks[i].t # "load"
    BY <1>2, <1>14, <2>1
  <2>3. Loading(srv) => srv.current.t = "load"
    BY <1>1, <2>1, LoaderIsATask
  <2> QED BY <1>1, <1>12, <1>13, <1>16, <2>2, <2>3 DEF LoadGood
<1>20. EndGood(srv')
  BY <1>1, <1>3, <1>11, <1>12, <1>13, <1>16 DEF EndGood
<1>21. LastGood(srv')
  <2>1. CASE srv.dispatcher # "RUNNING" /\ srv'.tasks = srv.tasks
    BY <1>1, <1>12, <1>13, <1>16, <2>1 DEF LastGood
  <2>2. CASE srv.dispatcher = "RUNNING" /\ srv'.tasks = q
    <3>1. ~ShutComes(srv)
      BY <1>1, <2>2 DEF LastGood, EndGood
    <3>2. \A i \in DOMAIN srv'.tasks : srv'.tasks[i].t # "shutdown"
      BY <1>16, <3>1 DEF ShutComes, Comes
    <3>3. DOMAIN srv.ports # {} /\ ~srv.early => ~EndComes(srv) /\ (srv.main \in {"join", "ended"} => srv.stopped = "done")
      BY <1>1, <2>2 DEF LastGood
    <3>4. ~EndComes(srv) => /\ \A i \in DOMAIN srv'.tasks : srv'.tasks[i].t # "end"
                            /\ srv'.current.t # "end" /\ srv'.dispatcher # "TERMINATED"
      BY <1>16 DEF EndComes, Comes
    <3> QED BY <1>12, <1>13, <1>16, <3>1, <3>2, <3>3, <3>4 DEF LastGood
  <2> QED BY <1>9, <2>1, <2>2
<1>22. SharedGood(srv')
  BY <1>13 DEF SrvGood, SharedGood
<1>23. ServeGood(srv')
  <2> SUFFICES ASSUME srv.scheduler.state = "RUNNING" PROVE ServeGood(srv')
    BY <1>3, <1>11 DEF ServeGood
  <2>1. srv'.tasks = q
    BY <1>1, <1>9 DEF EndGood
  <2>2. \A n : n # p => (OpenTask(srv', n) <=> OpenTask(srv, n))
    BY <1>2, <1>14 DEF OpenTask, OpenJob
  <2>3. PortGood(srv, p)
    BY <1>1, <1>17 DEF ServeGood
  <2>4. OpenTask(srv', p) /\ ~OpenTask(srv, p) /\ srv.current # OpenJob(p) /\ srv.ports[p].accept = "none"
    <3>1. OpenTask(srv', p)
      BY <1>8, <2>1 DEF OpenTask, j
    <3> QED BY <1>1, <2>3, <3>1 DEF PortGood
  <2>5. ASSUME NEW n \in DOMAIN srv.ports, NEW i \in DOMAIN q, NEW k \in DOMAIN q, q[i] = OpenJob(n), q[k] = OpenJob(n)
        PROVE  i = k
    <3>1. PortGood(srv, n)
      BY <1>1, <2>5 DEF ServeGood
    <3>2. i \in Int /\ k \in Int
      BY <1>8
    <3>3. CASE n = p
      <4>1. \A m \in DOMAIN srv.tasks : srv.tasks[m] # OpenJob(p)
        BY <2>4 DEF OpenTask
      <4> QED BY <1>8, <2>5, <3>3, <4>1
    <3>4. CASE n # p
      <4>1. OpenJob(n) # j
        BY <1>2, <3>4 DEF OpenJob
      <4>2. i # 1 /\ k # 1
        BY <1>8, <2>5, <4>1
      <4>3. i - 1 = k - 1
        BY <1>8, <2>5, <3>1, <4>2 DEF PortGood
      <4> QED BY <3>2, <4>3
    <3> QED BY <3>3, <3>4
  <2>6. ASSUME NEW n \in DOMAIN srv.ports
        PROVE  PortGood(srv', n)
    <3>1. PortGood(srv, n)
      BY <1>1, <2>6 DEF ServeGood
    <3>2. \A i, k \in DOMAIN srv'.tasks : srv'.tasks[i] = OpenJob(n) /\ srv'.tasks[k] = OpenJob(n) => i = k
      BY <2>1, <2>5
    <3>3. CASE n = p
      BY <1>11, <1>12, <1>13, <2>3, <2>4, <3>2, <3>3 DEF PortGood, u
    <3>4. CASE n # p
      BY <1>11, <1>12, <1>13, <2>2, <3>1, <3>2, <3>4 DEF PortGood, u
    <3> QED BY <3>3, <3>4
  <2>7. \A i \in DOMAIN srv'.tasks : srv'.tasks[i].t = "open" => srv'.tasks[i].p \in DOMAIN srv.ports
    BY <1>1, <1>2, <1>14, <1>17 DEF ServeGood
  <2> QED BY <1>1, <1>12, <1>13, <2>6, <2>7 DEF ServeGood
<1> QED BY <1>18, <1>19, <1>20, <1>21, <1>22, <1>23 DEF SrvGood
-------------------------------------------------------------------------------
(* The services are added.                                                   *)
\* A port that is listed anew, or one that takes another service.
Listed(d, s, p, v) ==
    /\ HasFields(d, SrvFields)
    /\ \A f \in SrvFields \ {"ports", "acceptors", "due", "errors"} : d[f] = s[f]
    /\ HasFields(d.ports, DOMAIN s.ports \cup {p})
    /\ \A n \in DOMAIN s.ports \ {p} : d.ports[n] = s.ports[n]
    /\ HasFields(d.ports[p], PortFields) /\ d.ports[p].services = v
    /\ d.acceptors = s.acceptors \cup {p}

\* The loader adds a service to a port.
LEMMA ListedInv ==
    ASSUME NEW s, NEW d, NEW p, NEW v, SrvGood(s), s.current.t = "load", s.stage \in 8 .. 10, p # 0, Listed(d, s, p, v),
           IsSeq(v), v # <<>>, (\E i \in DOMAIN v : SendsFirst(v[i])) => Len(v) = 1,
           p \in DOMAIN s.ports => d.ports[p].accept = s.ports[p].accept /\ d.ports[p].pending = s.ports[p].pending /\ d.due = s.due,
           p \notin DOMAIN s.ports => \/ d.ports[p].accept = "wait" /\ ~d.ports[p].pending /\ d.due = s.due
                                      \/ d.ports[p].accept = "none" /\ d.due = IF s.scheduler.state = "RUNNING" THEN s.due \cup {p} ELSE s.due
    PROVE  SrvGood(d)
<1>1. SrvShape(s) /\ PortShape(s) /\ LoadGood(s) /\ EndGood(s) /\ LastGood(s) /\ SharedGood(s) /\ ServeGood(s) /\ TaskShape(s)
  BY DEF SrvGood, SrvShape
<1>2. /\ Loading(s) /\ s.stopped = "no" /\ ~s.death /\ s.stopping = {} /\ s.acceptors = DOMAIN s.ports
      /\ \A n : s.current # OpenJob(n)
  BY LoaderRuns
<1>3. Kept(d, s, {"ports", "acceptors", "due", "errors"}) /\ DOMAIN d.ports = DOMAIN s.ports \cup {p}
      /\ d.acceptors = DOMAIN d.ports /\ HasFields(d, SrvFields)
  BY <1>2 DEF Listed, Kept, HasFields
<1>4. d.main = s.main /\ d.stopped = s.stopped /\ d.stage = s.stage /\ d.early = s.early
       /\ d.current = s.current /\ d.game = s.game /\ d.manager = s.manager /\ d.dispatcher = s.dispatcher
  BY <1>3 DEF Kept, SrvFields
<1>5. d.stopping = s.stopping /\ d.tasks = s.tasks /\ d.running = s.running /\ d.death = s.death /\ d.scheduler = s.scheduler
  BY <1>3 DEF Kept, SrvFields
<1>6. (Loading(d) <=> Loading(s)) /\ (EndComes(d) <=> EndComes(s)) /\ (ShutComes(d) <=> ShutComes(s))
      /\ (Comes(d, "close") <=> Comes(s, "close"))
  BY <1>4, <1>5 DEF Loading, EndComes, ShutComes, Comes
<1>7. d.due \subseteq DOMAIN d.ports
  BY <1>1, <1>3 DEF PortShape
<1>8. SrvShape(d)
  <2>1. PortShape(d)
    <3>1. HasFields(d.ports, DOMAIN d.ports)
      BY <1>3 DEF Listed
    <3>2. \A n \in DOMAIN d.ports : HasFields(d.ports[n], PortFields) /\ IsSeq(d.ports[n].services)
      BY <1>1, <1>3 DEF Listed, PortShape
    <3> QED BY <1>1, <1>2, <1>3, <1>5, <1>7, <3>1, <3>2 DEF PortShape
  <2>2. TaskShape(d)
    BY <1>1, <1>3, TaskShapeKept
  <2>3. ThreadShape(d)
    BY <1>1, <1>3, ThreadShapeKept DEF SrvShape
  <2>4. FlagShape(d)
    BY <1>1, <1>3, FlagShapeKept DEF SrvShape
  <2> QED BY <1>3, <2>1, <2>2, <2>3, <2>4 DEF SrvShape
<1>9. LoadGood(d)
  BY <1>1, <1>4, <1>5, <1>6 DEF LoadGood
<1>10. ~EndComes(s) \/ s.early
  BY <1>1, <1>2 DEF EndGood
<1>11. EndGood(d)
  BY <1>1, <1>2, <1>3, <1>4, <1>5, <1>6 DEF EndGood
<1>12. LastGood(d)
  <2>1. ~s.early => s.main \in {"wait", "waiting"}
    BY <1>1, <1>2 DEF EndGood
  <2>2. ~EndComes(s) => /\ \A i \in DOMAIN s.tasks : s.tasks[i].t # "end"
                        /\ s.current.t # "end" /\ s.dispatcher # "TERMINATED"
    BY DEF EndComes, Comes
  <2> QED BY <1>1, <1>4, <1>5, <1>6, <1>10, <2>1, <2>2 DEF LastGood
<1>13. SharedGood(d)
  <2> SUFFICES ASSUME NEW n \in DOMAIN d.ports
               PROVE  (\E i \in DOMAIN d.ports[n].services : SendsFirst(d.ports[n].services[i])) => Len(d.ports[n].services) = 1
    BY DEF SharedGood
  <2>1. CASE n = p
    BY <2>1 DEF Listed
  <2>2. CASE n # p
    BY <1>1, <1>3, <2>2 DEF Listed, SharedGood
  <2> QED BY <2>1, <2>2
<1>14. ServeGood(d)
  <2> SUFFICES ASSUME s.scheduler.state = "RUNNING" PROVE ServeGood(d)
    BY <1>5 DEF ServeGood
  <2>1. ASSUME NEW n \in DOMAIN d.ports, n # p
        PROVE  PortGood(d, n)
    <3>1. n \in DOMAIN s.ports /\ d.ports[n] = s.ports[n] /\ PortGood(s, n)
      BY <1>1, <1>3, <2>1 DEF Listed, ServeGood
    <3>2. n \in d.due <=> n \in s.due
      BY <2>1
    <3> QED BY <1>4, <1>5, <3>1, <3>2 DEF PortGood, OpenTask
  <2>2. PortGood(d, p)
    <3>1. d.ports[p].services = v
      BY DEF Listed
    <3>2. CASE p \in DOMAIN s.ports
      <4>1. PortGood(s, p)
        BY <1>1, <3>2 DEF ServeGood
      <4> QED BY <1>4, <1>5, <3>1, <3>2, <4>1 DEF PortGood, OpenTask
    <3>3. CASE p \notin DOMAIN s.ports
      <4>1. p \notin s.due
        BY <1>1, <3>3 DEF PortShape
      <4>2. \A i \in DOMAIN s.tasks : s.tasks[i] # OpenJob(p)
        BY <1>1, <3>3 DEF ServeGood, OpenJob
      <4>3. ~OpenTask(d, p)
        BY <1>5, <4>2 DEF OpenTask
      <4>4. d.current # OpenJob(p)
        BY <1>2, <1>4
      <4>5. \A i, k \in DOMAIN d.tasks : d.tasks[i] = OpenJob(p) /\ d.tasks[k] = OpenJob(p) => i = k
        BY <1>5, <4>2
      <4> QED BY <3>1, <3>3, <4>1, <4>3, <4>4, <4>5 DEF PortGood
    <3> QED BY <3>2, <3>3
  <2>3. DOMAIN s.ports \subseteq DOMAIN d.ports
    BY <1>3
  <2> QED BY <1>1, <1>4, <1>5, <2>1, <2>2, <2>3 DEF ServeGood
<1> QED BY <1>8, <1>9, <1>11, <1>12, <1>13, <1>14 DEF SrvGood

\* ServicePort::add_service.
LEMMA AddServiceDoes ==
    ASSUME NEW s, NEW p, NEW q, PortRec(s, p)
    PROVE  LET v == s.ports[p].services
           IN  \/ (\E i \in DOMAIN v : SendsFirst(v[i])) /\ AddService(s, p, q) = s
               \/ /\ \A i \in DOMAIN v : ~SendsFirst(v[i])
                  /\ PortIs(AddService(s, p, q), s, p, {}, Append(v, q), s.ports[p].accept, s.ports[p].open, s.ports[p].pending)
<1> DEFINE v == s.ports[p].services
           w == Append(v, q)
<1>1. CASE \E i \in DOMAIN v : SendsFirst(v[i])
  BY <1>1 DEF AddService
<1>2. CASE ~\E i \in DOMAIN v : SendsFirst(v[i])
  <2>1. AddService(s, p, q) = [s EXCEPT !.ports[p].services = w]
    BY <1>2 DEF AddService
  <2> HIDE DEF w
  <2>2. PortIs(AddService(s, p, q), s, p, {}, w, s.ports[p].accept, s.ports[p].open, s.ports[p].pending)
    BY <2>1, ServicesWritten
  <2> QED BY <1>2, <2>2 DEF w
<1> QED BY <1>1, <1>2

\* A port of an earlier protocol takes a service that may share it.
LEMMA AddToListed ==
    ASSUME NEW s, NEW p, NEW q, SrvGood(s), s.current.t = "load", s.stage \in 8 .. 10, p \in DOMAIN s.ports,
           ~SendsFirst(q)
    PROVE  SrvGood(AddService(s, p, q))
<1> DEFINE v == s.ports[p].services
           w == Append(v, q)
           d == AddService(s, p, q)
<1>1. PortShape(s) /\ HasFields(s, SrvFields) /\ s.acceptors = DOMAIN s.ports
  BY LoaderRuns DEF SrvGood, SrvShape
<1>2. PortRec(s, p) /\ IsSeq(v) /\ p # 0
  BY <1>1 DEF PortRec, PortShape
<1>3. CASE d = s
  BY <1>3
<1>4. CASE (\A i \in DOMAIN v : ~SendsFirst(v[i]))
           /\ PortIs(d, s, p, {}, w, s.ports[p].accept, s.ports[p].open, s.ports[p].pending)
  <2>1. IsSeq(w) /\ Len(v) \in Nat /\ DOMAIN w = 1 .. Len(v) + 1 /\ w[Len(v) + 1] = q /\ DOMAIN v = 1 .. Len(v)
        /\ \A i \in DOMAIN v : w[i] = v[i]
    BY <1>2, AddedIs
  <2> HIDE DEF v, w, d
  <2>2. w # <<>>
    BY <2>1
  <2>3. \A i \in DOMAIN w : ~SendsFirst(w[i])
    <3> SUFFICES ASSUME NEW i \in DOMAIN w PROVE ~SendsFirst(w[i])
      OBVIOUS
    <3>1. i \in DOMAIN v \/ i = Len(v) + 1
      BY <2>1
    <3>2. CASE i \in DOMAIN v
      <4>1. w[i] = v[i]
        BY <2>1, <3>2
      <4> QED BY <1>4, <3>2, <4>1
    <3>3. CASE i = Len(v) + 1
      <4>1. w[i] = q
        BY <2>1, <3>3
      <4> QED BY <4>1
    <3> QED BY <3>1, <3>2, <3>3
  <2>4. HasFields(d, SrvFields) /\ \A f \in SrvFields \ {"ports"} : d[f] = s[f]
    BY <1>4 DEF PortIs, Kept
  <2>5. HasFields(d.ports, DOMAIN s.ports) /\ (\A n \in DOMAIN s.ports \ {p} : d.ports[n] = s.ports[n])
        /\ HasFields(d.ports[p], PortFields) /\ d.ports[p].services = w
        /\ d.ports[p].accept = s.ports[p].accept /\ d.ports[p].pending = s.ports[p].pending
    BY <1>4 DEF PortIs
  <2>6. DOMAIN s.ports \cup {p} = DOMAIN s.ports
    OBVIOUS
  <2>7. d.acceptors = s.acceptors \cup {p} /\ d.due = s.due
    <3>1. d.acceptors = s.acceptors /\ d.due = s.due
      BY <2>4 DEF SrvFields
    <3> QED BY <1>1, <3>1
  <2>8. Listed(d, s, p, w)
    BY <2>4, <2>5, <2>6, <2>7 DEF Listed
  <2>9. SrvGood(d)
    BY <1>2, <2>1, <2>2, <2>3, <2>5, <2>7, <2>8, ListedInv
  <2> QED BY <2>9 DEF d
<1> QED BY <1>2, <1>3, <1>4, AddServiceDoes

\* The port as ServiceManager::add makes it.
WithPort(s, p) == [s EXCEPT !.ports = [k \in DOMAIN @ \cup {p} |-> IF k = p THEN NewPort ELSE s.ports[k]]]

\* A port that is opened for its first service.
LEMMA AddAnew ==
    ASSUME NEW s, NEW p, NEW q, SrvGood(s), s.current.t = "load", s.stage \in 8 .. 10, p \notin DOMAIN s.ports, p # 0,
           NEW ok \in BOOLEAN
    PROVE  SrvGood(AddService([OpenPort(WithPort(s, p), p, ok) EXCEPT !.acceptors = @ \cup {p}], p, q))
<1> DEFINE P == [k \in DOMAIN s.ports \cup {p} |-> IF k = p THEN NewPort ELSE s.ports[k]]
           n == WithPort(s, p)
           o == OpenPort(n, p, ok)
           A == s.acceptors \cup {p}
           u == s.due \cup {p}
           l == [o EXCEPT !.acceptors = A]
           d == AddService(l, p, q)
           a == IF ok THEN "wait" ELSE "none"
           v == <<q>>
           F == {"due", "errors"}
<1>1. PortShape(s) /\ HasFields(s, SrvFields) /\ s.acceptors = DOMAIN s.ports
  BY LoaderRuns DEF SrvGood, SrvShape
<1>2. HasFields(P, DOMAIN s.ports \cup {p}) /\ P[p] = NewPort /\ \A k \in DOMAIN s.ports : P[k] = s.ports[k]
  BY DEF HasFields
<1>3. n = [s EXCEPT !.ports = P]
  BY DEF WithPort
<1> HIDE DEF P, n
<1>4. HasFields(n, SrvFields) /\ n.ports = P /\ \A f \in SrvFields \ {"ports"} : n[f] = s[f]
  BY <1>1, <1>3 DEF HasFields, SrvFields
<1>5. HasFields(NewPort, PortFields) /\ NewPort.services = <<>> /\ NewPort.accept = "none"
  BY DEF NewPort, HasFields, PortFields
<1>6. PortRec(n, p) /\ n.ports[p].services = <<>> /\ n.ports[p].accept = "none" /\ DOMAIN n.ports = DOMAIN s.ports \cup {p}
  BY <1>2, <1>4, <1>5 DEF PortRec, HasFields
<1>7. n.due = s.due /\ n.scheduler = s.scheduler /\ n.acceptors = s.acceptors
  BY <1>4 DEF SrvFields
<1>8. /\ PortIs(o, n, p, F, <<>>, a, ok, ~ok)
      /\ o.due = IF ~ok /\ s.scheduler.state = "RUNNING" THEN u ELSE s.due
  <2>1. CASE ok
    <3>1. PortIs(o, n, p, {}, <<>>, "wait", TRUE, FALSE)
      BY <1>6, <2>1, OpenPortDoes
    <3> HIDE DEF o
    <3>2. o.due = n.due /\ PortIs(o, n, p, F, <<>>, "wait", TRUE, FALSE)
      BY <3>1 DEF PortIs, Kept, SrvFields
    <3>3. ok = TRUE /\ (~ok) = FALSE /\ a = "wait"
      BY <2>1
    <3> HIDE DEF a, u
    <3> QED BY <1>7, <3>2, <3>3
  <2>2. CASE ~ok
    <3>1. /\ PortIs(o, n, p, F, n.ports[p].services, IF n.ports[p].accept = "wait" THEN "aborted" ELSE n.ports[p].accept, FALSE, TRUE)
          /\ o.due = IF n.scheduler.state = "RUNNING" THEN n.due \cup {p} ELSE n.due
      BY <1>6, <2>2, OpenPortDoes
    <3>2. ok = FALSE /\ (~ok) = TRUE /\ a = "none"
      BY <2>2
    <3> HIDE DEF o, a
    <3> QED BY <1>6, <1>7, <2>2, <3>1, <3>2
  <2> QED BY <2>1, <2>2
<1> HIDE DEF o, a
<1>9. HasFields(o, SrvFields) /\ \A f \in SrvFields \ {"ports", "due", "errors"} : o[f] = s[f]
  BY <1>4, <1>8 DEF PortIs, Kept
<1>10. o.acceptors = s.acceptors
  BY <1>9 DEF SrvFields
<1>11. [o EXCEPT !.acceptors = @ \cup {p}] = l
  BY <1>10
<1> HIDE DEF A
<1>12. HasFields(l, SrvFields) /\ l.acceptors = A /\ \A f \in SrvFields \ {"acceptors"} : l[f] = o[f]
  BY <1>9 DEF HasFields, SrvFields
<1> HIDE DEF l
<1>13. l.ports = o.ports /\ l.due = o.due
  BY <1>12 DEF SrvFields
<1>14. PortRec(l, p) /\ l.ports[p].services = <<>> /\ l.ports[p].accept = a /\ l.ports[p].pending = ~ok
       /\ DOMAIN l.ports = DOMAIN s.ports \cup {p}
  BY <1>6, <1>8, <1>12, <1>13 DEF PortIs, PortRec, HasFields
<1>15. PortIs(d, l, p, {}, v, a, l.ports[p].open, ~ok)
  <2>1. ~\E i \in DOMAIN l.ports[p].services : SendsFirst(l.ports[p].services[i])
    BY <1>14
  <2>2. Append(l.ports[p].services, q) = v
    BY <1>14
  <2> HIDE DEF v
  <2> QED BY <1>14, <2>1, <2>2, AddServiceDoes
<1> HIDE DEF d, u
<1>16. HasFields(d, SrvFields) /\ \A f \in SrvFields \ {"ports"} : d[f] = l[f]
  BY <1>15 DEF PortIs, Kept
<1>17. \A f \in SrvFields \ {"ports", "acceptors", "due", "errors"} : d[f] = s[f]
  BY <1>9, <1>12, <1>16
<1>18. d.acceptors = s.acceptors \cup {p} /\ d.due = o.due
  BY <1>12, <1>13, <1>16 DEF SrvFields, A
<1>19. HasFields(d.ports, DOMAIN s.ports \cup {p}) /\ HasFields(d.ports[p], PortFields)
       /\ d.ports[p].services = v /\ d.ports[p].accept = a /\ d.ports[p].pending = ~ok
  BY <1>14, <1>15 DEF PortIs
<1>20. \A k \in DOMAIN s.ports \ {p} : d.ports[k] = s.ports[k]
  <2> SUFFICES ASSUME NEW k \in DOMAIN s.ports \ {p} PROVE d.ports[k] = s.ports[k]
    OBVIOUS
  <2>1. d.ports[k] = l.ports[k]
    BY <1>14, <1>15 DEF PortIs
  <2>2. o.ports[k] = n.ports[k]
    BY <1>6, <1>8 DEF PortIs
  <2> QED BY <1>2, <1>4, <1>13, <2>1, <2>2
<1>21. Listed(d, s, p, v)
  BY <1>16, <1>17, <1>18, <1>19, <1>20 DEF Listed
<1>22. IsSeq(v) /\ v # <<>> /\ Len(v) = 1
  <2>1. v \in Seq({q})
    OBVIOUS
  <2> QED BY <2>1 DEF IsSeq
<1>23. \/ d.ports[p].accept = "wait" /\ ~d.ports[p].pending /\ d.due = s.due
       \/ d.ports[p].accept = "none" /\ d.due = IF s.scheduler.state = "RUNNING" THEN s.due \cup {p} ELSE s.due
  <2>1. CASE ok
    BY <1>8, <1>18, <1>19, <2>1 DEF a
  <2>2. CASE ~ok
    BY <1>8, <1>18, <1>19, <2>2 DEF a, u
  <2> QED BY <2>1, <2>2
<1> HIDE DEF v
<1>24. SrvGood(d)
  BY <1>21, <1>22, <1>23, ListedInv
<1> QED BY <1>11, <1>24 DEF d, o, n

\* services->add, for the port of one protocol.
LEMMA AddProtocolInv ==
    ASSUME NEW s, NEW q, NEW ok \in BOOLEAN, SrvGood(s), s.current.t = "load", s.stage \in 8 .. 10
    PROVE  SrvGood(AddProtocol(s, q, ok))
<1> DEFINE p == s.plan[q]
           n == [s EXCEPT !.ports = [k \in DOMAIN @ \cup {p} |-> IF k = p THEN NewPort ELSE s.ports[k]]]
<1>1. s.acceptors = DOMAIN s.ports /\ 0 \notin DOMAIN s.ports
  BY LoaderRuns DEF SrvGood, SrvShape, PortShape
<1>2. CASE p = 0
  <2>1. AddProtocol(s, q, ok) = s
    BY <1>1, <1>2 DEF AddProtocol
  <2> QED BY <2>1
<1>3. CASE p # 0 /\ p \notin s.acceptors
  <2>1. AddProtocol(s, q, ok) = AddService([OpenPort(n, p, ok) EXCEPT !.acceptors = @ \cup {p}], p, q)
    BY <1>3 DEF AddProtocol
  <2> HIDE DEF p
  <2>2. n = WithPort(s, p)
    BY DEF WithPort
  <2> HIDE DEF n
  <2> QED BY <1>1, <1>3, <2>1, <2>2, AddAnew
<1>4. CASE p \in s.acceptors
  <2>1. AddProtocol(s, q, ok) = IF SingleSocket1(s, p) \/ SendsFirst(q) THEN s ELSE AddService(s, p, q)
    BY <1>1, <1>4 DEF AddProtocol
  <2> HIDE DEF p
  <2> QED BY <1>1, <1>4, <2>1, AddToListed
<1> QED BY <1>2, <1>3, <1>4

\* One part of the loader.
LEMMA LoadStageInv ==
    ASSUME SrvGood(srv), LoadStage
    PROVE  SrvGood(srv')
<1> DEFINE k == srv.stage + 1
           x == [srv EXCEPT !.stage = k]
           F == {"stage", "database", "game", "asked"}
           stage == Stages[srv.stage]
<1>1. HasFields(srv, SrvFields) /\ ThreadShape(srv) /\ srv.current.t = "load" /\ srv.stage \in 1 .. 11
  BY LoaderRuns DEF SrvGood, SrvShape, LoadStage, Running
<1>2. [srv EXCEPT !.stage = @ + 1] = x
  OBVIOUS
<1>3. \/ stage \in {"config", "connect", "setup", "data", "resolve"} /\ srv' = x
      \/ stage = "start" /\ srv' = [x EXCEPT !.database = [state |-> "RUNNING", at |-> "loop"]]
      \/ stage = "init" /\ \/ srv' = SetGameState(x, "INIT")
                           \/ srv' = SetGameState(SetGameState([x EXCEPT !.asked = TRUE], "INIT"), "SHUTDOWN")
      \/ stage \in Protocols3 /\ \E ok \in BOOLEAN : srv' = AddProtocol(x, stage, ok)
      \/ stage = "online" /\ srv' = Done(LoaderSignal(SetGameState([x EXCEPT !.manager = TRUE], "NORMAL")))
  BY <1>2 DEF LoadStage
<1> HIDE DEF k
<1>4. HasFields(x, SrvFields) /\ x.stage = k /\ \A f \in SrvFields \ {"stage"} : x[f] = srv[f]
  BY <1>1 DEF HasFields, SrvFields
<1>5. Kept(x, srv, F) /\ ThreadShape(x) /\ x.game = srv.game /\ x.current = srv.current
  <2>1. x.scheduler = srv.scheduler /\ x.database = srv.database /\ x.game = srv.game /\ x.current = srv.current
    BY <1>4 DEF SrvFields
  <2> HIDE DEF x
  <2> QED BY <1>1, <1>4, <2>1 DEF Kept, ThreadShape
<1>6. ASSUME srv.stage \notin {6, 11} PROVE SrvGood(x)
  <2>1. x.stage = srv.stage + 1 /\ x.game = IF srv.stage = 6 THEN "INIT" ELSE srv.game
    BY <1>4, <1>5, <1>6 DEF k
  <2> HIDE DEF x
  <2> QED BY <1>1, <1>5, <1>6, <2>1, LoaderGoesOn
<1>7. CASE stage \in {"config", "connect", "setup", "data", "resolve"} /\ srv' = x
  <2>1. srv.stage \in {1, 2, 3, 5, 10}
    BY <1>1, <1>7, StagesAre
  <2> HIDE DEF x
  <2> QED BY <1>6, <1>7, <2>1
<1>8. CASE stage = "start" /\ srv' = [x EXCEPT !.database = [state |-> "RUNNING", at |-> "loop"]]
  <2> DEFINE h == [state |-> "RUNNING", at |-> "loop"]
  <2>1. srv.stage = 4
    BY <1>1, <1>8, StagesAre
  <2>2. HasFields(h, {"state", "at"})
    BY DEF HasFields
  <2>3. srv' = [x EXCEPT !.database = h]
    BY <1>8
  <2> HIDE DEF h, x
  <2>4. HasFields(srv', SrvFields) /\ srv'.database = h /\ \A f \in SrvFields \ {"database"} : srv'[f] = x[f]
    BY <1>4, <2>3 DEF HasFields, SrvFields
  <2>5. srv'.scheduler = x.scheduler /\ srv'.stage = k /\ srv'.game = srv.game
    BY <1>4, <1>5, <2>4 DEF SrvFields
  <2>6. Kept(srv', srv, F)
    BY <1>4, <2>4 DEF Kept
  <2>7. ThreadShape(srv')
    BY <1>5, <2>2, <2>4, <2>5 DEF ThreadShape
  <2>8. srv'.stage = srv.stage + 1 /\ srv'.game = IF srv.stage = 6 THEN "INIT" ELSE srv.game
    BY <2>1, <2>5 DEF k
  <2> QED BY <1>1, <2>1, <2>6, <2>7, <2>8, LoaderGoesOn
<1>9. CASE stage = "init" /\ \/ srv' = SetGameState(x, "INIT")
                             \/ srv' = SetGameState(SetGameState([x EXCEPT !.asked = TRUE], "INIT"), "SHUTDOWN")
  <2>1. srv.stage = 6
    BY <1>1, <1>9, StagesAre
  <2>2. k = 7
    BY <2>1 DEF k
  <2>3. x = [srv EXCEPT !.stage = 7, !.asked = srv.asked]
    <3> DEFINE y == [srv EXCEPT !.stage = 7, !.asked = srv.asked]
    <3>1. HasFields(y, SrvFields) /\ y.stage = 7 /\ \A f \in SrvFields \ {"stage"} : y[f] = srv[f]
      BY <1>1 DEF HasFields, SrvFields
    <3> HIDE DEF x, y
    <3>2. \A f \in SrvFields : x[f] = y[f]
      BY <1>4, <2>2, <3>1
    <3>3. x = [f \in SrvFields |-> x[f]] /\ y = [f \in SrvFields |-> y[f]]
      BY <1>4, <3>1 DEF HasFields
    <3>4. x = y
      BY <3>2, <3>3
    <3> QED BY <3>4 DEF y
  <2>4. [x EXCEPT !.asked = TRUE] = [srv EXCEPT !.stage = 7, !.asked = TRUE]
    BY <2>2
  <2>5. CASE srv' = SetGameState(x, "INIT")
    <3>1. srv' = SetGameState([srv EXCEPT !.stage = 7, !.asked = srv.asked], "INIT")
      BY <2>3, <2>5
    <3> QED BY <1>1, <2>1, <3>1, LoadInitInv
  <2>6. CASE srv' = SetGameState(SetGameState([x EXCEPT !.asked = TRUE], "INIT"), "SHUTDOWN")
    <3>1. srv' = SetGameState(SetGameState([srv EXCEPT !.stage = 7, !.asked = TRUE], "INIT"), "SHUTDOWN")
      BY <2>4, <2>6
    <3> QED BY <1>1, <2>1, <3>1, LoadInitInv
  <2> QED BY <1>9, <2>5, <2>6
<1>10. CASE stage \in Protocols3 /\ \E ok \in BOOLEAN : srv' = AddProtocol(x, stage, ok)
  <2>1. srv.stage \in 7 .. 9
    BY <1>1, <1>10, StagesAre
  <2>2. k \in 8 .. 10
    BY <2>1 DEF k
  <2> HIDE DEF x, stage
  <2>3. PICK ok \in BOOLEAN : srv' = AddProtocol(x, stage, ok)
    BY <1>10
  <2>4. SrvGood(AddProtocol(x, stage, ok))
    BY <1>1, <1>4, <1>5, <1>6, <2>1, <2>2, AddProtocolInv
  <2> QED BY <2>3, <2>4
<1>11. CASE stage = "online" /\ srv' = Done(LoaderSignal(SetGameState([x EXCEPT !.manager = TRUE], "NORMAL")))
  <2>1. srv.stage = 11
    BY <1>1, <1>11, StagesAre
  <2>2. k = 12
    BY <2>1 DEF k
  <2>3. [x EXCEPT !.manager = TRUE] = [srv EXCEPT !.stage = 12, !.manager = TRUE]
    BY <2>2
  <2>4. srv' = Done(LoaderSignal(SetGameState([srv EXCEPT !.stage = 12, !.manager = TRUE], "NORMAL")))
    BY <1>11, <2>3
  <2> QED BY <1>1, <2>1, <2>4, LoadOnlineInv
<1> QED BY <1>3, <1>7, <1>8, <1>9, <1>10, <1>11
-------------------------------------------------------------------------------
(* The invariant, and what it says.                                          *)
\* A step of the process.
LEMMA ProcessNextInv ==
    ASSUME SrvGood(srv), ProcessNext
    PROVE  SrvGood(srv')
<1>1. srv.main # "ended"
  BY DEF ProcessNext
<1>2. CASE ThreadStep \/ ThreadWorks
  BY <1>2, ThreadsInv
<1>3. CASE TakeJob
  BY <1>3, TakeJobInv
<1>4. CASE MainWaits \/ SpuriousWakeup \/ MainJoins \/ ServicesDie
  BY <1>4, MainStepsInv
<1>5. CASE MainGoesOn
  BY <1>5, MainGoesOnInv
<1>6. CASE LoadStage \/ LoadFails
  BY <1>6, LoadStageInv, LoadFailsInv
<1>7. CASE AskShutdown
  BY <1>7, AskShutdownInv
<1>8. CASE CloseGame
  BY <1>8, CloseGameInv
<1>9. CASE GameShutdown
  BY <1>1, <1>9, GameShutdownInv
<1>10. CASE EndDispatcher
  BY <1>10, EndDispatcherInv
<1>11. ASSUME NEW p \in DOMAIN srv.ports, OnStopServer(p) \/ AcceptEnds(p) \/ HandleAccept(p) \/ OpenDue(p)
       PROVE  SrvGood(srv')
  BY <1>11, OnStopServerInv, AcceptEndsInv, HandleAcceptInv, OpenDueInv
<1>12. CASE OpenAcceptor
  BY <1>12, OpenAcceptorInv
<1> QED BY <1>2, <1>3, <1>4, <1>5, <1>6, <1>7, <1>8, <1>9, <1>10, <1>11, <1>12 DEF ProcessNext

\* A process that has just started.
LEMMA SrvBegins ==
    ASSUME NEW plan
    PROVE  SrvGood(SrvStart(plan)) /\ SrvStart(plan) # SrvGone
<1> DEFINE s == SrvStart(plan)
           j == Job("load")
           h == [state |-> "RUNNING", at |-> "loop"]
           d == [state |-> "TERMINATED", at |-> "none"]
<1>1. HasFields(j, {"t", "p"}) /\ j.t = "load" /\ HasFields(NoJob, {"t", "p"}) /\ NoJob.t = "none"
  BY DEF Job, NoJob, HasFields
<1>2. HasFields(h, {"state", "at"}) /\ h.state = "RUNNING" /\ HasFields(d, {"state", "at"})
  BY DEF HasFields
<1>3. HasFields(s, SrvFields)
  BY DEF SrvStart, HasFields, SrvFields
<1>4. s.main = "wait" /\ s.early = FALSE /\ s.stage = 1 /\ s.game = "STARTUP" /\ s.manager = FALSE /\ s.running = FALSE
      /\ s.stopped = "no" /\ s.ports = <<>> /\ s.acceptors = {} /\ s.stopping = {}
  BY DEF SrvStart
<1>5. s.death = FALSE /\ s.due = {} /\ s.tasks = <<j>> /\ s.current = NoJob /\ s.dispatcher = "RUNNING" /\ s.scheduler = h
      /\ s.database = d
  BY DEF SrvStart
<1>6. SrvStart(plan) # SrvGone
  <2> DEFINE g == SrvStart([q \in Protocols3 |-> 0])
  <2>1. "main" \in DOMAIN g
    BY DEF SrvStart
  <2>2. SrvGone = [g EXCEPT !.main = "ended"]
    BY DEF SrvGone
  <2> HIDE DEF g
  <2>3. SrvGone.main = "ended"
    BY <2>1, <2>2
  <2> QED BY <1>4, <2>3
<1>7. <<j>> \in Seq({j}) /\ DOMAIN <<j>> = 1 .. 1 /\ <<j>>[1] = j /\ Len(<<j>>) = 1 /\ <<j>> # <<>>
  OBVIOUS
<1>8. IsSeq(<<j>>)
  BY <1>7 DEF IsSeq
<1>9. DOMAIN s.ports = {} /\ HasFields(s.ports, {})
  <2>1. DOMAIN <<>> = {} /\ <<>> = [f \in {} |-> <<>>[f]]
    OBVIOUS
  <2> QED BY <1>4, <2>1 DEF HasFields
<1> HIDE DEF s, j, h, d
<1>10. SrvShape(s)
  <2>1. ThreadShape(s)
    BY <1>2, <1>5 DEF ThreadShape
  <2>2. TaskShape(s)
    BY <1>1, <1>5, <1>7, <1>8 DEF TaskShape
  <2>3. PortShape(s)
    BY <1>4, <1>5, <1>9 DEF PortShape
  <2>4. FlagShape(s)
    BY <1>4, <1>5 DEF FlagShape
  <2> QED BY <1>3, <2>1, <2>2, <2>3, <2>4 DEF SrvShape
<1>11. LoadGood(s)
  BY <1>1, <1>4, <1>5, <1>7, <1>9 DEF LoadGood, Loading, Comes
<1>12. \A i \in DOMAIN s.tasks : s.tasks[i].t = "load"
  BY <1>1, <1>5, <1>7
<1>13. ~EndComes(s) /\ ~ShutComes(s)
  BY <1>1, <1>5, <1>12 DEF EndComes, ShutComes, Comes
<1>14. EndGood(s)
  BY <1>2, <1>4, <1>5, <1>9, <1>13 DEF EndGood
<1>15. LastGood(s)
  BY <1>1, <1>5, <1>9, <1>12, <1>13 DEF LastGood
<1>16. SharedGood(s) /\ ServeGood(s)
  BY <1>1, <1>5, <1>9, <1>12 DEF SharedGood, ServeGood
<1>17. SrvGood(s)
  BY <1>10, <1>11, <1>14, <1>15, <1>16 DEF SrvGood
<1> QED BY <1>6, <1>17 DEF s

\* A process that has ended moves no more.
LEMMA GoneIs ==
    SrvGone.main = "ended" /\ SrvGone.ports = <<>> /\ DOMAIN SrvGone.ports = {} /\ SrvGone.dispatcher = "RUNNING"
<1> DEFINE g == SrvStart([q \in Protocols3 |-> 0])
<1>1. "main" \in DOMAIN g /\ "ports" \in DOMAIN g /\ "dispatcher" \in DOMAIN g /\ g.ports = <<>> /\ g.dispatcher = "RUNNING"
  BY DEF SrvStart
<1>2. SrvGone = [g EXCEPT !.main = "ended"]
  BY DEF SrvGone
<1>3. DOMAIN <<>> = {}
  OBVIOUS
<1> HIDE DEF g
<1>4. SrvGone.main = "ended" /\ SrvGone.ports = <<>> /\ SrvGone.dispatcher = "RUNNING"
  BY <1>1, <1>2
<1> QED BY <1>3, <1>4

\* No port goes deaf: what is under way for it is counted.
LEMMA ServeEnough ==
    ASSUME SrvGood(srv)
    PROVE  PortServes
<1> SUFFICES ASSUME srv.scheduler.state = "RUNNING", NEW p \in srv.acceptors
             PROVE  LET jobs == {i \in DOMAIN srv.tasks : srv.tasks[i] = [t |-> "open", p |-> p]}
                    IN  1 = (IF srv.ports[p].accept # "none" THEN 1 ELSE 0)
                          + (IF p \in srv.due THEN 1 ELSE 0)
                          + (IF srv.current = [t |-> "open", p |-> p] THEN 1 ELSE 0)
                          + Cardinality(jobs)
  BY DEF PortServes
<1> DEFINE j == OpenJob(p)
           jobs == {i \in DOMAIN srv.tasks : srv.tasks[i] = j}
           a == srv.ports[p].accept
<1>1. j = [t |-> "open", p |-> p]
  BY DEF OpenJob
<1>2. PortGood(srv, p)
  BY DEF SrvGood, SrvShape, PortShape, ServeGood
<1>3. /\ a # "none" => p \notin srv.due /\ srv.current # j /\ ~OpenTask(srv, p)
      /\ p \in srv.due => srv.current # j /\ ~OpenTask(srv, p)
      /\ srv.current = j => ~OpenTask(srv, p)
      /\ a = "none" => p \in srv.due \/ srv.current = j \/ OpenTask(srv, p)
  BY <1>2 DEF PortGood
<1>4. Cardinality(jobs) = IF OpenTask(srv, p) THEN 1 ELSE 0
  <2>1. CASE OpenTask(srv, p)
    <3>1. PICK i \in DOMAIN srv.tasks : srv.tasks[i] = j
      BY <2>1 DEF OpenTask
    <3>2. jobs = {i}
      BY <1>2, <3>1 DEF PortGood
    <3> HIDE DEF jobs
    <3>3. Cardinality(jobs) = 1
      BY <3>2, FS_Singleton
    <3> QED BY <2>1, <3>3
  <2>2. CASE ~OpenTask(srv, p)
    <3>1. jobs = {}
      BY <2>2 DEF OpenTask
    <3> HIDE DEF jobs
    <3>2. Cardinality(jobs) = 0
      BY <3>1, FS_EmptySet
    <3> QED BY <2>2, <3>2
  <2> QED BY <2>1, <2>2
<1> HIDE DEF j, jobs, a
<1>5. 1 = (IF a # "none" THEN 1 ELSE 0) + (IF p \in srv.due THEN 1 ELSE 0) + (IF srv.current = j THEN 1 ELSE 0)
          + Cardinality(jobs)
  BY <1>3, <1>4
<1> QED BY <1>1, <1>5 DEF j, jobs, a

\* The invariant gives what is promised of the server.
LEMMA ServerEnough ==
    ASSUME ServerInv
    PROVE  ServerAgrees
<1>1. BurstsEnd /\ BansHold /\ PremiumCounts
  BY GateEnough DEF ServerInv
<1>2. CASE srv = SrvGone
  <2>1. srv.main = "ended" /\ DOMAIN srv.ports = {}
    BY <1>2, GoneIs
  <2>2. EndsOrWindow /\ OnlineIsReady /\ PortServes /\ PortsApart
    BY <2>1 DEF EndsOrWindow, Over, OnlineIsReady, PortServes, PortsApart
  <2> QED BY <1>1, <2>2 DEF ServerAgrees
<1>3. CASE SrvGood(srv)
  <2>1. LoadGood(srv) /\ EndGood(srv) /\ LastGood(srv) /\ SharedGood(srv)
    BY <1>3 DEF SrvGood
  <2>2. EndsOrWindow
    <3> SUFFICES ASSUME Over PROVE EndsOrWindow
      BY DEF EndsOrWindow
    <3>1. EndComes(srv) /\ ~srv.death /\ srv.main \in {"waiting", "running", "join"}
      BY <2>1 DEF Over, EndComes, EndGood
    <3>2. CASE srv.main = "waiting"
      <4>1. ~Loading(srv)
        BY <2>1, <3>1, <3>2 DEF EndGood
      <4> QED BY <2>1, <3>2, <4>1, StagesAre DEF EndsOrWindow, Loading
    <3>3. CASE srv.main = "running"
      BY <2>1, <3>1, <3>3 DEF EndGood, EndsOrWindow
    <3>4. CASE srv.main = "join"
      BY <3>4 DEF EndsOrWindow, Over
    <3> QED BY <3>1, <3>2, <3>3, <3>4
  <2>3. OnlineIsReady
    <3> SUFFICES ASSUME srv.main = "running", ~srv.early
                 PROVE  \/ srv.stage > Len(Stages) /\ srv.game \in {"NORMAL", "SHUTDOWN"} /\ srv.manager
                        \/ srv.stage = - AtResolve /\ srv.game \in {"INIT", "SHUTDOWN"} /\ ~ srv.manager
      BY DEF OnlineIsReady
    <3>1. srv.stage = 12 \/ srv.stage = -10
      BY <2>1 DEF EndGood, LoadGood, Loading
    <3> QED BY <2>1, <3>1, StagesAre DEF LoadGood
  <2>4. PortServes
    BY <1>3, ServeEnough
  <2>5. PortsApart
    BY <2>1 DEF PortsApart, SharedGood, LastGood
  <2> QED BY <1>1, <2>2, <2>3, <2>4, <2>5 DEF ServerAgrees
<1> QED BY <1>2, <1>3 DEF ServerInv

\* The invariant of the server: where the loader stands and what it has opened, who
\* has ended which thread, that each port that serves awaits a client or its opening
\* once, and what the gates count (otserv.cpp, server.cpp, ban.cpp, Game::updatePremium).
THEOREM ServerInvariant == ServerSpec => []ServerInv
<1>1. ServerInit => ServerInv
  <2>1. ASSUME srv \in {SrvStart(plan) : plan \in PortPlans}, gate = GateGone
        PROVE  ServerInv
    <3>1. SrvGood(srv)
      BY <2>1, SrvBegins
    <3>2. GateGood(gate)
      BY <2>1 DEF GateGone, GateGood
    <3> QED BY <3>1, <3>2 DEF ServerInv
  <2>2. ASSUME srv = SrvGone, gate \in Gates
        PROVE  ServerInv
    BY <2>2, GatesBegin DEF ServerInv
  <2> QED BY <2>1, <2>2 DEF ServerInit
<1>2. ServerInv /\ [ServerNext]_serverVars => ServerInv'
  <2> SUFFICES ASSUME ServerInv, [ServerNext]_serverVars PROVE ServerInv'
    OBVIOUS
  <2>1. CASE ProcessNext
    <3>1. srv # SrvGone /\ gate' = gate
      BY <2>1, GoneIs DEF ProcessNext
    <3>2. SrvGood(srv')
      BY <2>1, <3>1, ProcessNextInv DEF ServerInv
    <3> QED BY <3>1, <3>2 DEF ServerInv
  <2>2. CASE GateNext
    <3>1. srv' = srv
      BY <2>2 DEF GateNext
    <3>2. GateGood(gate')
      BY <2>2, GateNextInv DEF ServerInv
    <3> QED BY <3>1, <3>2 DEF ServerInv
  <2>3. CASE UNCHANGED serverVars
    BY <2>3 DEF ServerInv, serverVars
  <2> QED BY <2>1, <2>2, <2>3 DEF ServerNext
<1> QED BY <1>1, <1>2, PTL DEF ServerSpec

\* Once its threads have been told to end the process ends but for the code's own
\* windows, services run only behind a loaded game, no port goes deaf, no game port is
\* shared, no task is left behind, and bursts, bans and premium days are kept.
THEOREM ServerAlwaysAgrees == ServerSpec => []ServerAgrees
<1>1. ServerInv => ServerAgrees
  BY ServerEnough
<1> QED BY <1>1, ServerInvariant, PTL

================================================================================
