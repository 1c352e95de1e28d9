------------------------------ MODULE Connection ------------------------------
(***************************************************************************)
(* One network connection: asynchronous reads and writes, the two timers,  *)
(* graceful and forced closing (src/src/connection.cpp, connection.h), and *)
(* what ServicePort, ConnectionManager and Protocol do with it.            *)
(*                                                                         *)
(* Every handler holds connectionLock, so a handler is one step; handlers  *)
(* of the network thread interleave with calls of the dispatcher thread.   *)
(* An operation of the socket first completes (data has arrived, the peer  *)
(* has acknowledged, the socket was closed under it) and its handler runs  *)
(* in a later step; a timer's handler may already be queued when the timer *)
(* is cancelled.                                                           *)
(***************************************************************************)
EXTENDS Naturals, Sequences, SequencesExt

CONSTANTS
    Messages,     \* OutputMessages, each sent at most once
    SingleSocket  \* the service's protocol is made at accept (ProtocolGame)

ASSUME ConnectionAssumption == SingleSocket \in BOOLEAN

VARIABLES
    conn,     \* the Connection object and the operations pending on it
    peer,     \* what the peer has received
    accepted, \* ghost: the messages that send() queued, in order
    released, \* how many Protocol::release tasks were posted
    failed    \* ghost: the peer broke a write off, or a forced close cut it short

connectionVars == <<conn, peer, accepted, released, failed>>

Timers == {"read", "write"}
Results == {"pending", "ok", "error"}

\* in_manager: ConnectionManager holds it; read, write: the operation that is
\* pending on the socket and its result so far; armed: timers that run; fired:
\* expired timers whose handler has yet to run.
ConnType ==
    [state : {"OPEN", "CLOSED"}, socket : {"open", "broken", "closed"},
     alive : BOOLEAN, in_manager : BOOLEAN, protocol : BOOLEAN,
     receivedFirst : BOOLEAN, read : {"none", "header", "body"},
     readResult : Results, write : BOOLEAN, writeResult : Results,
     armed : SUBSET Timers, fired : SUBSET Timers, messageQueue : Seq(Messages)]

\* accept() has armed the read timer and started to read the first header.
ConnectionInit ==
    /\ conn = [state |-> "OPEN", socket |-> "open", alive |-> TRUE,
               in_manager |-> TRUE, protocol |-> SingleSocket,
               receivedFirst |-> FALSE, read |-> "header",
               readResult |-> "pending", write |-> FALSE,
               writeResult |-> "pending", armed |-> {"read"}, fired |-> {},
               messageQueue |-> <<>>]
    /\ peer = <<>>
    /\ accepted = <<>>
    /\ released = 0
    /\ failed = FALSE
-------------------------------------------------------------------------------
\* socket.close(): operations still pending are aborted.
Abort(c) ==
    [c EXCEPT !.socket = "closed",
              !.readResult = IF @ = "pending" THEN "error" ELSE @,
              !.writeResult = IF @ = "pending" THEN "error" ELSE @]

\* closeSocket: cancel both timers and close the socket.
SocketClosed(c) ==
    IF c.socket # "closed" THEN Abort([c EXCEPT !.armed = {}]) ELSE c

\* messageQueue.empty() || force
ClosesSocket(c, force) == c.messageQueue = <<>> \/ force

\* close(force)
Closed(c, force) ==
    LET d == [c EXCEPT !.in_manager = FALSE]
        e == [d EXCEPT !.state = "CLOSED"]
    IN  IF c.state # "OPEN" THEN d
        ELSE IF ClosesSocket(c, force) THEN SocketClosed(e) ELSE e

\* close posts Protocol::release the first time it is called.
Releases(c) == c.state = "OPEN" /\ c.protocol

\* An operation on a closed or broken socket fails.
Started(c) == IF c.socket = "open" THEN "pending" ELSE "error"

\* Arm the read timer and read the next header or body.
StartRead(c, op) ==
    [c EXCEPT !.read = op, !.readResult = Started(c), !.armed = @ \cup {"read"}]

\* internalSend: arm the write timer and write the message.
InternalSend(c) ==
    [c EXCEPT !.write = TRUE, !.writeResult = Started(c),
              !.armed = @ \cup {"write"}]

\* Mutant of NoPendingWrite: every message is written at once.
NoPendingWriteEver(c) == TRUE

\* bool noPendingWrite = messageQueue.empty()
NoPendingWrite(c) == c.messageQueue = <<>>

\* send(msg) when the connection is open
Sent(c, m) ==
    LET d == [c EXCEPT !.messageQueue = Append(@, m)]
    IN  IF NoPendingWrite(c) THEN InternalSend(d) ELSE d

\* What close does to everything but the connection itself.
CloseEffects(c) == released' = IF Releases(c) THEN released + 1 ELSE released

\* A forced close cuts an open connection short.
CutsShort(c) == failed' = (failed \/ c.state = "OPEN")
-------------------------------------------------------------------------------
\* Data arrives, or the peer goes away.
ReadCompletes ==
    /\ conn.read # "none" /\ conn.readResult = "pending"
    /\ \E result \in {"ok", "error"} : conn' = [conn EXCEPT !.readResult = result]
    /\ UNCHANGED <<peer, accepted, released, failed>>

\* The peer acknowledges the message being written ...
WriteSucceeds ==
    /\ conn.write /\ conn.writeResult = "pending"
    /\ conn' = [conn EXCEPT !.writeResult = "ok"]
    /\ peer' = Append(peer, Head(conn.messageQueue))
    /\ UNCHANGED <<accepted, released, failed>>

\* ... or the connection breaks, and with it every operation on it.
WriteFails ==
    /\ conn.write /\ conn.writeResult = "pending"
    /\ conn' = [Abort(conn) EXCEPT !.socket = "broken"]
    /\ failed' = TRUE
    /\ UNCHANGED <<peer, accepted, released>>

TimerExpires(t) ==
    /\ t \in conn.armed
    /\ conn' = [conn EXCEPT !.armed = @ \ {t}, !.fired = @ \cup {t}]
    /\ UNCHANGED <<peer, accepted, released, failed>>

\* handleTimeout, with a weak pointer to the connection
HandleTimeout(t) ==
    /\ t \in conn.fired
    /\ LET c == [conn EXCEPT !.fired = @ \ {t}] IN
          IF c.alive
          THEN conn' = Closed(c, TRUE) /\ CloseEffects(c) /\ CutsShort(c)
          ELSE conn' = c /\ UNCHANGED <<released, failed>>
    /\ UNCHANGED <<peer, accepted>>

\* readTimer.cancel() and the end of the pending read
ReadHandled == [conn EXCEPT !.armed = @ \ {"read"}, !.read = "none"]

\* parseHeader, reading on, or closing because of an error, an invalid size, or
\* too many packets per second.
ParseHeader ==
    /\ conn.read = "header" /\ conn.readResult # "pending"
    /\ LET c == ReadHandled IN
          \/ /\ conn' = Closed(c, TRUE)
             /\ CloseEffects(c)
             /\ CutsShort(c)
          \/ /\ conn.readResult = "ok"
             /\ conn' = IF c.state = "OPEN" THEN StartRead(c, "body") ELSE c
             /\ UNCHANGED <<released, failed>>
          \/ /\ conn.readResult = "ok" /\ c.state = "OPEN"
             /\ conn' = Closed(c, FALSE)
             /\ CloseEffects(c)
             /\ UNCHANGED failed
    /\ UNCHANGED <<peer, accepted>>

\* parsePacket fails, or finds the connection closed.
ParsePacketEnds ==
    /\ conn.read = "body" /\ conn.readResult # "pending"
    /\ LET c == ReadHandled IN
          \/ /\ conn.readResult = "error"
             /\ conn' = Closed(c, TRUE)
             /\ CloseEffects(c)
             /\ CutsShort(c)
          \/ /\ conn.readResult = "ok" /\ c.state # "OPEN"
             /\ conn' = c
             /\ UNCHANGED <<released, failed>>
    /\ UNCHANGED <<peer, accepted>>

\* make_protocol knows no protocol with the identifier of the first message.
UnknownProtocol ==
    /\ conn.read = "body" /\ conn.readResult = "ok" /\ conn.state = "OPEN"
    /\ ~conn.receivedFirst /\ ~conn.protocol
    /\ LET c == [ReadHandled EXCEPT !.receivedFirst = TRUE]
       IN  conn' = Closed(c, TRUE) /\ CloseEffects(c)
    /\ failed' = TRUE
    /\ UNCHANGED <<peer, accepted>>

\* The protocol takes the packet; it may answer with a message and it may
\* disconnect before it returns.  The next read is started in any case.
ParsePacket(answer, disconnect) ==
    /\ conn.read = "body" /\ conn.readResult = "ok" /\ conn.state = "OPEN"
    /\ Len(answer) <= 1
    /\ LET c == [ReadHandled EXCEPT !.receivedFirst = TRUE, !.protocol = TRUE]
           d == IF answer = <<>> THEN c ELSE Sent(c, answer[1])
       IN  IF disconnect
           THEN conn' = StartRead(Closed(d, FALSE), "header") /\ CloseEffects(d)
           ELSE conn' = StartRead(d, "header") /\ UNCHANGED released
    /\ accepted' = accepted \o answer
    /\ UNCHANGED <<peer, failed>>

\* writeTimer.cancel(); messageQueue.pop_front()
WriteHandled ==
    [conn EXCEPT !.armed = @ \ {"write"}, !.write = FALSE, !.messageQueue = Tail(@)]

\* Mutant of ClosesAfterWrite: the last write does not close the socket.
ClosesAfterWriteNever(c) == FALSE

\* connectionState == CONNECTION_STATE_CLOSED, with nothing left to send
ClosesAfterWrite(c) == c.state = "CLOSED"

OnWriteOperation ==
    /\ conn.write /\ conn.writeResult # "pending"
    /\ LET c == WriteHandled
           cleared == [c EXCEPT !.messageQueue = <<>>]
       IN  \/ /\ conn.writeResult = "error"
              /\ conn' = Closed(cleared, TRUE)
              /\ CloseEffects(c)
           \/ /\ conn.writeResult = "ok"
              /\ conn' = IF c.messageQueue # <<>> THEN InternalSend(c)
                         ELSE IF ClosesAfterWrite(c) THEN SocketClosed(c) ELSE c
              /\ UNCHANGED released
    /\ UNCHANGED <<peer, accepted, failed>>

\* Protocol::send from the dispatcher thread, which reaches the connection
\* through a weak pointer; a message for a closed connection is dropped.
Send(m) ==
    /\ conn.alive /\ conn.protocol /\ conn.state = "OPEN"
    /\ m \notin Range(accepted)
    /\ conn' = Sent(conn, m)
    /\ accepted' = Append(accepted, m)
    /\ UNCHANGED <<peer, released, failed>>

\* Protocol::disconnect from the dispatcher thread, any number of times
Disconnect ==
    /\ conn.alive /\ conn.protocol
    /\ conn' = Closed(conn, FALSE)
    /\ CloseEffects(conn)
    /\ UNCHANGED <<peer, accepted, failed>>

\* ConnectionManager::closeAll: the socket is closed, the connection is not told.
CloseAll ==
    /\ conn.in_manager
    /\ conn' = Abort([conn EXCEPT !.in_manager = FALSE])
    /\ failed' = TRUE
    /\ UNCHANGED <<peer, accepted, released>>

\* The last shared pointer goes away, the destructor closes the socket.
Destroy ==
    /\ conn.alive
    /\ ~conn.in_manager /\ conn.read = "none" /\ ~conn.write
    /\ conn' = [SocketClosed(conn) EXCEPT !.alive = FALSE]
    /\ UNCHANGED <<peer, accepted, released, failed>>

Handlers ==
    \/ ParseHeader
    \/ ParsePacketEnds
    \/ UnknownProtocol
    \/ \E disconnect \in BOOLEAN : ParsePacket(<<>>, disconnect)
    \/ \E m \in Messages, disconnect \in BOOLEAN :
          m \notin Range(accepted) /\ ParsePacket(<<m>>, disconnect)

ConnectionNext ==
    \/ ReadCompletes
    \/ WriteSucceeds
    \/ WriteFails
    \/ \E t \in Timers : TimerExpires(t)
    \/ \E t \in Timers : HandleTimeout(t)
    \/ Handlers
    \/ OnWriteOperation
    \/ \E m \in Messages : Send(m)
    \/ Disconnect
    \/ CloseAll
    \/ Destroy

\* The network thread runs every handler that is ready, armed timers expire and
\* unreferenced objects are destroyed.  Nothing is assumed of the peer.
ConnectionFairness ==
    /\ WF_connectionVars(Handlers)
    /\ WF_connectionVars(OnWriteOperation)
    /\ \A t \in Timers : WF_connectionVars(TimerExpires(t))
    /\ \A t \in Timers : WF_connectionVars(HandleTimeout(t))
    /\ WF_connectionVars(Destroy)

ConnectionSpec == ConnectionInit /\ [][ConnectionNext]_connectionVars /\ ConnectionFairness
-------------------------------------------------------------------------------
\* Types; peer and accepted hold no message twice.
ConnectionTypeOK ==
    /\ conn \in ConnType
    /\ peer \in Seq(Messages) /\ IsInjective(peer)
    /\ accepted \in Seq(Messages) /\ IsInjective(accepted)
    /\ released \in Nat
    /\ failed \in BOOLEAN

\* The peer receives a prefix of what send() accepted, in that order, whatever
\* mixture of closing, timeouts and answers there is.
PeerSeesPrefix == IsPrefix(peer, accepted)

\* Protocol::release is posted once: when the connection of a protocol closes,
\* by whichever of the timers, handlers and callers of close comes first, and
\* always before the connection is destroyed.
ReleasedOnce ==
    /\ released <= 1
    /\ conn.protocol /\ (conn.state = "CLOSED" \/ ~conn.alive) => released = 1

\* A graceful close still delivers every message accepted before it, unless an
\* operation failed or a timeout forced the connection closed; and a closed
\* connection whose peer goes on reading is destroyed: neither a timer, a pending
\* read nor ConnectionManager keeps it alive.
ClosesProperly ==
    /\ conn.state = "CLOSED" ~> failed \/ peer = accepted
    /\ conn.state = "CLOSED" ~> ~conn.alive

\* What the two threads, the timers and closeAll must not break: the peer sees
\* only what was accepted, in order, and the protocol is released exactly once.
ConnectionSafe == PeerSeesPrefix /\ ReleasedOnce
===============================================================================
