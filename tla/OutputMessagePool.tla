--------------------------- MODULE OutputMessagePool ---------------------------
(***************************************************************************)
(* Buffered output: the game writes packets into a protocol's output       *)
(* buffer, and a scheduled task that re-arms itself sends the buffers of   *)
(* all registered protocols every 10 ms (outputmessage.cpp,                *)
(* Protocol::getOutputBuffer in protocol.cpp).  Everything but the end of  *)
(* a connection runs in the dispatcher thread; what interleaves is the     *)
(* order of its tasks.                                                     *)
(***************************************************************************)
EXTENDS Naturals, Sequences, SequencesExt

CONSTANTS
    Protocols,      \* ProtocolGame objects
    Room,           \* packets that fit into a buffer (MAX_BODY_LENGTH)
    MaxWritten      \* bound: packets the game writes to a protocol

ASSUME OutputAssumption == Room \in Nat \ {0} /\ MaxWritten \in Nat

\* The packets of a protocol are numbered in the order they are written.
VARIABLES
    registered,        \* protocols that login has registered
    bufferedProtocols, \* OutputMessagePool::bufferedProtocols
    scheduled,         \* sendAll events the scheduler holds
    lostConnections,   \* protocols whose connection was closed or is no more
    outputBuffer,      \* Protocol::outputBuffer, <<>> for none
    sent,              \* the packets the connection took
    written            \* how many packets were written

poolVars == <<registered, bufferedProtocols, scheduled, lostConnections, outputBuffer, sent, written>>

PoolInit ==
    /\ registered = {}
    /\ bufferedProtocols = <<>>
    /\ scheduled = 0
    /\ lostConnections = {}
    /\ outputBuffer = [p \in Protocols |-> <<>>]
    /\ sent = [p \in Protocols |-> <<>>]
    /\ written = [p \in Protocols |-> 0]

\* bufferedProtocols.empty(): the first protocol schedules sendAll
StartsChain == bufferedProtocols = <<>>

AddProtocolToAutosend(p) ==
    /\ p \notin registered
    /\ registered' = registered \cup {p}
    /\ scheduled' = IF StartsChain THEN scheduled + 1 ELSE scheduled
    /\ bufferedProtocols' = Append(bufferedProtocols, p)
    /\ UNCHANGED <<lostConnections, outputBuffer, sent, written>>

\* ProtocolGame::release; what is in the buffer is given up.
RemoveProtocolFromAutosend(p) ==
    /\ Contains(bufferedProtocols, p)
    /\ bufferedProtocols' = SelectSeq(bufferedProtocols, LAMBDA q : q # p)
    /\ UNCHANGED <<registered, scheduled, lostConnections, outputBuffer, sent, written>>

\* MAX_BODY_LENGTH >= outputBuffer->getLength() + size
Fits(buffer) == Len(buffer) < Room

\* Mutant of GetOutputBuffer: every packet gets a new buffer.
GetOutputBufferNew(buffer) == <<>>

\* getOutputBuffer: the current buffer, or a new one that replaces it
GetOutputBuffer(buffer) == IF buffer # <<>> /\ Fits(buffer) THEN buffer ELSE <<>>

\* writeToOutputBuffer; login shows the world before it registers.
Write(p) ==
    /\ p \in registered => Contains(bufferedProtocols, p)
    /\ written[p] < MaxWritten
    /\ outputBuffer' = [outputBuffer EXCEPT ![p] = Append(GetOutputBuffer(@), written[p] + 1)]
    /\ written' = [written EXCEPT ![p] = @ + 1]
    /\ UNCHANGED <<registered, bufferedProtocols, scheduled, lostConnections, sent>>

\* if (!bufferedProtocols.empty()) scheduleSendAll()
ContinuesChain == bufferedProtocols # <<>>

\* The protocols whose buffers sendAll takes
Flushed == {p \in Protocols : Contains(bufferedProtocols, p)}

\* Protocol::send: a connection that is gone or closed takes nothing.
SendTakes(p) == IF p \in lostConnections THEN <<>> ELSE outputBuffer[p]

SendAll ==
    /\ scheduled > 0
    /\ sent' = [p \in Protocols |-> IF p \in Flushed THEN sent[p] \o SendTakes(p) ELSE sent[p]]
    /\ outputBuffer' = [p \in Protocols |-> IF p \in Flushed THEN <<>> ELSE outputBuffer[p]]
    /\ scheduled' = IF ContinuesChain THEN scheduled ELSE scheduled - 1
    /\ UNCHANGED <<registered, bufferedProtocols, lostConnections, written>>

\* Connection::close, by the peer, a timeout or disconnectClient
ConnectionGone(p) ==
    /\ p \notin lostConnections
    /\ lostConnections' = lostConnections \cup {p}
    /\ UNCHANGED <<registered, bufferedProtocols, scheduled, outputBuffer, sent, written>>

PoolNext ==
    \/ \E p \in Protocols : AddProtocolToAutosend(p)
    \/ \E p \in Protocols : RemoveProtocolFromAutosend(p)
    \/ \E p \in Protocols : Write(p)
    \/ SendAll
    \/ \E p \in Protocols : ConnectionGone(p)

PoolSpec == PoolInit /\ [][PoolNext]_poolVars
-------------------------------------------------------------------------------
\* Written, but neither with the connection nor on its way.
Missing(p, k) == /\ k \in 1 .. written[p]
                 /\ ~Contains(sent[p], k)
                 /\ ~Contains(outputBuffer[p], k)

\* As long as a protocol is registered, a sendAll is to come, however protocols
\* come and go between two of them.  What the connection got and what waits is
\* in the order it was written, nothing twice; and while the connection lives,
\* what the client misses are whole buffers that were full: a packet never goes
\* before the buffer it went into is full, and no buffer goes in part.
PoolFlows ==
    /\ bufferedProtocols # <<>> => scheduled > 0
    /\ \A p \in Protocols :
          LET stream == sent[p] \o outputBuffer[p] IN
          /\ \A i, j \in DOMAIN stream : i < j => stream[i] < stream[j]
          /\ p \notin lostConnections =>
                \A k \in 1 .. written[p] : Missing(p, k) =>
                    \E a \in 1 .. written[p] : /\ k \in a .. a + Room - 1
                                               /\ \A m \in a .. a + Room - 1 : Missing(p, m)
===============================================================================
