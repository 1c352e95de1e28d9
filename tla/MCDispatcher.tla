---------------------------- MODULE MCDispatcher ----------------------------
(* The threads that hand work over.  Two threads race to give the dispatcher  *)
(* three tasks; one of them gives the database thread three queries, one with *)
(* a callback; a connection is sent three messages; two protocols are written *)
(* four packets each of which two fit into a buffer.  The four                *)
(* share no state, so each is explored by itself: part says which.            *)
EXTENDS Dispatcher, DatabaseTasks, Connection, OutputMessagePool

CONSTANTS io, sched, t1, t2, t3, q1, q2, q3, m1, m2, m3, p1, p2

MCThreads == {io, sched}
MCTasks == {t1, t2, t3}
MCTimed == {t2}
MCDbThreads == {sched}
MCQueries == {q1, q2, q3}
MCWithCallback == {q2}

VARIABLE part

MCInit ==
    /\ part \in {"dispatcher", "queries", "connection", "autosend"}
    /\ Init
    /\ DbInit
    /\ ConnectionInit
    /\ PoolInit

MCNext ==
    \/ part = "dispatcher" /\ Next /\ UNCHANGED <<part, dbVars, connectionVars, poolVars>>
    \/ part = "queries" /\ DbNext /\ UNCHANGED <<part, vars, connectionVars, poolVars>>
    \/ part = "connection" /\ ConnectionNext /\ UNCHANGED <<part, vars, dbVars, poolVars>>
    \/ part = "autosend" /\ PoolNext /\ UNCHANGED <<part, vars, dbVars, connectionVars>>

\* A database thread that has ended, a connection that is gone and a pool with
\* nothing to send do no more; the dispatcher must always have a next step.
Rest ==
    /\ part # "dispatcher"
    /\ UNCHANGED <<part, vars, dbVars, connectionVars, poolVars>>

\* The fairness of each part, with a peer that goes on reading.
MCFairness ==
    /\ WF_vars(part = "dispatcher" /\ ThreadMain)
    /\ \A th \in Threads : WF_vars(part = "dispatcher" /\ Notify(th))
    /\ WF_dbVars(part = "queries" /\ DbThreadMain)
    /\ \A r \in Runners : WF_dbVars(part = "queries" /\ RunTask(r))
    /\ WF_dbVars(part = "queries" /\ DbShutdown)
    /\ \A th \in DbThreads : WF_dbVars(part = "queries" /\ DbNotifyAdded(th))
    /\ WF_connectionVars(part = "connection" /\ Handlers)
    /\ WF_connectionVars(part = "connection" /\ OnWriteOperation)
    /\ \A t \in Timers : WF_connectionVars(part = "connection" /\ TimerExpires(t))
    /\ \A t \in Timers : WF_connectionVars(part = "connection" /\ HandleTimeout(t))
    /\ WF_connectionVars(part = "connection" /\ Destroy)
    /\ WF_connectionVars(part = "connection" /\ WriteSucceeds)

MCSpec ==
    /\ MCInit
    /\ [][MCNext \/ Rest]_<<part, vars, dbVars, connectionVars, poolVars>>
    /\ MCFairness
==============================================================================
