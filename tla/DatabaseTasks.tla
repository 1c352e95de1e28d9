----------------------------- MODULE DatabaseTasks -----------------------------
(***************************************************************************)
(* The database thread: queries handed over by the game and executed in    *)
(* the background (src/src/databasetasks.cpp, src/src/databasetasks.h),    *)
(* with the retry loop of Database::executeQuery and storeQuery            *)
(* (src/src/database.cpp).                                                 *)
(*                                                                         *)
(* One critical section of taskLock is one step, except that of shutdown:  *)
(* it executes the queries that are left while it holds the lock, and the  *)
(* database thread may be executing one at the same time.                  *)
(***************************************************************************)
EXTENDS Naturals, Sequences, SequencesExt

CONSTANTS
    DbThreads,    \* threads that call addTask
    Queries,      \* DatabaseTask objects, each handed over at most once
    WithCallback, \* those that have a callback
    MaxLost       \* bound on the replies of the database lost per query

NoQuery == "NoQuery"

ASSUME DatabaseAssumption ==
    /\ WithCallback \subseteq Queries
    /\ NoQuery \notin Queries
    /\ MaxLost \in Nat

VARIABLES
    dbThreadState,     \* ThreadHolder::threadState
    dbDispatcherState, \* and that of the dispatcher
    tasks,             \* DatabaseTasks::tasks, front first
    dbPc,              \* where the database thread is in threadMain
    running,           \* the query each runner has in runTask
    runStep,           \* query: to be executed; post: its callback is to be posted
    dbSignalling,      \* threads past the unlock of addTask, about to notify_one
    dbShutdownStep,    \* none, flushing, unlocked (about to notify), done
    databaseLock,      \* the runner inside executeQuery or storeQuery
    handed,            \* ghost: the queries addTask has queued, in order
    finished,          \* ghost: the queries whose execution has ended, in order
    applied,           \* ghost: how often the database has applied each query
    lost,              \* ghost: how many replies to each query were lost
    callback           \* none, posted to the dispatcher, or dropped by it

dbVars == <<dbThreadState, dbDispatcherState, tasks, dbPc, running, runStep, dbSignalling,
          dbShutdownStep, databaseLock, handed, finished, applied, lost, callback>>

\* runTask is called by threadMain and by the thread that flushes.
Runners == {"thread", "flush"}
DbThreadStates == {"RUNNING", "CLOSING", "TERMINATED"}
DbPCs == {"loop", "entering", "waiting", "woken", "running", "exited"}
-------------------------------------------------------------------------------
DbInit ==
    /\ dbThreadState = "RUNNING"
    /\ dbDispatcherState = "RUNNING"
    /\ tasks = <<>>
    /\ dbPc = "loop"
    /\ running = [r \in Runners |-> NoQuery]
    /\ runStep = [r \in Runners |-> "query"]
    /\ dbSignalling = {}
    /\ dbShutdownStep = "none"
    /\ databaseLock = "free"
    /\ handed = <<>>
    /\ finished = <<>>
    /\ applied = [q \in Queries |-> 0]
    /\ lost = [q \in Queries |-> 0]
    /\ callback = [q \in Queries |-> "none"]

\* shutdown holds taskLock while it flushes.
TaskLockFree == dbShutdownStep # "flushing"

\* signal = tasks.empty()
Signals == tasks = <<>>

\* addTask: a query is queued only in state RUNNING and otherwise forgotten.
DbAddTask(th, q) ==
    /\ TaskLockFree
    /\ th \notin dbSignalling
    /\ q \notin Range(handed)
    /\ dbThreadState = "RUNNING"
    /\ tasks' = Append(tasks, q)
    /\ handed' = Append(handed, q)
    /\ dbSignalling' = IF Signals THEN dbSignalling \cup {th} ELSE dbSignalling
    /\ UNCHANGED <<dbThreadState, dbDispatcherState, dbPc, running, runStep,
                   dbShutdownStep, databaseLock, finished, applied, lost, callback>>

\* notify_one: the database thread is the only waiter.
DbNotified(p) == IF p = "waiting" THEN "woken" ELSE p

DbNotifyAdded(th) ==
    /\ th \in dbSignalling
    /\ dbSignalling' = dbSignalling \ {th}
    /\ dbPc' = DbNotified(dbPc)
    /\ UNCHANGED <<dbThreadState, dbDispatcherState, tasks, running, runStep,
                   dbShutdownStep, databaseLock, handed, finished, applied,
                   lost, callback>>
-------------------------------------------------------------------------------
\* while (getState() != THREAD_STATE_TERMINATED), tested without the lock
DbTestLoop ==
    /\ dbPc = "loop"
    /\ dbPc' = IF dbThreadState = "TERMINATED" THEN "exited" ELSE "entering"
    /\ UNCHANGED <<dbThreadState, dbDispatcherState, tasks, running, runStep,
                   dbSignalling, dbShutdownStep, databaseLock, handed, finished,
                   applied, lost, callback>>

DbWaitForTask ==
    /\ TaskLockFree
    /\ dbPc = "entering"
    /\ tasks = <<>>
    /\ dbPc' = "waiting"
    /\ UNCHANGED <<dbThreadState, dbDispatcherState, tasks, running, runStep,
                   dbSignalling, dbShutdownStep, databaseLock, handed, finished,
                   applied, lost, callback>>

DbSpuriousWakeup ==
    /\ dbPc = "waiting"
    /\ dbPc' = "woken"
    /\ UNCHANGED <<dbThreadState, dbDispatcherState, tasks, running, runStep,
                   dbSignalling, dbShutdownStep, databaseLock, handed, finished,
                   applied, lost, callback>>

DbWokenForNothing ==
    /\ TaskLockFree
    /\ dbPc = "woken"
    /\ tasks = <<>>
    /\ dbPc' = "loop"
    /\ UNCHANGED <<dbThreadState, dbDispatcherState, tasks, running, runStep,
                   dbSignalling, dbShutdownStep, databaseLock, handed, finished,
                   applied, lost, callback>>

\* task = std::move(tasks.front()); tasks.pop_front()
TakeFront == running' = [running EXCEPT !["thread"] = Head(tasks)]
             /\ tasks' = Tail(tasks)

DbTakeTask ==
    /\ TaskLockFree
    /\ dbPc \in {"entering", "woken"}
    /\ tasks # <<>>
    /\ TakeFront
    /\ dbPc' = "running"
    /\ UNCHANGED <<dbThreadState, dbDispatcherState, runStep, dbSignalling,
                   dbShutdownStep, databaseLock, handed, finished, applied,
                   lost, callback>>
-------------------------------------------------------------------------------
\* A runner may send its query: runTask has reached executeQuery or storeQuery,
\* which keep databaseLock through all attempts.
MayQuery(r) ==
    /\ running[r] # NoQuery
    /\ runStep[r] = "query"
    /\ databaseLock \in {"free", r}

\* The connection is lost during an attempt: sleep a second and try again.  The
\* database may have applied the query before the connection was lost.
QueryLost(r) ==
    /\ MayQuery(r)
    /\ lost[running[r]] < MaxLost
    /\ lost' = [lost EXCEPT ![running[r]] = @ + 1]
    /\ databaseLock' = r
    /\ \/ applied' = [applied EXCEPT ![running[r]] = @ + 1]
       \/ UNCHANGED applied
    /\ UNCHANGED <<dbThreadState, dbDispatcherState, tasks, dbPc, running, runStep,
                   dbSignalling, dbShutdownStep, handed, finished, callback>>

\* The attempt succeeds, or fails with an error that is not retried.
QueryAnswered(r) ==
    /\ MayQuery(r)
    /\ \/ applied' = [applied EXCEPT ![running[r]] = @ + 1]
       \/ UNCHANGED applied
    /\ databaseLock' = "free"
    /\ finished' = Append(finished, running[r])
    /\ runStep' = [runStep EXCEPT ![r] = "post"]
    /\ UNCHANGED <<dbThreadState, dbDispatcherState, tasks, dbPc, running, dbSignalling,
                   dbShutdownStep, handed, lost, callback>>

\* tasks.pop_front() in flush
PopFlushed == tasks' = Tail(tasks)

\* The end of runTask: the dispatcher takes the callback only while RUNNING.
\* The database thread goes on with its loop, flush with the next query.
PostCallback(r) ==
    /\ running[r] # NoQuery
    /\ runStep[r] = "post"
    /\ LET q == running[r] IN
          callback' = [callback EXCEPT ![q] =
              IF q \notin WithCallback THEN @
              ELSE IF dbDispatcherState = "RUNNING" THEN "posted" ELSE "dropped"]
    /\ running' = [running EXCEPT ![r] = NoQuery]
    /\ runStep' = [runStep EXCEPT ![r] = "query"]
    /\ \/ r = "thread" /\ dbPc' = "loop" /\ UNCHANGED tasks
       \/ r = "flush" /\ PopFlushed /\ UNCHANGED dbPc
    /\ UNCHANGED <<dbThreadState, dbDispatcherState, dbSignalling, dbShutdownStep,
                   databaseLock, handed, finished, applied, lost>>
-------------------------------------------------------------------------------
\* g_databaseTasks.stop() and g_dispatcher.stop() when the game closes.
DbStop ==
    /\ dbThreadState = "RUNNING"
    /\ dbThreadState' = "CLOSING"
    /\ dbDispatcherState' = "CLOSING"
    /\ UNCHANGED <<tasks, dbPc, running, runStep, dbSignalling, dbShutdownStep,
                   databaseLock, handed, finished, applied, lost, callback>>

\* shutdown: lock, store TERMINATED, flush ...
ShutdownBegin ==
    /\ dbShutdownStep = "none"
    /\ dbShutdownStep' = "flushing"
    /\ dbThreadState' = "TERMINATED"
    /\ UNCHANGED <<dbDispatcherState, tasks, dbPc, running, runStep, dbSignalling,
                   databaseLock, handed, finished, applied, lost, callback>>

\* ... runTask(tasks.front()) ...
FlushNext ==
    /\ dbShutdownStep = "flushing"
    /\ tasks # <<>>
    /\ running["flush"] = NoQuery
    /\ running' = [running EXCEPT !["flush"] = Head(tasks)]
    /\ UNCHANGED <<dbThreadState, dbDispatcherState, tasks, dbPc, runStep, dbSignalling,
                   dbShutdownStep, databaseLock, handed, finished, applied,
                   lost, callback>>

\* Mutant of DbFlushed: shutdown does not flush.
FlushedAtOnce == running["flush"] = NoQuery

\* ... until the list is empty; unlock ...
DbFlushed == tasks = <<>>

ShutdownUnlock ==
    /\ dbShutdownStep = "flushing"
    /\ DbFlushed
    /\ dbShutdownStep' = "unlocked"
    /\ UNCHANGED <<dbThreadState, dbDispatcherState, tasks, dbPc, running, runStep,
                   dbSignalling, databaseLock, handed, finished, applied, lost,
                   callback>>

\* ... and notify.
DbShutdownNotify ==
    /\ dbShutdownStep = "unlocked"
    /\ dbShutdownStep' = "done"
    /\ dbPc' = DbNotified(dbPc)
    /\ UNCHANGED <<dbThreadState, dbDispatcherState, tasks, running, runStep,
                   dbSignalling, databaseLock, handed, finished, applied, lost,
                   callback>>

DbThreadMain == DbTestLoop \/ DbWaitForTask \/ DbWokenForNothing \/ DbTakeTask
RunTask(r) == QueryAnswered(r) \/ PostCallback(r)
DbShutdown == FlushNext \/ ShutdownUnlock \/ DbShutdownNotify

DbNext ==
    \/ \E th \in DbThreads, q \in Queries : DbAddTask(th, q)
    \/ \E th \in DbThreads : DbNotifyAdded(th)
    \/ DbThreadMain
    \/ DbSpuriousWakeup
    \/ \E r \in Runners : QueryLost(r) \/ RunTask(r)
    \/ DbStop
    \/ ShutdownBegin
    \/ DbShutdown

\* Threads that can run do run; the database answers in the end; a shutdown
\* that has begun is carried through.
DbFairness ==
    /\ WF_dbVars(DbThreadMain)
    /\ \A r \in Runners : WF_dbVars(RunTask(r))
    /\ WF_dbVars(DbShutdown)
    /\ \A th \in DbThreads : WF_dbVars(DbNotifyAdded(th))

DbSpec == DbInit /\ [][DbNext]_dbVars /\ DbFairness
-------------------------------------------------------------------------------
\* Types.
DbTypeOK ==
    /\ dbThreadState \in DbThreadStates
    /\ dbDispatcherState \in DbThreadStates
    /\ tasks \in Seq(Queries)
    /\ dbPc \in DbPCs
    /\ running \in [Runners -> Queries \cup {NoQuery}]
    /\ runStep \in [Runners -> {"query", "post"}]
    /\ dbSignalling \subseteq DbThreads
    /\ dbShutdownStep \in {"none", "flushing", "unlocked", "done"}
    /\ databaseLock \in Runners \cup {"free"}
    /\ handed \in Seq(Queries)
    /\ finished \in Seq(Queries)
    /\ applied \in [Queries -> 0..MaxLost + 1]
    /\ lost \in [Queries -> 0..MaxLost]
    /\ callback \in [Queries -> {"none", "posted", "dropped"}]

\* A query is applied at most once, and once more for each reply that was lost,
\* also when shutdown flushes the list while the thread has a query in hand.
AppliedOnce == \A q \in Queries : applied[q] <= 1 + lost[q]

\* Queries end in the order in which addTask accepted them; the one exception
\* is the query the database thread has taken but not executed when shutdown
\* flushes the rest.
FinishedInOrder ==
    \A i, j \in 1..Len(handed) :
        /\ i < j
        /\ Contains(finished, handed[j])
        /\ ~Contains(finished, handed[i])
        => running["thread"] = handed[i] /\ dbShutdownStep # "none"

\* Every query that addTask accepted is executed, whatever the thread was doing
\* when the server was shut down: in the end none is left.
AcceptedExecuted ==
    <>[](\A q \in Queries : Contains(handed, q) => Contains(finished, q))

\* Lost replies, retries and the flush of shutdown neither apply a query more
\* often than its replies were lost, nor let it overtake another, nor leave it out.
QueriesServed == [](AppliedOnce /\ FinishedInOrder) /\ AcceptedExecuted
===============================================================================
