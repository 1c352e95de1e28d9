------------------------------ MODULE Dispatcher ------------------------------
(***************************************************************************)
(* The dispatcher: the one thread on which all game logic runs             *)
(* (src/src/tasks.cpp, src/src/tasks.h, src/src/thread_holder_base.h).     *)
(*                                                                         *)
(* Any thread may hand a Task to Dispatcher::addTask; the dispatcher       *)
(* thread takes them from the front of taskList.  One critical section of  *)
(* taskLock is one step.  What happens outside the lock (the test of the   *)
(* loop condition, the notify_one after the unlock, the task's own body)   *)
(* is a step of its own, so every interleaving the mutex permits is a      *)
(* behaviour of the model.                                                 *)
(***************************************************************************)
EXTENDS Naturals, Sequences

CONSTANTS
    Threads,     \* threads other than the dispatcher's that call addTask
    Tasks,       \* Task objects, each handed over at most once
    Timed,       \* the tasks built with an expiration (addGameTaskTimed)
    ShutdownTask \* the task built by Dispatcher::shutdown

NoTask == "NoTask"

ASSUME DispatcherAssumption ==
    /\ Timed \subseteq Tasks
    /\ ShutdownTask \notin Tasks
    /\ NoTask \notin Tasks \cup {ShutdownTask}

VARIABLES
    threadState,    \* ThreadHolder::threadState
    taskList,       \* Dispatcher::taskList, the tasks waiting, front first
    pc,             \* where the dispatcher thread is in threadMain
    current,        \* the task threadMain has taken, NoTask outside a task
    expired,        \* the timed tasks whose expiration has passed
    signalling,     \* threads that left taskLock and have yet to notify_one
    fate,           \* what became of each task
    spectatorCache, \* Map's spectator cache: "empty" or "filled"
    pushed          \* ghost: the tasks accepted by push_back, in that order

vars == <<threadState, taskList, pc, current, expired, signalling, fate,
          spectatorCache, pushed>>

AllTasks == Tasks \cup {ShutdownTask}

\* A task is new, then queued, then running, and ends executed (its function
\* ran), dropped (taken after its expiration) or rejected (deleted by addTask).
Fates == {"new", "queued", "running", "executed", "dropped", "rejected"}

\* loop: before the test of the loop condition; entering: before taskLock.lock();
\* waiting: in taskSignal.wait; woken: before the wait re-acquires the mutex;
\* running: in (*task)(); exited: threadMain has returned.
PCs == {"loop", "entering", "waiting", "woken", "running", "exited"}

ThreadStates == {"RUNNING", "CLOSING", "TERMINATED"}

\* The prefix of threadMain that a running task sees: dispatched, not finished.
Taken(t) == fate[t] \in {"running", "executed", "dropped"}
-------------------------------------------------------------------------------
\* ThreadHolder::start stores RUNNING and starts threadMain.
Init ==
    /\ threadState = "RUNNING"
    /\ taskList = <<>>
    /\ pc = "loop"
    /\ current = NoTask
    /\ expired = {}
    /\ signalling = {}
    /\ fate = [t \in AllTasks |-> "new"]
    /\ spectatorCache = "empty"
    /\ pushed = <<>>

\* Mutant of Notified: the notification is lost.
NotifiedNobody(p) == p

\* notify_one on taskSignal: the dispatcher thread is the only waiter.
Notified(p) == IF p = "waiting" THEN "woken" ELSE p

\* Mutant of Insert: the two ends of the list are swapped.
InsertSwapped(list, t, push_front) ==
    IF push_front THEN Append(list, t) ELSE <<t>> \o list

\* taskList.push_front(task) or taskList.push_back(task)
Insert(list, t, push_front) ==
    IF push_front THEN <<t>> \o list ELSE Append(list, t)

\* The critical section of addTask: a task is queued only in state RUNNING,
\* at either end of the list, and deleted otherwise.
Accept(t, push_front) ==
    /\ fate[t] = "new"
    /\ \/ /\ threadState = "RUNNING"
          /\ taskList' = Insert(taskList, t, push_front)
          /\ pushed' = IF push_front THEN pushed ELSE Append(pushed, t)
          /\ fate' = [fate EXCEPT ![t] = "queued"]
       \/ /\ threadState # "RUNNING"
          /\ fate' = [fate EXCEPT ![t] = "rejected"]
          /\ UNCHANGED <<taskList, pushed>>

\* Mutant of DoSignal: the emptiness test is off by one.
DoSignalAfterPush == threadState = "RUNNING" /\ Len(taskList) = 1

\* do_signal: only the thread that found the list empty will notify.
DoSignal == threadState = "RUNNING" /\ taskList = <<>>

\* addTask on another thread; the notify_one follows after the unlock.
AddTask(th, t, push_front) ==
    /\ th \notin signalling
    /\ Accept(t, push_front)
    /\ signalling' = IF DoSignal THEN signalling \cup {th} ELSE signalling
    /\ UNCHANGED <<threadState, pc, current, expired, spectatorCache>>

\* taskSignal.notify_one() at the end of addTask.
Notify(th) ==
    /\ th \in signalling
    /\ signalling' = signalling \ {th}
    /\ pc' = Notified(pc)
    /\ UNCHANGED <<threadState, taskList, current, expired, fate,
                   spectatorCache, pushed>>

\* addTask called by the running task: its notify finds no waiter.
AddTaskFromTask(t, push_front) ==
    /\ pc = "running"
    /\ Accept(t, push_front)
    /\ UNCHANGED <<threadState, pc, current, expired, signalling,
                   spectatorCache>>

\* ThreadHolder::stop, called by the task that closes the game.
Stop ==
    /\ pc = "running"
    /\ current \in Tasks
    /\ threadState' = "CLOSING"
    /\ UNCHANGED <<taskList, pc, current, expired, signalling, fate,
                   spectatorCache, pushed>>

\* Dispatcher::shutdown queues the terminating task whatever the state is, and
\* notifies before the lock is released.  It runs in a task (Game::shutdown) or,
\* when no service could be started, in the main thread.
Shutdown ==
    /\ fate[ShutdownTask] = "new"
    /\ taskList' = Insert(taskList, ShutdownTask, FALSE)
    /\ pushed' = Append(pushed, ShutdownTask)
    /\ fate' = [fate EXCEPT ![ShutdownTask] = "queued"]
    /\ pc' = Notified(pc)
    /\ UNCHANGED <<threadState, current, expired, signalling, spectatorCache>>

\* The system clock passes the expiration of a timed task.
Expire(t) ==
    /\ t \in Timed \ expired
    /\ expired' = expired \cup {t}
    /\ UNCHANGED <<threadState, taskList, pc, current, signalling, fate,
                   spectatorCache, pushed>>
-------------------------------------------------------------------------------
\* while (getState() != THREAD_STATE_TERMINATED)
TestLoop ==
    /\ pc = "loop"
    /\ pc' = IF threadState = "TERMINATED" THEN "exited" ELSE "entering"
    /\ UNCHANGED <<threadState, taskList, current, expired, signalling, fate,
                   spectatorCache, pushed>>

\* The list is empty on entry: wait, which releases the mutex.
WaitForTask ==
    /\ pc = "entering"
    /\ taskList = <<>>
    /\ pc' = "waiting"
    /\ UNCHANGED <<threadState, taskList, current, expired, signalling, fate,
                   spectatorCache, pushed>>

\* A condition variable may wake without a notification.
SpuriousWakeup ==
    /\ pc = "waiting"
    /\ pc' = "woken"
    /\ UNCHANGED <<threadState, taskList, current, expired, signalling, fate,
                   spectatorCache, pushed>>

\* Woken to an empty list (its task was taken before the late notify).
WokenForNothing ==
    /\ pc = "woken"
    /\ taskList = <<>>
    /\ pc' = "loop"
    /\ UNCHANGED <<threadState, taskList, current, expired, signalling, fate,
                   spectatorCache, pushed>>

\* Take the first task and unlock; an expired one is deleted without running.
TakeTask ==
    /\ pc \in {"entering", "woken"}
    /\ taskList # <<>>
    /\ taskList' = Tail(taskList)
    /\ LET task == Head(taskList) IN
          \/ /\ task \notin expired
             /\ pc' = "running"
             /\ current' = task
             /\ fate' = [fate EXCEPT ![task] = "running"]
          \/ /\ task \in expired
             /\ pc' = "loop"
             /\ fate' = [fate EXCEPT ![task] = "dropped"]
             /\ UNCHANGED current
    /\ UNCHANGED <<threadState, expired, signalling, spectatorCache, pushed>>

\* The task's function asks the map for spectators, which fills the cache.
FillSpectatorCache ==
    /\ pc = "running"
    /\ current \in Tasks
    /\ spectatorCache' = "filled"
    /\ UNCHANGED <<threadState, taskList, pc, current, expired, signalling,
                   fate, pushed>>

\* Map::clearSpectatorCache
ClearSpectatorCache == spectatorCache' = "empty"

\* delete task
DeleteTask == current' = NoTask

\* The task returns; map.clearSpectatorCache() and delete task follow.  The
\* terminating task's own function is the store of TERMINATED.
FinishTask ==
    /\ pc = "running"
    /\ pc' = "loop"
    /\ fate' = [fate EXCEPT ![current] = "executed"]
    /\ ClearSpectatorCache
    /\ DeleteTask
    /\ threadState' = IF current = ShutdownTask THEN "TERMINATED"
                                                ELSE threadState
    /\ UNCHANGED <<taskList, expired, signalling, pushed>>

\* Once threadMain has returned and every task is disposed of, nothing is left.
Terminated ==
    /\ pc = "exited"
    /\ signalling = {}
    /\ \A t \in Tasks : fate[t] # "new"
    /\ UNCHANGED vars

ThreadMain ==
    \/ TestLoop
    \/ WaitForTask
    \/ WokenForNothing
    \/ TakeTask
    \/ FinishTask

Next ==
    \/ \E th \in Threads, t \in Tasks, push_front \in BOOLEAN :
          AddTask(th, t, push_front)
    \/ \E th \in Threads : Notify(th)
    \/ \E t \in Tasks, push_front \in BOOLEAN : AddTaskFromTask(t, push_front)
    \/ Stop
    \/ Shutdown
    \/ \E t \in Tasks : Expire(t)
    \/ SpuriousWakeup
    \/ FillSpectatorCache
    \/ ThreadMain
    \/ Terminated

\* The operating system runs every thread that can run: the dispatcher thread
\* takes its next step and a thread past the unlock reaches its notify_one.
\* A task's function returns.  Nobody is obliged to add tasks or to shut down.
Fairness ==
    /\ WF_vars(ThreadMain)
    /\ \A th \in Threads : WF_vars(Notify(th))

Spec == Init /\ [][Next]_vars /\ Fairness
-------------------------------------------------------------------------------
\* Types, and: threadMain holds a task exactly while it runs one.
TypeOK ==
    /\ threadState \in ThreadStates
    /\ taskList \in Seq(AllTasks)
    /\ pc \in PCs
    /\ current \in AllTasks \cup {NoTask}
    /\ expired \subseteq Timed
    /\ signalling \subseteq Threads
    /\ fate \in [AllTasks -> Fates]
    /\ spectatorCache \in {"empty", "filled"}
    /\ pushed \in Seq(AllTasks)
    /\ pc = "running" <=> current # NoTask

\* The dispatcher never sleeps on a task nobody will wake it for: while it
\* waits and the list is not empty, some thread that left addTask's critical
\* section has yet to reach its taskSignal.notify_one().
NoLostWakeup ==
    pc = "waiting" /\ taskList # <<>> => signalling # {}

\* Tasks added with push_back are taken in the order addTask accepted them,
\* however many tasks jump the queue with push_front; in particular the
\* terminating task is taken only after everything queued before it.
TaskOrder ==
    \A i, j \in 1..Len(pushed) :
        i < j /\ Taken(pushed[j]) => Taken(pushed[i])

\* What makes TaskOrder inductive.  The list holds exactly the queued tasks,
\* each once; every task accepted with push_back is still queued or was taken;
\* and those still queued stand in the list in the order they were accepted.
ListedAreQueued == \A i \in 1..Len(taskList) : fate[taskList[i]] = "queued"
QueuedAreListed ==
    \A t \in AllTasks :
        fate[t] = "queued" => \E i \in 1..Len(taskList) : taskList[i] = t
ListedOnce == \A i, j \in 1..Len(taskList) : taskList[i] = taskList[j] => i = j
PushedAreAccepted ==
    \A a \in 1..Len(pushed) : fate[pushed[a]] = "queued" \/ Taken(pushed[a])
PushedOnce == \A a, b \in 1..Len(pushed) : pushed[a] = pushed[b] => a = b
ListInOrder ==
    \A i, j \in 1..Len(taskList), a, b \in 1..Len(pushed) :
        taskList[i] = pushed[a] /\ taskList[j] = pushed[b] /\ i < j => a < b
CurrentRuns == pc = "running" => fate[current] = "running"

QueueInv ==
    /\ ListedAreQueued
    /\ QueuedAreListed
    /\ ListedOnce
    /\ PushedAreAccepted
    /\ PushedOnce
    /\ ListInOrder
    /\ CurrentRuns

\* A task never sees spectators cached by an earlier task: whenever no task is
\* running (so whenever one is about to start) the cache has been cleared.
FreshSpectatorCache == pc # "running" => spectatorCache = "empty"

\* Dispatcher::shutdown ends threadMain, so that the main thread's
\* g_dispatcher.join() returns.
ShutdownEnds == fate[ShutdownTask] # "new" ~> pc = "exited"

\* A job in the abstract queue is a task in taskList; the queue is open in state
\* RUNNING and its server up until the terminating task has run.
JQ == INSTANCE JobQueue WITH
         Jobs <- Tasks, Last <- ShutdownTask, NoJob <- NoTask,
         open <- threadState = "RUNNING", up <- threadState # "TERMINATED",
         queue <- taskList, active <- current

\* addTask, threadMain and shutdown, with their lock, their late notifications
\* and spurious wake-ups, implement a plain job queue: tasks enter at its ends,
\* leave at its front, run one at a time, and none waits forever while the
\* dispatcher is up.
ImplementsJobQueue == JQ!Spec

\* The same without the promise that the server keeps going.
ImplementsQueueSteps == JQ!Init /\ [][JQ!Next]_(JQ!jobVars)

\* Why no step after the terminating task's can take another one.
TerminatedLeaves == threadState = "TERMINATED" => pc \in {"loop", "exited"}
===============================================================================
