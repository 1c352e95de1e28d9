--------------------------- MODULE DispatcherProofs ---------------------------
(***************************************************************************)
(* Proofs about the dispatcher thread for any number of threads and tasks. *)
(***************************************************************************)
EXTENDS Dispatcher, SequenceTheorems, TLAPS

\* Insertion keeps the list a sequence of tasks, at whichever end it happens.
LEMMA InsertType ==
    ASSUME NEW S, NEW list \in Seq(S), NEW t \in S, NEW push_front \in BOOLEAN
    PROVE  Insert(list, t, push_front) \in Seq(S)
BY DEF Insert

\* The constructor and ThreadHolder::start establish the types.
LEMMA InitTypeOK == Init => TypeOK
BY DispatcherAssumption
   DEF Init, TypeOK, NoTask, AllTasks, ThreadStates, PCs, Fates

\* Every step keeps the types.
LEMMA NextTypeOK == TypeOK /\ [Next]_vars => TypeOK'
<1> USE DispatcherAssumption DEF AllTasks, ThreadStates, PCs, Fates
<1> SUFFICES ASSUME TypeOK, [Next]_vars
             PROVE  TypeOK'
  OBVIOUS
<1>1. ASSUME NEW th \in Threads, NEW t \in Tasks, NEW push_front \in BOOLEAN,
             AddTask(th, t, push_front)
      PROVE  TypeOK'
  <2>1. Insert(taskList, t, push_front) \in Seq(AllTasks)
    BY InsertType DEF TypeOK
  <2>2. Append(pushed, t) \in Seq(AllTasks)
    BY DEF TypeOK
  <2>3. taskList' \in Seq(AllTasks) /\ pushed' \in Seq(AllTasks)
    BY <1>1, <2>1, <2>2 DEF AddTask, Accept, TypeOK
  <2>4. fate' \in [AllTasks -> Fates]
    BY <1>1 DEF AddTask, Accept, TypeOK
  <2>5. QED
    BY <1>1, <2>3, <2>4 DEF AddTask, TypeOK
<1>2. ASSUME NEW th \in Threads, Notify(th)
      PROVE  TypeOK'
  BY <1>2 DEF Notify, Notified, TypeOK
<1>3. ASSUME NEW t \in Tasks, NEW push_front \in BOOLEAN,
             AddTaskFromTask(t, push_front)
      PROVE  TypeOK'
  <2>1. Insert(taskList, t, push_front) \in Seq(AllTasks)
    BY InsertType DEF TypeOK
  <2>2. Append(pushed, t) \in Seq(AllTasks)
    BY DEF TypeOK
  <2>3. taskList' \in Seq(AllTasks) /\ pushed' \in Seq(AllTasks)
    BY <1>3, <2>1, <2>2 DEF AddTaskFromTask, Accept, TypeOK
  <2>4. fate' \in [AllTasks -> Fates]
    BY <1>3 DEF AddTaskFromTask, Accept, TypeOK
  <2>5. QED
    BY <1>3, <2>3, <2>4 DEF AddTaskFromTask, TypeOK
<1>4. CASE Stop
  BY <1>4 DEF Stop, TypeOK
<1>5. CASE Shutdown
  <2>1. Insert(taskList, ShutdownTask, FALSE) \in Seq(AllTasks)
    BY InsertType DEF TypeOK
  <2>2. Append(pushed, ShutdownTask) \in Seq(AllTasks)
    BY DEF TypeOK
  <2>3. QED
    BY <1>5, <2>1, <2>2 DEF Shutdown, Notified, TypeOK
<1>6. ASSUME NEW t \in Tasks, Expire(t)
      PROVE  TypeOK'
  BY <1>6 DEF Expire, TypeOK
<1>7. CASE SpuriousWakeup
  BY <1>7 DEF SpuriousWakeup, TypeOK
<1>8. CASE FillSpectatorCache
  BY <1>8 DEF FillSpectatorCache, TypeOK
<1>9. CASE TestLoop
  BY <1>9 DEF TestLoop, TypeOK
<1>10. CASE WaitForTask
  BY <1>10 DEF WaitForTask, TypeOK
<1>11. CASE WokenForNothing
  BY <1>11 DEF WokenForNothing, TypeOK
<1>12. CASE TakeTask
  <2>1. Head(taskList) \in AllTasks /\ Tail(taskList) \in Seq(AllTasks)
    BY <1>12 DEF TakeTask, TypeOK
  <2>2. QED
    BY <1>12, <2>1 DEF TakeTask, TypeOK
<1>13. CASE FinishTask
  BY <1>13 DEF FinishTask, ClearSpectatorCache, DeleteTask, TypeOK
<1>14. CASE UNCHANGED vars
  BY <1>14 DEF vars, TypeOK
<1>15. QED
  BY <1>1, <1>2, <1>3, <1>4, <1>5, <1>6, <1>7, <1>8, <1>9, <1>10, <1>11,
     <1>12, <1>13, <1>14 DEF Next, ThreadMain, Terminated

\* The dispatcher's state is well typed, and it holds a task exactly while it
\* runs one.
THEOREM DispatcherTypeOK == Spec => []TypeOK
<1>1. Init => TypeOK
  BY InitTypeOK
<1>2. TypeOK /\ [Next]_vars => TypeOK'
  BY NextTypeOK
<1>3. QED
  BY <1>1, <1>2, PTL DEF Spec

-------------------------------------------------------------------------------
\* The invariant behind NoLostWakeup is NoLostWakeup itself: the dispatcher
\* starts to wait only on an empty list, the thread that ends the emptiness
\* owes a notification, and paying it wakes the dispatcher.
LEMMA NextNoLostWakeup ==
    TypeOK /\ NoLostWakeup /\ [Next]_vars => NoLostWakeup'
<1> SUFFICES ASSUME TypeOK, NoLostWakeup, [Next]_vars
             PROVE  NoLostWakeup'
  OBVIOUS
<1> USE DEF NoLostWakeup
<1>1. ASSUME NEW th \in Threads, NEW t \in Tasks, NEW push_front \in BOOLEAN,
             AddTask(th, t, push_front)
      PROVE  NoLostWakeup'
  <2>1. CASE threadState = "RUNNING"
    BY <1>1, <2>1 DEF AddTask, DoSignal
  <2>2. CASE threadState # "RUNNING"
    BY <1>1, <2>2 DEF AddTask, Accept, DoSignal
  <2>3. QED
    BY <2>1, <2>2
<1>2. ASSUME NEW th \in Threads, Notify(th)
      PROVE  NoLostWakeup'
  BY <1>2 DEF Notify, Notified
<1>3. ASSUME NEW t \in Tasks, NEW push_front \in BOOLEAN,
             AddTaskFromTask(t, push_front)
      PROVE  NoLostWakeup'
  BY <1>3 DEF AddTaskFromTask
<1>4. CASE Shutdown
  BY <1>4 DEF Shutdown, Notified
<1>5. CASE TakeTask
  BY <1>5 DEF TakeTask
<1>6. CASE \/ Stop \/ SpuriousWakeup \/ FillSpectatorCache \/ TestLoop
           \/ WaitForTask \/ WokenForNothing \/ FinishTask
           \/ UNCHANGED vars \/ \E t \in Tasks : Expire(t)
  BY <1>6 DEF Stop, SpuriousWakeup, FillSpectatorCache, TestLoop, WaitForTask,
              WokenForNothing, FinishTask, Expire, vars
<1>7. QED
  BY <1>1, <1>2, <1>3, <1>4, <1>5, <1>6 DEF Next, ThreadMain, Terminated

\* The dispatcher never sleeps on a queued task that nobody will wake it for.
THEOREM DispatcherNoLostWakeup == Spec => []NoLostWakeup
<1>1. Init => NoLostWakeup
  BY DEF Init, NoLostWakeup
<1>2. QED
  BY <1>1, NextNoLostWakeup, DispatcherTypeOK, PTL DEF Spec

\* Every task starts with an empty spectator cache.
THEOREM DispatcherFreshCache == Spec => []FreshSpectatorCache
<1>1. Init => FreshSpectatorCache
  BY DEF Init, FreshSpectatorCache
<1>2. FreshSpectatorCache /\ [Next]_vars => FreshSpectatorCache'
  BY DEF FreshSpectatorCache, Next, ThreadMain, Terminated, vars, AddTask,
         Notify, Notified, AddTaskFromTask, Stop, Shutdown, Expire,
         SpuriousWakeup, FillSpectatorCache, TestLoop, WaitForTask,
         WokenForNothing, TakeTask, FinishTask, ClearSpectatorCache
<1>3. QED
  BY <1>1, <1>2, PTL DEF Spec
-------------------------------------------------------------------------------
\* A task put at the front keeps the list exact and the pushed ones in order.
LEMMA PushFrontQueueInv ==
    ASSUME TypeOK, QueueInv, NEW t \in AllTasks, fate[t] = "new",
           Len(taskList') = Len(taskList) + 1, taskList'[1] = t,
           \A i \in 2..Len(taskList) + 1 : taskList'[i] = taskList[i - 1],
           pushed' = pushed,
           fate' = [fate EXCEPT ![t] = "queued"],
           pc' = "running" => pc = "running",
           current' = current
    PROVE  QueueInv'
<1>1. \A u \in AllTasks : fate'[u] = IF u = t THEN "queued" ELSE fate[u]
  BY DEF TypeOK
<1>2. /\ Len(taskList) \in Nat /\ Len(pushed) \in Nat
      /\ \A i \in 1..Len(taskList) : taskList[i] \in AllTasks /\ taskList[i] # t
      /\ \A a \in 1..Len(pushed) : pushed[a] \in AllTasks /\ pushed[a] # t
  BY DEF QueueInv, ListedAreQueued, PushedAreAccepted, Taken, TypeOK
<1>3. ListedAreQueued'
  BY <1>1, <1>2 DEF QueueInv, ListedAreQueued
<1>4. QueuedAreListed'
  <2> SUFFICES ASSUME NEW u \in AllTasks, fate'[u] = "queued"
               PROVE  \E i \in 1..Len(taskList') : taskList'[i] = u
    BY DEF QueuedAreListed
  <2>1. CASE u = t
    BY <1>2, <2>1
  <2>2. CASE u # t
    <3>1. PICK i \in 1..Len(taskList) : taskList[i] = u
      BY <1>1, <2>2 DEF QueueInv, QueuedAreListed
    <3>2. i + 1 \in 2..Len(taskList) + 1 /\ (i + 1) - 1 = i
      BY <1>2
    <3>3. taskList'[i + 1] = u /\ i + 1 \in 1..Len(taskList')
      BY <1>2, <3>1, <3>2
    <3>4. QED
      BY <3>3
  <2>3. QED
    BY <2>1, <2>2
<1>5. ListedOnce'
  BY <1>1, <1>2 DEF QueueInv, ListedOnce
<1>6. PushedAreAccepted'
  BY <1>1, <1>2 DEF QueueInv, PushedAreAccepted, Taken
<1>7. PushedOnce'
  BY <1>1, <1>2 DEF QueueInv, PushedOnce
<1>8. ListInOrder'
  <2> SUFFICES ASSUME NEW i \in 1..Len(taskList'), NEW j \in 1..Len(taskList'),
                      NEW a \in 1..Len(pushed), NEW b \in 1..Len(pushed),
                      taskList'[i] = pushed[a], taskList'[j] = pushed[b], i < j
               PROVE  a < b
    BY DEF ListInOrder
  <2>1. i # 1 /\ j # 1
    BY <1>2
  <2>2. /\ i - 1 \in 1..Len(taskList) /\ taskList[i - 1] = pushed[a]
        /\ j - 1 \in 1..Len(taskList) /\ taskList[j - 1] = pushed[b]
        /\ i - 1 < j - 1
    BY <1>2, <2>1
  <2>3. QED
    BY <2>2 DEF QueueInv, ListInOrder
<1>9. CurrentRuns'
  BY <1>1, <1>2 DEF QueueInv, CurrentRuns, TypeOK
<1>10. QED
  BY <1>3, <1>4, <1>5, <1>6, <1>7, <1>8, <1>9 DEF QueueInv

\* A task put at the back is the last one in the list and the last one pushed.
LEMMA PushBackQueueInv ==
    ASSUME TypeOK, QueueInv, NEW t \in AllTasks, fate[t] = "new",
           Len(taskList') = Len(taskList) + 1, taskList'[Len(taskList) + 1] = t,
           \A i \in 1..Len(taskList) : taskList'[i] = taskList[i],
           Len(pushed') = Len(pushed) + 1, pushed'[Len(pushed) + 1] = t,
           \A a \in 1..Len(pushed) : pushed'[a] = pushed[a],
           fate' = [fate EXCEPT ![t] = "queued"],
           pc' = "running" => pc = "running",
           current' = current
    PROVE  QueueInv'
<1>1. \A u \in AllTasks : fate'[u] = IF u = t THEN "queued" ELSE fate[u]
  BY DEF TypeOK
<1>2. /\ Len(taskList) \in Nat /\ Len(pushed) \in Nat
      /\ \A i \in 1..Len(taskList) : taskList[i] \in AllTasks /\ taskList[i] # t
      /\ \A a \in 1..Len(pushed) : pushed[a] \in AllTasks /\ pushed[a] # t
  BY DEF QueueInv, ListedAreQueued, PushedAreAccepted, Taken, TypeOK
<1>3. ListedAreQueued'
  BY <1>1, <1>2 DEF QueueInv, ListedAreQueued
<1>4. QueuedAreListed'
  BY <1>1, <1>2 DEF QueueInv, QueuedAreListed
<1>5. ListedOnce'
  BY <1>1, <1>2 DEF QueueInv, ListedOnce
<1>6. PushedAreAccepted'
  BY <1>1, <1>2 DEF QueueInv, PushedAreAccepted, Taken
<1>7. PushedOnce'
  BY <1>1, <1>2 DEF QueueInv, PushedOnce
<1>8. ListInOrder'
  <2> SUFFICES ASSUME NEW i \in 1..Len(taskList'), NEW j \in 1..Len(taskList'),
                      NEW a \in 1..Len(pushed'), NEW b \in 1..Len(pushed'),
                      taskList'[i] = pushed'[a], taskList'[j] = pushed'[b], i < j
               PROVE  a < b
    BY DEF ListInOrder
  <2>1. i \in 1..Len(taskList) /\ taskList'[i] = taskList[i] /\ taskList[i] # t
    BY <1>2
  <2>2. a \in 1..Len(pushed) /\ pushed'[a] = pushed[a]
    <3>1. a # Len(pushed) + 1
      BY <2>1
    <3>2. a \in 1..Len(pushed)
      BY <1>2, <3>1
    <3>3. QED
      BY <3>2
  <2>3. CASE b = Len(pushed) + 1
    BY <1>2, <2>2, <2>3
  <2>4. CASE b \in 1..Len(pushed)
    <3>1. pushed'[b] = pushed[b] /\ pushed[b] # t
      BY <1>2, <2>4
    <3>2. j \in 1..Len(taskList) /\ taskList'[j] = taskList[j]
      <4>1. j # Len(taskList) + 1
        BY <3>1
      <4>2. j \in 1..Len(taskList)
        BY <1>2, <4>1
      <4>3. QED
        BY <4>2
    <3>3. QED
      BY <2>1, <2>2, <2>4, <3>1, <3>2 DEF QueueInv, ListInOrder
  <2>5. QED
    BY <1>2, <2>3, <2>4
<1>9. CurrentRuns'
  BY <1>1, <1>2 DEF QueueInv, CurrentRuns, TypeOK
<1>10. QED
  BY <1>3, <1>4, <1>5, <1>6, <1>7, <1>8, <1>9 DEF QueueInv

\* addTask's critical section, at either end and in every thread state.
LEMMA AcceptQueueInv ==
    ASSUME TypeOK, QueueInv, NEW t \in AllTasks, NEW push_front \in BOOLEAN,
           Accept(t, push_front),
           pc' = "running" => pc = "running",
           current' = current
    PROVE  QueueInv'
<1>1. CASE threadState = "RUNNING" /\ push_front
  <2>1. taskList' = <<t>> \o taskList /\ pushed' = pushed
    BY <1>1 DEF Accept, Insert
  <2>2. /\ Len(taskList') = Len(taskList) + 1
        /\ taskList'[1] = t
        /\ \A i \in 2..Len(taskList) + 1 : taskList'[i] = taskList[i - 1]
    BY <2>1 DEF TypeOK
  <2>3. fate[t] = "new" /\ fate' = [fate EXCEPT ![t] = "queued"]
    BY <1>1 DEF Accept
  <2>4. QED
    BY <2>1, <2>2, <2>3, PushFrontQueueInv
<1>2. CASE threadState = "RUNNING" /\ ~push_front
  <2>1. taskList' = Append(taskList, t) /\ pushed' = Append(pushed, t)
    BY <1>2 DEF Accept, Insert
  <2>2. /\ Len(taskList') = Len(taskList) + 1
        /\ taskList'[Len(taskList) + 1] = t
        /\ \A i \in 1..Len(taskList) : taskList'[i] = taskList[i]
        /\ Len(pushed') = Len(pushed) + 1
        /\ pushed'[Len(pushed) + 1] = t
        /\ \A i \in 1..Len(pushed) : pushed'[i] = pushed[i]
    BY <2>1, AppendProperties DEF TypeOK
  <2>3. fate[t] = "new" /\ fate' = [fate EXCEPT ![t] = "queued"]
    BY <1>2 DEF Accept
  <2>4. QED
    BY <2>1, <2>2, <2>3, PushBackQueueInv
<1>3. CASE threadState # "RUNNING"
  <2>1. /\ fate[t] = "new" /\ fate' = [fate EXCEPT ![t] = "rejected"]
        /\ UNCHANGED <<taskList, pushed>>
    BY <1>3 DEF Accept
  <2>2. \A u \in AllTasks : fate'[u] = IF u = t THEN "rejected" ELSE fate[u]
    BY <2>1 DEF TypeOK
  <2>3. /\ \A i \in 1..Len(taskList) : taskList[i] \in AllTasks /\ taskList[i] # t
        /\ \A a \in 1..Len(pushed) : pushed[a] \in AllTasks /\ pushed[a] # t
    BY <2>1 DEF QueueInv, ListedAreQueued, PushedAreAccepted, Taken, TypeOK
  <2>4. ListedAreQueued' /\ QueuedAreListed' /\ ListedOnce'
    BY <2>1, <2>2, <2>3 DEF QueueInv, ListedAreQueued, QueuedAreListed, ListedOnce
  <2>5. PushedAreAccepted' /\ PushedOnce' /\ ListInOrder'
    BY <2>1, <2>2, <2>3
       DEF QueueInv, PushedAreAccepted, PushedOnce, ListInOrder, Taken
  <2>6. CurrentRuns'
    BY <2>1, <2>2 DEF QueueInv, CurrentRuns, TypeOK
  <2>7. QED
    BY <2>4, <2>5, <2>6 DEF QueueInv
<1>4. QED
  BY <1>1, <1>2, <1>3

\* Taking the first task, expired or not.
LEMMA TakeQueueInv ==
    ASSUME TypeOK, QueueInv, TakeTask
    PROVE  QueueInv'
<1> DEFINE task == Head(taskList)
<1>1. /\ task \in AllTasks /\ task = taskList[1]
      /\ Len(taskList) \in Nat \ {0} /\ Len(pushed) \in Nat
      /\ Len(taskList') = Len(taskList) - 1
      /\ \A i \in 1..Len(taskList') : taskList'[i] = taskList[i + 1]
      /\ \A i \in 1..Len(taskList) : taskList[i] \in AllTasks
      /\ \A a \in 1..Len(pushed) : pushed[a] \in AllTasks
      /\ pushed' = pushed
  BY HeadTailProperties DEF TakeTask, TypeOK
<1>2. /\ fate'[task] \in {"running", "dropped"}
      /\ \A u \in AllTasks : u # task => fate'[u] = fate[u]
      /\ pc' = "running" => current' = task /\ fate'[task] = "running"
  BY <1>1 DEF TakeTask, TypeOK
<1> HIDE DEF task
<1>3. \A i \in 1..Len(taskList') : i + 1 \in 1..Len(taskList) /\ i + 1 # 1
  BY <1>1
<1>4. \A i \in 1..Len(taskList') : taskList'[i] # task /\ taskList'[i] \in AllTasks
  BY <1>1, <1>3 DEF QueueInv, ListedOnce
<1>5. ListedAreQueued'
  BY <1>1, <1>2, <1>3, <1>4 DEF QueueInv, ListedAreQueued
<1>6. QueuedAreListed'
  <2> SUFFICES ASSUME NEW u \in AllTasks, fate'[u] = "queued"
               PROVE  \E i \in 1..Len(taskList') : taskList'[i] = u
    BY DEF QueuedAreListed
  <2>1. u # task /\ fate[u] = "queued"
    BY <1>2
  <2>2. PICK i \in 1..Len(taskList) : taskList[i] = u
    BY <2>1 DEF QueueInv, QueuedAreListed
  <2>3. i # 1
    BY <1>1, <2>1, <2>2
  <2>4. i - 1 \in 1..Len(taskList') /\ (i - 1) + 1 = i
    BY <1>1, <2>3
  <2>5. QED
    BY <1>1, <2>2, <2>4
<1>7. ListedOnce'
  BY <1>1, <1>3 DEF QueueInv, ListedOnce
<1>8. PushedAreAccepted' /\ PushedOnce'
  BY <1>1, <1>2 DEF QueueInv, PushedAreAccepted, PushedOnce, Taken
<1>9. ListInOrder'
  <2> SUFFICES ASSUME NEW i \in 1..Len(taskList'), NEW j \in 1..Len(taskList'),
                      NEW a \in 1..Len(pushed), NEW b \in 1..Len(pushed),
                      taskList'[i] = pushed[a], taskList'[j] = pushed[b], i < j
               PROVE  a < b
    BY <1>1 DEF ListInOrder
  <2>1. /\ i + 1 \in 1..Len(taskList) /\ taskList[i + 1] = pushed[a]
        /\ j + 1 \in 1..Len(taskList) /\ taskList[j + 1] = pushed[b]
        /\ i + 1 < j + 1
    BY <1>1, <1>3
  <2>2. QED
    BY <2>1 DEF QueueInv, ListInOrder
<1>10. CurrentRuns'
  BY <1>2 DEF CurrentRuns
<1>11. QED
  BY <1>5, <1>6, <1>7, <1>8, <1>9, <1>10 DEF QueueInv

\* The running task ends; it is in neither the list nor fate "queued".
LEMMA FinishQueueInv ==
    ASSUME TypeOK, QueueInv, FinishTask
    PROVE  QueueInv'
<1>1. /\ current \in AllTasks /\ fate[current] = "running" /\ pc' # "running"
      /\ UNCHANGED <<taskList, pushed>>
  BY DEF FinishTask, TypeOK, QueueInv, CurrentRuns
<1>2. \A u \in AllTasks : fate'[u] = IF u = current THEN "executed" ELSE fate[u]
  BY <1>1 DEF FinishTask, TypeOK
<1>3. /\ \A i \in 1..Len(taskList) :
            taskList[i] \in AllTasks /\ taskList[i] # current
      /\ \A a \in 1..Len(pushed) : pushed[a] \in AllTasks
  BY <1>1 DEF QueueInv, ListedAreQueued, TypeOK
<1>4. ListedAreQueued' /\ QueuedAreListed' /\ ListedOnce'
  BY <1>1, <1>2, <1>3 DEF QueueInv, ListedAreQueued, QueuedAreListed, ListedOnce
<1>5. PushedAreAccepted' /\ PushedOnce' /\ ListInOrder' /\ CurrentRuns'
  BY <1>1, <1>2, <1>3 DEF QueueInv, PushedAreAccepted, PushedOnce, ListInOrder,
                          CurrentRuns, Taken
<1>6. QED
  BY <1>4, <1>5 DEF QueueInv

\* Steps that touch neither the list nor the tasks and start no task.
LEMMA QuietQueueInv ==
    ASSUME QueueInv, UNCHANGED <<taskList, pushed, fate, current>>,
           pc' = "running" => pc = "running"
    PROVE  QueueInv'
BY DEF QueueInv, ListedAreQueued, QueuedAreListed, ListedOnce,
       PushedAreAccepted, PushedOnce, ListInOrder, CurrentRuns, Taken

\* Every step keeps the list exact and in order.
LEMMA NextQueueInv == TypeOK /\ QueueInv /\ [Next]_vars => QueueInv'
<1> SUFFICES ASSUME TypeOK, QueueInv, [Next]_vars
             PROVE  QueueInv'
  OBVIOUS
<1>1. ASSUME NEW th \in Threads, NEW t \in Tasks, NEW push_front \in BOOLEAN,
             AddTask(th, t, push_front)
      PROVE  QueueInv'
  <2>1. /\ t \in AllTasks /\ Accept(t, push_front)
        /\ pc' = pc /\ current' = current
    BY <1>1 DEF AddTask, AllTasks
  <2>2. QED
    BY <2>1, AcceptQueueInv
<1>2. ASSUME NEW t \in Tasks, NEW push_front \in BOOLEAN,
             AddTaskFromTask(t, push_front)
      PROVE  QueueInv'
  <2>1. /\ t \in AllTasks /\ Accept(t, push_front)
        /\ pc' = pc /\ current' = current
    BY <1>2 DEF AddTaskFromTask, AllTasks
  <2>2. QED
    BY <2>1, AcceptQueueInv
<1>3. CASE Shutdown
  <2>1. /\ ShutdownTask \in AllTasks
        /\ fate[ShutdownTask] = "new"
        /\ fate' = [fate EXCEPT ![ShutdownTask] = "queued"]
        /\ taskList' = Append(taskList, ShutdownTask)
        /\ pushed' = Append(pushed, ShutdownTask)
        /\ pc' = "running" => pc = "running"
        /\ current' = current
    BY <1>3 DEF Shutdown, Insert, Notified, AllTasks
  <2>2. /\ Len(taskList') = Len(taskList) + 1
        /\ taskList'[Len(taskList) + 1] = ShutdownTask
        /\ \A i \in 1..Len(taskList) : taskList'[i] = taskList[i]
        /\ Len(pushed') = Len(pushed) + 1
        /\ pushed'[Len(pushed) + 1] = ShutdownTask
        /\ \A i \in 1..Len(pushed) : pushed'[i] = pushed[i]
    BY <2>1, AppendProperties DEF TypeOK
  <2>3. QED
    BY <2>1, <2>2, PushBackQueueInv
<1>4. CASE TakeTask
  BY <1>4, TakeQueueInv
<1>5. CASE FinishTask
  BY <1>5, FinishQueueInv
<1>6. CASE \/ Stop \/ SpuriousWakeup \/ FillSpectatorCache \/ TestLoop
           \/ WaitForTask \/ WokenForNothing \/ UNCHANGED vars
           \/ \E t \in Tasks : Expire(t)
           \/ \E th \in Threads : Notify(th)
  <2>1. /\ UNCHANGED <<taskList, pushed, fate, current>>
        /\ pc' = "running" => pc = "running"
    BY <1>6 DEF Stop, SpuriousWakeup, FillSpectatorCache, TestLoop,
                WaitForTask, WokenForNothing, Expire, Notify, Notified, vars
  <2>2. QED
    BY <2>1, QuietQueueInv
<1>7. QED
  BY <1>1, <1>2, <1>3, <1>4, <1>5, <1>6 DEF Next, ThreadMain, Terminated

\* If the later of two pushed tasks was taken while the earlier one was not,
\* the earlier one would still be listed; but the head of the list is taken.
LEMMA TakeTaskOrder ==
    ASSUME TypeOK, QueueInv, TaskOrder, [Next]_vars
    PROVE  TaskOrder'
<1>1. CASE TakeTask
  <2> DEFINE task == Head(taskList)
  <2>1. /\ task \in AllTasks /\ task = taskList[1] /\ Len(taskList) \in Nat \ {0}
        /\ \A a \in 1..Len(pushed) : pushed[a] \in AllTasks
        /\ Len(pushed) \in Nat /\ pushed' = pushed
    BY <1>1, HeadTailProperties DEF TakeTask, TypeOK
  <2>2. /\ fate'[task] \in {"running", "dropped"}
        /\ \A u \in AllTasks : u # task => fate'[u] = fate[u]
    BY <1>1, <2>1 DEF TakeTask, TypeOK
  <2> HIDE DEF task
  <2> SUFFICES ASSUME NEW a \in 1..Len(pushed), NEW b \in 1..Len(pushed), a < b,
                      Taken(pushed[b])'
               PROVE  Taken(pushed[a])'
    BY <2>1 DEF TaskOrder
  <2>3. CASE pushed[a] = task
    BY <2>1, <2>2, <2>3 DEF Taken
  <2>4. CASE pushed[a] # task /\ pushed[b] # task
    BY <2>1, <2>2, <2>4 DEF Taken, TaskOrder
  <2>5. CASE pushed[a] # task /\ pushed[b] = task
    <3>1. CASE Taken(pushed[a])
      BY <2>1, <2>2, <2>5, <3>1 DEF Taken
    <3>2. CASE fate[pushed[a]] = "queued"
      <4>1. PICK i \in 1..Len(taskList) : taskList[i] = pushed[a]
        BY <2>1, <3>2 DEF QueueInv, QueuedAreListed
      <4>2. 1 < i /\ 1 \in 1..Len(taskList)
        BY <2>1, <2>5, <4>1
      <4>3. b < a
        BY <2>1, <2>5, <4>1, <4>2 DEF QueueInv, ListInOrder
      <4>4. QED
        BY <2>1, <4>3
    <3>3. QED
      BY <3>1, <3>2 DEF QueueInv, PushedAreAccepted
  <2>6. QED
    BY <2>3, <2>4, <2>5
<1>2. CASE ~TakeTask
  <2>1. /\ \A a \in 1..Len(pushed) : pushed[a] \in AllTasks /\ fate[pushed[a]] # "new"
        /\ Len(pushed) \in Nat
    BY DEF TypeOK, QueueInv, PushedAreAccepted, Taken
  <2>2. \A u \in AllTasks :
           /\ fate[u] # "new" => (Taken(u)' <=> Taken(u))
           /\ fate[u] = "new" => ~Taken(u)'
    BY <1>2 DEF Next, ThreadMain, Terminated, vars, AddTask, Accept, Notify,
                AddTaskFromTask, Stop, Shutdown, Expire, SpuriousWakeup,
                FillSpectatorCache, TestLoop, WaitForTask, WokenForNothing,
                FinishTask, TypeOK, QueueInv, CurrentRuns, Taken
  <2>3. \/ pushed' = pushed
        \/ \E t \in AllTasks : pushed' = Append(pushed, t) /\ fate[t] = "new"
    BY <1>2 DEF Next, ThreadMain, Terminated, vars, AddTask, Accept, Notify,
                AddTaskFromTask, Stop, Shutdown, Expire, SpuriousWakeup,
                FillSpectatorCache, TestLoop, WaitForTask, WokenForNothing,
                FinishTask, AllTasks
  <2>4. CASE pushed' = pushed
    BY <2>1, <2>2, <2>4 DEF TaskOrder
  <2>5. ASSUME NEW t \in AllTasks, pushed' = Append(pushed, t), fate[t] = "new"
        PROVE  TaskOrder'
    <3>1. /\ Len(pushed') = Len(pushed) + 1
          /\ pushed'[Len(pushed) + 1] = t
          /\ \A a \in 1..Len(pushed) : pushed'[a] = pushed[a]
      BY <2>5, AppendProperties DEF TypeOK
    <3> SUFFICES ASSUME NEW a \in 1..Len(pushed'), NEW b \in 1..Len(pushed'),
                        a < b, Taken(pushed[b])'
                 PROVE  Taken(pushed[a])'
      BY DEF TaskOrder
    <3>2. b # Len(pushed) + 1
      BY <2>2, <2>5, <3>1 DEF Taken
    <3>3. /\ a \in 1..Len(pushed) /\ b \in 1..Len(pushed)
          /\ pushed'[a] = pushed[a] /\ pushed'[b] = pushed[b]
      BY <2>1, <3>1, <3>2
    <3>4. Taken(pushed[b])
      BY <2>1, <2>2, <3>3 DEF Taken
    <3>5. Taken(pushed[a])
      BY <3>3, <3>4 DEF TaskOrder
    <3>6. QED
      BY <2>1, <2>2, <3>3, <3>5 DEF Taken
  <2>6. QED
    BY <2>3, <2>4, <2>5
<1>3. QED
  BY <1>1, <1>2

\* Tasks added with push_back are taken in the order they were accepted.
THEOREM DispatcherTaskOrder == Spec => []TaskOrder
<1>1. Init => QueueInv /\ TaskOrder
  BY DEF Init, QueueInv, ListedAreQueued, QueuedAreListed, ListedOnce,
         PushedAreAccepted, PushedOnce, ListInOrder, CurrentRuns, TaskOrder
<1>2. TypeOK /\ QueueInv /\ TaskOrder /\ [Next]_vars => (QueueInv /\ TaskOrder)'
  BY NextTypeOK, NextQueueInv, TakeTaskOrder
<1>3. QED
  BY <1>1, <1>2, DispatcherTypeOK, PTL DEF Spec

\* After the terminating task threadMain only tests its loop and returns.
LEMMA NextTerminatedLeaves ==
    TypeOK /\ TerminatedLeaves /\ [Next]_vars => TerminatedLeaves'
BY DEF TypeOK, TerminatedLeaves, vars, Next, AddTask, Notify, Notified,
       AddTaskFromTask, Stop, Shutdown, Expire, SpuriousWakeup,
       FillSpectatorCache, ThreadMain, TestLoop, WaitForTask, WokenForNothing,
       TakeTask, FinishTask, Terminated

\* addTask's critical section submits a job, or changes nothing a job queue has.
LEMMA AcceptSubmits ==
    ASSUME NEW t \in Tasks, NEW push_front \in BOOLEAN, Accept(t, push_front),
           UNCHANGED <<threadState, current>>
    PROVE  JQ!Submit(t) \/ UNCHANGED JQ!jobVars
BY DEF Accept, Insert, JQ!Submit, JQ!jobVars

\* Every step of the dispatcher and of the threads that call it is a step of the
\* job queue or leaves it as it is.
LEMMA NextIsQueueStep ==
    TypeOK /\ TerminatedLeaves /\ [Next]_vars => [JQ!Next]_(JQ!jobVars)
<1> SUFFICES ASSUME TypeOK, TerminatedLeaves, [Next]_vars
             PROVE  JQ!Next \/ UNCHANGED JQ!jobVars
  OBVIOUS
<1>1. ASSUME NEW th \in Threads, NEW t \in Tasks, NEW push_front \in BOOLEAN,
             AddTask(th, t, push_front)
      PROVE  JQ!Next \/ UNCHANGED JQ!jobVars
  BY <1>1, AcceptSubmits DEF AddTask, JQ!Next
<1>2. ASSUME NEW t \in Tasks, NEW push_front \in BOOLEAN,
             AddTaskFromTask(t, push_front)
      PROVE  JQ!Next \/ UNCHANGED JQ!jobVars
  BY <1>2, AcceptSubmits DEF AddTaskFromTask, JQ!Next
<1>3. CASE Stop
  <2>1. current # NoTask /\ threadState # "TERMINATED"
    BY <1>3, DispatcherAssumption DEF Stop, TerminatedLeaves
  <2>2. JQ!Close
    BY <1>3, <2>1 DEF Stop, JQ!Close
  <2>3. QED
    BY <2>2 DEF JQ!Next
<1>4. CASE Shutdown
  <2>1. JQ!SubmitLast
    BY <1>4 DEF Shutdown, Insert, JQ!SubmitLast
  <2>2. QED
    BY <2>1 DEF JQ!Next
<1>5. CASE TakeTask
  <2>1. threadState # "TERMINATED" /\ current = NoTask
    BY <1>5 DEF TakeTask, TypeOK, TerminatedLeaves
  <2>2. JQ!Start
    BY <1>5, <2>1 DEF TakeTask, JQ!Start
  <2>3. QED
    BY <2>2 DEF JQ!Next
<1>6. CASE FinishTask
  <2>1. threadState # "TERMINATED" /\ current # NoTask
    BY <1>6 DEF FinishTask, TypeOK, TerminatedLeaves
  <2>2. JQ!Finish
    BY <1>6, <2>1 DEF FinishTask, DeleteTask, JQ!Finish
  <2>3. QED
    BY <2>2 DEF JQ!Next
<1>7. CASE \/ \E th \in Threads : Notify(th)
           \/ \E t \in Tasks : Expire(t)
           \/ SpuriousWakeup
           \/ FillSpectatorCache
           \/ TestLoop
           \/ WaitForTask
           \/ WokenForNothing
           \/ Terminated
           \/ UNCHANGED vars
  BY <1>7 DEF Notify, Expire, SpuriousWakeup, FillSpectatorCache, TestLoop,
              WaitForTask, WokenForNothing, Terminated, vars, JQ!jobVars
<1>8. QED
  BY <1>1, <1>2, <1>3, <1>4, <1>5, <1>6, <1>7 DEF Next, ThreadMain

\* The dispatcher, with its lock and its condition variable, takes only steps of
\* a plain job queue, for any number of threads and tasks.
THEOREM DispatcherImplementsQueue == Spec => ImplementsQueueSteps
<1>1. Init => JQ!Init /\ TerminatedLeaves
  BY DEF Init, TerminatedLeaves, JQ!Init
<1>2. QED
  BY <1>1, NextTerminatedLeaves, NextIsQueueStep, DispatcherTypeOK, PTL
     DEF Spec, ImplementsQueueSteps

===============================================================================
