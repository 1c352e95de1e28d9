---------------------------- MODULE SchedulerProofs ----------------------------
(***************************************************************************)
(* Proofs about the scheduler for any number of threads and events.        *)
(***************************************************************************)
EXTENDS Scheduler, TLAPS

\* The constructor and ThreadHolder::start establish the types.
LEMMA InitTypeOK == Init => TypeOK
BY SchedulerAssumption
   DEF Init, TypeOK, ThreadStates, EventIds, PCs, Calls, Idle, Fates, NoEvent

\* addEvent's next id is a valid one, also when the counter wraps.
LEMMA NextEventIdType == TypeOK => NextEventId \in EventIds
BY SchedulerAssumption DEF TypeOK, NextEventId, EventIds

\* Every step keeps the types.
LEMMA NextTypeOK == TypeOK /\ [Next]_vars => TypeOK'
<1> SUFFICES ASSUME TypeOK, [Next]_vars
             PROVE  TypeOK'
  OBVIOUS
<1> USE SchedulerAssumption DEF ThreadStates, PCs, Fates
<1>1. ASSUME NEW th \in Threads, NEW e \in Events, NEW c \in 0..MaxClock,
             AddEvent(th, e, c)
      PROVE  TypeOK'
  <2>1. NextEventId \in EventIds /\ NextEventId \in 0..EventIdMax
    BY NextEventIdType DEF EventIds
  <2>2. /\ eventId' \in [Events -> 0..EventIdMax]
        /\ eventIds' \subseteq EventIds
        /\ lastEventId' \in 0..EventIdMax
    <3> DEFINE id == NextEventId
    <3>1. id \in EventIds /\ id \in 0..EventIdMax
      BY <2>1
    <3>2. \/ /\ lastEventId' = id
             /\ eventId' = [eventId EXCEPT ![e] = id]
             /\ eventIds' = eventIds \cup {id}
          \/ UNCHANGED <<lastEventId, eventId, eventIds>>
      BY <1>1 DEF AddEvent
    <3> HIDE DEF id
    <3>3. QED
      BY <3>1, <3>2 DEF TypeOK
  <2>3. call' \in [Threads -> Calls]
    <3>1. [step |-> IF IsTop(c) THEN "notify" ELSE "return", event |-> e] \in Calls
      BY DEF Calls
    <3>2. QED
      BY <1>1, <3>1 DEF AddEvent, Rejected, TypeOK
  <2>4. QED
    BY <1>1, <2>2, <2>3 DEF AddEvent, TypeOK
<1>2. ASSUME NEW th \in Threads, NotifyAdded(th)
      PROVE  TypeOK'
  <2>1. [call[th] EXCEPT !.step = "return"] \in Calls
    BY <1>2 DEF NotifyAdded, TypeOK, Calls
  <2>2. call' \in [Threads -> Calls]
    BY <1>2, <2>1 DEF NotifyAdded, TypeOK
  <2>3. QED
    BY <1>2, <2>2 DEF NotifyAdded, Notified, TypeOK
<1>3. ASSUME NEW th \in Threads, ReturnEventId(th)
      PROVE  TypeOK'
  <2>1. call' \in [Threads -> Calls]
    BY <1>3 DEF ReturnEventId, TypeOK, Calls, Idle
  <2>2. QED
    BY <1>3, <2>1 DEF ReturnEventId, TypeOK
<1>4. ASSUME NEW e \in Events, StopEvent(e)
      PROVE  TypeOK'
  BY <1>4 DEF StopEvent, Forget, TypeOK
<1>5. ASSUME NEW e \in Events, RunDispatched(e)
      PROVE  TypeOK'
  BY <1>5 DEF RunDispatched, TypeOK
<1>6. CASE StopScheduler
  BY <1>6 DEF StopScheduler, TypeOK
<1>7. CASE StopDispatcher
  BY <1>7 DEF StopDispatcher, TypeOK
<1>8. CASE ShutdownStore
  BY <1>8 DEF ShutdownStore, TypeOK
<1>9. CASE ShutdownClear
  <2>1. fate' \in [Events -> Fates]
    BY <1>9 DEF ShutdownClear, TypeOK
  <2>2. QED
    BY <1>9, <2>1 DEF ShutdownClear, TypeOK
<1>10. CASE ShutdownNotify
  BY <1>10 DEF ShutdownNotify, Notified, TypeOK
<1>11. CASE Tick
  BY <1>11 DEF Tick, TypeOK
<1>12. CASE SpuriousWakeup
  BY <1>12 DEF SpuriousWakeup, Notified, TypeOK
<1>13. CASE TestLoop
  BY <1>13 DEF TestLoop, TypeOK
<1>14. CASE EnterWait
  BY <1>14 DEF EnterWait, Tops, TypeOK
<1>15. CASE TimeOut
  BY <1>15 DEF TimeOut, TypeOK
<1>16. CASE WokenNoTimeout
  BY <1>16 DEF WokenNoTimeout, TypeOK
<1>17. CASE FireTop
  BY <1>17 DEF FireTop, Tops, Forget, TypeOK
<1>18. CASE FireNothing
  BY <1>18 DEF FireNothing, TypeOK
<1>19. CASE HandOff
  BY <1>19 DEF HandOff, TypeOK
<1>20. CASE UNCHANGED vars
  BY <1>20 DEF vars, TypeOK
<1>21. QED
  BY <1>1, <1>2, <1>3, <1>4, <1>5, <1>6, <1>7, <1>8, <1>9, <1>10, <1>11,
     <1>12, <1>13, <1>14, <1>15, <1>16, <1>17, <1>18, <1>19, <1>20
     DEF Next, Shutdown, ThreadMain

\* The scheduler's state is well typed: in particular ids stay within their
\* 32 bits when addEvent's counter wraps, and are never 0 in eventIds.
THEOREM SchedulerTypeOK == Spec => []TypeOK
<1>1. Init => TypeOK
  BY InitTypeOK
<1>2. TypeOK /\ [Next]_vars => TypeOK'
  BY NextTypeOK
<1>3. QED
  BY <1>1, <1>2, PTL DEF Spec
-------------------------------------------------------------------------------
\* The steps that leave events, ids and list alone: everything but addEvent,
\* stopEvent, the dispatcher's run, shutdown's clearing, the two steps in
\* which threadMain disposes of an event, and FireTop.
EventsUntouched ==
    /\ UNCHANGED <<eventList, cycle, eventId, eventIds, fate, stopped, lastEventId>>
    /\ pc' = "handoff" => pc = "handoff" /\ held' = held
    /\ clock <= clock'

\* Every step is one of those or leaves events untouched.
LEMMA StepKinds ==
    ASSUME TypeOK, [Next]_vars
    PROVE  \/ \E th \in Threads, e \in Events, c \in 0..MaxClock :
                 AddEvent(th, e, c)
           \/ \E e \in Events : StopEvent(e)
           \/ \E e \in Events : RunDispatched(e)
           \/ ShutdownClear
           \/ FireTop
           \/ HandOff
           \/ EventsUntouched
<1> USE DEF EventsUntouched, TypeOK
<1>1. ASSUME NEW th \in Threads, NotifyAdded(th)
      PROVE  EventsUntouched
  BY <1>1 DEF NotifyAdded, Notified
<1>2. ASSUME NEW th \in Threads, ReturnEventId(th)
      PROVE  EventsUntouched
  BY <1>2 DEF ReturnEventId
<1>3. StopScheduler \/ StopDispatcher \/ ShutdownStore => EventsUntouched
  BY DEF StopScheduler, StopDispatcher, ShutdownStore
<1>4. ShutdownNotify \/ SpuriousWakeup => EventsUntouched
  BY DEF ShutdownNotify, SpuriousWakeup, Notified
<1>5. Tick => EventsUntouched
  BY SchedulerAssumption DEF Tick
<1>6. TestLoop \/ EnterWait \/ TimeOut \/ WokenNoTimeout \/ FireNothing
        => EventsUntouched
  BY DEF TestLoop, EnterWait, TimeOut, WokenNoTimeout, FireNothing
<1>7. UNCHANGED vars => EventsUntouched
  BY DEF vars
<1>8. QED
  BY <1>1, <1>2, <1>3, <1>4, <1>5, <1>6, <1>7
     DEF Next, Shutdown, ThreadMain

\* At start no event has an id.
LEMMA InitEventInv == Init => EventInv
BY SchedulerAssumption
   DEF Init, EventInv, IdsUnique, IdsGiven, NewHaveNoId, ListedAreQueued,
       FiredLostId, StoppedLostId, HeldIsHeld, StoppedNeverRuns

\* addEvent gives an id nobody has, as long as the counter has not wrapped.
LEMMA AddEventInv ==
    ASSUME TypeOK, EventInv, lastEventId < EventIdMax,
           NEW th \in Threads, NEW e \in Events, NEW c \in 0..MaxClock,
           AddEvent(th, e, c)
    PROVE  EventInv'
<1> USE SchedulerAssumption
<1> DEFINE id == lastEventId + 1
<1>1. /\ NextEventId = id
      /\ id \in Nat
      /\ id # 0
      /\ id > lastEventId
      /\ lastEventId \in Nat
  BY DEF TypeOK, NextEventId
<1>2. /\ \A f \in Events : eventId[f] \in Nat /\ eventId[f] < id
      /\ \A i \in eventIds : i \in Nat /\ i < id
  BY <1>1 DEF EventInv, IdsGiven, TypeOK, EventIds
<1>3. CASE threadState # "RUNNING"
  <2>1. UNCHANGED <<lastEventId, eventId, eventIds, eventList, pc, held, stopped>>
    BY <1>3 DEF AddEvent
  <2>2. \A f \in Events : f # e => fate'[f] = fate[f]
    BY <1>3 DEF AddEvent, TypeOK
  <2>3. fate[e] = "new" /\ fate'[e] = "deleted"
    BY <1>3 DEF AddEvent, TypeOK
  <2>4. QED
    BY <2>1, <2>2, <2>3
       DEF EventInv, IdsUnique, IdsGiven, NewHaveNoId, ListedAreQueued,
           FiredLostId, StoppedLostId, HeldIsHeld, StoppedNeverRuns, TypeOK
<1>4. CASE threadState = "RUNNING"
  <2> HIDE DEF id
  <2>1. /\ lastEventId' = id
        /\ eventIds' = eventIds \cup {id}
        /\ eventList' = eventList \cup {e}
        /\ UNCHANGED <<pc, held, stopped>>
    BY <1>1, <1>4 DEF AddEvent
  <2>2. /\ \A f \in Events : f # e => fate'[f] = fate[f] /\ eventId'[f] = eventId[f]
        /\ fate'[e] = "queued"
        /\ eventId'[e] = id
        /\ fate[e] = "new"
        /\ eventId[e] = 0
    BY <1>1, <1>4 DEF AddEvent, TypeOK, EventInv, NewHaveNoId
  <2>3. e \notin stopped
    BY <2>2 DEF EventInv, StoppedLostId
  <2>4. IdsUnique'
    BY <1>1, <1>2, <2>1, <2>2 DEF EventInv, IdsUnique
  <2>5. IdsGiven'
    BY <1>1, <1>2, <2>1, <2>2 DEF IdsGiven
  <2>6. NewHaveNoId' /\ ListedAreQueued'
    BY <2>1, <2>2 DEF EventInv, NewHaveNoId, ListedAreQueued, TypeOK
  <2>7. FiredLostId'
    BY <1>1, <1>2, <2>1, <2>2 DEF EventInv, FiredLostId
  <2>8. StoppedLostId' /\ StoppedNeverRuns'
    BY <1>1, <1>2, <2>1, <2>2, <2>3
       DEF EventInv, StoppedLostId, StoppedNeverRuns, TypeOK
  <2>9. HeldIsHeld'
    BY <2>1, <2>2 DEF EventInv, HeldIsHeld
  <2>10. QED
    BY <2>4, <2>5, <2>6, <2>7, <2>8, <2>9 DEF EventInv
<1>5. QED
  BY <1>3, <1>4

\* The scheduler thread takes an event only with its id, which it forgets.
LEMMA FireTopInv ==
    ASSUME TypeOK, EventInv, FireTop
    PROVE  EventInv'
<1>1. PICK task \in Tops :
          /\ eventList' = eventList \ {task}
          /\ \/ /\ IsActive(task)
                /\ Forget(eventId[task])
                /\ held' = task
                /\ fate' = [fate EXCEPT ![task] = "held"]
                /\ pc' = "handoff"
             \/ /\ ~IsActive(task)
                /\ fate' = [fate EXCEPT ![task] = "deleted"]
                /\ pc' = "loop"
                /\ UNCHANGED <<eventIds, held>>
  BY DEF FireTop
<1>2. task \in Events /\ task \in eventList /\ fate[task] = "queued"
  BY DEF Tops, TypeOK, EventInv, ListedAreQueued
<1>3. UNCHANGED <<eventId, lastEventId, stopped>>
  BY DEF FireTop
<1>4. \A f \in Events : f # task => fate'[f] = fate[f]
  BY <1>1, <1>2 DEF TypeOK
<1>5. CASE IsActive(task)
  <2>1. /\ eventIds' = eventIds \ {eventId[task]}
        /\ fate'[task] = "held"
        /\ held' = task
        /\ eventId[task] # 0
        /\ task \notin stopped
    BY <1>1, <1>2, <1>5
       DEF IsActive, Forget, TypeOK, EventIds, EventInv, StoppedLostId
  <2>2. IdsUnique' /\ IdsGiven' /\ NewHaveNoId'
    BY <1>2, <1>3, <1>4, <2>1 DEF EventInv, IdsUnique, IdsGiven, NewHaveNoId
  <2>3. ListedAreQueued' /\ FiredLostId' /\ HeldIsHeld'
    BY <1>1, <1>2, <1>3, <1>4, <2>1
       DEF EventInv, ListedAreQueued, FiredLostId, HeldIsHeld, TypeOK
  <2>4. StoppedLostId' /\ StoppedNeverRuns'
    BY <1>2, <1>3, <1>4, <2>1
       DEF EventInv, StoppedLostId, StoppedNeverRuns, TypeOK
  <2>5. QED
    BY <2>2, <2>3, <2>4 DEF EventInv
<1>6. CASE ~IsActive(task)
  <2>1. UNCHANGED eventIds /\ fate'[task] = "deleted" /\ pc' = "loop"
    BY <1>1, <1>2, <1>6 DEF TypeOK
  <2>2. QED
    BY <1>1, <1>2, <1>3, <1>4, <2>1
       DEF EventInv, IdsUnique, IdsGiven, NewHaveNoId, ListedAreQueued,
           FiredLostId, StoppedLostId, HeldIsHeld, StoppedNeverRuns, TypeOK
<1>7. QED
  BY <1>5, <1>6

\* Every step keeps EventInv, as long as the counter has not wrapped.
LEMMA NextEventInv ==
    ASSUME TypeOK, EventInv, lastEventId < EventIdMax, [Next]_vars
    PROVE  EventInv'
<1> USE DEF EventInv, IdsUnique, IdsGiven, NewHaveNoId, ListedAreQueued,
            FiredLostId, StoppedLostId, HeldIsHeld, StoppedNeverRuns
<1>1. ASSUME NEW e \in Events, StopEvent(e)
      PROVE  EventInv'
  <2>1. /\ eventIds' = eventIds \ {eventId[e]}
        /\ stopped' = stopped \cup {e}
        /\ eventId[e] # 0 /\ eventId[e] \in eventIds
        /\ UNCHANGED <<eventId, lastEventId, eventList, fate, pc, held>>
    BY <1>1 DEF StopEvent, Forget
  <2>2. QED
    BY <2>1 DEF TypeOK
<1>2. ASSUME NEW e \in Events, RunDispatched(e)
      PROVE  EventInv'
  <2>1. /\ fate[e] = "dispatched" /\ fate'[e] = "executed"
        /\ \A f \in Events : f # e => fate'[f] = fate[f]
        /\ UNCHANGED <<eventId, lastEventId, eventIds, eventList, pc, held, stopped>>
    BY <1>2 DEF RunDispatched, TypeOK
  <2>2. QED
    BY <2>1 DEF TypeOK
<1>3. CASE ShutdownClear
  <2>1. /\ eventIds' = {} /\ eventList' = {}
        /\ \A f \in Events : fate'[f] = IF f \in eventList THEN "deleted" ELSE fate[f]
        /\ UNCHANGED <<eventId, lastEventId, pc, held, stopped>>
    BY <1>3 DEF ShutdownClear, TypeOK
  <2>2. QED
    BY <2>1 DEF TypeOK
<1>4. CASE HandOff
  <2>1. /\ held \in Events /\ fate[held] = "held" /\ pc' = "loop"
        /\ fate'[held] \in {"dispatched", "deleted"}
        /\ \A f \in Events : f # held => fate'[f] = fate[f]
        /\ UNCHANGED <<eventId, lastEventId, eventIds, eventList, stopped>>
    BY <1>4 DEF HandOff, TypeOK
  <2>2. held \notin stopped /\ held \notin eventList
    BY <2>1
  <2>3. QED
    BY <2>1, <2>2 DEF TypeOK
<1>5. CASE EventsUntouched
  BY <1>5 DEF EventsUntouched
<1>6. QED
  BY <1>1, <1>2, <1>3, <1>4, <1>5, StepKinds, AddEventInv, FireTopInv

\* After stopEvent has returned true the event's function never runs, for any
\* number of events, as long as lastEventId has not counted through all ids.
THEOREM SchedulerStoppedNeverRuns ==
    Spec /\ [](lastEventId < EventIdMax) => []StoppedNeverRuns
<1>1. Init => EventInv
  BY InitEventInv
<1>2. TypeOK /\ EventInv /\ lastEventId < EventIdMax /\ [Next]_vars => EventInv'
  BY NextEventInv
<1>3. EventInv => StoppedNeverRuns
  BY DEF EventInv
<1>4. QED
  BY <1>1, <1>2, <1>3, SchedulerTypeOK, PTL DEF Spec
-------------------------------------------------------------------------------
\* At start no event is queued and the clock has yet to run.
LEMMA InitClockInv == Init => ClockInv
BY DEF Init, ClockInv, ListedAreQueued, HeldIsHeld, AwaitsQueued,
       TimedOutIsDue, ShutdownStored, NeverEarly

\* Every step keeps ClockInv.
LEMMA NextClockInv ==
    ASSUME TypeOK, ClockInv, [Next]_vars
    PROVE  ClockInv'
<1> USE SchedulerAssumption
<1>0. /\ clock \in Nat /\ deadline \in Nat /\ eventList \subseteq Events
      /\ \A e \in Events : cycle[e] \in Nat
  BY DEF TypeOK
<1>1. ASSUME NEW th \in Threads, NEW e \in Events, NEW c \in 0..MaxClock,
             AddEvent(th, e, c)
      PROVE  ClockInv'
  <2>1. /\ UNCHANGED <<threadState, clock, pc, deadline, held, shutdownStep>>
        /\ eventList \subseteq eventList'
        /\ eventList' \subseteq eventList \cup {e}
        /\ eventList' # eventList => threadState = "RUNNING" /\ fate'[e] = "queued"
        /\ \A f \in Events : f # e => fate'[f] = fate[f] /\ cycle'[f] = cycle[f]
        /\ fate[e] = "new"
        /\ fate'[e] \in {"queued", "deleted"}
        /\ e \notin eventList
    BY <1>1 DEF AddEvent, TypeOK, ClockInv, ListedAreQueued
  <2>2. ListedAreQueued' /\ HeldIsHeld' /\ TimedOutIsDue' /\ ShutdownStored'
    BY <1>0, <2>1
       DEF ClockInv, ListedAreQueued, HeldIsHeld, TimedOutIsDue, ShutdownStored
  <2>3. AwaitsQueued'
    BY <1>0, <2>1 DEF ClockInv, AwaitsQueued
  <2>4. NeverEarly'
    BY <1>0, <2>1 DEF ClockInv, NeverEarly
  <2>5. QED
    BY <2>2, <2>3, <2>4 DEF ClockInv
<1>2. ASSUME NEW e \in Events, RunDispatched(e)
      PROVE  ClockInv'
  <2>1. /\ UNCHANGED <<threadState, clock, eventList, cycle, pc, deadline, held,
                       shutdownStep>>
        /\ fate[e] = "dispatched" /\ fate'[e] = "executed"
        /\ \A f \in Events : f # e => fate'[f] = fate[f]
    BY <1>2 DEF RunDispatched, TypeOK
  <2>2. QED
    BY <1>0, <2>1
       DEF ClockInv, ListedAreQueued, HeldIsHeld, AwaitsQueued, TimedOutIsDue,
           ShutdownStored, NeverEarly
<1>3. CASE ShutdownClear
  <2>1. /\ UNCHANGED <<threadState, clock, cycle, pc, deadline, held>>
        /\ threadState = "TERMINATED"
        /\ eventList' = {}
        /\ \A f \in Events : fate'[f] = IF f \in eventList THEN "deleted" ELSE fate[f]
    BY <1>3 DEF ShutdownClear, TypeOK, ClockInv, ShutdownStored
  <2>2. QED
    BY <1>0, <2>1
       DEF ClockInv, ListedAreQueued, HeldIsHeld, AwaitsQueued, TimedOutIsDue,
           ShutdownStored, NeverEarly
<1>4. CASE FireTop
  <2>1. PICK task \in Tops :
            /\ eventList' = eventList \ {task}
            /\ fate' \in {[fate EXCEPT ![task] = "held"],
                          [fate EXCEPT ![task] = "deleted"]}
            /\ pc' \in {"loop", "handoff"}
            /\ pc' = "handoff" => held' = task /\ fate'[task] = "held"
    BY <1>4 DEF FireTop, Tops, TypeOK
  <2>2. /\ task \in eventList /\ task \in Events
        /\ \A f \in eventList : cycle[task] <= cycle[f]
        /\ deadline <= clock
        /\ UNCHANGED <<threadState, clock, cycle, deadline, shutdownStep>>
        /\ pc \in {"wokenTimed", "timedOut"}
        /\ \A f \in Events : f # task => fate'[f] = fate[f]
    BY <1>0, <1>4, <2>1
       DEF FireTop, Tops, ReturnsTimeout, Due, ClockInv, TimedOutIsDue, TypeOK
  <2>3. PICK e \in eventList : cycle[e] <= deadline
    BY <2>2 DEF ClockInv, AwaitsQueued
  <2>4. cycle[task] <= clock
    BY <1>0, <2>2, <2>3
  <2>5. QED
    BY <1>0, <2>1, <2>2, <2>4
       DEF ClockInv, ListedAreQueued, HeldIsHeld, AwaitsQueued, TimedOutIsDue,
           ShutdownStored, NeverEarly
<1>5. CASE HandOff
  <2>1. /\ held \in Events /\ fate[held] = "held" /\ pc' = "loop"
        /\ fate'[held] \in {"dispatched", "deleted"}
        /\ \A f \in Events : f # held => fate'[f] = fate[f]
        /\ UNCHANGED <<threadState, clock, eventList, cycle, deadline, shutdownStep>>
    BY <1>5 DEF HandOff, TypeOK, ClockInv, HeldIsHeld
  <2>2. QED
    BY <1>0, <2>1
       DEF ClockInv, ListedAreQueued, HeldIsHeld, AwaitsQueued, TimedOutIsDue,
           ShutdownStored, NeverEarly
<1>6. ASSUME UNCHANGED <<threadState, clock, eventList, cycle, fate, pc, deadline,
                         held, shutdownStep>>
      PROVE  ClockInv'
  BY <1>6 DEF ClockInv, ListedAreQueued, HeldIsHeld, AwaitsQueued,
              TimedOutIsDue, ShutdownStored, NeverEarly
<1>7. \/ \E e \in Events : StopEvent(e)
      \/ \E th \in Threads : ReturnEventId(th)
      \/ StopDispatcher
      \/ UNCHANGED vars
      => ClockInv'
  BY <1>6 DEF StopEvent, ReturnEventId, StopDispatcher, vars
<1>8. ASSUME pc' \in {"loop", "entering", "exited", "waiting", "woken", "undefined"},
             UNCHANGED <<threadState, clock, eventList, cycle, fate, held, shutdownStep>>
      PROVE  ClockInv'
  BY <1>8 DEF ClockInv, ListedAreQueued, HeldIsHeld, AwaitsQueued,
              TimedOutIsDue, ShutdownStored, NeverEarly
<1>9. TestLoop \/ WokenNoTimeout \/ FireNothing => ClockInv'
  BY <1>8 DEF TestLoop, WokenNoTimeout, FireNothing
<1>10. CASE EnterWait
  <2>1. CASE eventList = {}
    BY <1>8, <1>10, <2>1 DEF EnterWait
  <2>2. CASE eventList # {}
    <3>1. PICK top \in Tops : deadline' = cycle[top] /\ pc' = "timed"
      BY <1>10, <2>2 DEF EnterWait
    <3>2. top \in eventList
      BY DEF Tops
    <3>3. UNCHANGED <<threadState, clock, eventList, cycle, fate, held, shutdownStep>>
      BY <1>10 DEF EnterWait
    <3>4. QED
      BY <1>0, <3>1, <3>2, <3>3
         DEF ClockInv, ListedAreQueued, HeldIsHeld, AwaitsQueued,
             TimedOutIsDue, ShutdownStored, NeverEarly
  <2>3. QED
    BY <2>1, <2>2
<1>11. ASSUME pc' = Notified(pc),
              UNCHANGED <<threadState, clock, eventList, cycle, fate, deadline, held>>,
              shutdownStep' # "none" => shutdownStep # "none"
       PROVE  ClockInv'
  BY <1>11 DEF Notified, ClockInv, ListedAreQueued, HeldIsHeld, AwaitsQueued,
               TimedOutIsDue, ShutdownStored, NeverEarly
<1>12. (\E th \in Threads : NotifyAdded(th)) \/ ShutdownNotify \/ SpuriousWakeup
         => ClockInv'
  BY <1>11 DEF NotifyAdded, ShutdownNotify, SpuriousWakeup
<1>13. CASE TimeOut
  BY <1>13 DEF TimeOut, Due, ClockInv, ListedAreQueued, HeldIsHeld, AwaitsQueued,
               TimedOutIsDue, ShutdownStored, NeverEarly
<1>14. CASE Tick
  BY <1>0, <1>14
     DEF Tick, ClockInv, ListedAreQueued, HeldIsHeld, AwaitsQueued,
         TimedOutIsDue, ShutdownStored, NeverEarly
<1>15. CASE StopScheduler
  BY <1>15 DEF StopScheduler, ClockInv, ListedAreQueued, HeldIsHeld,
               AwaitsQueued, TimedOutIsDue, ShutdownStored, NeverEarly
<1>16. CASE ShutdownStore
  BY <1>16 DEF ShutdownStore, ClockInv, ListedAreQueued, HeldIsHeld,
               AwaitsQueued, TimedOutIsDue, ShutdownStored, NeverEarly
<1>17. QED
  BY <1>1, <1>2, <1>3, <1>4, <1>5, <1>7, <1>9, <1>10, <1>12, <1>13, <1>14,
     <1>15, <1>16 DEF Next, Shutdown, ThreadMain

\* No event is taken before its time, whatever was added, stopped or cleared
\* while the scheduler thread waited.
THEOREM SchedulerNeverEarly == Spec => []NeverEarly
<1>1. Init => ClockInv
  BY InitClockInv
<1>2. TypeOK /\ ClockInv /\ [Next]_vars => ClockInv'
  BY NextClockInv
<1>3. ClockInv => NeverEarly
  BY DEF ClockInv
<1>4. QED
  BY <1>1, <1>2, <1>3, SchedulerTypeOK, PTL DEF Spec
-------------------------------------------------------------------------------
\* The list holds queued events only, and the thread that is about to hand an
\* event over holds one: the part of ClockInv NeverOversleeps needs.
LEMMA NextNeverOversleeps ==
    ASSUME TypeOK, ListedAreQueued, NeverOversleeps, [Next]_vars
    PROVE  NeverOversleeps'
<1> USE SchedulerAssumption
<1>0. /\ deadline \in Nat /\ eventList \subseteq Events
      /\ \A e \in Events : cycle[e] \in Nat
      /\ call \in [Threads -> Calls]
  BY DEF TypeOK
<1>1. ASSUME NEW th \in Threads, NEW e \in Events, NEW c \in 0..MaxClock,
             AddEvent(th, e, c)
      PROVE  NeverOversleeps'
  <2>1. e \notin eventList /\ UNCHANGED <<pc, deadline>> /\ call[th] = Idle
    BY <1>1 DEF AddEvent, ListedAreQueued
  <2>2. CASE threadState # "RUNNING"
    BY <1>1, <2>2 DEF AddEvent, Rejected, NeverOversleeps
  <2>3. CASE threadState = "RUNNING" /\ IsTop(c)
    <3>1. call'[th].step = "notify"
      BY <1>0, <1>1, <2>3 DEF AddEvent
    <3>2. QED
      BY <3>1 DEF NeverOversleeps
  <2>4. CASE threadState = "RUNNING" /\ ~IsTop(c)
    <3>1. PICK f \in eventList : ~(c < cycle[f])
      BY <2>4 DEF IsTop
    <3>2. /\ eventList' = eventList \cup {e}
          /\ cycle'[e] = c
          /\ \A g \in eventList : cycle'[g] = cycle[g]
      BY <1>0, <1>1, <2>1, <2>4 DEF AddEvent, TypeOK
    <3>3. \A t \in Threads : call[t].step = "notify" => call'[t].step = "notify"
      BY <1>0, <1>1, <2>1 DEF AddEvent, Rejected, Idle
    <3>4. f \in Events /\ cycle[f] <= c /\ c \in Nat
      BY <1>0, <3>1
    <3>5. QED
      BY <1>0, <2>1, <3>1, <3>2, <3>3, <3>4 DEF NeverOversleeps
  <2>5. QED
    BY <2>2, <2>3, <2>4
<1>2. ASSUME pc' \notin {"waiting", "timed"}
      PROVE  NeverOversleeps'
  BY <1>2 DEF NeverOversleeps
<1>3. (\E th \in Threads : NotifyAdded(th)) \/ ShutdownNotify \/ SpuriousWakeup
        => NeverOversleeps'
  BY <1>2 DEF NotifyAdded, ShutdownNotify, SpuriousWakeup, Notified
<1>4. TestLoop \/ TimeOut \/ WokenNoTimeout \/ FireTop \/ FireNothing \/ HandOff
        => NeverOversleeps'
  BY <1>2 DEF TestLoop, TimeOut, WokenNoTimeout, FireTop, FireNothing, HandOff
<1>5. ASSUME UNCHANGED <<eventList, cycle, pc, deadline, call>>
      PROVE  NeverOversleeps'
  BY <1>5 DEF NeverOversleeps
<1>6. (\E e \in Events : StopEvent(e) \/ RunDispatched(e)) \/ StopScheduler
      \/ StopDispatcher \/ ShutdownStore \/ Tick \/ UNCHANGED vars
        => NeverOversleeps'
  BY <1>5 DEF StopEvent, RunDispatched, StopScheduler, StopDispatcher,
              ShutdownStore, Tick, vars
<1>7. ASSUME NEW th \in Threads, ReturnEventId(th)
      PROVE  NeverOversleeps'
  <2>1. \A t \in Threads : call[t].step = "notify" => call'[t].step = "notify"
    BY <1>0, <1>7 DEF ReturnEventId
  <2>2. QED
    BY <1>7, <2>1 DEF ReturnEventId, NeverOversleeps
<1>8. CASE ShutdownClear
  BY <1>8 DEF ShutdownClear, NeverOversleeps
<1>9. CASE EnterWait
  <2>1. UNCHANGED <<eventList, cycle, call>>
    BY <1>9 DEF EnterWait
  <2>2. CASE eventList = {}
    BY <1>9, <2>1, <2>2 DEF EnterWait, NeverOversleeps
  <2>3. CASE eventList # {}
    BY <1>9, <2>1, <2>3 DEF EnterWait, NeverOversleeps, Tops
  <2>4. QED
    BY <2>2, <2>3
<1>10. QED
  BY <1>1, <1>3, <1>4, <1>6, <1>7, <1>8, <1>9 DEF Next, Shutdown, ThreadMain

\* The scheduler never sleeps past the first event of its queue unless the
\* thread that added it has yet to reach addEvent's notify_one.
THEOREM SchedulerNeverOversleeps == Spec => []NeverOversleeps
<1>1. Init => ClockInv /\ NeverOversleeps
  BY InitClockInv DEF Init, NeverOversleeps
<1>2. TypeOK /\ ClockInv /\ NeverOversleeps /\ [Next]_vars
        => ClockInv' /\ NeverOversleeps'
  BY NextClockInv, NextNeverOversleeps DEF ClockInv
<1>3. QED
  BY <1>1, <1>2, SchedulerTypeOK, PTL DEF Spec
-------------------------------------------------------------------------------
\* Every step keeps LiveInv when the dispatcher thread is the one that shuts
\* the scheduler down.
LEMMA NextLiveInv ==
    ASSUME ShutdownThread = DispatcherThread, TypeOK, EventInv, ShutdownStored,
           LiveInv, lastEventId < EventIdMax, [Next]_vars
    PROVE  LiveInv'
<1> USE SchedulerAssumption
<1> DEFINE c == call[DispatcherThread]
<1>0. /\ call \in [Threads -> Calls]
      /\ \A e \in Events : eventId[e] \in Nat
      /\ Idle.event = NoEvent /\ Idle.step = "idle"
      /\ fate \in [Events -> Fates]
      /\ 0 \notin eventIds
  BY DEF TypeOK, Idle, EventIds
<1>1. ASSUME NEW th \in Threads, NEW e \in Events, NEW t \in 0..MaxClock,
             AddEvent(th, e, t)
      PROVE  LiveInv'
  <2>1. UNCHANGED <<threadState, dispatcherState>>
    BY <1>1 DEF AddEvent
  <2>2. CASE threadState # "RUNNING"
    <3>1. UNCHANGED call
      BY <1>1, <2>2 DEF AddEvent, Rejected
    <3>2. QED
      BY <2>1, <2>2, <3>1
         DEF LiveInv, InsideRunning, DispatcherOutlives, InsideLive
  <2>3. CASE threadState = "RUNNING"
    <3>1. /\ fate[e] = "new" /\ fate'[e] = "queued"
          /\ eventId'[e] \in eventIds'
          /\ eventIds \subseteq eventIds'
          /\ \A f \in Events : f # e => fate'[f] = fate[f] /\ eventId'[f] = eventId[f]
      BY <1>1, <2>3 DEF AddEvent, TypeOK
    <3>2. call'[th].event = e /\ \A u \in Threads : u # th => call'[u] = call[u]
      BY <1>0, <1>1, <2>3 DEF AddEvent
    <3>3. QED
      BY <2>1, <2>3, <3>1, <3>2
         DEF LiveInv, InsideRunning, DispatcherOutlives, InsideLive
  <2>4. QED
    BY <2>2, <2>3
<1>2. ASSUME NEW th \in Threads, NotifyAdded(th) \/ ReturnEventId(th)
      PROVE  LiveInv'
  <2>1. UNCHANGED <<threadState, dispatcherState, fate, eventId, eventIds>>
    BY <1>2 DEF NotifyAdded, ReturnEventId
  <2>2. \A u \in Threads : call'[u] # Idle => call[u] # Idle /\ call'[u].event = call[u].event
    BY <1>0, <1>2 DEF NotifyAdded, ReturnEventId, Calls
  <2>3. QED
    BY <2>1, <2>2 DEF LiveInv, InsideRunning, DispatcherOutlives, InsideLive
<1>3. ASSUME NEW e \in Events, StopEvent(e)
      PROVE  LiveInv'
  <2>1. /\ UNCHANGED <<threadState, dispatcherState, fate, eventId, call>>
        /\ eventIds' = eventIds \ {eventId[e]}
        /\ c = Idle
    BY <1>3 DEF StopEvent, Forget
  <2>2. QED
    BY <2>1 DEF LiveInv, InsideRunning, DispatcherOutlives, InsideLive
<1>4. ASSUME c = Idle, UNCHANGED call, DispatcherOutlives'
      PROVE  LiveInv'
  BY <1>4 DEF LiveInv, InsideRunning, InsideLive
<1>5. (\E e \in Events : RunDispatched(e)) \/ StopScheduler \/ ShutdownStore
        => LiveInv'
  BY <1>4 DEF RunDispatched, StopScheduler, ShutdownStore, LiveInv,
              DispatcherOutlives
<1>6. StopDispatcher \/ ShutdownClear => LiveInv'
  BY <1>4 DEF StopDispatcher, ShutdownClear, ShutdownStored, LiveInv,
              InsideRunning, DispatcherOutlives
<1>7. ASSUME UNCHANGED <<threadState, dispatcherState, fate, eventId, eventIds, call>>
      PROVE  LiveInv'
  BY <1>7 DEF LiveInv, InsideRunning, DispatcherOutlives, InsideLive
<1>8. ShutdownNotify \/ Tick \/ SpuriousWakeup \/ TestLoop \/ EnterWait \/ TimeOut
      \/ WokenNoTimeout \/ FireNothing \/ UNCHANGED vars
        => LiveInv'
  BY <1>7 DEF ShutdownNotify, Tick, SpuriousWakeup, TestLoop, EnterWait,
              TimeOut, WokenNoTimeout, FireNothing, vars
<1>9. CASE FireTop
  <2>1. PICK task \in Events :
            \/ /\ eventId[task] \in eventIds
               /\ eventIds' = eventIds \ {eventId[task]}
               /\ fate' = [fate EXCEPT ![task] = "held"]
            \/ /\ eventId[task] \notin eventIds
               /\ fate[task] = "queued"
               /\ fate' = [fate EXCEPT ![task] = "deleted"]
               /\ UNCHANGED eventIds
    BY <1>9 DEF FireTop, Tops, IsActive, Forget, TypeOK, EventInv, ListedAreQueued
  <2>2. UNCHANGED <<threadState, dispatcherState, eventId, call>>
    BY <1>9 DEF FireTop
  <2>3. \A e \in Events : eventId[e] \in eventIds /\ eventId[e] = eventId[task] => e = task
    BY <1>0 DEF EventInv, IdsUnique
  <2>4. InsideLive'
    BY <1>0, <2>1, <2>2, <2>3 DEF LiveInv, InsideLive
  <2>5. QED
    BY <2>2, <2>4 DEF LiveInv, InsideRunning, DispatcherOutlives
<1>10. CASE HandOff
  <2>1. /\ held \in Events /\ fate[held] = "held"
        /\ UNCHANGED <<threadState, dispatcherState, eventId, eventIds, call>>
        /\ dispatcherState = "RUNNING" => fate'[held] = "dispatched"
        /\ \A f \in Events : f # held => fate'[f] = fate[f]
    BY <1>0, <1>10 DEF HandOff, EventInv, HeldIsHeld
  <2>2. QED
    BY <2>1 DEF LiveInv, InsideRunning, DispatcherOutlives, InsideLive
<1>11. QED
  BY <1>1, <1>2, <1>3, <1>5, <1>6, <1>8, <1>9, <1>10
     DEF Next, Shutdown, ThreadMain

\* When addEvent is called in the dispatcher thread, and that thread is the one
\* that shuts the scheduler down, the task it returns the id of is still alive.
THEOREM SchedulerReturnReadsLive ==
    ASSUME ShutdownThread = DispatcherThread
    PROVE  Spec /\ [](lastEventId < EventIdMax) => []ReturnReadsLive
<1>1. Init => EventInv /\ ClockInv /\ LiveInv
  BY InitEventInv, InitClockInv, SchedulerAssumption
     DEF Init, LiveInv, InsideRunning, DispatcherOutlives, InsideLive
<1>2. TypeOK /\ EventInv /\ ClockInv /\ LiveInv /\ lastEventId < EventIdMax
      /\ [Next]_vars => EventInv' /\ ClockInv' /\ LiveInv'
  BY NextEventInv, NextClockInv, NextLiveInv DEF ClockInv
<1>3. LiveInv => ReturnReadsLive
  BY DEF LiveInv, InsideLive, ReturnReadsLive, Freed
<1>4. QED
  BY <1>1, <1>2, <1>3, SchedulerTypeOK, PTL DEF Spec
===============================================================================
