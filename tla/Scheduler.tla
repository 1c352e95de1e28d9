------------------------------- MODULE Scheduler -------------------------------
(***************************************************************************)
(* The scheduler thread: delayed tasks that become dispatcher tasks when   *)
(* their time comes (src/src/scheduler.cpp, src/src/scheduler.h).          *)
(*                                                                         *)
(* One critical section of eventLock is one step.  addEvent goes on after  *)
(* it has released the lock: it notifies, then reads the event's id        *)
(* through a pointer the scheduler and the dispatcher may already have     *)
(* freed.  Scheduler::shutdown stores TERMINATED before it takes the lock  *)
(* and notifies after it has released it.                                  *)
(***************************************************************************)
EXTENDS Naturals

CONSTANTS
    Threads,          \* threads that call addEvent
    DispatcherThread, \* the one that runs game logic, calls stopEvent and stop
    ShutdownThread,   \* the one that calls Scheduler::shutdown
    Events,           \* SchedulerTask objects, each added at most once
    EventIdMax,       \* largest event id (2^32 - 1 in the code)
    MaxClock          \* bound on the clock and on the events' cycles

NoEvent == "NoEvent"

ASSUME SchedulerAssumption ==
    /\ NoEvent \notin Events
    /\ DispatcherThread \in Threads
    /\ ShutdownThread \in Threads
    /\ EventIdMax \in Nat \ {0}
    /\ MaxClock \in Nat

VARIABLES
    threadState,     \* ThreadHolder::threadState of the scheduler
    dispatcherState, \* and of the dispatcher
    clock,           \* std::chrono::system_clock::now()
    eventList,       \* Scheduler::eventList, a priority queue by cycle
    cycle,           \* SchedulerTask::expiration of each event
    eventId,         \* SchedulerTask::eventId, 0 until addEvent gives one
    eventIds,        \* Scheduler::eventIds, the ids not stopped and not fired
    lastEventId,     \* Scheduler::lastEventId
    pc,              \* where the scheduler thread is in threadMain
    deadline,        \* the time of its wait_until
    held,            \* the event it took and has yet to hand to the dispatcher
    call,            \* what each thread still has to do after addEvent's unlock
    shutdownStep,    \* progress of Scheduler::shutdown
    fate,            \* what became of each event
    stopped          \* ghost: events whose stopEvent returned true

vars == <<threadState, dispatcherState, clock, eventList, cycle, eventId,
          eventIds, lastEventId, pc, deadline, held, call, shutdownStep, fate,
          stopped>>

ThreadStates == {"RUNNING", "CLOSING", "TERMINATED"}
EventIds == 1..EventIdMax

\* An event is new, queued, held by the scheduler thread, dispatched (in the
\* dispatcher's list); then executed, or deleted without having run.
Fates == {"new", "queued", "held", "dispatched", "executed", "deleted"}
Freed(e) == fate[e] \in {"executed", "deleted"}

\* idle; notify: about to notify_one; return: about to read task->getEventId()
Calls == [step : {"notify", "return"}, event : Events]
         \cup [step : {"idle"}, event : {NoEvent}]
Idle == [step |-> "idle", event |-> NoEvent]

\* waiting: in wait(); timed: in wait_until(); woken, wokenTimed: notified out
\* of them; timedOut: out of wait_until by time; handoff: past the unlock;
\* undefined: the thread has read the top of an empty priority queue.
PCs == {"loop", "entering", "waiting", "timed", "woken", "wokenTimed",
        "timedOut", "handoff", "exited", "undefined"}

\* Mutant of Tops: the comparison of TaskComparator is turned round.
TopsLast == {e \in eventList : \A f \in eventList : cycle[e] >= cycle[f]}

\* The events that may be eventList.top().
Tops == {e \in eventList : \A f \in eventList : cycle[e] <= cycle[f]}
-------------------------------------------------------------------------------
\* The ids may just have run out: the next one wraps.
Init ==
    /\ threadState = "RUNNING"
    /\ dispatcherState = "RUNNING"
    /\ clock = 0
    /\ eventList = {}
    /\ cycle = [e \in Events |-> 0]
    /\ eventId = [e \in Events |-> 0]
    /\ eventIds = {}
    /\ lastEventId \in {0, EventIdMax}
    /\ pc = "loop"
    /\ deadline = 0
    /\ held = NoEvent
    /\ call = [th \in Threads |-> Idle]
    /\ shutdownStep = "none"
    /\ fate = [e \in Events |-> "new"]
    /\ stopped = {}

\* if (++lastEventId == 0) lastEventId = 1;
NextEventId == IF lastEventId = EventIdMax THEN 1 ELSE lastEventId + 1

\* task == eventList.top(): a push moves up only past strictly later events.
IsTop(c) == \A f \in eventList : c < cycle[f]

\* Mutant of Rejected: the id of the deleted task is returned.
RejectedReturnsId(th, e) ==
    call' = [call EXCEPT ![th] = [step |-> "return", event |-> e]]

\* delete task; return 0;
Rejected(th, e) == UNCHANGED call

\* addEvent up to the unlock, with an event to run at time c.
AddEvent(th, e, c) ==
    /\ call[th] = Idle
    /\ fate[e] = "new"
    /\ \/ /\ threadState = "RUNNING"
          /\ lastEventId' = NextEventId
          /\ eventId' = [eventId EXCEPT ![e] = NextEventId]
          /\ eventIds' = eventIds \cup {NextEventId}
          /\ eventList' = eventList \cup {e}
          /\ cycle' = [cycle EXCEPT ![e] = c]
          /\ fate' = [fate EXCEPT ![e] = "queued"]
          /\ call' = [call EXCEPT ![th] =
                [step |-> IF IsTop(c) THEN "notify" ELSE "return", event |-> e]]
       \/ /\ threadState # "RUNNING"
          /\ fate' = [fate EXCEPT ![e] = "deleted"]
          /\ Rejected(th, e)
          /\ UNCHANGED <<lastEventId, eventId, eventIds, eventList, cycle>>
    /\ UNCHANGED <<threadState, dispatcherState, clock, pc, deadline, held,
                   shutdownStep, stopped>>

\* Mutant of Notified: the notification is lost.
NotifiedNobody(p) == p

\* notify_one on eventSignal: the scheduler thread is the only waiter.
Notified(p) ==
    IF p = "waiting" THEN "woken" ELSE IF p = "timed" THEN "wokenTimed" ELSE p

\* eventSignal.notify_one() at the end of addEvent
NotifyAdded(th) ==
    /\ call[th].step = "notify"
    /\ call' = [call EXCEPT ![th].step = "return"]
    /\ pc' = Notified(pc)
    /\ UNCHANGED <<threadState, dispatcherState, clock, eventList, cycle,
                   eventId, eventIds, lastEventId, deadline, held,
                   shutdownStep, fate, stopped>>

\* return task->getEventId()
ReturnEventId(th) ==
    /\ call[th].step = "return"
    /\ call' = [call EXCEPT ![th] = Idle]
    /\ UNCHANGED <<threadState, dispatcherState, clock, eventList, cycle,
                   eventId, eventIds, lastEventId, pc, deadline, held,
                   shutdownStep, fate, stopped>>

\* eventIds.erase(it)
Forget(id) == eventIds' = eventIds \ {id}

\* stopEvent with the id that addEvent returned for e, however old it is.  It
\* returns true when the id is active; the event stays in the queue.
StopEvent(e) ==
    /\ call[DispatcherThread] = Idle
    /\ eventId[e] # 0
    /\ \A th \in Threads : call[th].event # e
    /\ eventId[e] \in eventIds
    /\ Forget(eventId[e])
    /\ stopped' = stopped \cup {e}
    /\ UNCHANGED <<threadState, dispatcherState, clock, eventList, cycle,
                   eventId, lastEventId, pc, deadline, held, call,
                   shutdownStep, fate>>
-------------------------------------------------------------------------------
\* g_scheduler.stop(), then g_dispatcher.stop(), in the task that closes the
\* game: the dispatcher thread is not inside addEvent.
StopScheduler ==
    /\ call[DispatcherThread] = Idle
    /\ threadState = "RUNNING"
    /\ threadState' = "CLOSING"
    /\ UNCHANGED <<dispatcherState, clock, eventList, cycle, eventId, eventIds,
                   lastEventId, pc, deadline, held, call, shutdownStep, fate,
                   stopped>>

StopDispatcher ==
    /\ threadState = "CLOSING"
    /\ dispatcherState = "RUNNING"
    /\ dispatcherState' = "CLOSING"
    /\ UNCHANGED <<threadState, clock, eventList, cycle, eventId, eventIds,
                   lastEventId, pc, deadline, held, call, shutdownStep, fate,
                   stopped>>

\* Scheduler::shutdown: setState(THREAD_STATE_TERMINATED) ...
ShutdownStore ==
    /\ call[ShutdownThread] = Idle
    /\ shutdownStep = "none"
    /\ shutdownStep' = "stored"
    /\ threadState' = "TERMINATED"
    /\ UNCHANGED <<dispatcherState, clock, eventList, cycle, eventId, eventIds,
                   lastEventId, pc, deadline, held, call, fate, stopped>>

\* ... then, under the lock, delete every event and forget every id ...
ShutdownClear ==
    /\ shutdownStep = "stored"
    /\ shutdownStep' = "cleared"
    /\ fate' = [e \in Events |-> IF e \in eventList THEN "deleted" ELSE fate[e]]
    /\ eventList' = {}
    /\ eventIds' = {}
    /\ UNCHANGED <<threadState, dispatcherState, clock, cycle, eventId,
                   lastEventId, pc, deadline, held, call, stopped>>

\* ... and notify once the lock is released.
ShutdownNotify ==
    /\ shutdownStep = "cleared"
    /\ shutdownStep' = "done"
    /\ pc' = Notified(pc)
    /\ UNCHANGED <<threadState, dispatcherState, clock, eventList, cycle,
                   eventId, eventIds, lastEventId, deadline, held, call, fate,
                   stopped>>

Tick ==
    /\ clock < MaxClock
    /\ clock' = clock + 1
    /\ UNCHANGED <<threadState, dispatcherState, eventList, cycle, eventId,
                   eventIds, lastEventId, pc, deadline, held, call,
                   shutdownStep, fate, stopped>>

\* The dispatcher executes and deletes an event it was handed, in a task of its
\* own: not while its thread is inside addEvent.
RunDispatched(e) ==
    /\ fate[e] = "dispatched"
    /\ call[DispatcherThread] = Idle
    /\ fate' = [fate EXCEPT ![e] = "executed"]
    /\ UNCHANGED <<threadState, dispatcherState, clock, eventList, cycle,
                   eventId, eventIds, lastEventId, pc, deadline, held, call,
                   shutdownStep, stopped>>
-------------------------------------------------------------------------------
\* while (getState() != THREAD_STATE_TERMINATED)
TestLoop ==
    /\ pc = "loop"
    /\ pc' = IF threadState = "TERMINATED" THEN "exited" ELSE "entering"
    /\ UNCHANGED <<threadState, dispatcherState, clock, eventList, cycle,
                   eventId, eventIds, lastEventId, deadline, held, call,
                   shutdownStep, fate, stopped>>

\* Lock; wait for a signal, or until the top event is due.
EnterWait ==
    /\ pc = "entering"
    /\ \/ /\ eventList = {}
          /\ pc' = "waiting"
          /\ UNCHANGED deadline
       \/ /\ eventList # {}
          /\ pc' = "timed"
          /\ \E top \in Tops : deadline' = cycle[top]
    /\ UNCHANGED <<threadState, dispatcherState, clock, eventList, cycle,
                   eventId, eventIds, lastEventId, held, call, shutdownStep,
                   fate, stopped>>

SpuriousWakeup ==
    /\ pc \in {"waiting", "timed"}
    /\ pc' = Notified(pc)
    /\ UNCHANGED <<threadState, dispatcherState, clock, eventList, cycle,
                   eventId, eventIds, lastEventId, deadline, held, call,
                   shutdownStep, fate, stopped>>

\* The time of wait_until has come.
Due == clock >= deadline

TimeOut ==
    /\ pc = "timed"
    /\ Due
    /\ pc' = "timedOut"
    /\ UNCHANGED <<threadState, dispatcherState, clock, eventList, cycle,
                   eventId, eventIds, lastEventId, deadline, held, call,
                   shutdownStep, fate, stopped>>

\* The wait has the mutex again and returns no_timeout: unlock and loop.  The
\* standard library decides between the two results of wait_until by reading
\* the clock, not by what woke the thread.
WokenNoTimeout ==
    /\ \/ pc = "woken"
       \/ pc = "wokenTimed" /\ ~Due
    /\ pc' = "loop"
    /\ UNCHANGED <<threadState, dispatcherState, clock, eventList, cycle,
                   eventId, eventIds, lastEventId, deadline, held, call,
                   shutdownStep, fate, stopped>>

\* wait_until returns timeout.
ReturnsTimeout == pc = "timedOut" \/ (pc = "wokenTimed" /\ Due)

\* Mutant of IsActive: the check whether the event was stopped is missing.
IsActiveAlways(e) == TRUE

\* eventIds.find(task->getEventId()) != eventIds.end()
IsActive(e) == eventId[e] \in eventIds

\* Take the top event; one that was stopped is deleted.
FireTop ==
    /\ ReturnsTimeout
    /\ \E task \in Tops :
          /\ eventList' = eventList \ {task}
          /\ \/ /\ IsActive(task)
                /\ Forget(eventId[task])
                /\ held' = task
                /\ fate' = [fate EXCEPT ![task] = "held"]
                /\ pc' = "handoff"
             \/ /\ ~IsActive(task)
                /\ fate' = [fate EXCEPT ![task] = "deleted"]
                /\ pc' = "loop"
                /\ UNCHANGED <<eventIds, held>>
    /\ UNCHANGED <<threadState, dispatcherState, clock, cycle, eventId,
                   lastEventId, deadline, call, shutdownStep, stopped>>

\* eventList.top() of an empty queue is undefined behaviour: nothing is known
\* of the thread from here on.
FireNothing ==
    /\ ReturnsTimeout
    /\ eventList = {}
    /\ pc' = "undefined"
    /\ UNCHANGED <<threadState, dispatcherState, clock, eventList, cycle,
                   eventId, eventIds, lastEventId, deadline, held, call,
                   shutdownStep, fate, stopped>>

\* g_dispatcher.addTask(task, true), which deletes the task unless RUNNING.
HandOff ==
    /\ pc = "handoff"
    /\ pc' = "loop"
    /\ held' = NoEvent
    /\ fate' = [fate EXCEPT ![held] =
                   IF dispatcherState = "RUNNING" THEN "dispatched" ELSE "deleted"]
    /\ UNCHANGED <<threadState, dispatcherState, clock, eventList, cycle,
                   eventId, eventIds, lastEventId, deadline, call,
                   shutdownStep, stopped>>

ThreadMain ==
    \/ TestLoop
    \/ EnterWait
    \/ TimeOut
    \/ WokenNoTimeout
    \/ FireTop
    \/ FireNothing
    \/ HandOff

Shutdown == ShutdownStore \/ ShutdownClear \/ ShutdownNotify

Next ==
    \/ \E th \in Threads, e \in Events, c \in 0..MaxClock : AddEvent(th, e, c)
    \/ \E th \in Threads : NotifyAdded(th)
    \/ \E th \in Threads : ReturnEventId(th)
    \/ \E e \in Events : StopEvent(e)
    \/ \E e \in Events : RunDispatched(e)
    \/ StopScheduler
    \/ StopDispatcher
    \/ Shutdown
    \/ Tick
    \/ SpuriousWakeup
    \/ ThreadMain

\* Threads that can run do run, time passes, and a shutdown that has begun is
\* carried through.  Nobody need add or stop events, or begin a shutdown.
Fairness ==
    /\ WF_vars(ThreadMain)
    /\ WF_vars(Tick)
    /\ WF_vars(ShutdownClear \/ ShutdownNotify)
    /\ \A th \in Threads : WF_vars(NotifyAdded(th))

Spec == Init /\ [][Next]_vars /\ Fairness
-------------------------------------------------------------------------------
\* Types.
TypeOK ==
    /\ threadState \in ThreadStates
    /\ dispatcherState \in ThreadStates
    /\ clock \in 0..MaxClock
    /\ eventList \subseteq Events
    /\ cycle \in [Events -> 0..MaxClock]
    /\ eventId \in [Events -> 0..EventIdMax]
    /\ eventIds \subseteq EventIds
    /\ lastEventId \in 0..EventIdMax
    /\ pc \in PCs
    /\ deadline \in 0..MaxClock
    /\ held \in Events \cup {NoEvent}
    /\ call \in [Threads -> Calls]
    /\ shutdownStep \in {"none", "stored", "cleared", "done"}
    /\ fate \in [Events -> Fates]
    /\ stopped \subseteq Events

\* Once stopEvent has returned true for an event its function never runs, even
\* if the scheduler thread is between its wake-up and the lock at that moment.
StoppedNeverRuns ==
    \A e \in stopped : fate[e] \notin {"held", "dispatched", "executed"}

\* No event is taken from the queue before its time, although the thread waits
\* for the time of an event that may no longer be the one it takes.
NeverEarly ==
    \A e \in Events :
        fate[e] \in {"held", "dispatched", "executed"} => cycle[e] <= clock

\* The scheduler never oversleeps: if it waits without a deadline while an
\* event is queued, or with a deadline after the first event's time, some
\* caller of addEvent has yet to reach its notify_one.
NeverOversleeps ==
    \/ \E th \in Threads : call[th].step = "notify"
    \/ /\ pc = "waiting" => eventList = {}
       /\ pc = "timed" => \A e \in eventList : deadline <= cycle[e]

\* addEvent called in the dispatcher thread reads the id of a live event: all
\* ways to free an event it has just added need the dispatcher thread itself.
ReturnReadsLive ==
    LET c == call[DispatcherThread]
    IN  c # Idle => ~Freed(c.event)

\* What makes these inductive.  An id belongs to one event as long as the
\* counter has not wrapped; an event that was stopped or fired has lost its
\* id for good; the list holds queued events only.
IdsUnique ==
    \A e, f \in Events : eventId[e] # 0 /\ eventId[e] = eventId[f] => e = f
IdsGiven ==
    /\ \A e \in Events : eventId[e] <= lastEventId
    /\ \A id \in eventIds : id <= lastEventId
NewHaveNoId == \A e \in Events : fate[e] = "new" => eventId[e] = 0
ListedAreQueued == \A e \in eventList : fate[e] = "queued"
FiredLostId ==
    \A e \in Events :
        fate[e] \in {"held", "dispatched", "executed"}
            => eventId[e] # 0 /\ eventId[e] \notin eventIds
StoppedLostId ==
    \A e \in stopped : eventId[e] # 0 /\ eventId[e] \notin eventIds
HeldIsHeld == pc = "handoff" => held \in Events /\ fate[held] = "held"

EventInv ==
    /\ IdsUnique
    /\ IdsGiven
    /\ NewHaveNoId
    /\ ListedAreQueued
    /\ FiredLostId
    /\ StoppedLostId
    /\ HeldIsHeld
    /\ StoppedNeverRuns

\* The thread in wait_until waits for an event that is in the list, or the
\* list was cleared by shutdown; and it times out only when that time is past.
AwaitsQueued ==
    pc \in {"timed", "wokenTimed", "timedOut"} =>
        \/ eventList = {} /\ threadState = "TERMINATED"
        \/ \E e \in eventList : cycle[e] <= deadline
TimedOutIsDue == pc = "timedOut" => deadline <= clock
ShutdownStored == shutdownStep # "none" => threadState = "TERMINATED"

ClockInv ==
    /\ ListedAreQueued
    /\ HeldIsHeld
    /\ AwaitsQueued
    /\ TimedOutIsDue
    /\ ShutdownStored
    /\ NeverEarly

\* While the dispatcher thread is inside addEvent no thread has been told to
\* stop, and its event is queued under its id or on its way to be run.
InsideRunning == threadState # "RUNNING" => call[DispatcherThread] = Idle
DispatcherOutlives == dispatcherState # "RUNNING" => threadState # "RUNNING"
InsideLive ==
    LET c == call[DispatcherThread]
    IN  c # Idle =>
            /\ c.event \in Events
            /\ \/ fate[c.event] = "queued" /\ eventId[c.event] \in eventIds
               \/ fate[c.event] \in {"held", "dispatched"}

LiveInv ==
    /\ InsideRunning
    /\ DispatcherOutlives
    /\ InsideLive

\* Unless it is stopped or the server shuts down, an event that was accepted is
\* handed to the dispatcher.
QueuedEventsFire ==
    \A e \in Events :
        fate[e] = "queued" ~> \/ fate[e] \in {"dispatched", "executed"}
                              \/ e \in stopped
                              \/ threadState # "RUNNING"

\* What the comment in threadMain says: after a timeout "there has to be an
\* event we have to execute", so the top of the queue can be taken.
TimeoutHasEvent == pc # "undefined"
===============================================================================
