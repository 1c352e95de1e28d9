-------------------------------- MODULE JobQueue --------------------------------
(***************************************************************************)
(* What the dispatcher promises to the rest of the server: one server that *)
(* takes jobs from the front of a queue and does them one at a time.  No   *)
(* threads, no lock, no condition variable and no lost or late signals:    *)
(* Dispatcher implements it (Dispatcher!ImplementsJobQueue).               *)
(***************************************************************************)
EXTENDS Naturals, Sequences

CONSTANTS
    Jobs,  \* the jobs anybody may submit
    Last,  \* the job after which the server does no more
    NoJob

VARIABLES
    open,   \* jobs are accepted
    up,     \* the server has not done the last job yet
    queue,  \* accepted jobs, the next one first
    active  \* the job being done, or NoJob

jobVars == <<open, up, queue, active>>

Init == open = TRUE /\ up = TRUE /\ queue = <<>> /\ active = NoJob

\* A job is accepted at either end, as long as the queue is open ...
Submit(j) ==
    /\ open = TRUE
    /\ queue' \in {Append(queue, j), <<j>> \o queue}
    /\ UNCHANGED <<open, up, active>>

\* ... and the last one always, behind all others.
SubmitLast ==
    /\ queue' = Append(queue, Last)
    /\ UNCHANGED <<open, up, active>>

\* Only a job in progress closes the queue.
Close ==
    /\ active # NoJob
    /\ open' = FALSE
    /\ UNCHANGED <<up, queue, active>>

\* The first job is started, or thrown away.
Start ==
    /\ up = TRUE
    /\ active = NoJob
    /\ queue # <<>>
    /\ queue' = Tail(queue)
    /\ active' \in {Head(queue), NoJob}
    /\ UNCHANGED <<open, up>>

Finish ==
    /\ active # NoJob
    /\ active' = NoJob
    /\ up' = (up /\ active # Last)
    /\ open' = (open /\ active # Last)
    /\ UNCHANGED queue

Next ==
    \/ \E j \in Jobs : Submit(j)
    \/ SubmitLast
    \/ Close
    \/ Start
    \/ Finish

\* The server never rests while a job waits or is in progress.
Spec == Init /\ [][Next]_jobVars /\ WF_jobVars(Start) /\ WF_jobVars(Finish)
===============================================================================
