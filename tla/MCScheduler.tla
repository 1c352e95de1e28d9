---------------------------- MODULE MCScheduler ----------------------------
(* Small instances of Scheduler: the dispatcher thread and the network      *)
(* thread add events.                                                       *)
EXTENDS Scheduler

CONSTANTS disp, io, e1, e2

MCThreads == {disp, io}
==============================================================================
