---------------------------- MODULE MCProcesser ----------------------------
(* Instances of Processer for TLC.                                         *)
EXTENDS Processer

CONSTANTS t1, t2, t3

\* The coroutines created before Scheduler::Start.
TwoTasks   == <<t1, t2>>
ThreeTasks == <<t1, t2, t3>>
=============================================================================
