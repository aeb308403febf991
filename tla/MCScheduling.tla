---------------------------- MODULE MCScheduling ----------------------------
(* The scheduling loop in four uses, each about as large as it can be on   *)
(* its own.  While Start balances once: coroutines that are created,       *)
(* synchronise and end ("sync", new ones are given to Processer 0), that   *)
(* are created, yield, wait for their own fds and timers and end ("own"),  *)
(* and that neither are created nor end ("wait").  And coroutines that     *)
(* suspend while the dispatcher, which has counted the tasks, steals from  *)
(* the running Processers, wake each other, and end after that             *)
(* ("balancing").                                                          *)
EXTENDS MCProcesser

CONSTANT Uses  \* of the values of use

VARIABLE use  \* which of them, for the whole behaviour

Runs ==
    \/ \E p \in Proc :
         \/ Process(p)
         \/ SwapOutSuspended(p) \/ WakeupPush(p) \/ WakeupInterrupt(p)
    \/ AvgTotalTasks

Suspends == \E p \in Proc : SuspendBySelfIO(p)
Ends == \E p \in Proc : Done(p)
Creates(to) == \E p \in to, t \in Task : CreateTask(t, p)
Yields == \E p \in Proc : CoYield(p)

Synchronises ==
    \E p \in Proc : RegisterSync(p) \/ \E t \in Task : WakeupBegin(p, t)

WaitsAlone ==
    \E p \in Proc :
      RegisterOwn(p) \/ WakeupSelf(p) \/ \E t \in Task : WakeupOwn(p, t)

MCInit == Init /\ use \in Uses

MCNext ==
    /\ \/ use = "sync"
             /\ (Runs \/ Suspends \/ Synchronises \/ Creates({0}) \/ Ends)
       \/ use = "own"
             /\ (Runs \/ Suspends \/ WaitsAlone \/ Creates(Proc) \/ Yields \/ Ends)
       \/ use = "wait"
             /\ (Runs \/ Suspends \/ Synchronises \/ WaitsAlone \/ Yields)
       \/ /\ use = "balancing"
          /\ \/ Runs \/ Synchronises \/ DispatcherThread
             \/ dpc = "steal" /\ Suspends
             \/ balances > 1 /\ dpc = "sleep" /\ Ends
       \/ use = "all" /\ Next
    /\ UNCHANGED use

MCSpec == MCInit /\ [][MCNext]_<<vars, use>>

MCFairSpec == MCSpec /\ Fairness
=============================================================================
