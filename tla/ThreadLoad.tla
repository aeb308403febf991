---------------------------- MODULE ThreadLoad ----------------------------
(***************************************************************************)
(* How the dispatcher measures the load of the scheduler's threads and     *)
(* decides to balance (scheduler/ThreadPhyInfo.cpp,                        *)
(* Scheduler::DispatcherThread).  Every cycle it notes the CPU time of the *)
(* threads that have registered with AddThreadTid, sleeps, and compares.   *)
(* Start registers its own thread; that of the threads NewProcessThread    *)
(* makes is compiled in only where the macro LIBGO_SYS_Unix is defined,    *)
(* and no file of the repository defines it (config.h defines SYS_Unix).   *)
(***************************************************************************)
EXTENDS Integers, Sequences, Functions, FiniteSetsExt

CONSTANTS
    N,       \* the threads: 1 is the one that calls Start
    Cycle,   \* ticks of CPU time a thread can use between the two looks
    MaxBase, \* bound of the time a failed look makes StopTrack count besides
    LIBGO_SYS_Unix  \* whether the macro is defined

Thread == 1..N
taskLoadage_ == 30

VARIABLES
    tids_,    \* the registered threads
    noted,    \* firstTidTimes_.size()
    used,     \* the ticks of each thread since the dispatcher's first look
    base,     \* what StopTrack counts besides, as firstTidTimes_ is out of date
    pc,       \* the dispatcher: "start", "sleep", "stop", "decided", "failed"
    balance   \* whether the cycle went on to AvgTotalTasks

vars == <<tids_, noted, used, base, pc, balance>>

Zero == [t \in Thread |-> 0]

\* Start has registered its thread, made the others and begun the dispatcher.
Init ==
    /\ tids_ = <<1>> /\ noted = 0
    /\ used = Zero /\ base = Zero
    /\ pc = "start" /\ balance = FALSE

\* A thread NewProcessThread has made registers when it comes to run.
AddThreadTid ==
    /\ LIBGO_SYS_Unix
    /\ \E t \in Thread \ Range(tids_) : tids_' = Append(tids_, t)
    /\ UNCHANGED <<noted, used, base, pc, balance>>

\* Then firstTidTimes_ is cleared.
Grows == noted < Len(tids_)

\* The first look; nobody asks whether it succeeded.
Look ==
    /\ pc = "start" /\ pc' = "sleep"
    /\ noted' = IF Grows THEN Len(tids_) ELSE noted
    /\ used' = Zero
    /\ UNCHANGED <<tids_, balance>>

StartTrack == Look /\ base' = Zero

\* The file of thread tids_[k] cannot be read: its time becomes -1, the
\* threads behind it keep that of an earlier cycle, or 0.
StartTrackFails ==
    /\ Look
    /\ base' \in [Thread -> 0..MaxBase]
    /\ \E k \in DOMAIN tids_ :
         \A i \in DOMAIN tids_ :
            LET t == tids_[i]
            IN  /\ i < k => base'[t] = 0
                /\ i > k /\ ~Grows =>
                     base'[t] = Min({MaxBase, base[t] + used[t]})

\* The threads run while the dispatcher sleeps.
Run ==
    /\ pc = "sleep" /\ pc' = "stop"
    /\ used' \in [Thread -> 0..Cycle]
    /\ UNCHANGED <<tids_, noted, base, balance>>

Distance(x, y) == IF x > y THEN x - y ELSE y - x

\* By its time some thread of S is over 30 percent of a CPU away from the
\* average of S; llabs drops the fraction.
OffAverage(S, time) ==
    LET n     == Cardinality(S)
        total == MapThenSumSet(LAMBDA t : time[t], S)
    IN  \E t \in S :
          (100 * Distance(n * time[t], total)) \div (n * Cycle) > taskLoadage_

\* For a thread that registered after StartTrack it reads behind the end of
\* firstTidTimes_: any verdict.
StopTrack ==
    /\ pc = "stop" /\ pc' = "decided"
    /\ LET measured == [t \in Thread |-> used[t] + base[t]]
       IN  Len(tids_) <= noted => balance' = OffAverage(Range(tids_), measured)
    /\ balance' \in BOOLEAN
    /\ UNCHANGED <<tids_, noted, used, base>>

StopTrackFails ==
    /\ pc = "stop" /\ pc' = "failed"
    /\ balance' = FALSE
    /\ UNCHANGED <<tids_, noted, used, base>>

\* The next cycle of DispatcherThread, after AvgTotalTasks if it was due.
DispatcherThread ==
    /\ pc \in {"decided", "failed"} /\ pc' = "start"
    /\ balance' = FALSE
    /\ UNCHANGED <<tids_, noted, used, base>>

Next ==
    \/ AddThreadTid
    \/ StartTrack \/ StartTrackFails
    \/ Run
    \/ StopTrack \/ StopTrackFails
    \/ DispatcherThread

Spec == Init /\ [][Next]_vars

-----------------------------------------------------------------------------
\* The comment at scheduler.h:117-118: the dispatcher moves tasks from highly
\* loaded Processers to others.  When a cycle comes to a verdict and the load of
\* some thread is far from the average of the scheduler's threads, it balances.
\* As built it does not: Start's thread alone is tracked (scheduler.cpp:258), and
\* its load is its own average.
BalancesByLoad ==
    pc = "decided" /\ base = Zero /\ OffAverage(Thread, used) => balance
=============================================================================
