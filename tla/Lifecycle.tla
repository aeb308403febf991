----------------------------- MODULE Lifecycle -----------------------------
(***************************************************************************)
(* How a Scheduler starts its threads and how Stop and the destructor wait *)
(* for them (scheduler/scheduler.cpp, scheduler/processer.cpp).  Processer *)
(* 0 runs on the thread that calls Start, Processer i > 0 on a thread of   *)
(* its own, and the dispatcher on another.  A thread exists before Start   *)
(* has stored it.  The program calls Stop when Start has reached Process;  *)
(* nothing in the code orders the two.                                     *)
(***************************************************************************)
EXTENDS Integers, FiniteSets

CONSTANTS
    N,         \* minThreadNumber_ of Start, at least 2: there is a dispatcher
    Starter,   \* threads that call Start
    Stopper    \* threads that call Stop; one of them may run the destructor

Processers == 0..(N - 1)

VARIABLES
    started,     \* the lock started_
    starter,     \* where each caller of Start is
    procs,       \* processers_.size()
    active,      \* active_ of each Processer
    thread,      \* where the thread of each Processer is
    dispatcher,  \* the dispatcher thread
    joinable,    \* dispatchThread_.joinable()
    stop,        \* stop_
    stopMtx,     \* the holder of stopMtx_, or "free"
    stopper,     \* where each caller of Stop is
    size,        \* n of Stop: processers_.size() when it began to wait
    turn         \* i of Stop: the Processer it waits for

startVars == <<started, starter, procs>>
stopVars == <<stop, stopMtx, stopper, size, turn>>
vars == <<startVars, active, thread, dispatcher, joinable, stopVars>>

-----------------------------------------------------------------------------
TypeOK ==
    /\ started \in BOOLEAN /\ stop \in BOOLEAN /\ joinable \in BOOLEAN
    /\ starter \in [Starter -> {"idle", "threads", "push", "swap", "main",
                                "returned", "threw"}]
    /\ procs \in 1..N /\ size \in 0..N /\ turn \in Processers
    /\ active \in [Processers -> BOOLEAN]
    /\ thread \in [Processers -> {"none", "process", "leaving", "ended"}]
    /\ dispatcher \in {"none", "runs", "ended"}
    /\ stopMtx \in Stopper \union {"free"}
    /\ stopper \in [Stopper -> {"idle", "called", "dispatcher", "processers",
                                "returned"}]

Init ==
    /\ started = FALSE /\ starter = [a \in Starter |-> "idle"]
    /\ procs = 1
    /\ active = [i \in Processers |-> TRUE] /\ thread = [i \in Processers |-> "none"]
    /\ dispatcher = "none" /\ joinable = FALSE
    /\ stop = FALSE /\ stopMtx = "free"
    /\ stopper = [s \in Stopper |-> "idle"] /\ size = 0 /\ turn = 0

At(a, from, to) == starter[a] = from /\ starter' = [starter EXCEPT ![a] = to]

\* try_lock of started_; a repeated call throws.
Start(a) ==
    /\ At(a, "idle", IF started THEN "threw" ELSE "threads")
    /\ started' = TRUE
    /\ UNCHANGED <<procs, active, thread, dispatcher, joinable, stopVars>>

\* The thread of the next Processer begins; only then it is in processers_.
NewProcessThread(a) ==
    /\ procs < N
    /\ At(a, "threads", "push")
    /\ thread' = [thread EXCEPT ![procs] = "process"]
    /\ UNCHANGED <<started, procs, active, dispatcher, joinable, stopVars>>

PushProcesser(a) ==
    /\ At(a, "push", "threads")
    /\ procs' = procs + 1
    /\ UNCHANGED <<started, active, thread, dispatcher, joinable, stopVars>>

StartDispatcher(a) ==
    /\ procs = N
    /\ At(a, "threads", "swap")
    /\ dispatcher' = "runs"
    /\ UNCHANGED <<started, procs, active, thread, joinable, stopVars>>

SwapDispatcher(a) ==
    /\ At(a, "swap", "main")
    /\ joinable' = TRUE
    /\ thread' = [thread EXCEPT ![0] = "process"]
    /\ UNCHANGED <<started, procs, active, dispatcher, stopVars>>

\* The loop of Process sees stop_ between two coroutines and releases the tasks.
Leave(i) ==
    /\ thread[i] = "process" /\ stop
    /\ active' = [active EXCEPT ![i] = FALSE]
    /\ thread' = [thread EXCEPT ![i] = "leaving"]
    /\ UNCHANGED <<startVars, dispatcher, joinable, stopVars>>

\* What follows the store to active_: the message with id_, and the return.
End(i) ==
    /\ thread[i] = "leaving"
    /\ thread' = [thread EXCEPT ![i] = "ended"]
    /\ starter' = [a \in Starter |-> IF i = 0 /\ starter[a] = "main" THEN "returned"
                                                                    ELSE starter[a]]
    /\ UNCHANGED <<started, procs, active, dispatcher, joinable, stopVars>>

DispatcherThread ==
    /\ dispatcher = "runs" /\ stop
    /\ dispatcher' = "ended"
    /\ UNCHANGED <<startVars, active, thread, joinable, stopVars>>

-----------------------------------------------------------------------------
\* The callers are threads of the program, the destructor's among them.
Call(s) ==
    /\ stopper[s] = "idle"
    /\ \E a \in Starter : starter[a] \in {"main", "returned"}
    /\ stopper' = [stopper EXCEPT ![s] = "called"]
    /\ UNCHANGED <<startVars, active, thread, dispatcher, joinable, stop, stopMtx, size, turn>>

\* Without the mutex the second caller does not wait for the first.
LockIsNone(s) ==
    /\ stopper[s] = "called"
    /\ IF stop THEN /\ stopper' = [stopper EXCEPT ![s] = "returned"]
                    /\ UNCHANGED <<stop, stopMtx>>
               ELSE /\ stopper' = [stopper EXCEPT ![s] = "dispatcher"]
                    /\ stop' = TRUE /\ stopMtx' = s
    /\ UNCHANGED <<startVars, active, thread, dispatcher, joinable, size, turn>>

\* stopMtx_ is held from here to the return.
Lock(s) ==
    /\ stopper[s] = "called" /\ stopMtx = "free"
    /\ IF stop THEN /\ stopper' = [stopper EXCEPT ![s] = "returned"]
                    /\ UNCHANGED <<stop, stopMtx>>
               ELSE /\ stopper' = [stopper EXCEPT ![s] = "dispatcher"]
                    /\ stop' = TRUE /\ stopMtx' = s
    /\ UNCHANGED <<startVars, active, thread, dispatcher, joinable, size, turn>>

\* Join the dispatcher if there is one, then look how many Processers there are.
JoinDispatcher(s) ==
    /\ stopper[s] = "dispatcher"
    /\ joinable => dispatcher = "ended"
    /\ joinable' = FALSE
    /\ size' = procs
    /\ stopper' = [stopper EXCEPT ![s] = "processers"]
    /\ UNCHANGED <<startVars, active, thread, dispatcher, stop, stopMtx, turn>>

\* With a loop that does not advance.
StopProcesserAgain(s) ==
    /\ stopper[s] = "processers"
    /\ IF turn > 0 THEN thread[turn] = "ended" ELSE ~active[turn]
    /\ \/ turn + 1 < size /\ UNCHANGED <<turn, stopper, stopMtx>>
       \/ /\ turn + 1 = size /\ UNCHANGED turn
          /\ stopper' = [stopper EXCEPT ![s] = "returned"] /\ stopMtx' = "free"
    /\ UNCHANGED <<startVars, active, thread, dispatcher, joinable, stop, size>>

\* Processer::Stop of the next one: join its thread, or wait for active_.
StopProcesser(s) ==
    /\ stopper[s] = "processers"
    /\ IF turn > 0 THEN thread[turn] = "ended" ELSE ~active[turn]
    /\ \/ /\ turn + 1 < size /\ turn' = turn + 1
          /\ UNCHANGED <<stopper, stopMtx>>
       \/ /\ turn + 1 = size /\ UNCHANGED turn
          /\ stopper' = [stopper EXCEPT ![s] = "returned"] /\ stopMtx' = "free"
    /\ UNCHANGED <<startVars, active, thread, dispatcher, joinable, stop, size>>

Starting(a) == NewProcessThread(a) \/ PushProcesser(a) \/ StartDispatcher(a) \/ SwapDispatcher(a)
Stopping(s) == Lock(s) \/ JoinDispatcher(s) \/ StopProcesser(s)
Threads == DispatcherThread \/ \E i \in Processers : Leave(i) \/ End(i)

Finished == (\A s \in Stopper : stopper[s] = "returned") /\ UNCHANGED vars

Next ==
    \/ \E a \in Starter : Start(a) \/ Starting(a)
    \/ \E s \in Stopper : Call(s) \/ Stopping(s)
    \/ Threads
    \/ Finished

Spec == Init /\ [][Next]_vars

-----------------------------------------------------------------------------
(* When a call of Stop returns, whoever made it, no Processer runs a         *)
(* coroutine any more, the threads that Start made have ended and the        *)
(* dispatcher is joined: what the destructor deletes next is not in use.     *)
StopQuiet ==
    /\ TypeOK
    /\ (\E s \in Stopper : stopper[s] = "returned") =>
          /\ \A i \in Processers \ {0} : thread[i] \in {"none", "ended"}
          /\ thread[0] # "process"
          /\ ~joinable /\ dispatcher # "runs"

(* Every call of Stop comes back: it is meant for leaving main safely.       *)
StopReturns ==
    \A s \in Stopper : stopper[s] = "called" ~> stopper[s] = "returned"
=============================================================================
