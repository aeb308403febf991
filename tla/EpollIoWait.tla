----------------------------- MODULE EpollIoWait -----------------------------
(***************************************************************************)
(* netio/inner_net/epoll_io_wait.cpp: Poll suspends the calling task until *)
(* an event of its NetFD or a timeout, WaitLoop and the timer callback     *)
(* wake it.  Each Processer has its own fd_map and epoll instance, used by *)
(* its own thread only; a task that WaitLoop has woken can be stolen by    *)
(* another Processer while WaitLoop goes on.                               *)
(*                                                                         *)
(* A NetFD is used by one task, so both are one element of NetFD, and      *)
(* owner_task is set exactly while pc is not "run".  Every report is       *)
(* followed by an EPOLL_CTL_MOD or DEL, which arm the fd anew, so EPOLLET  *)
(* is left out.                                                            *)
(***************************************************************************)
EXTENDS Integers, FiniteSetsExt

CONSTANTS
    Proc, NetFD, Fd,
    FdOf,      \* osfd.fd of each NetFD
    SharedFd,  \* the fds of NetFDs with a share_fd
    Uses,      \* the events that each NetFD waits for
    None,
    Timeouts,  \* the timeout arguments: FALSE for none
    ListSize,  \* epoll_event_size
    RlimMax    \* rlim_max

In == "POLLIN"
Out == "POLLOUT"
Exception == "POLL_EXCEPTION"
Event == {In, Out, Exception}

\* comeEvents and modEvents of the fd that WaitLoop is at, the NetFDs not yet
\* visited, and the one whose timer is to be stopped.
Current ==
    [fd : Fd, come : SUBSET Event, mod : SUBSET {In, Out},
     left : SUBSET NetFD, stop : NetFD \union {None}]

ASSUME EpollAssumption ==
    /\ FdOf \in [NetFD -> Fd] /\ SharedFd \subseteq Fd
    /\ \A m, n \in NetFD : FdOf[m] = FdOf[n] => m = n \/ FdOf[n] \in SharedFd
    /\ IsFiniteSet(Fd) /\ Uses \in [NetFD -> SUBSET {In, Out}]
    /\ None \notin Proc \union NetFD \union Current
    /\ Timeouts \subseteq BOOLEAN
    /\ ListSize \in Nat \ {0} /\ RlimMax \in Nat

VARIABLES
    at,      \* the Processer of each task
    pc,      \* "run", "wait" inside Poll, "ready" when woken
    want,    \* osfd.events
    rev,     \* osfd.revents
    timer,   \* net_fd.timer: the Processer that holds it, or None
    armed,   \* <<n, p>>: a timer of n is in p's TimerManager
    map,     \* fd_map of each Processer
    reg,     \* the events registered with epoll_fd, {}: not registered
    cnt,     \* evtlist_cnt
    size,    \* event_list.size()
    active,  \* the events that hold on each fd
    todo,    \* WaitLoop: the rest of event_list
    cur,     \* WaitLoop: the fd it is at
    by,      \* what woke each task from its last Poll
    res      \* what that Poll returned

epollvars == <<map, reg, cnt, size, todo, cur>>
vars == <<at, pc, want, rev, timer, armed, epollvars, active, by, res>>

Init ==
    /\ at \in [NetFD -> Proc]
    /\ pc = [n \in NetFD |-> "run"]
    /\ want = [n \in NetFD |-> {}] /\ rev = want
    /\ timer = [n \in NetFD |-> None] /\ armed = {}
    /\ map = [p \in Proc |-> {}]
    /\ reg = [p \in Proc |-> [f \in Fd |-> {}]]
    /\ cnt = [p \in Proc |-> 0] /\ size = [p \in Proc |-> ListSize]
    /\ active = [f \in Fd |-> {}]
    /\ todo = map /\ cur = [p \in Proc |-> None]
    /\ by = [n \in NetFD |-> "none"] /\ res = by

Sharing(p, f) == {n \in map[p] : FdOf[n] = f}
Wanted(N) == UNION {want[n] : n \in N}

\* The Processer executes tasks and timers, not WaitLoop.
Runs(p) == todo[p] = {} /\ cur[p] = None

-----------------------------------------------------------------------------
\* epoll_ctl: ADD fails for an fd that is registered.
AddFails(n) ==
    LET p == at[n] f == FdOf[n]
    IN  reg[p][f] # {} /\ (f \in SharedFd => Sharing(p, f) = {})

PollFails(n, e) ==
    /\ pc[n] = "run" /\ Runs(at[n]) /\ AddFails(n)
    /\ want' = [want EXCEPT ![n] = {e}]
    /\ by' = [by EXCEPT ![n] = "none"] /\ res' = [res EXCEPT ![n] = "error"]
    /\ UNCHANGED <<at, pc, rev, timer, armed, epollvars, active>>

PollsetAddOnly(n, e) ==  \* fault: the other tasks' events are lost
    {e}

\* The events that PollsetAdd registers.
PollsetAdd(n, e) ==
    LET others == IF FdOf[n] \in SharedFd THEN Sharing(at[n], FdOf[n]) ELSE {}
    IN  {e} \union Wanted(others)

\* PollsetAddHelp counts a new registration and may enlarge event_list.
Grown(p, c) == IF c > size[p] /\ c * 2 <= RlimMax THEN c * 2 ELSE size[p]

Poll(n, e, timed) ==
    /\ pc[n] = "run" /\ Runs(at[n]) /\ ~AddFails(n)
    /\ LET p == at[n]
           c == IF reg[p][FdOf[n]] = {} THEN cnt[p] + 1 ELSE cnt[p]
       IN  /\ reg' = [reg EXCEPT ![p][FdOf[n]] = PollsetAdd(n, e)]
           /\ cnt' = [cnt EXCEPT ![p] = c]
           /\ size' = [size EXCEPT ![p] = Grown(p, c)]
           /\ map' = [map EXCEPT ![p] = @ \union {n}]
           /\ timer' = IF timed THEN [timer EXCEPT ![n] = p] ELSE timer
           /\ armed' = IF timed THEN armed \union {<<n, p>>} ELSE armed
    /\ want' = [want EXCEPT ![n] = {e}]
    /\ pc' = [pc EXCEPT ![n] = "wait"]
    /\ by' = [by EXCEPT ![n] = "none"]
    /\ UNCHANGED <<at, rev, active, todo, cur, res>>

\* The part of Poll behind CoSwitch.
PollReturns(n) ==
    /\ pc[n] = "ready" /\ Runs(at[n])
    /\ pc' = [pc EXCEPT ![n] = "run"]
    /\ res' = [res EXCEPT ![n] = IF timer[n] # None THEN "timeout"
                                 ELSE IF Exception \in rev[n] THEN "error"
                                 ELSE "ok"]
    /\ timer' = [timer EXCEPT ![n] = None]
    /\ UNCHANGED <<at, want, rev, armed, epollvars, active, by>>

-----------------------------------------------------------------------------
PollsetTimeoutDel(n, p) ==
    LET left == Wanted(Sharing(p, FdOf[n]) \ {n})
    IN  /\ map' = [map EXCEPT ![p] = @ \ {n}]
        /\ reg' = [reg EXCEPT ![p][FdOf[n]] = left]
        /\ cnt' = [cnt EXCEPT ![p] = IF left = {} THEN @ - 1 ELSE @]

\* RemoveNetFD2TaskRunnable
Wake(n, why) ==
    /\ pc' = [pc EXCEPT ![n] = IF @ = "wait" THEN "ready" ELSE @]
    /\ by' = [by EXCEPT ![n] = why]

\* The callback of CreateTimer.
Timeout(n, p) ==
    /\ <<n, p>> \in armed /\ Runs(p)
    /\ armed' = armed \ {<<n, p>>}
    /\ PollsetTimeoutDel(n, p)
    /\ Wake(n, "timer")
    /\ UNCHANGED <<at, want, rev, timer, size, active, todo, cur, res>>

-----------------------------------------------------------------------------
Come(p, f) == active[f] \intersect (reg[p][f] \union {Exception})

\* Nothing is runnable: epoll_wait reports some of the ready fds, at most
\* event_list.size().
EpollWait(p) ==
    LET ready == {f \in Fd : reg[p][f] # {} /\ Come(p, f) # {}}
    IN  /\ Runs(p) /\ ready # {}
        /\ \A n \in NetFD : at[n] = p => pc[n] # "ready"
        /\ \E F \in kSubset(Min({Cardinality(ready), size[p]}), ready) :
               todo' = [todo EXCEPT ![p] = {<<f, Come(p, f)>> : f \in F}]
        /\ UNCHANGED <<at, pc, want, rev, timer, armed, map, reg, cnt, size,
                       active, cur, by, res>>

NextEvent(p) ==
    /\ cur[p] = None
    /\ \E x \in todo[p] :
           /\ todo' = [todo EXCEPT ![p] = @ \ {x}]
           /\ cur' = [cur EXCEPT ![p] =
                  [fd |-> x[1], come |-> x[2], mod |-> {},
                   left |-> Sharing(p, x[1]), stop |-> None]]
    /\ UNCHANGED <<at, pc, want, rev, timer, armed, map, reg, cnt, size,
                   active, by, res>>

Matches(p, n) ==
    cur[p].come \intersect (want[n] \union {Exception}) # {}

\* One NetFD of the fd: modEvents, and if it is concerned it is woken and
\* taken from fd_map.
Visit(p, n) ==
    /\ cur[p] # None /\ cur[p].stop = None /\ n \in cur[p].left
    /\ cur' = [cur EXCEPT ![p].mod = @ \union want[n],
                          ![p].left = @ \ {n},
                          ![p].stop = IF Matches(p, n) THEN n ELSE None]
    /\ IF Matches(p, n)
       THEN /\ rev' = [rev EXCEPT ![n] =
                          cur[p].come \intersect (want[n] \union {Exception})]
            /\ map' = [map EXCEPT ![p] = @ \ {n}]
            /\ Wake(n, "event")
       ELSE UNCHANGED <<rev, map, pc, by>>
    /\ UNCHANGED <<at, want, timer, armed, reg, cnt, size, active, todo, res>>

StopTimerSkipped(p) ==  \* fault: the timer of a woken task stays
    /\ cur[p] # None /\ cur[p].stop # None
    /\ cur' = [cur EXCEPT ![p].stop = None]
    /\ UNCHANGED <<at, pc, want, rev, timer, armed, map, reg, cnt, size,
                   active, todo, by, res>>

\* StopTimer stops whatever timer the NetFD has now.
StopTimer(p) ==
    /\ cur[p] # None /\ cur[p].stop # None
    /\ LET n == cur[p].stop
       IN  /\ armed' = armed \ {<<n, timer[n]>>}
           /\ timer' = [timer EXCEPT ![n] = None]
    /\ cur' = [cur EXCEPT ![p].stop = None]
    /\ UNCHANGED <<at, pc, want, rev, map, reg, cnt, size, active, todo, by,
                   res>>

EventDoneDel(p) ==  \* fault: EPOLL_CTL_DEL in every case
    /\ cur[p] # None /\ cur[p].stop = None /\ cur[p].left = {}
    /\ reg' = [reg EXCEPT ![p][cur[p].fd] = {}]
    /\ cnt' = [cnt EXCEPT ![p] = @ - 1]
    /\ cur' = [cur EXCEPT ![p] = None]
    /\ UNCHANGED <<at, pc, want, rev, timer, armed, map, size, active, todo,
                   by, res>>

\* EPOLL_CTL_DEL or MOD with what has been asked for and has not come.
EventDone(p) ==
    /\ cur[p] # None /\ cur[p].stop = None /\ cur[p].left = {}
    /\ LET mod == cur[p].mod \ cur[p].come
       IN  /\ reg' = [reg EXCEPT ![p][cur[p].fd] = mod]
           /\ cnt' = [cnt EXCEPT ![p] = IF mod = {} THEN @ - 1 ELSE @]
    /\ cur' = [cur EXCEPT ![p] = None]
    /\ UNCHANGED <<at, pc, want, rev, timer, armed, map, size, active, todo,
                   by, res>>

-----------------------------------------------------------------------------
\* Processer::Steal moves a runnable task.
Steal(n, q) ==
    /\ pc[n] # "wait" /\ q # at[n]
    /\ at' = [at EXCEPT ![n] = q]
    /\ UNCHANGED <<pc, want, rev, timer, armed, epollvars, active, by, res>>

\* The kernel: an event occurs; a task's system call uses it up.
Occurs(f, e) ==
    /\ e \notin active[f]
    /\ active' = [active EXCEPT ![f] = @ \union {e}]
    /\ UNCHANGED <<at, pc, want, rev, timer, armed, epollvars, by, res>>

Consume(n, e) ==
    /\ pc[n] = "run" /\ Runs(at[n]) /\ e \in active[FdOf[n]]
    /\ active' = [active EXCEPT ![FdOf[n]] = @ \ {e}]
    /\ UNCHANGED <<at, pc, want, rev, timer, armed, epollvars, by, res>>

\* inner_close of an fd that is not shared, and a new socket with its number;
\* the kernel drops the registrations.
Close(n) ==
    /\ pc[n] = "run" /\ Runs(at[n]) /\ FdOf[n] \notin SharedFd
    /\ reg' = [p \in Proc |-> [reg[p] EXCEPT ![FdOf[n]] = {}]]
    /\ active' = [active EXCEPT ![FdOf[n]] = {}]
    /\ res' = [res EXCEPT ![n] = "none"]
    /\ UNCHANGED <<at, pc, want, rev, timer, armed, map, cnt, size, todo, cur,
                   by>>

WaitLoop(p) ==
    \/ EpollWait(p) \/ NextEvent(p) \/ StopTimer(p) \/ EventDone(p)
    \/ \E n \in NetFD : Visit(p, n)

User(n) ==
    \/ \E e \in Uses[n] : PollFails(n, e)
    \/ \E e \in Uses[n], timed \in Timeouts : Poll(n, e, timed)
    \/ \E e \in Event : Consume(n, e)
    \/ Close(n)

Next ==
    \/ \E p \in Proc : WaitLoop(p) \/ \E n \in NetFD : Timeout(n, p)
    \/ \E n \in NetFD : User(n) \/ PollReturns(n)
    \/ \E n \in NetFD, q \in Proc : Steal(n, q)
    \/ \E f \in Fd, e \in Event : Occurs(f, e)

Spec == Init /\ [][Next]_vars

-----------------------------------------------------------------------------
\* Every variable has its type.
TypeOK ==
    /\ at \in [NetFD -> Proc] /\ pc \in [NetFD -> {"run", "wait", "ready"}]
    /\ want \in [NetFD -> SUBSET {In, Out}]
    /\ rev \in [NetFD -> SUBSET Event]
    /\ timer \in [NetFD -> Proc \union {None}]
    /\ armed \in SUBSET (NetFD \X Proc)
    /\ map \in [Proc -> SUBSET NetFD]
    /\ reg \in [Proc -> [Fd -> SUBSET {In, Out}]]
    /\ cnt \in [Proc -> Nat] /\ size \in [Proc -> Nat \ {0}]
    /\ active \in [Fd -> SUBSET Event]
    /\ todo \in [Proc -> SUBSET (Fd \X SUBSET Event)]
    /\ cur \in [Proc -> Current \union {None}]
    /\ by \in [NetFD -> {"none", "event", "timer"}]
    /\ res \in [NetFD -> {"none", "ok", "error", "timeout"}]

\* What the comments in WaitLoop and PollsetTimeoutDel promise with "are there
\* events still to be listened for on this fd" (epoll_io_wait.cpp:104, 250):
\* outside WaitLoop an fd is registered for exactly what the tasks in fd_map
\* wait for, and evtlist_cnt counts the registrations.  Less, and a task sleeps
\* through its event; more, and the next EPOLL_CTL_ADD fails.
InterestIsExact ==
    \A p \in Proc : Runs(p) =>
        /\ \A f \in Fd : reg[p][f] = Wanted(Sharing(p, f))
        /\ cnt[p] = Cardinality({f \in Fd : reg[p][f] # {}})

\* The same with exceptional events, as far as the waiting tasks need it.
InterestCovers ==
    \A p \in Proc : \A n \in map[p] :
        Runs(p) => want[n] \subseteq reg[p][FdOf[n]]

\* A task inside Poll is in the fd_map of its own Processer, where an event
\* finds it, and no other NetFD is in any fd_map; a timer in a TimerManager
\* belongs to a Poll that is still waiting there.
WaitersInMap ==
    /\ \A n \in NetFD, p \in Proc :
           n \in map[p] <=> pc[n] = "wait" /\ at[n] = p
    /\ \A x \in armed : x[1] \in map[x[2]] \/ ~Runs(x[2])

\* WaitLoop's assert on fd_map.find (epoll_io_wait.cpp:75): a task waits on every
\* fd that epoll_wait has reported, also when its turn comes.
ReportsFindTasks ==
    \A p \in Proc : \A x \in todo[p] : Sharing(p, x[1]) # {}

\* Poll's comment at epoll_io_wait.cpp:319 and net_fd.h:107: ETIME tells a
\* timeout from an event.
TimeoutIsReal == \A n \in NetFD : res[n] = "timeout" /\ pc[n] = "run"
                                      => by[n] = "timer"

\* A task whose event has come and is not used up by others returns from Poll.
EventEndsPoll ==
    \A n \in NetFD :
        (pc[n] = "wait" /\ want[n] \intersect active[FdOf[n]] # {})
            ~> (pc[n] = "run" \/ want[n] \intersect active[FdOf[n]] = {})
=============================================================================
