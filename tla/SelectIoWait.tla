---------------------------- MODULE SelectIoWait ----------------------------
(***************************************************************************)
(* netio/inner_net/select_io_wait.cpp, what EpollIoWait does for builds    *)
(* with USE_SELECT: three fd_sets instead of an epoll instance, and        *)
(* osfd.events and owner_task that live longer than one Poll.  One         *)
(* Processer; a NetFD stands for its task too.                             *)
(***************************************************************************)
EXTENDS Integers, FiniteSets

CONSTANTS
    NetFD, Fd,
    FdOf,       \* osfd.fd of each NetFD
    Uses,       \* the events that each NetFD waits for
    Timeouts,   \* the timeout arguments: FALSE for none
    FdSetSize   \* FD_SETSIZE

In == "POLLIN"
Out == "POLLOUT"
Event == {In, Out}

VARIABLES
    pc,      \* "run", "wait" inside Poll, "ready" when woken
    want,    \* osfd.events
    rev,     \* osfd.revents
    owner,   \* the NetFDs whose owner_task is set
    timer,   \* the NetFDs that have a timer
    map,     \* fd_map
    set,     \* fd_read_set and fd_write_set
    maxfd,
    active,  \* the events that hold on each fd
    got,     \* WaitLoop: the sets that select has returned
    left,    \* WaitLoop: the rest of the iteration
    res,     \* what the last Poll returned
    asked,   \* the event that the last Poll asked for
    exited   \* exit(0)

vars == <<pc, want, rev, owner, timer, map, set, maxfd, active, got, left,
          res, asked, exited>>

Init ==
    /\ pc = [n \in NetFD |-> "run"]
    /\ want = [n \in NetFD |-> {}] /\ rev = want
    /\ owner = {} /\ timer = {} /\ map = {} /\ left = {}
    /\ set = [e \in Event |-> {}] /\ got = set
    /\ maxfd = 0
    /\ active = [f \in Fd |-> {}]
    /\ res = [n \in NetFD |-> "none"] /\ asked = [n \in NetFD |-> In]
    /\ exited = FALSE

Runs == left = {}  \* the Processer is not in WaitLoop
Valid(n) == FdOf[n] < FdSetSize

-----------------------------------------------------------------------------
\* CheckRepeatNetFD
CheckRepeatNetFD(n) ==
    /\ pc[n] = "run" /\ Runs /\ n \in owner
    /\ exited' = TRUE
    /\ UNCHANGED <<pc, want, rev, owner, timer, map, set, maxfd, active, got,
                   left, res, asked>>

PollRefused(n) ==
    /\ pc[n] = "run" /\ Runs /\ n \notin owner /\ ~Valid(n)
    /\ res' = [res EXCEPT ![n] = "error"]
    /\ UNCHANGED <<pc, want, rev, owner, timer, map, set, maxfd, active, got,
                   left, asked, exited>>

Poll(n, e, timed) ==
    /\ pc[n] = "run" /\ Runs /\ n \notin owner /\ Valid(n)
    /\ want' = [want EXCEPT ![n] = @ \union {e}]
    /\ set' = [x \in Event |-> IF x \in want'[n] THEN set[x] \union {FdOf[n]}
                               ELSE set[x]]
    /\ maxfd' = IF maxfd < FdOf[n] THEN FdOf[n] ELSE maxfd
    /\ owner' = owner \union {n} /\ map' = map \union {n}
    /\ timer' = IF timed THEN timer \union {n} ELSE timer
    /\ asked' = [asked EXCEPT ![n] = e]
    /\ pc' = [pc EXCEPT ![n] = "wait"]
    /\ UNCHANGED <<rev, active, got, left, res, exited>>

\* Behind CoSwitch: a timeout returns before owner_task is cleared.
PollReturns(n) ==
    /\ pc[n] = "ready" /\ Runs
    /\ pc' = [pc EXCEPT ![n] = "run"]
    /\ rev' = [rev EXCEPT ![n] = {}]
    /\ res' = [res EXCEPT ![n] = IF n \in timer THEN "timeout" ELSE "ok"]
    /\ owner' = IF n \in timer THEN owner ELSE owner \ {n}
    /\ timer' = timer \ {n}
    /\ UNCHANGED <<want, map, set, maxfd, active, got, left, asked, exited>>

-----------------------------------------------------------------------------
PollsetDelKeepsEvents(n, E) ==  \* fault: osfd.events is not reset
    /\ set' = [e \in Event |-> IF e \in E THEN set[e] \ {FdOf[n]} ELSE set[e]]
    /\ UNCHANGED want

PollsetDelAll(n, E) ==  \* fault: the fd leaves both sets
    /\ set' = [e \in Event |-> set[e] \ {FdOf[n]}]
    /\ want' = [want EXCEPT ![n] = @ \ E]

PollsetDel(n, E) ==
    /\ set' = [e \in Event |-> IF e \in E THEN set[e] \ {FdOf[n]} ELSE set[e]]
    /\ want' = [want EXCEPT ![n] = @ \ E]

\* The callback of CreateTimer: PollsetTimeoutDel keeps an event that another
\* NetFD of the fd waits for.
Timeout(n) ==
    LET others == {m \in map \ {n} : FdOf[m] = FdOf[n]}
    IN  /\ n \in timer /\ pc[n] = "wait" /\ Runs
        /\ map' = map \ {n}
        /\ IF want[n] \intersect UNION {want[m] : m \in others} = {}
           THEN PollsetDel(n, want[n])
           ELSE UNCHANGED <<set, want>>
        /\ pc' = [pc EXCEPT ![n] = "ready"]
        /\ UNCHANGED <<rev, owner, timer, maxfd, active, got, left, res, asked,
                       exited>>

\* Nothing is runnable: select.
Select ==
    LET ready == [e \in Event |->
                     {f \in set[e] : f <= maxfd /\ e \in active[f]}]
    IN  /\ Runs /\ \A n \in NetFD : pc[n] # "ready"
        /\ \E e \in Event : ready[e] # {}
        /\ got' = ready /\ left' = map
        /\ UNCHANGED <<pc, want, rev, owner, timer, map, set, maxfd, active,
                       res, asked, exited>>

Come(n) == rev[n] \union {e \in want[n] : FdOf[n] \in got[e]}

VisitPasses(n) ==
    /\ n \in left /\ Come(n) \intersect want[n] = {}
    /\ left' = left \ {n}
    /\ rev' = [rev EXCEPT ![n] = Come(n)]
    /\ UNCHANGED <<pc, want, owner, timer, map, set, maxfd, active, got, res,
                   asked, exited>>

VisitWakes(n) ==
    /\ n \in left /\ Come(n) \intersect want[n] # {}
    /\ left' = left \ {n} /\ map' = map \ {n}
    /\ rev' = [rev EXCEPT ![n] = Come(n)]
    /\ PollsetDel(n, Come(n))
    /\ timer' = timer \ {n}
    /\ pc' = [pc EXCEPT ![n] = "ready"]
    /\ UNCHANGED <<owner, maxfd, active, got, res, asked, exited>>

\* The kernel: an event occurs; a task's system call uses it up.
Occurs(f, e) ==
    /\ e \notin active[f]
    /\ active' = [active EXCEPT ![f] = @ \union {e}]
    /\ UNCHANGED <<pc, want, rev, owner, timer, map, set, maxfd, got, left,
                   res, asked, exited>>

Consume(n, e) ==
    /\ pc[n] = "run" /\ Runs /\ e \in active[FdOf[n]]
    /\ active' = [active EXCEPT ![FdOf[n]] = @ \ {e}]
    /\ UNCHANGED <<pc, want, rev, owner, timer, map, set, maxfd, got, left,
                   res, asked, exited>>

WaitLoop == Select \/ \E n \in NetFD : VisitPasses(n) \/ VisitWakes(n)

User(n) ==
    \/ CheckRepeatNetFD(n) \/ PollRefused(n)
    \/ \E e \in Uses[n], timed \in Timeouts : Poll(n, e, timed)
    \/ \E e \in Event : Consume(n, e)

Next ==
    /\ ~exited
    /\ \/ WaitLoop
       \/ \E n \in NetFD : User(n) \/ PollReturns(n) \/ Timeout(n)
       \/ \E f \in Fd, e \in Event : Occurs(f, e)

Spec == Init /\ [][Next]_vars

-----------------------------------------------------------------------------
\* Every variable has its type; only tasks inside Poll are in fd_map.
TypeOK ==
    /\ pc \in [NetFD -> {"run", "wait", "ready"}]
    /\ want \in [NetFD -> SUBSET Event] /\ rev \in [NetFD -> SUBSET Event]
    /\ owner \in SUBSET NetFD /\ timer \in SUBSET NetFD
    /\ map = {n \in NetFD : pc[n] = "wait"}
    /\ set \in [Event -> SUBSET Fd] /\ got \in [Event -> SUBSET Fd]
    /\ left \in SUBSET NetFD /\ active \in [Fd -> SUBSET Event]
    /\ res \in [NetFD -> {"none", "ok", "error", "timeout"}]
    /\ asked \in [NetFD -> Event] /\ exited \in BOOLEAN

\* The comment in PollsetTimeoutDel (select_io_wait.cpp:219-221): outside
\* WaitLoop an fd is in a set exactly if a task in fd_map waits for that event.
SetsAreExact ==
    Runs => \A e \in Event :
                set[e] = {FdOf[n] : n \in {m \in map : e \in want[m]}}

\* A Poll returns for the event it asked for: no event that an earlier Poll of
\* the NetFD left in osfd.events ends it.
AnswersTheQuestion ==
    \A n \in NetFD : pc[n] = "ready" /\ n \notin timer => rev[n] = {asked[n]}

\* CheckRepeatNetFD's comment (inner_io_wait.h:90): exit(0) is for a NetFD that
\* two tasks use at once, which none does here; only a NetFD whose last Poll
\* timed out still has its owner_task and would exit at its next Poll.
OwnedAfterTimeout ==
    \A n \in owner : pc[n] = "run" => res[n] = "timeout"

\* A task whose event has come and is not used up by others returns from Poll.
EventEndsPoll ==
    \A n \in NetFD :
        (pc[n] = "wait" /\ want[n] \intersect active[FdOf[n]] # {})
            ~> (pc[n] = "run" \/ want[n] \intersect active[FdOf[n]] = {})
=============================================================================
