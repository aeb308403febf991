------------------------------ MODULE MCIoWait ------------------------------
(* The two versions of the fd wait for TLC.  fd_a and fd_b share fd 1,     *)
(* fd_c has fd 2; for select, fd_d has an fd that does not fit in an       *)
(* fd_set.  The epoll version is used in four ways, with the state of the  *)
(* other at rest.                                                          *)
EXTENDS EpollIoWait, TLC

CONSTANTS
    fd_a, fd_b, fd_c, fd_d, p1, p2,
    SelectNetFD, SelectFd, SelectFdOf, SelectUses,  \* for the select version
    FdSetSize

ASSUME SelectAssumption ==
    /\ SelectFdOf \in [SelectNetFD -> SelectFd]
    /\ SelectUses \in [SelectNetFD -> SUBSET {In, Out}]

\* net_fd.h:71-76: of two NetFDs that share an fd one reads, one writes.
FdOfAll == (fd_a :> 1) @@ (fd_b :> 1) @@ (fd_c :> 2)
ReadWrite == (fd_a :> {In}) @@ (fd_b :> {Out}) @@ (fd_c :> {In})
SelectFds == FdOfAll @@ (fd_d :> 3)
SelectReadWrite == (fd_a :> {In}) @@ (fd_b :> {Out}) @@ (fd_c :> {In, Out})
                       @@ (fd_d :> {In})

VARIABLES
    build,  \* which version and use, for the whole behaviour
    spc, swant, srev, sowner, stimer, smap, sset, smaxfd, sactive, sgot, sleft,
    sres, sasked, sexited

selectVars == <<spc, swant, srev, sowner, stimer, smap, sset, smaxfd, sactive,
                sgot, sleft, sres, sasked, sexited>>

S == INSTANCE SelectIoWait WITH
        NetFD <- SelectNetFD, Fd <- SelectFd, FdOf <- SelectFdOf,
        Uses <- SelectUses,
        pc <- spc, want <- swant, rev <- srev, owner <- sowner,
        timer <- stimer, map <- smap, set <- sset, maxfd <- smaxfd,
        active <- sactive, got <- sgot, left <- sleft, res <- sres,
        asked <- sasked, exited <- sexited

mcVars == <<build, vars, selectVars>>

MCInit ==
    /\ build \in {"timers", "events", "errors", "steal", "select",
                  "selectevents"}
    /\ Init /\ S!Init
    /\ \A n \in NetFD : build = "steal" \/ at[n] = p1

NoErrors == \A f \in Fd : Exception \notin active'[f]
Alone == pc'[fd_c] = "run" /\ active'[2] = {}  \* only fd 1 is used

Epoll ==
    /\ Next
    /\ \/ build = "timers" /\ at' = at /\ NoErrors /\ Alone
       \/ build = "events" /\ at' = at /\ NoErrors /\ timer' = timer
       \/ build = "errors" /\ at' = at /\ Alone
       \/ build = "steal" /\ NoErrors /\ timer' = timer /\ Alone
    /\ UNCHANGED <<build, selectVars>>

Select ==
    /\ S!Next /\ \A f \in SelectFd : f >= FdSetSize => sactive'[f] = {}
    /\ \/ build = "select" /\ fd_c \notin stimer'
       \/ build = "selectevents" /\ stimer' = stimer
    /\ UNCHANGED <<build, vars>>

MCNext == Epoll \/ Select

\* Fairness, where there are no timeouts: the Processer comes back to WaitLoop
\* and executes woken tasks.
Fairness ==
    /\ WF_vars(build = "events" /\ WaitLoop(p1))
    /\ \A n \in NetFD : WF_vars(build = "events" /\ PollReturns(n))
    /\ WF_selectVars(build = "selectevents" /\ S!WaitLoop)
    /\ \A n \in NetFD :
         WF_selectVars(build = "selectevents" /\ S!PollReturns(n))

MCSpec == MCInit /\ [][MCNext]_mcVars /\ Fairness

\* What is listened for is what tasks wait for: outside WaitLoop an fd is in a
\* select set exactly if a task in fd_map waits for that event
\* (select_io_wait.cpp:219-221), and with no exceptional event registered with
\* epoll for exactly that, with evtlist_cnt the number of the registrations
\* (epoll_io_wait.cpp:104, 250).
InterestExact ==
    /\ S!SetsAreExact
    /\ build # "errors" => InterestIsExact

\* Whatever happens, exceptional events and stealing too, an epoll task in Poll
\* is in the fd_map of its Processer and nowhere else, and the fd is registered
\* for it there.  The other way round, every fd that WaitLoop is given has a task
\* in fd_map (the assert at epoll_io_wait.cpp:75), but not after an exceptional
\* event, which leaves the fd registered when its tasks have gone.
WaitersReached ==
    /\ TypeOK /\ WaitersInMap /\ InterestCovers
    /\ build # "errors" => ReportsFindTasks

\* In both versions, a task whose event has come and is not used up by others
\* returns from Poll.
PollEnds ==
    /\ build = "events" => EventEndsPoll
    /\ build = "selectevents" => S!EventEndsPoll

\* select: a Poll returns for the event it asked for, not for one that an
\* earlier Poll of the NetFD left in osfd.events (select_io_wait.cpp:137); and
\* only a NetFD whose last Poll timed out still has its owner_task and would
\* exit(0) at its next Poll (select_io_wait.cpp:259, inner_io_wait.h:90).
SelectAnswers == S!TypeOK /\ S!AnswersTheQuestion /\ S!OwnedAfterTimeout
==============================================================================
