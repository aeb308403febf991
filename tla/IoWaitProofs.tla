---------------------------- MODULE IoWaitProofs ----------------------------
(***************************************************************************)
(* The two versions of the fd wait, for every number of NetFDs, fds and    *)
(* Processers: what is registered, who is in fd_map and who is inside Poll *)
(* agree.                                                                  *)
(***************************************************************************)
EXTENDS MCIoWait, FiniteSetTheorems, TLAPS

-----------------------------------------------------------------------------
(* The epoll version.                                                      *)

\* A task inside Poll waits for one event, in the fd_map of its Processer.
MapInv ==
    \A n \in NetFD :
      /\ \A p \in Proc : n \in map[p] <=> pc[n] = "wait" /\ at[n] = p
      /\ pc[n] = "wait" => \E e \in {In, Out} : want[n] = {e}

\* What WaitLoop has in its hands: the fds still to come are registered and
\* differ from each other and from the current one; a NetFD not yet visited is
\* in fd_map.
LoopInv ==
    \A p \in Proc :
      /\ \A x, y \in todo[p] : x[1] = y[1] => x = y
      /\ \A x \in todo[p] : reg[p][x[1]] # {}
      /\ cur[p] # None =>
           /\ \A n \in cur[p].left : n \in map[p] /\ FdOf[n] = cur[p].fd
           /\ \A x \in todo[p] : x[1] # cur[p].fd

\* Who waits is registered for, or will be when WaitLoop is done with the fd.
CoverInv ==
    \A p \in Proc : \A n \in map[p] : \A e \in want[n] :
      IF cur[p] # None /\ cur[p].fd = FdOf[n]
      THEN n \in cur[p].left \/ (e \in cur[p].mod /\ e \notin cur[p].come)
      ELSE e \in reg[p][FdOf[n]]

\* Some NetFD of the fd waits for the event.
Awaited(p, f, e) == \E n \in map[p] : FdOf[n] = f /\ e \in want[n]

\* Without exceptional events nothing else is registered.
ExactInv ==
    build # "errors" =>
      /\ \A f \in Fd : Exception \notin active[f]
      /\ \A p \in Proc :
           /\ \A x \in todo[p] : Exception \notin x[2]
           /\ cur[p] # None => Exception \notin cur[p].come
           /\ \A f \in Fd, e \in {In, Out} :
                IF cur[p] # None /\ cur[p].fd = f
                THEN e \in cur[p].mod /\ e \notin cur[p].come
                       => Awaited(p, f, e)
                ELSE e \in reg[p][f] => Awaited(p, f, e)

\* evtlist_cnt counts the registrations and the fd WaitLoop is at; it is too
\* large where an fd was closed that an exceptional event had left registered.
Counted(p) ==
    {f \in Fd : reg[p][f] # {} \/ (cur[p] # None /\ cur[p].fd = f)}
CountInv ==
    \A p \in Proc :
      /\ cnt[p] >= Cardinality(Counted(p))
      /\ build # "errors" => cnt[p] = Cardinality(Counted(p))

\* A timer is that of a Poll that waits, or WaitLoop is about to stop it.
TimerInv ==
    /\ \A x \in armed :
         /\ timer[x[1]] = x[2]
         /\ \/ x[1] \in map[x[2]]
            \/ cur[x[2]] # None /\ cur[x[2]].stop = x[1]
    /\ \A n \in NetFD :
         pc[n] = "ready" /\ timer[n] # None
         => \/ by[n] = "timer"
            \/ \E p \in Proc : cur[p] # None /\ cur[p].stop = n

\* Tasks with timeouts stay where they are.
ModeInv ==
    /\ build = "steal" => armed = {} /\ \A n \in NetFD : timer[n] = None
    /\ build # "steal" =>
         /\ \A n \in NetFD : at[n] = p1
         /\ \A p \in Proc \ {p1} :
              /\ todo[p] = {} /\ cur[p] = None
              /\ \A f \in Fd : reg[p][f] = {}

EInv ==
    /\ TypeOK
    /\ MapInv /\ LoopInv /\ CoverInv /\ ExactInv /\ CountInv
    /\ TimerInv /\ ModeInv
    /\ TimeoutIsReal

-----------------------------------------------------------------------------
(* Steps of the epoll version.                                             *)

\* What MCIoWait asks of a step in each of its uses.
ModeStep ==
    /\ build' = build
    /\ build = "steal" => timer' = timer
    /\ build # "steal" => at' = at
    /\ build # "errors" => \A f \in Fd : Exception \notin active'[f]

\* At the beginning nobody waits and nothing is registered.
LEMMA EInitial == MCInit => EInv
<1> SUFFICES ASSUME MCInit PROVE EInv
  OBVIOUS
<1> USE EpollAssumption DEF MCInit, Init
<1>1. TypeOK
  BY DEF TypeOK
<1>2. MapInv /\ LoopInv /\ CoverInv
  BY DEF MapInv, LoopInv, CoverInv
<1>3. ExactInv /\ TimerInv /\ ModeInv /\ TimeoutIsReal
  BY DEF ExactInv, TimerInv, ModeInv, TimeoutIsReal
<1>4. CountInv
  <2>1. \A p \in Proc : Counted(p) = {} /\ cnt[p] = 0
    BY DEF Counted
  <2>2. \A p \in Proc : Cardinality(Counted(p)) = 0
    BY <2>1, FS_EmptySet, Zenon
  <2>3. \A p \in Proc : cnt[p] = 0
    BY <2>1, Zenon
  <2> HIDE DEF MCInit, Init
  <2> QED
    BY <2>2, <2>3 DEF CountInv
<1> QED
  BY <1>1, <1>2, <1>3, <1>4 DEF EInv

\* What the other invariants do not read cannot disturb them: the steps of the
\* tasks themselves and of the kernel.
LEMMA EQuiet ==
    ASSUME EInv, ModeStep,
           UNCHANGED <<pc, at, timer, armed, epollvars, by>>, TypeOK',
           \A n \in NetFD : pc[n] = "wait" => want'[n] = want[n],
           \A n \in NetFD :
             pc[n] = "run" /\ res'[n] = "timeout" => res[n] = "timeout"
    PROVE  EInv'
<1> USE EpollAssumption DEF EInv, epollvars
<1>1. \A p \in Proc : \A n \in map[p] : n \in NetFD /\ want'[n] = want[n]
  BY DEF TypeOK, MapInv
<1>2. MapInv' /\ LoopInv' /\ CoverInv'
  BY <1>1 DEF MapInv, LoopInv, CoverInv
<1>3. ExactInv'
  BY <1>1 DEF ExactInv, Awaited, ModeStep
<1>4. CountInv' /\ TimerInv' /\ ModeInv'
  BY DEF CountInv, Counted, TimerInv, ModeInv, ModeStep
<1>5. TimeoutIsReal'
  BY DEF TimeoutIsReal
<1> QED
  BY <1>2, <1>3, <1>4, <1>5

\* The kernel: something becomes ready on an fd.
LEMMA EOccurs ==
    ASSUME EInv, ModeStep, NEW f \in Fd, NEW e \in Event, Occurs(f, e)
    PROVE  EInv'
<1>1. TypeOK'
  BY DEF EInv, TypeOK, Occurs, epollvars
<1> QED
  BY <1>1, EQuiet DEF Occurs

\* A task takes what was ready (a read or a write outside Poll).
LEMMA EConsume ==
    ASSUME EInv, ModeStep, NEW n \in NetFD, NEW e \in Event, Consume(n, e)
    PROVE  EInv'
<1>1. TypeOK'
  BY DEF EInv, TypeOK, Consume, epollvars
<1> QED
  BY <1>1, EQuiet DEF Consume

\* A Poll that epoll_ctl refuses: the task goes on, nothing is left behind.
LEMMA EPollFails ==
    ASSUME EInv, ModeStep, NEW n \in NetFD, NEW e \in {In, Out}, PollFails(n, e)
    PROVE  EInv'
<1> USE EpollAssumption DEF EInv, epollvars
<1>1. /\ pc[n] = "run"
      /\ want' = [want EXCEPT ![n] = {e}]
      /\ by' = [by EXCEPT ![n] = "none"] /\ res' = [res EXCEPT ![n] = "error"]
      /\ UNCHANGED <<at, pc, rev, timer, armed, epollvars, active>>
  BY DEF PollFails
<1>2. TypeOK'
  BY <1>1 DEF TypeOK
<1>3. \A p \in Proc : \A m \in map[p] : m \in NetFD /\ want'[m] = want[m]
  BY <1>1 DEF TypeOK, MapInv
<1>4. MapInv' /\ LoopInv' /\ CoverInv'
  <2>1. MapInv'
    <3>1. \A m \in NetFD : pc[m] = "wait" => want'[m] = want[m]
      BY <1>1 DEF TypeOK
    <3> QED
      BY <1>1, <3>1 DEF MapInv
  <2>2. LoopInv'
    BY <1>1, <1>3 DEF LoopInv
  <2>3. CoverInv'
    BY <1>1, <1>3 DEF CoverInv
  <2> QED
    BY <2>1, <2>2, <2>3
<1>5. ExactInv'
  BY <1>1, <1>3 DEF ExactInv, Awaited, ModeStep
<1>6. CountInv' /\ ModeInv'
  BY <1>1 DEF CountInv, Counted, ModeInv, ModeStep
<1>7. TimerInv' /\ TimeoutIsReal'
  BY <1>1 DEF TimerInv, TimeoutIsReal, TypeOK
<1> QED
  BY <1>2, <1>4, <1>5, <1>6, <1>7

\* Where a task is back from Poll and its Processer from WaitLoop, no timer is
\* left of that Poll.
LEMMA NoTimerLeft ==
    ASSUME EInv, NEW n \in NetFD, pc[n] # "wait", Runs(at[n])
    PROVE  /\ build # "steal" =>
                \A p \in Proc : cur[p] # None => cur[p].stop # n
           /\ \A x \in armed : x[1] # n
<1> USE EpollAssumption DEF EInv
<1>1. build # "steal" => \A p \in Proc : cur[p] # None => cur[p].stop # n
  <2> SUFFICES ASSUME build # "steal", NEW p \in Proc, cur[p] # None
               PROVE  FALSE
    OBVIOUS
  <2>1. p = at[n]
    BY DEF ModeInv
  <2> QED
    BY <2>1 DEF Runs
<1>2. \A x \in armed : x[1] # n
  <2> SUFFICES ASSUME NEW x \in armed, x[1] = n PROVE FALSE
    OBVIOUS
  <2>1. build # "steal" /\ x[2] \in Proc
    BY DEF ModeInv, TypeOK
  <2>2. n \notin map[x[2]]
    BY <2>1 DEF MapInv
  <2> QED
    BY <1>1, <2>1, <2>2 DEF TimerInv
<1> QED
  BY <1>1, <1>2

\* The task is back in Poll: it cancels the timer it set.
LEMMA EPollReturns ==
    ASSUME EInv, ModeStep, NEW n \in NetFD, PollReturns(n)
    PROVE  EInv'
<1> USE EpollAssumption DEF EInv, epollvars
<1>1. /\ pc[n] = "ready" /\ Runs(at[n])
      /\ pc' = [pc EXCEPT ![n] = "run"]
      /\ timer' = [timer EXCEPT ![n] = None]
      /\ UNCHANGED <<at, want, rev, armed, epollvars, active, by>>
      /\ \A m \in NetFD \ {n} : res'[m] = res[m]
      /\ res'[n] = "timeout" => timer[n] # None
  BY DEF PollReturns, TypeOK
<1>2. TypeOK'
  BY <1>1 DEF TypeOK, PollReturns
<1>3. MapInv' /\ LoopInv' /\ CoverInv'
  <2>0. \A m \in NetFD : /\ pc'[m] = "wait" <=> pc[m] = "wait"
                         /\ pc[m] = "wait" => at'[m] = at[m]
    BY <1>1 DEF TypeOK
  <2>1. MapInv'
    BY <1>1, <2>0 DEF MapInv
  <2>2. LoopInv'
    BY <1>1 DEF LoopInv
  <2>3. CoverInv'
    BY <1>1 DEF CoverInv
  <2> QED
    BY <2>1, <2>2, <2>3
<1>4. ExactInv' /\ CountInv'
  BY <1>1 DEF ExactInv, Awaited, CountInv, Counted, ModeStep
<1>5. build # "steal" => \A p \in Proc : cur[p] # None => cur[p].stop # n
  BY <1>1, NoTimerLeft
<1>6. \A x \in armed : x[1] # n
  BY <1>1, NoTimerLeft
<1>7. TimerInv'
  BY <1>1, <1>6 DEF TimerInv, TypeOK
<1>8. ModeInv'
  BY <1>1, <1>2 DEF ModeInv, ModeStep, TypeOK
<1>9. TimeoutIsReal'
  <2>1. timer[n] # None => by[n] = "timer"
    BY <1>1, <1>5 DEF TimerInv, ModeInv
  <2> QED
    BY <1>1, <2>1 DEF TimeoutIsReal, TypeOK
<1> QED
  BY <1>2, <1>3, <1>4, <1>7, <1>8, <1>9

\* A ready task moves to another Processer; the fd_maps stay.
LEMMA ESteal ==
    ASSUME EInv, ModeStep, NEW n \in NetFD, NEW q \in Proc, Steal(n, q)
    PROVE  EInv'
<1> USE EpollAssumption DEF EInv, epollvars
<1>1. /\ pc[n] # "wait" /\ at' = [at EXCEPT ![n] = q]
      /\ UNCHANGED <<pc, want, rev, timer, armed, epollvars, active, by, res>>
  BY DEF Steal
<1>2. TypeOK'
  BY <1>1 DEF TypeOK
<1>3. MapInv' /\ LoopInv' /\ CoverInv'
  <2>0. \A m \in NetFD : /\ pc'[m] = "wait" <=> pc[m] = "wait"
                         /\ pc[m] = "wait" => at'[m] = at[m]
    BY <1>1 DEF TypeOK
  <2>1. MapInv'
    BY <1>1, <2>0 DEF MapInv
  <2>2. LoopInv'
    BY <1>1 DEF LoopInv
  <2>3. CoverInv'
    BY <1>1 DEF CoverInv
  <2> QED
    BY <2>1, <2>2, <2>3
<1>4. ExactInv' /\ CountInv'
  BY <1>1 DEF ExactInv, Awaited, CountInv, Counted, ModeStep
<1>5. TimerInv' /\ ModeInv' /\ TimeoutIsReal'
  BY <1>1 DEF TimerInv, ModeInv, TimeoutIsReal, ModeStep
<1> QED
  BY <1>2, <1>3, <1>4, <1>5

\* inner_close: the kernel drops the registrations of the number, which nobody
\* waits for.
LEMMA EClose ==
    ASSUME EInv, ModeStep, NEW n \in NetFD, Close(n)
    PROVE  EInv'
<1> USE EpollAssumption DEF EInv, epollvars
<1> DEFINE f == FdOf[n]
<1>1. /\ pc[n] = "run" /\ Runs(at[n]) /\ f \notin SharedFd
      /\ reg' = [p \in Proc |-> [reg[p] EXCEPT ![f] = {}]]
      /\ active' = [active EXCEPT ![f] = {}]
      /\ res' = [res EXCEPT ![n] = "none"]
      /\ UNCHANGED <<at, pc, want, rev, timer, armed, map, cnt, size, todo, cur,
                     by>>
  BY DEF Close
<1>2. f \in Fd /\ reg \in [Proc -> [Fd -> SUBSET {In, Out}]]
  BY DEF TypeOK
<1>3. \A p \in Proc : \A m \in map[p] : m \in NetFD /\ FdOf[m] # f
  BY <1>1 DEF TypeOK, MapInv
<1>4. \A p \in Proc, g \in Fd : reg'[p][g] = IF g = f THEN {} ELSE reg[p][g]
  BY <1>1, <1>2
<1> HIDE DEF f
<1>5. TypeOK'
  BY <1>1, <1>2 DEF TypeOK
<1>6. MapInv' /\ CoverInv' /\ ExactInv'
  <2>1. MapInv'
    BY <1>1 DEF MapInv
  <2>2. CoverInv'
    BY <1>1, <1>3, <1>4 DEF CoverInv
  <2>3. ExactInv'
    BY <1>1, <1>4 DEF ExactInv, Awaited, ModeStep
  <2> QED
    BY <2>1, <2>2, <2>3
\* What is still registered for the closed number: only after an exceptional
\* event, and then nobody is in WaitLoop now.
<1>7. \A p \in Proc : \/ reg[p][f] = {}
                      \/ cur[p] # None /\ cur[p].fd = f
                      \/ build = "errors" /\ todo[p] = {}
  <2> SUFFICES ASSUME NEW p \in Proc, reg[p][f] # {},
                      ~(cur[p] # None /\ cur[p].fd = f)
               PROVE  build = "errors" /\ todo[p] = {}
    OBVIOUS
  <2>1. PICK e \in {In, Out} : e \in reg[p][f]
    BY <1>2
  <2>2. build = "errors"
    <3>1. ~Awaited(p, f, e)
      BY <1>3 DEF Awaited
    <3> QED
      BY <1>2, <2>1, <3>1 DEF ExactInv
  <2> QED
    BY <1>1, <1>2, <2>2 DEF ModeInv, Runs
<1>8. LoopInv'
  <2>1. ASSUME NEW p \in Proc, NEW x \in todo[p] PROVE reg'[p][x[1]] # {}
    <3>1. x[1] \in Fd /\ reg[p][x[1]] # {} /\ (cur[p] # None => cur[p].fd # x[1])
      BY DEF LoopInv, TypeOK
    <3>2. x[1] # f
      BY <1>7, <3>1
    <3> QED
      BY <1>4, <3>1, <3>2
  <2> QED
    BY <1>1, <2>1 DEF LoopInv
<1>9. CountInv'
  <2> SUFFICES ASSUME NEW p \in Proc
               PROVE  /\ cnt[p] >= Cardinality(Counted(p)')
                      /\ build # "errors" => cnt[p] = Cardinality(Counted(p)')
    BY <1>1 DEF CountInv, ModeStep
  <2>1. /\ Counted(p)' \subseteq Counted(p)
        /\ build # "errors" => Counted(p)' = Counted(p)
    BY <1>1, <1>4, <1>7 DEF Counted
  <2>2. IsFiniteSet(Counted(p))
    BY FS_Subset DEF Counted
  <2>3. /\ Cardinality(Counted(p)') \in Nat /\ Cardinality(Counted(p)) \in Nat
        /\ Cardinality(Counted(p)') <= Cardinality(Counted(p))
    BY <2>1, <2>2, FS_Subset, FS_CardinalityType
  <2>4. cnt[p] \in Nat
    BY DEF TypeOK
  <2> QED
    BY <2>1, <2>3, <2>4 DEF CountInv
<1>10. TimerInv' /\ ModeInv' /\ TimeoutIsReal'
  <2>1. TimerInv'
    BY <1>1 DEF TimerInv
  <2>2. ModeInv'
    BY <1>1, <1>4 DEF ModeInv, ModeStep
  <2>3. TimeoutIsReal'
    BY <1>1 DEF TimeoutIsReal, TypeOK
  <2> QED
    BY <2>1, <2>2, <2>3
<1> QED
  BY <1>5, <1>6, <1>8, <1>9, <1>10

\* Poll registers the fd for the new event and for those that the others of the
\* fd wait for.
LEMMA EPoll ==
    ASSUME EInv, ModeStep, NEW n \in NetFD, NEW e \in {In, Out},
           NEW timed \in BOOLEAN, Poll(n, e, timed)
    PROVE  EInv'
<1> USE DEF EInv, epollvars
<1>a. PICK p \in Proc : p = at[n]
  BY DEF TypeOK
<1> DEFINE f == FdOf[n]
           c == IF reg[p][f] = {} THEN cnt[p] + 1 ELSE cnt[p]
           R == PollsetAdd(n, e)
<1>0. /\ f \in Fd
      /\ reg \in [Proc -> [Fd -> SUBSET {In, Out}]]
      /\ map \in [Proc -> SUBSET NetFD]
      /\ cnt \in [Proc -> Nat] /\ want \in [NetFD -> SUBSET {In, Out}]
      /\ FdOf \in [NetFD -> Fd] /\ None \notin Proc /\ IsFiniteSet(Fd)
  BY EpollAssumption DEF TypeOK
<1>1. /\ pc[n] = "run" /\ todo[p] = {} /\ cur[p] = None /\ ~AddFails(n)
      /\ reg' = [reg EXCEPT ![p][f] = R] /\ cnt' = [cnt EXCEPT ![p] = c]
      /\ size' = [size EXCEPT ![p] = Grown(p, c)]
      /\ map' = [map EXCEPT ![p] = @ \union {n}]
      /\ timer' = IF timed THEN [timer EXCEPT ![n] = p] ELSE timer
      /\ armed' = IF timed THEN armed \union {<<n, p>>} ELSE armed
      /\ want' = [want EXCEPT ![n] = {e}]
      /\ pc' = [pc EXCEPT ![n] = "wait"]
      /\ by' = [by EXCEPT ![n] = "none"]
      /\ UNCHANGED <<at, rev, active, todo, cur, res>>
  BY <1>a DEF Poll, Runs
<1>2. \A q \in Proc : n \notin map[q]
  BY <1>1 DEF MapInv
<1>3. /\ e \in R /\ R \subseteq {In, Out}
      /\ \A m \in map[p] : FdOf[m] = f => want[m] \subseteq R
      /\ \A d \in R : d = e \/ Awaited(p, f, d)
  <2>1. \A m \in map[p] : FdOf[m] = f => f \in SharedFd
    BY <1>0, <1>2, EpollAssumption
  <2>2. R = {e} \union {d \in {In, Out} : f \in SharedFd /\ Awaited(p, f, d)}
    BY <1>a, <1>0 DEF PollsetAdd, Wanted, Sharing, Awaited
  <2> HIDE DEF R, f
  <2> QED
    BY <1>0, <2>1, <2>2 DEF Awaited
<1> HIDE DEF R, c, f
<1>4. /\ reg'[p][f] = R
      /\ \A q \in Proc, g \in Fd : q # p \/ g # f => reg'[q][g] = reg[q][g]
      /\ \A q \in Proc : \A m : m \in map'[q] <=>
                                m \in map[q] \/ (q = p /\ m = n)
      /\ want'[n] = {e} /\ \A m \in NetFD : m # n => want'[m] = want[m]
  BY <1>0, <1>1
<1>5. c \in Nat
  BY <1>0 DEF c
<1>6. TypeOK'
  <2>1. Grown(p, c) \in Nat \ {0}
    BY <1>0, <1>5 DEF Grown, TypeOK
  <2> QED
    BY <1>0, <1>1, <1>3, <1>5, <2>1 DEF TypeOK
<1>7. MapInv'
  <2>1. /\ pc'[n] = "wait" /\ \A m \in NetFD : m # n => pc'[m] = pc[m]
        /\ p = at[n] /\ at' = at
    BY <1>a, <1>1 DEF TypeOK
  <2> QED
    BY <1>4, <2>1 DEF MapInv
<1>8. LoopInv'
  <2>1. \A q \in Proc : \A x \in todo[q] : q # p /\ x[1] \in Fd
    BY <1>1 DEF TypeOK
  <2> QED
    BY <1>1, <1>4, <2>1 DEF LoopInv
<1>9. CoverInv'
  <2> SUFFICES ASSUME NEW q \in Proc, NEW m \in map'[q], NEW d \in want'[m]
               PROVE  IF cur[q] # None /\ cur[q].fd = FdOf[m]
                      THEN \/ m \in cur[q].left
                           \/ d \in cur[q].mod /\ d \notin cur[q].come
                      ELSE d \in reg'[q][FdOf[m]]
    BY <1>1 DEF CoverInv
  <2>1. CASE m = n
    <3>1. q = p /\ d = e /\ FdOf[m] = f
      BY <1>2, <1>4, <2>1 DEF f
    <3> QED
      BY <1>0, <1>1, <1>3, <1>4, <3>1
  <2>2. CASE m # n
    <3>1. m \in map[q] /\ m \in NetFD /\ d \in want[m] /\ FdOf[m] \in Fd
      BY <1>0, <1>4, <2>2
    <3>2. CASE q = p /\ FdOf[m] = f
      BY <1>0, <1>1, <1>3, <1>4, <3>1, <3>2
    <3>3. CASE ~(q = p /\ FdOf[m] = f)
      BY <1>4, <3>1, <3>3 DEF CoverInv
    <3> QED
      BY <3>2, <3>3
  <2> QED
    BY <2>1, <2>2
<1>10. ExactInv'
  <2>1. ASSUME NEW q \in Proc, NEW g \in Fd, NEW d \in {In, Out},
               Awaited(q, g, d)
        PROVE  Awaited(q, g, d)'
    BY <1>0, <1>2, <1>4, <2>1 DEF Awaited
  <2>2. Awaited(p, f, e)'
    BY <1>0, <1>4 DEF Awaited, f
  <2>3. ASSUME build # "errors", NEW q \in Proc, NEW g \in Fd,
               NEW d \in {In, Out}
        PROVE  IF cur[q] # None /\ cur[q].fd = g
               THEN d \in cur[q].mod /\ d \notin cur[q].come
                      => Awaited(q, g, d)'
               ELSE d \in reg'[q][g] => Awaited(q, g, d)'
    <3>1. CASE q = p /\ g = f
      BY <1>1, <1>3, <1>4, <2>1, <2>2, <3>1
    <3>2. CASE ~(q = p /\ g = f)
      BY <1>4, <2>1, <2>3, <3>2 DEF ExactInv
    <3> QED
      BY <3>1, <3>2
  <2> QED
    BY <1>1, <2>3 DEF ExactInv, ModeStep
<1>11. CountInv'
  <2>1. \A q \in Proc \ {p} : Counted(q)' = Counted(q) /\ cnt'[q] = cnt[q]
    BY <1>0, <1>1, <1>4 DEF Counted
  <2>2. Counted(p)' = Counted(p) \union {f}
    BY <1>0, <1>1, <1>3, <1>4 DEF Counted
  <2>3. f \in Counted(p) <=> reg[p][f] # {}
    BY <1>0, <1>1 DEF Counted
  <2>4. IsFiniteSet(Counted(p))
    BY <1>0, FS_Subset DEF Counted
  <2>5. /\ Cardinality(Counted(p)) \in Nat
        /\ Cardinality(Counted(p) \union {f})
             = IF f \in Counted(p) THEN Cardinality(Counted(p))
                                   ELSE Cardinality(Counted(p)) + 1
    BY <2>4, FS_AddElement, FS_CardinalityType
  <2>6. cnt'[p] = IF reg[p][f] = {} THEN cnt[p] + 1 ELSE cnt[p]
    BY <1>0, <1>1 DEF c
  <2>7. /\ cnt'[p] >= Cardinality(Counted(p)')
        /\ build # "errors" => cnt'[p] = Cardinality(Counted(p)')
    BY <1>0, <2>2, <2>3, <2>5, <2>6 DEF CountInv
  <2> QED
    BY <2>1, <2>7 DEF CountInv, ModeStep
<1>12. TimerInv'
  <2>1. \A x \in armed : x[1] # n
    BY <1>a, <1>1, NoTimerLeft DEF Runs
  <2>2. ASSUME NEW x \in armed'
        PROVE  /\ timer'[x[1]] = x[2]
               /\ \/ x[1] \in map'[x[2]]
                  \/ cur[x[2]] # None /\ cur[x[2]].stop = x[1]
    <3>1. CASE x \in armed
      BY <1>1, <1>4, <2>1, <3>1 DEF TimerInv, TypeOK
    <3>2. CASE timed /\ x = <<n, p>>
      BY <1>0, <1>1, <1>4, <3>2 DEF TypeOK
    <3> QED
      BY <1>1, <3>1, <3>2
  <2>3. \A m \in NetFD \ {n} : /\ pc'[m] = pc[m] /\ timer'[m] = timer[m]
                               /\ by'[m] = by[m]
    BY <1>1 DEF TypeOK
  <2>4. pc'[n] = "wait"
    BY <1>1 DEF TypeOK
  <2> QED
    BY <1>1, <2>2, <2>3, <2>4 DEF TimerInv
<1>13. ModeInv'
  <2>1. build = "steal" => ~timed
    BY <1>0, <1>1 DEF ModeInv, ModeStep, TypeOK
  <2>2. build # "steal" => p = p1
    BY <1>a DEF ModeInv
  <2> QED
    BY <1>1, <1>4, <2>1, <2>2 DEF ModeInv, ModeStep
<1>14. TimeoutIsReal'
  BY <1>1 DEF TimeoutIsReal, TypeOK
<1> QED
  BY <1>6, <1>7, <1>8, <1>9, <1>10, <1>11, <1>12, <1>13, <1>14

\* The timer's callback: the fd stays registered for what the others of the fd
\* wait for.
LEMMA ETimeout ==
    ASSUME EInv, ModeStep, NEW n \in NetFD, NEW p \in Proc, Timeout(n, p)
    PROVE  EInv'
<1> USE DEF EInv, epollvars
<1> DEFINE f == FdOf[n]
           left == Wanted(Sharing(p, f) \ {n})
<1>0. /\ f \in Fd
      /\ reg \in [Proc -> [Fd -> SUBSET {In, Out}]]
      /\ map \in [Proc -> SUBSET NetFD]
      /\ cnt \in [Proc -> Nat] /\ want \in [NetFD -> SUBSET {In, Out}]
      /\ FdOf \in [NetFD -> Fd] /\ None \notin Proc /\ IsFiniteSet(Fd)
  BY EpollAssumption DEF TypeOK
<1>1. /\ <<n, p>> \in armed /\ todo[p] = {} /\ cur[p] = None
      /\ armed' = armed \ {<<n, p>>}
      /\ map' = [map EXCEPT ![p] = @ \ {n}]
      /\ reg' = [reg EXCEPT ![p][f] = left]
      /\ cnt' = [cnt EXCEPT ![p] = IF left = {} THEN @ - 1 ELSE @]
      /\ pc' = [pc EXCEPT ![n] = IF @ = "wait" THEN "ready" ELSE @]
      /\ by' = [by EXCEPT ![n] = "timer"]
      /\ UNCHANGED <<at, want, rev, timer, size, active, todo, cur, res>>
  BY DEF Timeout, Runs, PollsetTimeoutDel, Wake
<1>2. /\ n \in map[p] /\ pc[n] = "wait" /\ at[n] = p /\ timer[n] = p
      /\ \A q \in Proc : q # p => n \notin map[q]
  BY <1>1 DEF TimerInv, MapInv
<1>3. /\ left \subseteq {In, Out}
      /\ \A d : d \in left <=> \E m \in map[p] : /\ m # n /\ FdOf[m] = f
                                                 /\ d \in want[m]
  BY <1>0 DEF Wanted, Sharing
<1>4. reg[p][f] # {}
  <2>1. PICK d \in {In, Out} : want[n] = {d}
    BY <1>2 DEF MapInv
  <2> QED
    BY <1>1, <1>2, <2>1 DEF CoverInv
<1> HIDE DEF f, left
<1>5. /\ reg'[p][f] = left
      /\ \A q \in Proc, g \in Fd : q # p \/ g # f => reg'[q][g] = reg[q][g]
      /\ \A q \in Proc : \A m : m \in map'[q] <=>
                                m \in map[q] /\ m # n
      /\ pc'[n] = "ready" /\ \A m \in NetFD : m # n => pc'[m] = pc[m]
      /\ by'[n] = "timer" /\ \A m \in NetFD : m # n => by'[m] = by[m]
  BY <1>0, <1>1, <1>2 DEF TypeOK
<1>6. CountInv' /\ cnt' \in [Proc -> Nat]
  <2>1. \A q \in Proc \ {p} : Counted(q)' = Counted(q) /\ cnt'[q] = cnt[q]
    BY <1>0, <1>1, <1>5 DEF Counted
  <2>2. Counted(p)' = IF left = {} THEN Counted(p) \ {f} ELSE Counted(p)
    BY <1>0, <1>1, <1>4, <1>5 DEF Counted
  <2>3. f \in Counted(p)
    BY <1>0, <1>4 DEF Counted
  <2>4. IsFiniteSet(Counted(p))
    BY <1>0, FS_Subset DEF Counted
  <2>5. /\ Cardinality(Counted(p)) \in Nat
        /\ Cardinality(Counted(p) \ {f}) \in Nat
        /\ Cardinality(Counted(p) \ {f}) = Cardinality(Counted(p)) - 1
    BY <2>3, <2>4, FS_RemoveElement, FS_CardinalityType
  <2>6. cnt'[p] = IF left = {} THEN cnt[p] - 1 ELSE cnt[p]
    BY <1>0, <1>1
  <2>7. /\ cnt'[p] >= Cardinality(Counted(p)')
        /\ build # "errors" => cnt'[p] = Cardinality(Counted(p)')
        /\ cnt'[p] \in Nat
    BY <1>0, <2>2, <2>5, <2>6 DEF CountInv
  <2>8. CountInv'
    BY <2>1, <2>7 DEF CountInv, ModeStep
  <2> QED
    BY <1>0, <1>1, <2>7, <2>8
<1>7. TypeOK'
  BY <1>0, <1>1, <1>3, <1>6 DEF TypeOK
<1>8. MapInv'
  BY <1>1, <1>5 DEF MapInv
<1>9. LoopInv'
  <2>1. \A q \in Proc : \A x \in todo[q] : q # p /\ x[1] \in Fd
    BY <1>1 DEF TypeOK
  <2>2. \A q \in Proc : cur[q] # None => q # p
    BY <1>1
  <2>3. \A q \in Proc : q # p => map'[q] = map[q]
    BY <1>0, <1>1
  <2> QED
    BY <1>1, <1>5, <2>1, <2>2, <2>3 DEF LoopInv
<1>10. CoverInv'
  <2> SUFFICES ASSUME NEW q \in Proc, NEW m \in map'[q], NEW d \in want[m]
               PROVE  IF cur[q] # None /\ cur[q].fd = FdOf[m]
                      THEN \/ m \in cur[q].left
                           \/ d \in cur[q].mod /\ d \notin cur[q].come
                      ELSE d \in reg'[q][FdOf[m]]
    BY <1>1 DEF CoverInv
  <2>1. m \in map[q] /\ m # n /\ m \in NetFD /\ FdOf[m] \in Fd
    BY <1>0, <1>5
  <2>2. CASE q = p /\ FdOf[m] = f
    BY <1>1, <1>3, <1>5, <2>1, <2>2
  <2>3. CASE ~(q = p /\ FdOf[m] = f)
    BY <1>5, <2>1, <2>3 DEF CoverInv
  <2> QED
    BY <2>2, <2>3
<1>11. ExactInv'
  <2>1. ASSUME NEW q \in Proc, NEW g \in Fd, NEW d \in {In, Out},
               Awaited(q, g, d), q # p \/ g # f
        PROVE  Awaited(q, g, d)'
    <3>1. PICK m \in map[q] : FdOf[m] = g /\ d \in want[m]
      BY <2>1 DEF Awaited
    <3>2. m # n
      BY <1>2, <2>1, <3>1 DEF f
    <3> QED
      BY <1>1, <1>5, <3>1, <3>2 DEF Awaited
  <2>2. \A d \in left : Awaited(p, f, d)'
    BY <1>1, <1>3, <1>5 DEF Awaited
  <2>3. ASSUME build # "errors", NEW q \in Proc, NEW g \in Fd,
               NEW d \in {In, Out}
        PROVE  IF cur[q] # None /\ cur[q].fd = g
               THEN d \in cur[q].mod /\ d \notin cur[q].come
                      => Awaited(q, g, d)'
               ELSE d \in reg'[q][g] => Awaited(q, g, d)'
    <3>1. CASE q = p /\ g = f
      BY <1>1, <1>5, <2>2, <3>1
    <3>2. CASE q # p \/ g # f
      BY <1>5, <2>1, <2>3, <3>2 DEF ExactInv
    <3> QED
      BY <3>1, <3>2
  <2> QED
    BY <1>1, <2>3 DEF ExactInv, ModeStep
<1>12. TimerInv'
  <2>1. ASSUME NEW x \in armed' PROVE x \in armed /\ x[1] # n
    <3>1. x \in armed /\ x # <<n, p>> /\ x = <<x[1], x[2]>>
      BY <1>1 DEF TypeOK
    <3> QED
      BY <1>2, <3>1 DEF TimerInv
  <2>2. \A x \in armed' : x[2] \in Proc
    BY <2>1 DEF TypeOK
  <2> QED
    BY <1>1, <1>5, <2>1, <2>2 DEF TimerInv
<1>13. ModeInv'
  <2>1. build # "steal" /\ p = p1
    BY <1>1, <1>2 DEF ModeInv
  <2> QED
    BY <1>1, <1>5, <2>1 DEF ModeInv, ModeStep
<1>14. TimeoutIsReal'
  BY <1>1, <1>5 DEF TimeoutIsReal
<1> QED
  BY <1>6, <1>7, <1>8, <1>9, <1>10, <1>11, <1>12, <1>13, <1>14

\* epoll_wait reports registered fds, each once.
LEMMA EEpollWait ==
    ASSUME EInv, ModeStep, NEW p \in Proc, EpollWait(p)
    PROVE  EInv'
<1> USE DEF EInv, epollvars
<1>1. PICK F \in SUBSET Fd :
        /\ \A f \in F : reg[p][f] # {}
        /\ todo' = [todo EXCEPT ![p] = {<<f, Come(p, f)>> : f \in F}]
  BY DEF EpollWait, kSubset
<1>2. /\ cur[p] = None
      /\ UNCHANGED <<at, pc, want, rev, timer, armed, map, reg, cnt, size,
                     active, cur, by, res>>
  BY DEF EpollWait, Runs
<1>3. /\ \A f \in Fd : Come(p, f) \in SUBSET Event
      /\ \A f \in Fd : Exception \notin active[f] => Exception \notin Come(p, f)
  BY DEF TypeOK, Come, Event, In, Out, Exception
<1>4. /\ \A q \in Proc : q # p => todo'[q] = todo[q]
      /\ \A x \in todo'[p] : \E f \in F : x = <<f, Come(p, f)>>
  BY <1>1 DEF TypeOK
<1>5. TypeOK'
  BY <1>1, <1>2, <1>3 DEF TypeOK
<1>6. MapInv' /\ CoverInv' /\ CountInv' /\ TimerInv' /\ TimeoutIsReal'
  BY <1>2 DEF MapInv, CoverInv, CountInv, Counted, TimerInv, TimeoutIsReal,
              ModeStep
<1>7. LoopInv'
  BY <1>1, <1>2, <1>4 DEF LoopInv
<1>8. ExactInv'
  BY <1>2, <1>3, <1>4 DEF ExactInv, Awaited, ModeStep
<1>9. ModeInv'
  BY <1>1, <1>2, <1>4 DEF ModeInv, ModeStep
<1> QED
  BY <1>5, <1>6, <1>7, <1>8, <1>9

\* WaitLoop takes the next event of epoll_wait: what it has in its hands are
\* the waiters of that fd.
LEMMA ENextEvent ==
    ASSUME EInv, ModeStep, NEW p \in Proc, NextEvent(p)
    PROVE  EInv'
<1> USE DEF EInv, epollvars
<1>1. PICK x \in todo[p] :
        /\ todo' = [todo EXCEPT ![p] = @ \ {x}]
        /\ cur' = [cur EXCEPT ![p] =
               [fd |-> x[1], come |-> x[2], mod |-> {},
                left |-> Sharing(p, x[1]), stop |-> None]]
  BY DEF NextEvent
<1>2. /\ cur[p] = None
      /\ UNCHANGED <<at, pc, want, rev, timer, armed, map, reg, cnt, size,
                     active, by, res>>
  BY DEF NextEvent
<1>3. /\ x[1] \in Fd /\ x[2] \in SUBSET Event
      /\ todo \in [Proc -> SUBSET (Fd \X SUBSET Event)]
      /\ cur \in [Proc -> Current \union {None}]
      /\ map \in [Proc -> SUBSET NetFD]
  BY DEF TypeOK
<1>4. /\ \A m : m \in Sharing(p, x[1]) <=> m \in map[p] /\ FdOf[m] = x[1]
      /\ Sharing(p, x[1]) \in SUBSET NetFD
  BY <1>3 DEF Sharing
<1>5. /\ cur'[p] \in Current /\ cur'[p] # None
      /\ cur'[p].fd = x[1] /\ cur'[p].come = x[2] /\ cur'[p].mod = {}
      /\ cur'[p].left = Sharing(p, x[1]) /\ cur'[p].stop = None
      /\ \A q \in Proc : q # p => cur'[q] = cur[q] /\ todo'[q] = todo[q]
      /\ todo'[p] = todo[p] \ {x}
  <2>1. [fd |-> x[1], come |-> x[2], mod |-> {},
         left |-> Sharing(p, x[1]), stop |-> None] \in Current
    BY <1>3, <1>4 DEF Current
  <2> QED
    BY <1>1, <1>3, <2>1, EpollAssumption
<1>6. reg[p][x[1]] # {}
  BY DEF LoopInv
<1>7. TypeOK'
  BY <1>1, <1>2, <1>3, <1>5 DEF TypeOK
<1>8. MapInv' /\ TimeoutIsReal'
  BY <1>2 DEF MapInv, TimeoutIsReal
<1>9. LoopInv'
  BY <1>2, <1>4, <1>5 DEF LoopInv
<1>10. CoverInv'
  BY <1>2, <1>4, <1>5 DEF CoverInv
<1>11. ExactInv'
  BY <1>2, <1>5 DEF ExactInv, Awaited, ModeStep
<1>12. CountInv'
  <2>1. \A q \in Proc : Counted(q)' = Counted(q)
    BY <1>2, <1>3, <1>5, <1>6 DEF Counted
  <2> QED
    BY <1>2, <2>1 DEF CountInv, ModeStep
<1>13. TimerInv'
  <2>1. \A y \in armed : y[1] \in NetFD /\ y[2] \in Proc
    BY DEF TypeOK
  <2> QED
    BY <1>2, <1>5, <2>1 DEF TimerInv
<1>14. ModeInv'
  <2>1. build # "steal" => p = p1
    BY DEF ModeInv
  <2> QED
    BY <1>2, <1>5, <2>1 DEF ModeInv, ModeStep
<1> QED
  BY <1>7, <1>8, <1>9, <1>10, <1>11, <1>12, <1>13, <1>14

\* WaitLoop visits one NetFD of the fd: it wakes its task or keeps its event in
\* modEvents.
LEMMA EVisit ==
    ASSUME EInv, ModeStep, NEW p \in Proc, NEW n \in NetFD, Visit(p, n)
    PROVE  EInv'
<1> USE DEF EInv, epollvars
<1>0. /\ map \in [Proc -> SUBSET NetFD]
      /\ want \in [NetFD -> SUBSET {In, Out}]
      /\ cur \in [Proc -> Current \union {None}]
      /\ FdOf \in [NetFD -> Fd] /\ None \notin NetFD \union Current
  BY EpollAssumption DEF TypeOK
<1>1. /\ cur[p] # None /\ cur[p].stop = None /\ n \in cur[p].left
      /\ cur[p] \in Current
      /\ UNCHANGED <<at, want, timer, armed, reg, cnt, size, active, todo, res>>
  BY <1>0 DEF Visit
<1>f. PICK f \in Fd, come \in SUBSET Event :
        f = cur[p].fd /\ come = cur[p].come
  BY <1>1 DEF Current
<1>2. /\ n \in map[p] /\ FdOf[n] = f /\ pc[n] = "wait" /\ at[n] = p
      /\ \A q \in Proc : q # p => n \notin map[q]
  BY <1>1, <1>f DEF LoopInv, MapInv
<1>3. PICK e \in {In, Out} : want[n] = {e}
  BY <1>2 DEF MapInv
<1> DEFINE hit == e \in come \/ Exception \in come
<1>5. Matches(p, n) <=> hit
  BY <1>f, <1>3 DEF Matches
<1>4. /\ cur'[p] \in Current /\ cur'[p] # None
      /\ cur'[p].fd = f /\ cur'[p].come = come
      /\ cur'[p].mod = cur[p].mod \union {e}
      /\ cur'[p].left = cur[p].left \ {n}
      /\ hit => cur'[p].stop = n
      /\ ~hit => cur'[p].stop = None
      /\ cur' = [cur EXCEPT ![p] = cur'[p]]
      /\ \A q \in Proc : q # p => cur'[q] = cur[q]
  <2>1. PICK stop \in NetFD \union {None} :
          /\ hit => stop = n
          /\ ~hit => stop = None
          /\ cur' = [cur EXCEPT ![p].mod = @ \union want[n],
                                ![p].left = @ \ {n},
                                ![p].stop = stop]
    BY <1>5, Zenon DEF Visit
  <2>2. /\ cur'[p] = [cur[p] EXCEPT !.mod = @ \union want[n],
                                    !.left = @ \ {n}, !.stop = stop]
        /\ \A q \in Proc : q # p => cur'[q] = cur[q]
        /\ cur' = [cur EXCEPT ![p] = cur'[p]]
    BY <1>0, <1>1, <2>1
  <2>3. cur'[p] \in Current
    <3>1. /\ cur[p] \in [fd : Fd, come : SUBSET Event, mod : SUBSET {In, Out},
                          left : SUBSET NetFD, stop : NetFD \union {None}]
          /\ want[n] \in SUBSET {In, Out}
      BY <1>0, <1>1 DEF Current
    <3> QED
      BY <2>2, <3>1 DEF Current
  <2> QED
    BY <1>0, <1>1, <1>f, <1>3, <2>1, <2>2, <2>3 DEF Current
<1>w. hit => /\ rev' = [rev EXCEPT ![n] =
                           come \intersect (want[n] \union {Exception})]
             /\ map' = [map EXCEPT ![p] = @ \ {n}]
             /\ pc' = [pc EXCEPT ![n] = "ready"]
             /\ by' = [by EXCEPT ![n] = "event"]
  BY <1>f, <1>2, <1>5 DEF Visit, Wake, TypeOK
<1>v. ~hit => UNCHANGED <<rev, map, pc, by>>
  BY <1>5 DEF Visit
<1> HIDE DEF hit
<1>6. /\ \A q \in Proc : \A m \in NetFD :
           m \in map'[q] <=> m \in map[q] /\ (m = n => ~hit)
      /\ \A q \in Proc : q # p => map'[q] = map[q]
      /\ \A m \in NetFD : m # n => pc'[m] = pc[m] /\ by'[m] = by[m]
      /\ hit => pc'[n] = "ready" /\ by'[n] = "event"
      /\ ~hit => pc'[n] = "wait" /\ by'[n] = by[n]
  <2>1. CASE hit
    <3>1. \A q \in Proc : map'[q] = IF q = p THEN map[p] \ {n} ELSE map[q]
      BY <1>0, <1>w, <2>1
    <3>2. /\ \A m \in NetFD : m # n => pc'[m] = pc[m] /\ by'[m] = by[m]
          /\ pc'[n] = "ready" /\ by'[n] = "event"
      BY <1>w, <2>1 DEF TypeOK
    <3> QED
      BY <1>2, <2>1, <3>1, <3>2
  <2>2. CASE ~hit
    BY <1>2, <1>v, <2>2
  <2> QED
    BY <2>1, <2>2
<1>7. TypeOK'
  <2>1. cur' \in [Proc -> Current \union {None}]
    BY <1>0, <1>4
  <2>2. /\ pc' \in [NetFD -> {"run", "wait", "ready"}]
        /\ rev' \in [NetFD -> SUBSET Event]
        /\ map' \in [Proc -> SUBSET NetFD]
        /\ by' \in [NetFD -> {"none", "event", "timer"}]
    <3>1. CASE hit
      <4>1. /\ rev \in [NetFD -> SUBSET Event] /\ Exception \in Event
            /\ pc \in [NetFD -> {"run", "wait", "ready"}]
            /\ by \in [NetFD -> {"none", "event", "timer"}]
        BY DEF TypeOK, Event
      <4> QED
        BY <1>0, <1>w, <3>1, <4>1
    <3>2. CASE ~hit
      BY <1>v, <3>2 DEF TypeOK
    <3> QED
      BY <3>1, <3>2
  <2> QED
    BY <1>1, <2>1, <2>2 DEF TypeOK
<1>8. MapInv'
  BY <1>1, <1>2, <1>6 DEF MapInv
<1>9. LoopInv'
  <2>1. \A m \in cur'[p].left : m \in map'[p] /\ FdOf[m] = f
    <3>1. \A m \in cur[p].left : m \in map[p] /\ FdOf[m] = f /\ m \in NetFD
      BY <1>f, <1>0, <1>1 DEF LoopInv
    <3> QED
      BY <1>4, <1>6, <3>1
  <2>3. \A x \in todo[p] : x[1] # f
    BY <1>f, <1>1 DEF LoopInv
  <2> QED
    BY <1>1, <1>4, <1>6, <2>1, <2>3 DEF LoopInv
<1>10. CoverInv'
  <2> SUFFICES ASSUME NEW q \in Proc, NEW m \in map'[q], NEW d \in want[m]
               PROVE  IF cur'[q] # None /\ cur'[q].fd = FdOf[m]
                      THEN \/ m \in cur'[q].left
                           \/ d \in cur'[q].mod /\ d \notin cur'[q].come
                      ELSE d \in reg[q][FdOf[m]]
    BY <1>1 DEF CoverInv
  <2>1. m \in NetFD /\ m \in map[q] /\ (m = n => ~hit)
    BY <1>6, <1>7 DEF TypeOK
  <2>2. CASE m = n
    BY <1>2, <1>3, <1>4, <2>1, <2>2 DEF hit
  <2>3. CASE m # n /\ q = p
    BY <1>f, <1>1, <1>4, <2>1, <2>3 DEF CoverInv
  <2>4. CASE q # p
    BY <1>4, <2>1, <2>4 DEF CoverInv
  <2> QED
    BY <2>2, <2>3, <2>4
<1>11. ExactInv'
  <2>1. ASSUME NEW q \in Proc, NEW g \in Fd, NEW d \in {In, Out},
               Awaited(q, g, d),
               q # p \/ g # f \/ d # e \/ ~hit
        PROVE  Awaited(q, g, d)'
    <3>1. PICK m \in map[q] : FdOf[m] = g /\ d \in want[m]
      BY <2>1 DEF Awaited
    <3>2. m = n => ~hit
      BY <1>2, <1>3, <2>1, <3>1
    <3>3. m \in NetFD
      BY <1>0, <3>1
    <3>4. m \in map'[q]
      BY <1>6, <3>1, <3>2, <3>3
    <3> QED
      BY <1>1, <3>1, <3>4 DEF Awaited
  <2>2. Awaited(p, f, e)
    BY <1>2, <1>3 DEF Awaited
  <2>3. ASSUME build # "errors", NEW d \in {In, Out},
               d \in cur'[p].mod, d \notin come
        PROVE  Awaited(p, f, d)'
    <3>1. Exception \notin come
      BY <1>f, <1>1, <2>3 DEF ExactInv
    <3>3. Awaited(p, f, d)
      BY <1>f, <1>1, <1>4, <2>2, <2>3 DEF ExactInv
    <3>4. d # e \/ ~hit
      BY <2>3, <3>1 DEF hit
    <3> QED
      BY <2>1, <3>3, <3>4
  <2>4. ASSUME build # "errors", NEW q \in Proc, NEW g \in Fd,
               NEW d \in {In, Out}
        PROVE  IF cur'[q] # None /\ cur'[q].fd = g
               THEN d \in cur'[q].mod /\ d \notin cur'[q].come
                      => Awaited(q, g, d)'
               ELSE d \in reg[q][g] => Awaited(q, g, d)'
    <3>1. CASE q = p /\ g = f
      BY <1>4, <2>3, <2>4, <3>1
    <3>2. CASE q = p /\ g # f
      BY <1>f, <1>1, <1>4, <2>1, <2>4, <3>2 DEF ExactInv
    <3>3. CASE q # p
      BY <1>4, <2>1, <2>4, <3>3 DEF ExactInv
    <3> QED
      BY <3>1, <3>2, <3>3
  <2>5. build # "errors" => \A q \in Proc :
          /\ \A x \in todo[q] : Exception \notin x[2]
          /\ cur'[q] # None => Exception \notin cur'[q].come
    BY <1>f, <1>1, <1>4 DEF ExactInv
  <2> QED
    BY <1>1, <2>4, <2>5 DEF ExactInv, ModeStep
<1>12. CountInv'
  <2>1. \A q \in Proc : Counted(q)' = Counted(q)
    BY <1>f, <1>1, <1>4 DEF Counted
  <2> QED
    BY <1>1, <2>1 DEF CountInv, ModeStep
<1>13. TimerInv'
  <2>1. ASSUME NEW x \in armed
        PROVE  /\ timer[x[1]] = x[2]
               /\ \/ x[1] \in map'[x[2]]
                  \/ cur'[x[2]] # None /\ cur'[x[2]].stop = x[1]
    <3>1. x[1] \in NetFD /\ x[2] \in Proc
      BY DEF TypeOK
    <3>2. CASE x[1] = n
      BY <1>0, <1>1, <1>2, <1>4, <1>6, <3>1, <3>2 DEF TimerInv
    <3>3. CASE x[1] # n
      BY <1>0, <1>1, <1>4, <1>6, <3>1, <3>3 DEF TimerInv
    <3> QED
      BY <3>2, <3>3
  <2>2. ASSUME NEW m \in NetFD, pc'[m] = "ready", timer[m] # None
        PROVE  \/ by'[m] = "timer"
               \/ \E q \in Proc : cur'[q] # None /\ cur'[q].stop = m
    BY <1>0, <1>1, <1>4, <1>6, <2>2 DEF TimerInv
  <2> QED
    BY <1>1, <2>1, <2>2 DEF TimerInv
<1>14. ModeInv'
  <2>1. build # "steal" => p = p1
    BY <1>1 DEF ModeInv
  <2> QED
    BY <1>1, <1>4, <2>1 DEF ModeInv, ModeStep
<1>15. TimeoutIsReal'
  BY <1>1, <1>6 DEF TimeoutIsReal
<1> QED
  BY <1>7, <1>8, <1>9, <1>10, <1>11, <1>12, <1>13, <1>14, <1>15

\* StopTimer: no timer is left of the task that WaitLoop has woken.
LEMMA EStopTimer ==
    ASSUME EInv, ModeStep, NEW p \in Proc, StopTimer(p)
    PROVE  EInv'
<1> USE DEF EInv, epollvars
<1>0. /\ cur \in [Proc -> Current \union {None}]
      /\ None \notin NetFD \union Current
      /\ armed \in SUBSET (NetFD \X Proc)
      /\ timer \in [NetFD -> Proc \union {None}]
  BY EpollAssumption DEF TypeOK
<1>1. PICK n \in NetFD : cur[p].stop = n
  BY <1>0 DEF StopTimer, Current
<1>2. /\ cur[p] # None /\ cur[p] \in Current
      /\ armed' = armed \ {<<n, timer[n]>>}
      /\ timer' = [timer EXCEPT ![n] = None]
      /\ cur' = [cur EXCEPT ![p].stop = None]
      /\ UNCHANGED <<at, pc, want, rev, map, reg, cnt, size, active, todo, by,
                     res>>
  BY <1>0, <1>1 DEF StopTimer
<1>3. /\ cur'[p] \in Current /\ cur'[p].stop = None
      /\ cur'[p].fd = cur[p].fd /\ cur'[p].come = cur[p].come
      /\ cur'[p].mod = cur[p].mod /\ cur'[p].left = cur[p].left
      /\ cur' = [cur EXCEPT ![p] = cur'[p]]
      /\ \A q \in Proc : q # p => cur'[q] = cur[q]
  BY <1>0, <1>2 DEF Current
<1>4. cur'[p] # None /\ \A q \in Proc : cur'[q] # None <=> cur[q] # None
  BY <1>0, <1>2, <1>3
<1>5. TypeOK'
  BY <1>0, <1>2, <1>3 DEF TypeOK
<1>6. MapInv' /\ TimeoutIsReal'
  BY <1>2 DEF MapInv, TimeoutIsReal
<1>7. LoopInv'
  BY <1>2, <1>3, <1>4 DEF LoopInv
<1>8. CoverInv'
  BY <1>2, <1>3, <1>4 DEF CoverInv
<1>9. ExactInv'
  BY <1>2, <1>3, <1>4 DEF ExactInv, Awaited, ModeStep
<1>10. CountInv'
  <2>1. \A q \in Proc : Counted(q)' = Counted(q)
    BY <1>2, <1>3, <1>4 DEF Counted
  <2> QED
    BY <1>2, <2>1 DEF CountInv, ModeStep
<1>11. TimerInv'
  <2>1. ASSUME NEW x \in armed'
        PROVE  /\ timer'[x[1]] = x[2]
               /\ \/ x[1] \in map[x[2]]
                  \/ cur'[x[2]] # None /\ cur'[x[2]].stop = x[1]
    <3>1. /\ x \in armed /\ x # <<n, timer[n]>> /\ x = <<x[1], x[2]>>
          /\ x[1] \in NetFD /\ x[2] \in Proc
      BY <1>0, <1>2
    <3>2. x[1] # n /\ timer[x[1]] = x[2]
      BY <3>1 DEF TimerInv
    <3> QED
      BY <1>0, <1>1, <1>2, <1>3, <1>4, <3>1, <3>2 DEF TimerInv
  <2>2. ASSUME NEW m \in NetFD, pc[m] = "ready", timer'[m] # None
        PROVE  \/ by[m] = "timer"
               \/ \E q \in Proc : cur'[q] # None /\ cur'[q].stop = m
    <3>1. m # n /\ timer[m] # None
      BY <1>0, <1>2, <2>2
    <3> QED
      BY <1>1, <1>3, <1>4, <2>2, <3>1 DEF TimerInv
  <2> QED
    BY <1>2, <2>1, <2>2 DEF TimerInv
<1>12. ModeInv'
  <2>1. build # "steal" => p = p1
    BY <1>2 DEF ModeInv
  <2>2. build = "steal" => armed' = {} /\ \A m \in NetFD : timer'[m] = None
    BY <1>0, <1>2 DEF ModeInv
  <2> QED
    BY <1>2, <1>3, <2>1, <2>2 DEF ModeInv, ModeStep
<1> QED
  BY <1>5, <1>6, <1>7, <1>8, <1>9, <1>10, <1>11, <1>12

\* WaitLoop is done with an fd and registers it for what has not come.
LEMMA EEventDone ==
    ASSUME EInv, ModeStep, NEW p \in Proc, EventDone(p)
    PROVE  EInv'
<1> USE DEF EInv, epollvars
<1>0. /\ reg \in [Proc -> [Fd -> SUBSET {In, Out}]]
      /\ map \in [Proc -> SUBSET NetFD]
      /\ cnt \in [Proc -> Nat] /\ want \in [NetFD -> SUBSET {In, Out}]
      /\ cur \in [Proc -> Current \union {None}]
      /\ FdOf \in [NetFD -> Fd] /\ IsFiniteSet(Fd)
      /\ None \notin NetFD \union Current
  BY EpollAssumption DEF TypeOK
<1>1. /\ cur[p] # None /\ cur[p].stop = None /\ cur[p].left = {}
      /\ cur[p] \in Current
  BY <1>0 DEF EventDone
<1>2. PICK f \in Fd, mod \in SUBSET {In, Out} :
        f = cur[p].fd /\ mod = cur[p].mod \ cur[p].come
  BY <1>1 DEF Current
<1>3. /\ reg' = [reg EXCEPT ![p][f] = mod]
      /\ cnt' = [cnt EXCEPT ![p] = IF mod = {} THEN @ - 1 ELSE @]
      /\ cur' = [cur EXCEPT ![p] = None]
      /\ UNCHANGED <<at, pc, want, rev, timer, armed, map, size, active, todo,
                     by, res>>
  BY <1>2 DEF EventDone
<1>4. /\ reg'[p][f] = mod
      /\ \A q \in Proc, g \in Fd : q # p \/ g # f => reg'[q][g] = reg[q][g]
      /\ cur'[p] = None /\ \A q \in Proc : q # p => cur'[q] = cur[q]
  BY <1>0, <1>3
<1>5. CountInv' /\ cnt' \in [Proc -> Nat]
  <2>1. \A q \in Proc \ {p} : Counted(q)' = Counted(q) /\ cnt'[q] = cnt[q]
    BY <1>0, <1>3, <1>4 DEF Counted
  <2>2. Counted(p)' = IF mod = {} THEN Counted(p) \ {f} ELSE Counted(p)
    BY <1>1, <1>2, <1>4 DEF Counted
  <2>3. f \in Counted(p)
    BY <1>1, <1>2 DEF Counted
  <2>4. IsFiniteSet(Counted(p))
    BY <1>0, FS_Subset DEF Counted
  <2>5. /\ Cardinality(Counted(p)) \in Nat
        /\ Cardinality(Counted(p) \ {f}) \in Nat
        /\ Cardinality(Counted(p) \ {f}) = Cardinality(Counted(p)) - 1
    BY <2>3, <2>4, FS_RemoveElement, FS_CardinalityType
  <2>6. cnt'[p] = IF mod = {} THEN cnt[p] - 1 ELSE cnt[p]
    BY <1>0, <1>3
  <2>7. /\ cnt'[p] >= Cardinality(Counted(p)')
        /\ build # "errors" => cnt'[p] = Cardinality(Counted(p)')
        /\ cnt'[p] \in Nat
    BY <1>0, <2>2, <2>5, <2>6 DEF CountInv
  <2>8. CountInv'
    BY <2>1, <2>7 DEF CountInv, ModeStep
  <2> QED
    BY <1>0, <1>3, <2>7, <2>8
<1>6. TypeOK'
  BY <1>0, <1>3, <1>5 DEF TypeOK
<1>7. MapInv' /\ TimeoutIsReal'
  BY <1>3 DEF MapInv, TimeoutIsReal
<1>8. LoopInv'
  <2>1. \A q \in Proc : \A x \in todo[q] : x[1] \in Fd
    BY DEF TypeOK
  <2>2. \A x \in todo[p] : x[1] # f
    BY <1>1, <1>2 DEF LoopInv
  <2> QED
    BY <1>3, <1>4, <2>1, <2>2 DEF LoopInv
<1>9. CoverInv'
  <2> SUFFICES ASSUME NEW q \in Proc, NEW m \in map[q], NEW d \in want[m]
               PROVE  IF cur'[q] # None /\ cur'[q].fd = FdOf[m]
                      THEN \/ m \in cur'[q].left
                           \/ d \in cur'[q].mod /\ d \notin cur'[q].come
                      ELSE d \in reg'[q][FdOf[m]]
    BY <1>3 DEF CoverInv
  <2>1. FdOf[m] \in Fd
    BY <1>0
  <2>2. CASE q = p /\ FdOf[m] = f
    BY <1>1, <1>2, <1>4, <2>2 DEF CoverInv
  <2>3. CASE q = p /\ FdOf[m] # f
    BY <1>1, <1>2, <1>4, <2>1, <2>3 DEF CoverInv
  <2>4. CASE q # p
    BY <1>4, <2>1, <2>4 DEF CoverInv
  <2> QED
    BY <2>2, <2>3, <2>4
<1>10. ExactInv'
  <2>1. ASSUME NEW q \in Proc, NEW g \in Fd, NEW d \in {In, Out}
        PROVE  Awaited(q, g, d)' <=> Awaited(q, g, d)
    BY <1>3 DEF Awaited
  <2>2. ASSUME build # "errors", NEW q \in Proc, NEW g \in Fd,
               NEW d \in {In, Out}
        PROVE  IF cur'[q] # None /\ cur'[q].fd = g
               THEN d \in cur'[q].mod /\ d \notin cur'[q].come
                      => Awaited(q, g, d)
               ELSE d \in reg'[q][g] => Awaited(q, g, d)
    <3>1. CASE q = p
      BY <1>1, <1>2, <1>4, <2>2, <3>1 DEF ExactInv
    <3>2. CASE q # p
      BY <1>4, <2>2, <3>2 DEF ExactInv
    <3> QED
      BY <3>1, <3>2
  <2>3. build # "errors" => \A q \in Proc :
          /\ \A x \in todo[q] : Exception \notin x[2]
          /\ cur'[q] # None => Exception \notin cur'[q].come
    BY <1>1, <1>4 DEF ExactInv
  <2> QED
    BY <1>3, <2>1, <2>2, <2>3 DEF ExactInv, ModeStep
<1>11. TimerInv'
  <2>1. \A x \in armed : x[1] \in NetFD /\ x[2] \in Proc
    BY DEF TypeOK
  <2> QED
    BY <1>0, <1>1, <1>3, <1>4, <2>1 DEF TimerInv
<1>12. ModeInv'
  <2>1. build # "steal" => p = p1
    BY <1>1 DEF ModeInv
  <2> QED
    BY <1>3, <1>4, <2>1 DEF ModeInv, ModeStep
<1> QED
  BY <1>5, <1>6, <1>7, <1>8, <1>9, <1>10, <1>11, <1>12

\* Every step of the epoll version in one of its uses preserves EInv, so do
\* those of the select version.
LEMMA EStep == EInv /\ [MCNext]_mcVars => EInv'
<1> SUFFICES ASSUME EInv, [MCNext]_mcVars PROVE EInv'
  OBVIOUS
<1>1. CASE Epoll
  <2>1. Next /\ ModeStep
    BY <1>1 DEF Epoll, ModeStep, NoErrors
  <2>2. CASE \E p \in Proc : WaitLoop(p) \/ \E n \in NetFD : Timeout(n, p)
    BY <2>1, <2>2, EEpollWait, ENextEvent, EStopTimer, EEventDone, EVisit,
       ETimeout DEF WaitLoop
  <2>3. CASE \E n \in NetFD : User(n) \/ PollReturns(n)
    <3>1. \A n \in NetFD : /\ Uses[n] \subseteq {In, Out}
                           /\ Timeouts \subseteq BOOLEAN
      BY EpollAssumption
    <3> QED
      BY <2>1, <2>3, <3>1, EPollFails, EPoll, EConsume, EClose, EPollReturns
         DEF User
  <2>4. CASE \E n \in NetFD, q \in Proc : Steal(n, q)
    BY <2>1, <2>4, ESteal
  <2>5. CASE \E f \in Fd, e \in Event : Occurs(f, e)
    BY <2>1, <2>5, EOccurs
  <2> QED
    BY <2>1, <2>2, <2>3, <2>4, <2>5 DEF Next
<1>2. CASE UNCHANGED <<build, vars>>
  <2>1. TypeOK' /\ MapInv' /\ TimeoutIsReal'
    BY <1>2 DEF vars, epollvars, EInv, TypeOK, MapInv, TimeoutIsReal
  <2>2. LoopInv' /\ CoverInv' /\ ExactInv'
    BY <1>2 DEF vars, epollvars, EInv, LoopInv, CoverInv, ExactInv, Awaited
  <2>3. CountInv' /\ TimerInv' /\ ModeInv'
    BY <1>2 DEF vars, epollvars, EInv, CountInv, Counted, TimerInv, ModeInv
  <2> QED
    BY <2>1, <2>2, <2>3 DEF EInv
<1> QED
  BY <1>1, <1>2 DEF MCNext, Select, mcVars

\* With the fds that WaitLoop is at left out, EInv is what the run checks.
LEMMA ESafe == EInv => /\ WaitersReached
                       /\ build # "errors" => InterestIsExact
<1> SUFFICES ASSUME EInv PROVE /\ WaitersReached
                               /\ build # "errors" => InterestIsExact
  OBVIOUS
<1> USE DEF EInv
<1>1. WaitersInMap
  BY DEF WaitersInMap, MapInv, TimerInv, TypeOK, Runs
<1>2. InterestCovers
  BY DEF InterestCovers, CoverInv, Runs
<1>3. ASSUME build # "errors", NEW p \in Proc, Runs(p)
      PROVE  /\ \A f \in Fd : reg[p][f] = Wanted(Sharing(p, f))
             /\ cnt[p] = Cardinality({f \in Fd : reg[p][f] # {}})
  <2>1. cur[p] = None
    BY <1>3 DEF Runs
  <2>2. ASSUME NEW f \in Fd PROVE reg[p][f] = Wanted(Sharing(p, f))
    <3>1. /\ reg[p][f] \subseteq {In, Out}
          /\ \A n \in map[p] : n \in NetFD /\ want[n] \subseteq {In, Out}
      BY DEF TypeOK
    <3>2. \A d : d \in Wanted(Sharing(p, f)) <=> Awaited(p, f, d)
      BY DEF Wanted, Sharing, Awaited
    <3>3. \A d \in {In, Out} : d \in reg[p][f] => Awaited(p, f, d)
      BY <1>3, <2>1 DEF ExactInv
    <3>4. \A d : Awaited(p, f, d) => d \in reg[p][f]
      BY <2>1 DEF CoverInv, Awaited
    <3> QED
      BY <3>1, <3>2, <3>3, <3>4
  <2>3. Counted(p) = {f \in Fd : reg[p][f] # {}}
    BY <2>1 DEF Counted
  <2> QED
    BY <1>3, <2>2, <2>3 DEF CountInv
<1>4. ASSUME build # "errors", NEW p \in Proc, NEW x \in todo[p]
      PROVE  Sharing(p, x[1]) # {}
  <2>1. x[1] \in Fd /\ reg[p][x[1]] # {} /\ reg[p][x[1]] \subseteq {In, Out}
    BY DEF TypeOK, LoopInv
  <2>2. ~ (cur[p] # None /\ cur[p].fd = x[1])
    BY DEF LoopInv
  <2>3. PICK e \in {In, Out} : e \in reg[p][x[1]]
    BY <2>1
  <2>4. Awaited(p, x[1], e)
    BY <1>4, <2>1, <2>2, <2>3 DEF ExactInv
  <2> QED
    BY <2>4 DEF Awaited, Sharing
<1> QED
  BY <1>1, <1>2, <1>3, <1>4 DEF WaitersReached, InterestIsExact, ReportsFindTasks

-----------------------------------------------------------------------------
(* The select version.                                                     *)

\* What osfd.events, revents and owner_task are, told from where a task is.
PollInv ==
    \A n \in SelectNetFD :
      /\ spc[n] = "wait" => swant[n] = {sasked[n]}
      /\ spc[n] # "ready" => srev[n] = {}
      /\ spc[n] = "run" => n \notin stimer
      /\ spc[n] = "run" /\ n \notin sowner => swant[n] = {}
      /\ spc[n] # "run" => n \in sowner
      /\ spc[n] = "ready" /\ n \notin stimer => swant[n] = {}

\* An fd is in a set for a task that waits; one that is missing is WaitLoop's to
\* wake, for its event was in what select returned.
SetInv ==
    /\ sleft \subseteq smap
    /\ \A e \in S!Event : \A f \in sset[e] :
         \E m \in smap : SelectFdOf[m] = f /\ e \in swant[m]
    /\ \A m \in smap : \A e \in swant[m] :
         \/ SelectFdOf[m] \in sset[e]
         \/ m \in sleft /\ SelectFdOf[m] \in sgot[e]
    /\ sleft # {} => \A m \in smap \ sleft : \A e \in swant[m] :
                       SelectFdOf[m] \notin sgot[e]

SInv ==
    /\ PollInv /\ SetInv
    /\ SelectAnswers

\* Nobody waits and the sets are empty.
LEMMA SInitial == MCInit => SInv
<1> SUFFICES ASSUME MCInit PROVE SInv
  OBVIOUS
<1> USE DEF MCInit, S!Init
<1>1. S!TypeOK
  BY DEF S!TypeOK, S!Event, S!In
<1>2. PollInv /\ SetInv
  BY DEF PollInv, SetInv
<1>3. S!AnswersTheQuestion /\ S!OwnedAfterTimeout
  BY DEF S!AnswersTheQuestion, S!OwnedAfterTimeout
<1> QED
  BY <1>1, <1>2, <1>3 DEF SInv, SelectAnswers

\* Poll: the only event of the NetFD is the one asked for.
LEMMA SPoll ==
    ASSUME SInv, NEW n \in SelectNetFD, NEW e \in S!Event,
           NEW timed \in BOOLEAN, S!Poll(n, e, timed)
    PROVE  SInv'
<1> USE DEF SInv, SelectAnswers
<1> DEFINE f == SelectFdOf[n]
<1>0. /\ f \in SelectFd /\ SelectFdOf \in [SelectNetFD -> SelectFd]
      /\ spc \in [SelectNetFD -> {"run", "wait", "ready"}]
      /\ swant \in [SelectNetFD -> SUBSET S!Event]
      /\ srev \in [SelectNetFD -> SUBSET S!Event]
      /\ sset \in [S!Event -> SUBSET SelectFd]
      /\ smap = {m \in SelectNetFD : spc[m] = "wait"}
      /\ sasked \in [SelectNetFD -> S!Event]
  BY SelectAssumption DEF S!TypeOK
<1>1. /\ spc[n] = "run" /\ n \notin sowner /\ sleft = {}
      /\ sowner' = sowner \union {n} /\ smap' = smap \union {n}
      /\ stimer' = IF timed THEN stimer \union {n} ELSE stimer
      /\ sasked' = [sasked EXCEPT ![n] = e]
      /\ spc' = [spc EXCEPT ![n] = "wait"]
      /\ UNCHANGED <<srev, sactive, sgot, sleft, sres, sexited>>
  BY DEF S!Poll, S!Runs
<1>2. swant' = [swant EXCEPT ![n] = {e}]
  BY <1>0, <1>1 DEF S!Poll, PollInv
<1>3. sset' = [x \in S!Event |-> IF x = e THEN sset[x] \union {f} ELSE sset[x]]
  BY <1>0, <1>2 DEF S!Poll
<1> HIDE DEF f
<1>4. /\ spc'[n] = "wait" /\ swant'[n] = {e} /\ sasked'[n] = e
      /\ \A m \in SelectNetFD : m # n =>
           spc'[m] = spc[m] /\ swant'[m] = swant[m] /\ sasked'[m] = sasked[m]
  BY <1>0, <1>1, <1>2
<1>5. S!TypeOK'
  <2>1. smap' = {m \in SelectNetFD : spc'[m] = "wait"}
    BY <1>0, <1>1, <1>4
  <2> QED
    BY <1>0, <1>1, <1>2, <1>3, <2>1 DEF S!TypeOK
<1>6. PollInv'
  BY <1>1, <1>4 DEF PollInv
<1>7. SetInv'
  <2>1. n \notin smap
    BY <1>0, <1>1
  <2>2. \A m \in smap : m \in SelectNetFD
    BY <1>0
  <2>3. f = SelectFdOf[n]
    BY DEF f
  <2>4. \A d \in S!Event : \A g \in sset'[d] :
          \E m \in smap' : SelectFdOf[m] = g /\ d \in swant'[m]
    BY <1>1, <1>3, <1>4, <2>1, <2>2, <2>3 DEF SetInv
  <2>5. \A m \in smap' : \A d \in swant'[m] : SelectFdOf[m] \in sset'[d]
    BY <1>0, <1>1, <1>3, <1>4, <2>1, <2>2, <2>3 DEF SetInv
  <2> QED
    BY <1>1, <2>4, <2>5 DEF SetInv
<1>8. S!AnswersTheQuestion' /\ S!OwnedAfterTimeout'
  BY <1>1, <1>4 DEF S!AnswersTheQuestion, S!OwnedAfterTimeout, S!TypeOK
<1> QED
  BY <1>5, <1>6, <1>7, <1>8

\* Behind CoSwitch; only a timeout leaves owner_task set.
LEMMA SPollReturns ==
    ASSUME SInv, NEW n \in SelectNetFD, S!PollReturns(n)
    PROVE  SInv'
<1> USE DEF SInv, SelectAnswers
<1>0. /\ spc \in [SelectNetFD -> {"run", "wait", "ready"}]
      /\ srev \in [SelectNetFD -> SUBSET S!Event]
      /\ sres \in [SelectNetFD -> {"none", "ok", "error", "timeout"}]
      /\ smap = {m \in SelectNetFD : spc[m] = "wait"}
  BY DEF S!TypeOK
<1>1. /\ spc[n] = "ready" /\ sleft = {}
      /\ spc' = [spc EXCEPT ![n] = "run"]
      /\ srev' = [srev EXCEPT ![n] = {}]
      /\ sres' = [sres EXCEPT ![n] = IF n \in stimer THEN "timeout" ELSE "ok"]
      /\ sowner' = IF n \in stimer THEN sowner ELSE sowner \ {n}
      /\ stimer' = stimer \ {n}
      /\ UNCHANGED <<swant, smap, sset, smaxfd, sactive, sgot, sleft, sasked,
                     sexited>>
  BY DEF S!PollReturns, S!Runs
<1>2. /\ spc'[n] = "run" /\ srev'[n] = {}
      /\ n \in stimer => sres'[n] = "timeout"
      /\ \A m \in SelectNetFD : m # n =>
           spc'[m] = spc[m] /\ srev'[m] = srev[m] /\ sres'[m] = sres[m]
  BY <1>0, <1>1
<1>3. S!TypeOK'
  <2>1. smap' = {m \in SelectNetFD : spc'[m] = "wait"}
    BY <1>0, <1>1, <1>2
  <2> QED
    BY <1>0, <1>1, <2>1 DEF S!TypeOK
<1>4. PollInv'
  BY <1>1, <1>2 DEF PollInv
<1>5. SetInv'
  BY <1>1 DEF SetInv
<1>6. S!AnswersTheQuestion' /\ S!OwnedAfterTimeout'
  BY <1>1, <1>2 DEF S!AnswersTheQuestion, S!OwnedAfterTimeout, S!TypeOK
<1> QED
  BY <1>3, <1>4, <1>5, <1>6

\* The timer's callback: the fd stays in the set when another NetFD of it waits
\* for the event.
LEMMA STimeout ==
    ASSUME SInv, NEW n \in SelectNetFD, S!Timeout(n)
    PROVE  SInv'
<1> USE DEF SInv, SelectAnswers
<1> DEFINE others == {m \in smap \ {n} : SelectFdOf[m] = SelectFdOf[n]}
           e == sasked[n]
<1>0. /\ spc \in [SelectNetFD -> {"run", "wait", "ready"}]
      /\ swant \in [SelectNetFD -> SUBSET S!Event]
      /\ sset \in [S!Event -> SUBSET SelectFd]
      /\ smap = {m \in SelectNetFD : spc[m] = "wait"}
      /\ sasked \in [SelectNetFD -> S!Event]
  BY DEF S!TypeOK
<1>1. /\ n \in stimer /\ spc[n] = "wait" /\ sleft = {} /\ smap' = smap \ {n}
      /\ spc' = [spc EXCEPT ![n] = "ready"]
      /\ UNCHANGED <<srev, sowner, stimer, smaxfd, sactive, sgot, sleft, sres,
                     sasked, sexited>>
  BY DEF S!Timeout, S!Runs
<1>2. swant[n] = {e} /\ e \in S!Event
  BY <1>0, <1>1 DEF PollInv
<1>3. \/ /\ \A m \in smap : m # n /\ SelectFdOf[m] = SelectFdOf[n]
                              => e \notin swant[m]
         /\ sset' = [d \in S!Event |-> IF d = e THEN sset[d] \ {SelectFdOf[n]}
                                       ELSE sset[d]]
         /\ swant' = [swant EXCEPT ![n] = {}]
      \/ /\ \E m \in smap : /\ m # n /\ SelectFdOf[m] = SelectFdOf[n]
                            /\ e \in swant[m]
         /\ UNCHANGED <<sset, swant>>
  <2>1. CASE swant[n] \intersect UNION {swant[m] : m \in others} = {}
    <3>1. \A m \in others : e \notin swant[m]
      BY <1>2, <2>1
    <3>2. S!PollsetDel(n, swant[n])
      BY <2>1 DEF S!Timeout
    <3> QED
      BY <1>0, <1>2, <3>1, <3>2 DEF S!PollsetDel
  <2>2. CASE swant[n] \intersect UNION {swant[m] : m \in others} # {}
    <3>1. \E m \in others : e \in swant[m]
      BY <1>2, <2>2
    <3>2. UNCHANGED <<sset, swant>>
      BY <2>2 DEF S!Timeout
    <3> QED
      BY <3>1, <3>2
  <2> QED
    BY <2>1, <2>2
<1> HIDE DEF others, e
<1>4. /\ spc'[n] = "ready" /\ swant'[n] \in SUBSET S!Event
      /\ \A m \in SelectNetFD : m # n => spc'[m] = spc[m] /\ swant'[m] = swant[m]
  BY <1>0, <1>1, <1>3
<1>5. S!TypeOK'
  <2>1. smap' = {m \in SelectNetFD : spc'[m] = "wait"}
    BY <1>0, <1>1, <1>4
  <2>2. /\ swant' \in [SelectNetFD -> SUBSET S!Event]
        /\ sset' \in [S!Event -> SUBSET SelectFd]
    BY <1>0, <1>3
  <2> QED
    BY <1>0, <1>1, <2>1, <2>2 DEF S!TypeOK
<1>6. PollInv'
  BY <1>1, <1>4 DEF PollInv
<1>7. SetInv'
  <2>1. \A m \in smap' : m \in smap /\ m # n /\ m \in SelectNetFD
    BY <1>0, <1>1
  <2>2. ASSUME NEW d \in S!Event, NEW g \in sset'[d]
        PROVE  \E m \in smap' : SelectFdOf[m] = g /\ d \in swant'[m]
    <3>1. g \in sset[d]
      BY <1>3
    <3>2. PICK m \in smap : SelectFdOf[m] = g /\ d \in swant[m]
      BY <3>1 DEF SetInv
    <3>3. CASE m # n
      BY <1>0, <1>1, <1>4, <3>2, <3>3
    <3>4. CASE m = n
      <4>1. d = e /\ g = SelectFdOf[n]
        BY <1>2, <3>2, <3>4
      <4>2. \E k \in smap : k # n /\ SelectFdOf[k] = g /\ d \in swant[k]
        BY <1>3, <2>2, <4>1
      <4> QED
        BY <1>0, <1>1, <1>4, <4>2
    <3> QED
      BY <3>3, <3>4
  <2>3. ASSUME NEW m \in smap', NEW d \in swant'[m]
        PROVE  SelectFdOf[m] \in sset'[d]
    <3>1. d \in swant[m] /\ d \in S!Event
      BY <1>0, <1>4, <2>1
    <3>2. SelectFdOf[m] \in sset[d]
      BY <1>1, <2>1, <3>1 DEF SetInv
    <3> QED
      BY <1>3, <2>1, <3>1, <3>2
  <2> QED
    BY <1>1, <2>2, <2>3 DEF SetInv
<1>8. S!AnswersTheQuestion' /\ S!OwnedAfterTimeout'
  BY <1>1, <1>4 DEF S!AnswersTheQuestion, S!OwnedAfterTimeout, S!TypeOK
<1> QED
  BY <1>5, <1>6, <1>7, <1>8

\* select returns: all tasks in fd_map are WaitLoop's to look at.
LEMMA SSelect ==
    ASSUME SInv, S!Select
    PROVE  SInv'
<1> USE DEF SInv, SelectAnswers
<1>1. /\ sleft = {} /\ sleft' = smap
      /\ sgot' \in [S!Event -> SUBSET SelectFd]
      /\ UNCHANGED <<spc, swant, srev, sowner, stimer, smap, sset, smaxfd,
                     sactive, sres, sasked, sexited>>
  BY DEF S!Select, S!Runs, S!TypeOK
<1>2. S!TypeOK'
  BY <1>1 DEF S!TypeOK
<1>3. PollInv' /\ SetInv'
  BY <1>1 DEF PollInv, SetInv
<1>4. S!AnswersTheQuestion' /\ S!OwnedAfterTimeout'
  BY <1>1 DEF S!AnswersTheQuestion, S!OwnedAfterTimeout
<1> QED
  BY <1>2, <1>3, <1>4

\* WaitLoop passes over a task whose fd select did not report.
LEMMA SVisitPasses ==
    ASSUME SInv, NEW n \in SelectNetFD, S!VisitPasses(n)
    PROVE  SInv'
<1> USE DEF SInv, SelectAnswers
<1>0. /\ smap = {m \in SelectNetFD : spc[m] = "wait"}
      /\ swant \in [SelectNetFD -> SUBSET S!Event]
      /\ srev \in [SelectNetFD -> SUBSET S!Event]
  BY DEF S!TypeOK
<1>1. /\ n \in sleft /\ sleft' = sleft \ {n}
      /\ UNCHANGED <<spc, swant, sowner, stimer, smap, sset, smaxfd, sactive,
                     sgot, sres, sasked, sexited>>
  BY DEF S!VisitPasses
<1>2. n \in smap /\ srev[n] = {}
  BY <1>0, <1>1 DEF SetInv, PollInv
<1>3. \A e \in swant[n] : SelectFdOf[n] \notin sgot[e]
  BY <1>2 DEF S!VisitPasses, S!Come
<1>4. srev' = srev
  BY <1>0, <1>2, <1>3 DEF S!VisitPasses, S!Come
<1>5. S!TypeOK'
  BY <1>1, <1>4 DEF S!TypeOK
<1>6. PollInv' /\ S!AnswersTheQuestion' /\ S!OwnedAfterTimeout'
  BY <1>1, <1>4 DEF PollInv, S!AnswersTheQuestion, S!OwnedAfterTimeout
<1>7. SetInv'
  BY <1>1, <1>3 DEF SetInv
<1> QED
  BY <1>5, <1>6, <1>7

\* A task is woken for the event it asked for; the others of the fd that wait for
\* the same event are WaitLoop's to wake too.
LEMMA SVisitWakes ==
    ASSUME SInv, NEW n \in SelectNetFD, S!VisitWakes(n)
    PROVE  SInv'
<1> USE DEF SInv, SelectAnswers
<1>0. /\ smap = {m \in SelectNetFD : spc[m] = "wait"}
      /\ spc \in [SelectNetFD -> {"run", "wait", "ready"}]
      /\ swant \in [SelectNetFD -> SUBSET S!Event]
      /\ srev \in [SelectNetFD -> SUBSET S!Event]
      /\ sset \in [S!Event -> SUBSET SelectFd]
      /\ sasked \in [SelectNetFD -> S!Event]
  BY DEF S!TypeOK
<1>1. /\ n \in sleft /\ sleft' = sleft \ {n} /\ smap' = smap \ {n}
      /\ stimer' = stimer \ {n}
      /\ spc' = [spc EXCEPT ![n] = "ready"]
      /\ UNCHANGED <<sowner, smaxfd, sactive, sgot, sres, sasked, sexited>>
  BY DEF S!VisitWakes
<1>2. n \in smap /\ spc[n] = "wait" /\ srev[n] = {}
  BY <1>0, <1>1 DEF SetInv, PollInv
<1>3. PICK e \in S!Event : sasked[n] = e /\ swant[n] = {e}
  BY <1>0, <1>2 DEF PollInv
<1>4. S!Come(n) = {e} /\ SelectFdOf[n] \in sgot[e]
  BY <1>2, <1>3 DEF S!VisitWakes, S!Come
<1>5. /\ srev' = [srev EXCEPT ![n] = {e}]
      /\ swant' = [swant EXCEPT ![n] = {}]
      /\ sset' = [d \in S!Event |-> IF d = e THEN sset[d] \ {SelectFdOf[n]}
                                    ELSE sset[d]]
  BY <1>0, <1>3, <1>4 DEF S!VisitWakes, S!PollsetDel
<1>6. /\ spc'[n] = "ready" /\ swant'[n] = {} /\ srev'[n] = {e}
      /\ \A m \in SelectNetFD : m # n =>
           spc'[m] = spc[m] /\ swant'[m] = swant[m] /\ srev'[m] = srev[m]
  BY <1>0, <1>1, <1>5
<1>7. S!TypeOK'
  <2>1. smap' = {m \in SelectNetFD : spc'[m] = "wait"}
    BY <1>0, <1>1, <1>6
  <2> QED
    BY <1>0, <1>1, <1>5, <2>1 DEF S!TypeOK
<1>8. PollInv'
  BY <1>1, <1>2, <1>6 DEF PollInv
<1>9. SetInv'
  <2>1. \A m \in smap' : m \in smap /\ m # n /\ m \in SelectNetFD
    BY <1>0, <1>1
  <2>2. ASSUME NEW d \in S!Event, NEW g \in sset'[d]
        PROVE  \E m \in smap' : SelectFdOf[m] = g /\ d \in swant'[m]
    <3>1. g \in sset[d] /\ (d = e => g # SelectFdOf[n])
      BY <1>5
    <3>2. PICK m \in smap : SelectFdOf[m] = g /\ d \in swant[m]
      BY <3>1 DEF SetInv
    <3>3. m # n
      BY <1>3, <3>1, <3>2
    <3> QED
      BY <1>0, <1>1, <1>6, <3>2, <3>3
  <2>3. ASSUME NEW m \in smap', NEW d \in swant'[m]
        PROVE  /\ \/ SelectFdOf[m] \in sset'[d]
                  \/ m \in sleft' /\ SelectFdOf[m] \in sgot[d]
               /\ sleft' # {} /\ m \notin sleft' => SelectFdOf[m] \notin sgot[d]
    <3>1. d \in swant[m] /\ d \in S!Event
      BY <1>0, <1>6, <2>1
    <3>2. m \notin sleft => SelectFdOf[m] \notin sgot[d]
      BY <1>1, <2>1, <3>1 DEF SetInv
    <3>3. \/ SelectFdOf[m] \in sset[d]
          \/ m \in sleft /\ SelectFdOf[m] \in sgot[d]
      BY <2>1, <3>1 DEF SetInv
    <3>4. d = e /\ SelectFdOf[m] = SelectFdOf[n] => m \in sleft
      BY <1>4, <3>2
    <3> QED
      BY <1>1, <1>4, <1>5, <2>1, <3>1, <3>2, <3>3, <3>4
  <2>4. sleft' \subseteq smap'
    BY <1>1 DEF SetInv
  <2> QED
    BY <1>1, <2>2, <2>3, <2>4 DEF SetInv
<1>10. S!AnswersTheQuestion' /\ S!OwnedAfterTimeout'
  BY <1>1, <1>3, <1>6 DEF S!AnswersTheQuestion, S!OwnedAfterTimeout, S!TypeOK
<1> QED
  BY <1>7, <1>8, <1>9, <1>10

\* The steps that neither wait nor wake: exit(0), a refused Poll, the kernel.
LEMMA SQuiet ==
    ASSUME SInv, S!TypeOK',
           UNCHANGED <<spc, swant, srev, sowner, stimer, smap, sset, sgot,
                       sleft, sasked>>,
           \A n \in sowner : sres'[n] = sres[n]
    PROVE  SInv'
<1> USE DEF SInv, SelectAnswers
<1>1. PollInv' /\ SetInv'
  BY DEF PollInv, SetInv
<1>2. S!AnswersTheQuestion' /\ S!OwnedAfterTimeout'
  BY DEF S!AnswersTheQuestion, S!OwnedAfterTimeout
<1> QED
  BY <1>1, <1>2

\* The steps outside WaitLoop that leave the sets and the fd_map alone.
LEMMA SUser ==
    ASSUME SInv, NEW n \in SelectNetFD,
           \/ S!CheckRepeatNetFD(n) \/ S!PollRefused(n)
           \/ \E e \in S!Event : S!Consume(n, e)
           \/ \E f \in SelectFd, e \in S!Event : S!Occurs(f, e)
    PROVE  SInv'
<1> USE DEF SInv, SelectAnswers
<1>1. CASE S!CheckRepeatNetFD(n)
  <2>1. S!TypeOK'
    BY <1>1 DEF S!CheckRepeatNetFD, S!TypeOK
  <2> QED
    BY <1>1, <2>1, SQuiet DEF S!CheckRepeatNetFD
<1>2. CASE S!PollRefused(n)
  <2>1. S!TypeOK' /\ \A m \in sowner : sres'[m] = sres[m]
    BY <1>2 DEF S!PollRefused, S!TypeOK
  <2> QED
    BY <1>2, <2>1, SQuiet DEF S!PollRefused
<1>3. CASE \E e \in S!Event : S!Consume(n, e)
  <2>1. S!TypeOK'
    <3>1. PICK e \in S!Event : S!Consume(n, e)
      BY <1>3
    <3>2. /\ sactive \in [SelectFd -> SUBSET S!Event]
          /\ SelectFdOf[n] \in SelectFd
      BY SelectAssumption DEF S!TypeOK
    <3>3. sactive' \in [SelectFd -> SUBSET S!Event]
      BY <3>1, <3>2 DEF S!Consume
    <3> QED
      BY <3>1, <3>3 DEF S!Consume, S!TypeOK
  <2> QED
    BY <1>3, <2>1, SQuiet DEF S!Consume
<1>4. CASE \E f \in SelectFd, e \in S!Event : S!Occurs(f, e)
  <2>1. S!TypeOK'
    BY <1>4 DEF S!Occurs, S!TypeOK
  <2> QED
    BY <1>4, <2>1, SQuiet DEF S!Occurs
<1> QED
  BY <1>1, <1>2, <1>3, <1>4

\* Every step of the select version preserves SInv, so do those of the other.
LEMMA SStep == SInv /\ [MCNext]_mcVars => SInv'
<1> SUFFICES ASSUME SInv, [MCNext]_mcVars PROVE SInv'
  OBVIOUS
<1>1. CASE Select
  <2>1. S!Next
    BY <1>1 DEF Select
  <2>2. CASE S!WaitLoop
    BY <2>2, SSelect, SVisitPasses, SVisitWakes DEF S!WaitLoop
  <2>3. CASE \E n \in SelectNetFD : S!PollReturns(n) \/ S!Timeout(n)
    BY <2>3, SPollReturns, STimeout
  <2>4. ASSUME NEW n \in SelectNetFD, S!User(n) PROVE SInv'
    <3>1. SelectUses[n] \subseteq S!Event /\ Timeouts \subseteq BOOLEAN
      BY SelectAssumption, EpollAssumption
         DEF In, Out, S!Event, S!In, S!Out
    <3> QED
      BY <2>4, <3>1, SPoll, SUser DEF S!User
  <2>5. CASE \E f \in SelectFd, e \in S!Event : S!Occurs(f, e)
    <3>1. S!TypeOK'
      BY <2>5 DEF S!Occurs, S!TypeOK, SInv, SelectAnswers
    <3> QED
      BY <2>5, <3>1, SQuiet DEF S!Occurs
  <2> QED
    BY <2>1, <2>2, <2>3, <2>4, <2>5 DEF S!Next
<1>2. CASE UNCHANGED selectVars
  <2>1. S!TypeOK'
    BY <1>2 DEF selectVars, SInv, SelectAnswers, S!TypeOK
  <2> QED
    BY <1>2, <2>1, SQuiet DEF selectVars
<1> QED
  BY <1>1, <1>2 DEF MCNext, Epoll, mcVars

\* While WaitLoop has nothing to look at, SetInv is what the run checks.
LEMMA SSafe == SInv => SelectAnswers /\ S!SetsAreExact
<1> SUFFICES ASSUME SInv, sleft = {}, NEW e \in S!Event
             PROVE  sset[e] =
                      {SelectFdOf[n] : n \in {m \in smap : e \in swant[m]}}
  BY DEF SInv, S!SetsAreExact, S!Runs
<1> QED
  BY DEF SInv, SetInv

-----------------------------------------------------------------------------
(* The theorems: in every use that MCIoWait puts side by side.             *)

\* Both halves of the run keep their invariant.
LEMMA AlwaysInv == MCSpec => [](EInv /\ SInv)
  BY EInitial, SInitial, EStep, SStep, PTL DEF MCSpec

\* Whatever happens, exceptional events and stealing too, an epoll task in Poll is
\* in the fd_map of its Processer, and the fd is registered for it there
\* (epoll_io_wait.cpp:104, 250).  Where there are no exceptional events, a task
\* waits on every fd that epoll_wait reports: the assert at epoll_io_wait.cpp:75.
THEOREM EventsFindWaiters == MCSpec => []WaitersReached
  BY AlwaysInv, ESafe, PTL

\* Outside WaitLoop an fd is registered for, or in the set of, exactly what the
\* tasks in fd_map wait for, and evtlist_cnt counts the registrations
\* (epoll_io_wait.cpp:104, 250; select_io_wait.cpp:219).
THEOREM NothingElseListened == MCSpec => []InterestExact
<1>1. EInv /\ SInv => InterestExact
  BY ESafe, SSafe DEF InterestExact
<1> QED
  BY <1>1, AlwaysInv, PTL

\* A Poll reports a timeout only when its timer has fired
\* (epoll_io_wait.cpp:319).
THEOREM TimeoutsAreReal == MCSpec => []TimeoutIsReal
<1>1. EInv => TimeoutIsReal
  BY DEF EInv
<1> QED
  BY <1>1, AlwaysInv, PTL

\* A Poll of the select version returns for the event it asked for, and a NetFD
\* keeps its owner_task only after a timeout (select_io_wait.cpp:137, 259).
THEOREM AnswersAreAsked == MCSpec => []SelectAnswers
  BY AlwaysInv, SSafe, PTL
=============================================================================
