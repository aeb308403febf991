--------------------------- MODULE LifecycleProofs ---------------------------
(***************************************************************************)
(* A scheduler that Stop has left is quiet, for every number of Processers *)
(* and of callers of Start and Stop; and the pointers of ts_queue.h        *)
(* implement SeqQueue, for any number of queues, lists and elements.       *)
(*                                                                         *)
(* StopQuiet is not inductive: that the threads have ended when a caller   *)
(* returns rests on what the caller that holds stopMtx_ has waited for,    *)
(* and on nothing being started behind its back.  LInv says both.          *)
(*                                                                         *)
(* For the queues, Good(s) says that their pointers hold the sequences s,  *)
(* and the lemma of an operation names the sequences it leaves them with.  *)
(***************************************************************************)
EXTENDS MCRuntime, SeqLemmas, FiniteSetTheorems

\* Some caller of Start is in the main loop or back from it: the condition for
\* the first call of Stop.  From then on Start begins nothing any more.
Up == \E a \in Starter : starter[a] \in {"main", "returned"}

\* One caller of Start at most gets past started_, and it has pushed every
\* Processer when it comes to the dispatcher.
StartOnce ==
    /\ \A a \in Starter : starter[a] # "idle" => started
    /\ \A a, b \in Starter :
          starter[a] \notin {"idle", "threw"} /\ starter[b] \notin {"idle", "threw"}
             => a = b
    /\ \A a \in Starter :
          /\ starter[a] = "push" => procs < N
          /\ starter[a] \in {"swap", "main", "returned"} => procs = N

\* A Processer keeps active_ until its thread leaves the loop of Process, and a
\* running dispatcher is joinable as soon as Start has stored its thread.
Tracked ==
    /\ \A i \in Life!Processers : active[i] <=> thread[i] \in {"none", "process"}
    /\ ~stop => \A i \in Life!Processers : thread[i] \in {"none", "process"}
    /\ dispatcher = "runs" => joinable \/ \E a \in Starter : starter[a] = "swap"

\* The Processer has no coroutine to run any more.
Quiet(i) == IF i = 0 THEN thread[i] # "process" ELSE thread[i] \in {"none", "ended"}

NoDispatcher == ~joinable /\ dispatcher # "runs"

\* stopMtx_ is held by who waits; what it has waited for stays as it found it,
\* and when the mutex is free again everything has been waited for.
StopOrder ==
    /\ \A s \in Stopper : stopper[s] # "idle" => Up
    /\ \A s \in Stopper :
          stopMtx = s <=> stopper[s] \in {"dispatcher", "processers"}
    /\ ~stop => stopMtx = "free" /\ turn = 0
    /\ \A s \in Stopper : stopper[s] = "dispatcher" => turn = 0
    /\ \A s \in Stopper : stopper[s] = "processers" =>
          NoDispatcher /\ size = N /\ \A i \in 0 .. turn - 1 : Quiet(i)
    /\ \A s \in Stopper : stopper[s] = "returned" => stop /\ stopMtx = "free"
    /\ stop /\ stopMtx = "free" => Up /\ NoDispatcher /\ \A i \in Life!Processers : Quiet(i)

LInv == Life!TypeOK /\ StartOnce /\ Tracked /\ StopOrder
-----------------------------------------------------------------------------
\* The initial states satisfy the invariant.
LEMMA InitLInv == Life!Init => LInv
<1> SUFFICES ASSUME Life!Init PROVE LInv
  OBVIOUS
<1>1. Life!TypeOK
  <2>1. 0 \in Life!Processers /\ 1 \in 1 .. N /\ 0 \in 0 .. N
    BY LifecycleAssumption DEF Life!Processers
  <2> QED
    BY <2>1 DEF Life!Init, Life!TypeOK
<1>2. StartOnce /\ Tracked
  BY DEF Life!Init, StartOnce, Tracked
<1>3. \A s \in Stopper : stopper[s] = "idle" /\ stopMtx # s
  BY LifecycleAssumption DEF Life!Init
<1>4. StopOrder
  BY <1>3 DEF Life!Init, StopOrder
<1> QED
  BY <1>1, <1>2, <1>4 DEF LInv

\* Start: only the first caller gets past started_.
LEMMA StartKeeps ==
  ASSUME LInv, NEW a \in Starter, Life!Start(a)
  PROVE  LInv'
<1>1. Life!TypeOK'
  BY DEF LInv, Life!TypeOK, Life!Start, Life!At, Life!stopVars
<1>2. StartOnce'
  BY DEF LInv, Life!TypeOK, StartOnce, Life!Start, Life!At
<1>3. Tracked'
  BY DEF LInv, Life!TypeOK, Tracked, Life!Start, Life!At, Life!stopVars
<1>4. Up <=> Up'
  BY DEF LInv, Life!TypeOK, Up, Life!Start, Life!At
<1>5. StopOrder'
  BY <1>4 DEF LInv, StopOrder, NoDispatcher, Quiet, Life!Start, Life!stopVars
<1> QED
  BY <1>1, <1>2, <1>3, <1>5 DEF LInv

\* While a caller of Start makes the threads nobody has called Stop yet.
LEMMA NobodyStops ==
  ASSUME LInv, NEW a \in Starter, starter[a] \in {"threads", "push", "swap"}
  PROVE  /\ ~Up /\ ~stop /\ stopMtx = "free" /\ turn = 0
         /\ \A s \in Stopper : stopper[s] = "idle"
<1>1. ~Up
  BY DEF LInv, StartOnce, Up
<1>2. \A s \in Stopper : stopper[s] = "idle"
  BY <1>1 DEF LInv, StopOrder
<1>3. stopMtx = "free"
  BY <1>2, LifecycleAssumption DEF LInv, Life!TypeOK, StopOrder
<1> QED
  BY <1>1, <1>2, <1>3 DEF LInv, StopOrder

\* Making the threads: Stop is not concerned.
LEMMA StartingKeeps ==
  ASSUME LInv, NEW a \in Starter, Life!Starting(a)
  PROVE  LInv'
<1>1. starter[a] \in {"threads", "push", "swap"} /\ UNCHANGED Life!stopVars
  BY DEF Life!Starting, Life!NewProcessThread, Life!PushProcesser,
         Life!StartDispatcher, Life!SwapDispatcher, Life!At, Life!stopVars
<1>2. StopOrder'
  BY <1>1, NobodyStops, LifecycleAssumption DEF StopOrder, Life!stopVars
<1>3. 0 \in Life!Processers
  BY LifecycleAssumption DEF Life!Processers
<1>4. CASE Life!NewProcessThread(a)
  <2>1. procs \in Life!Processers
    BY <1>4, LifecycleAssumption
       DEF LInv, Life!TypeOK, Life!NewProcessThread, Life!Processers
  <2>2. Life!TypeOK'
    BY <1>4 DEF LInv, Life!TypeOK, Life!NewProcessThread, Life!At, Life!stopVars
  <2>3. StartOnce'
    BY <1>4, LifecycleAssumption
       DEF LInv, Life!TypeOK, StartOnce, Life!NewProcessThread, Life!At
  <2>4. Tracked'
    BY <1>1, <1>4, <2>1, NobodyStops
       DEF LInv, Life!TypeOK, Tracked, Life!NewProcessThread, Life!At,
           Life!stopVars
  <2> QED
    BY <1>2, <2>2, <2>3, <2>4 DEF LInv
<1>5. CASE Life!PushProcesser(a)
  <2>1. procs + 1 \in 1 .. N
    BY <1>5, LifecycleAssumption
       DEF LInv, Life!TypeOK, StartOnce, Life!PushProcesser, Life!At
  <2>2. Life!TypeOK'
    BY <1>5, <2>1
       DEF LInv, Life!TypeOK, Life!PushProcesser, Life!At, Life!stopVars
  <2>3. StartOnce'
    BY <1>5, LifecycleAssumption
       DEF LInv, Life!TypeOK, StartOnce, Life!PushProcesser, Life!At
  <2>4. Tracked'
    BY <1>5
       DEF LInv, Life!TypeOK, Tracked, Life!PushProcesser, Life!At,
           Life!stopVars
  <2> QED
    BY <1>2, <2>2, <2>3, <2>4 DEF LInv
<1>6. CASE Life!StartDispatcher(a)
  <2>1. Life!TypeOK'
    BY <1>6 DEF LInv, Life!TypeOK, Life!StartDispatcher, Life!At, Life!stopVars
  <2>2. StartOnce'
    BY <1>6, LifecycleAssumption
       DEF LInv, Life!TypeOK, StartOnce, Life!StartDispatcher, Life!At
  <2>3. Tracked'
    BY <1>6
       DEF LInv, Life!TypeOK, Tracked, Life!StartDispatcher, Life!At,
           Life!stopVars
  <2> QED
    BY <1>2, <2>1, <2>2, <2>3 DEF LInv
<1>7. CASE Life!SwapDispatcher(a)
  <2>1. Life!TypeOK'
    BY <1>3, <1>7
       DEF LInv, Life!TypeOK, Life!SwapDispatcher, Life!At, Life!stopVars
  <2>2. StartOnce'
    BY <1>7, LifecycleAssumption
       DEF LInv, Life!TypeOK, StartOnce, Life!SwapDispatcher, Life!At
  <2>3. Tracked'
    BY <1>1, <1>3, <1>7, NobodyStops
       DEF LInv, Life!TypeOK, Tracked, Life!SwapDispatcher, Life!At,
           Life!stopVars
  <2> QED
    BY <1>2, <2>1, <2>2, <2>3 DEF LInv
<1> QED
  BY <1>4, <1>5, <1>6, <1>7 DEF Life!Starting

\* The threads see stop_ and end: what is quiet stays quiet.
LEMMA ThreadsKeep ==
  ASSUME LInv, Life!Threads
  PROVE  LInv'
<1>1. stop /\ UNCHANGED Life!stopVars
  BY DEF Life!Threads, Life!DispatcherThread, Life!Leave, Life!End, LInv,
         Tracked, Life!stopVars
<1>2. CASE Life!DispatcherThread
  <2>1. Life!TypeOK' /\ StartOnce' /\ Tracked' /\ (Up <=> Up')
    BY <1>2
       DEF LInv, Life!TypeOK, StartOnce, Tracked, Up, Life!DispatcherThread,
           Life!startVars, Life!stopVars
  <2>2. StopOrder'
    BY <1>2, <2>1
       DEF LInv, StopOrder, NoDispatcher, Quiet, Life!DispatcherThread,
           Life!startVars, Life!stopVars
  <2> QED
    BY <2>1, <2>2 DEF LInv
<1>3. ASSUME NEW i \in Life!Processers, Life!Leave(i)
      PROVE  LInv'
  <2>1. Life!TypeOK' /\ StartOnce' /\ (Up <=> Up')
    BY <1>3
       DEF LInv, Life!TypeOK, StartOnce, Up, Life!Leave, Life!startVars,
           Life!stopVars
  <2>2. Tracked'
    BY <1>1, <1>3
       DEF LInv, Life!TypeOK, Tracked, Life!Leave, Life!startVars, Life!stopVars
  <2>3. \A j \in Life!Processers : Quiet(j) => Quiet(j)'
    BY <1>3 DEF LInv, Life!TypeOK, Quiet, Life!Leave
  <2>4. \A j \in 0 .. turn - 1 : j \in Life!Processers
    BY LifecycleAssumption DEF LInv, Life!TypeOK, Life!Processers
  <2>5. StopOrder'
    BY <1>1, <1>3, <2>1, <2>3, <2>4
       DEF LInv, StopOrder, NoDispatcher, Life!Leave, Life!startVars,
           Life!stopVars
  <2> QED
    BY <2>1, <2>2, <2>5 DEF LInv
<1>4. ASSUME NEW i \in Life!Processers, Life!End(i)
      PROVE  LInv'
  <2>1. \A a \in Starter :
           /\ starter[a] # "main" => starter'[a] = starter[a]
           /\ starter[a] = "main" => starter'[a] \in {"main", "returned"}
    BY <1>4 DEF LInv, Life!TypeOK, Life!End
  <2>2. Life!TypeOK'
    BY <1>4 DEF LInv, Life!TypeOK, Life!End, Life!stopVars
  <2>3. StartOnce' /\ (Up <=> Up')
    BY <1>4, <2>1 DEF LInv, Life!TypeOK, StartOnce, Up, Life!End
  <2>4. Tracked'
    BY <1>1, <1>4, <2>1 DEF LInv, Life!TypeOK, Tracked, Life!End, Life!stopVars
  <2>5. \A j \in Life!Processers : Quiet(j) => Quiet(j)'
    BY <1>4 DEF LInv, Life!TypeOK, Quiet, Life!End
  <2>6. \A j \in 0 .. turn - 1 : j \in Life!Processers
    BY LifecycleAssumption DEF LInv, Life!TypeOK, Life!Processers
  <2>7. StopOrder'
    BY <1>1, <1>4, <2>3, <2>5, <2>6
       DEF LInv, StopOrder, NoDispatcher, Life!End, Life!stopVars
  <2> QED
    BY <2>2, <2>3, <2>4, <2>7 DEF LInv
<1> QED
  BY <1>2, <1>3, <1>4 DEF Life!Threads

\* A call of Stop begins, or finds that another has done the work.
LEMMA CallKeeps ==
  ASSUME LInv, NEW s \in Stopper, Life!Call(s) \/ Life!Lock(s)
  PROVE  LInv'
<1>1. UNCHANGED <<Life!startVars, active, thread, dispatcher, joinable, size, turn>>
  BY DEF Life!Call, Life!Lock
<1>2. Life!TypeOK'
  BY DEF LInv, Life!TypeOK, Life!Call, Life!Lock, Life!startVars
<1>3. StartOnce' /\ (Up <=> Up')
  BY <1>1 DEF LInv, StartOnce, Up, Life!startVars
<1>4. Tracked'
  BY <1>1 DEF LInv, Tracked, Life!startVars, Life!Lock, Life!Call
<1>5. StopOrder'
  <2>1. CASE Life!Call(s)
    BY <1>1, <1>3, <2>1
       DEF LInv, Life!TypeOK, StopOrder, NoDispatcher, Quiet, Up, Life!Call
  <2>2. CASE Life!Lock(s)
    BY <1>1, <1>3, <2>2, LifecycleAssumption
       DEF LInv, Life!TypeOK, StopOrder, NoDispatcher, Quiet, Life!Lock
  <2> QED
    BY <2>1, <2>2
<1> QED
  BY <1>2, <1>3, <1>4, <1>5 DEF LInv

\* The holder of stopMtx_ waits for one thread after the other.
LEMMA StopKeeps ==
  ASSUME LInv, NEW s \in Stopper, Life!JoinDispatcher(s) \/ Life!StopProcesser(s)
  PROVE  LInv'
<1>1. UNCHANGED <<Life!startVars, active, thread, dispatcher, stop>>
  BY DEF Life!JoinDispatcher, Life!StopProcesser
<1>2. Up /\ stop /\ stopMtx = s
  BY LifecycleAssumption
     DEF LInv, StopOrder, Life!JoinDispatcher, Life!StopProcesser
<1>3. procs = N /\ \A a \in Starter : starter[a] # "swap"
  BY <1>2 DEF LInv, StartOnce, Up
<1>4. StartOnce' /\ Up'
  BY <1>1, <1>2 DEF LInv, StartOnce, Up, Life!startVars
<1>5. CASE Life!JoinDispatcher(s)
  <2>1. NoDispatcher'
    BY <1>3, <1>5
       DEF LInv, Life!TypeOK, Tracked, NoDispatcher, Life!JoinDispatcher
  <2>2. Life!TypeOK'
    <3>1. procs \in 0 .. N
      BY <1>3, LifecycleAssumption
    <3> QED
      BY <1>5, <3>1 DEF LInv, Life!TypeOK, Life!JoinDispatcher, Life!startVars
  <2>3. Tracked'
    BY <1>1, <1>5, <2>1 DEF LInv, Tracked, NoDispatcher, Life!startVars
  <2>4. StopOrder'
    BY <1>2, <1>3, <1>4, <1>5, <2>1, LifecycleAssumption
       DEF LInv, Life!TypeOK, StopOrder, Life!JoinDispatcher, Life!startVars
  <2> QED
    BY <1>4, <2>2, <2>3, <2>4 DEF LInv
<1>6. CASE Life!StopProcesser(s)
  <2>1. turn \in Life!Processers /\ Quiet(turn) /\ NoDispatcher /\ size = N
    <3>1. turn \in Life!Processers /\ NoDispatcher /\ size = N
      BY <1>6 DEF LInv, Life!TypeOK, StopOrder, Life!StopProcesser
    <3>2. turn > 0 => thread[turn] = "ended"
      BY <1>6 DEF Life!StopProcesser
    <3>3. ~ (turn > 0) => turn = 0 /\ thread[turn] # "process"
      BY <1>6, <3>1, LifecycleAssumption
         DEF LInv, Tracked, Life!StopProcesser, Life!Processers
    <3> QED
      BY <3>1, <3>2, <3>3 DEF Quiet
  <2>2. \A i \in 0 .. turn : Quiet(i)
    BY <1>6, <2>1, LifecycleAssumption
       DEF LInv, StopOrder, Life!StopProcesser, Life!Processers
  <2>3. Life!TypeOK' /\ NoDispatcher' /\ Tracked'
    BY <1>1, <1>6, <2>1, LifecycleAssumption
       DEF LInv, Life!TypeOK, Tracked, NoDispatcher, Life!StopProcesser,
           Life!startVars, Life!Processers
  <2>4. \A i \in 0 .. turn : Quiet(i)'
    BY <1>1, <2>2 DEF Quiet
  <2>5. CASE turn + 1 < size /\ turn' = turn + 1 /\ UNCHANGED <<stopper, stopMtx>>
    <3>1. \A i \in 0 .. turn' - 1 : Quiet(i)'
      BY <2>1, <2>4, <2>5, LifecycleAssumption DEF Life!Processers
    <3>2. StopOrder'
      BY <1>1, <1>2, <1>4, <1>6, <2>1, <2>3, <2>5, <3>1, LifecycleAssumption
         DEF LInv, Life!TypeOK, StopOrder, Life!StopProcesser
    <3> QED
      BY <1>4, <2>3, <3>2 DEF LInv
  <2>6. CASE /\ turn + 1 = size /\ UNCHANGED turn
             /\ stopper' = [stopper EXCEPT ![s] = "returned"] /\ stopMtx' = "free"
    <3>1. \A i \in Life!Processers : Quiet(i)'
      BY <2>1, <2>4, <2>6, LifecycleAssumption DEF Life!Processers
    <3>2. \A u \in Stopper : stopper'[u] \notin {"dispatcher", "processers"}
      BY <1>2, <2>6 DEF LInv, Life!TypeOK, StopOrder
    <3>3. StopOrder'
      BY <1>1, <1>2, <1>4, <2>3, <2>6, <3>1, <3>2, LifecycleAssumption
         DEF LInv, Life!TypeOK, StopOrder
    <3> QED
      BY <1>4, <2>3, <3>3 DEF LInv
  <2> QED
    BY <1>6, <2>5, <2>6 DEF Life!StopProcesser
<1> QED
  BY <1>5, <1>6

-----------------------------------------------------------------------------
\* Every step keeps the invariant.
LEMMA NextLInv == LInv /\ [Life!Next]_lifeVars => LInv'
<1> SUFFICES ASSUME LInv, [Life!Next]_lifeVars PROVE LInv'
  OBVIOUS
<1>1. CASE UNCHANGED lifeVars
  BY <1>1
     DEF LInv, Life!TypeOK, StartOnce, Tracked, StopOrder, Up, NoDispatcher,
         Quiet, lifeVars
<1>2. CASE Life!Next
  <2>1. CASE Life!Finished
    BY <1>1, <2>1 DEF Life!Finished, Life!vars, Life!startVars, Life!stopVars,
                      lifeVars
  <2> QED
    BY <1>2, <2>1, StartKeeps, StartingKeeps, ThreadsKeep, CallKeeps, StopKeeps
       DEF Life!Next, Life!Stopping
<1> QED
  BY <1>1, <1>2

\* What a returned call of Stop promises.
LEMMA LInvQuiet == LInv => StopQuiet
<1>1. 0 \in Life!Processers
  BY LifecycleAssumption DEF Life!Processers
<1>2. ASSUME LInv, NEW s \in Stopper, stopper[s] = "returned"
      PROVE  NoDispatcher /\ \A i \in Life!Processers : Quiet(i)
  BY <1>2 DEF LInv, StopOrder
<1> QED
  BY <1>1, <1>2 DEF LInv, StopQuiet, Life!StopQuiet, NoDispatcher, Quiet

\* When any call of Stop has returned, for any number of Processers, of callers
\* of Start and of callers of Stop, no thread runs a coroutine, the threads that
\* Start made have ended and the dispatcher is joined (scheduler.cpp, Stop).
THEOREM StoppedIsQuiet == MCSpec => []StopQuiet
<1>1. MCInit => LInv
  BY InitLInv DEF MCInit
<1>2. LInv /\ [MCNext]_mcVars => LInv'
  BY NextLInv DEF MCNext, mcVars, Running, Queues, Locking
<1> QED
  BY <1>1, <1>2, LInvQuiet, PTL DEF MCSpec

-----------------------------------------------------------------------------
\* The queues and lists of ts_queue.h as sequences.
Places == Queue \union List
Nodes == Queue \union Elem
Ends == Nodes \union {Null}

\* What comes before the first element of a place.
Base(p) == IF p \in Queue THEN p ELSE Null

In(s, p, e) == \E i \in 1 .. Len(s[p]) : s[p][i] = e
Free(s, e) == \A p \in Places : ~ In(s, p, e)

\* The pointers of the place p hold the elements of q in their order.
HoldsAt(p, q, nx, pv, h, t, c) ==
    /\ p \in Queue => h = p /\ nx[p] = IF q = <<>> THEN Null ELSE q[1]
    /\ p \notin Queue => h = IF q = <<>> THEN Null ELSE q[1]
    /\ t = IF q = <<>> THEN Base(p) ELSE q[Len(q)]
    /\ \A i \in 1 .. Len(q) : nx[q[i]] = IF i = Len(q) THEN Null ELSE q[i + 1]
    /\ \A i \in 1 .. Len(q) : pv[q[i]] = IF i = 1 THEN Base(p) ELSE q[i - 1]
    /\ c = Len(q)

Types(nx, pv, ck, hd, tl, ct) ==
    /\ nx \in [Nodes -> Elem \union {Null}] /\ pv \in [Nodes -> Ends]
    /\ ck \in [Elem -> Queue \union {Null}]
    /\ hd \in [Places -> Ends] /\ tl \in [Places -> Ends]
    /\ ct \in [Places -> Nat]

\* No element is in two places, or in one twice.
Apart(s) ==
    \A p, r \in Places : \A i \in 1 .. Len(s[p]), j \in 1 .. Len(s[r]) :
        s[p][i] = s[r][j] => p = r /\ i = j

Stores(s, nx, pv, hd, tl, ct) ==
    /\ s \in [Places -> Seq(Elem)]
    /\ Apart(s)
    /\ \A p \in Places : HoldsAt(p, s[p], nx, pv, hd[p], tl[p], ct[p])
    /\ \A e \in Elem : Free(s, e) => nx[e] = Null /\ pv[e] = Null

\* The containers hold what s says, and what they do not hold has clear hooks.
Good(s) ==
    /\ Types(next, prev, check, head, tail, count)
    /\ Stores(s, next, prev, head, tail, count)

\* An element the places of C may dispose of.
Mine(s, C, e) == e \in Elem /\ (Free(s, e) \/ \E p \in C : In(s, p, e))

\* A step that is about the places of C: they hold what z says, with elements they
\* may dispose of, and nothing else is touched.
About(s, z, C) ==
    /\ z \in [Places -> Seq(Elem)] /\ C \in SUBSET Places
    /\ Types(next, prev, check, head, tail, count)'
    /\ \A p \in Places \ C :
          z[p] = s[p] /\ head'[p] = head[p] /\ tail'[p] = tail[p] /\ count'[p] = count[p]
    /\ \A n \in Nodes : n \notin C /\ ~ Mine(s, C, n) => next'[n] = next[n] /\ prev'[n] = prev[n]
    /\ \A p \in C : HoldsAt(p, z[p], next', prev', head'[p], tail'[p], count'[p])
    /\ \A p \in C : \A i \in 1 .. Len(z[p]) : Mine(s, C, z[p][i])
    /\ \A p, r \in C : \A i \in 1 .. Len(z[p]), j \in 1 .. Len(z[r]) :
          z[p][i] = z[r][j] => p = r /\ i = j
    /\ \A e \in Elem : Mine(s, C, e) /\ (\A p \in C : ~ In(z, p, e))
                           => next'[e] = Null /\ prev'[e] = Null

\* It leaves the other places as they were.
LEMMA Others ==
  ASSUME NEW s, Good(s), NEW z, NEW C, About(s, z, C)
  PROVE  Good(z)'
<1>0. About(s, z, C)
  OBVIOUS
<1>7. C \in SUBSET Places
  BY <1>0 DEF About
<1>1. /\ s \in [Places -> Seq(Elem)] /\ Apart(s)
      /\ \A p \in Places : HoldsAt(p, s[p], next, prev, head[p], tail[p], count[p])
      /\ \A e \in Elem : Free(s, e) => next[e] = Null /\ prev[e] = Null
  BY DEF Good, Stores
<1>2. \A p \in Places : \A i \in 1 .. Len(s[p]) : s[p][i] \in Elem /\ s[p][i] \notin Places
  BY <1>1, QueueAssumption, ElementOfSeq DEF Places
<1>3. \A p \in Places \ C : \A i \in 1 .. Len(s[p]) : ~ Mine(s, C, s[p][i])
  BY <1>1, <1>7 DEF Mine, Free, In, Apart
<1>4. ASSUME NEW p \in Places
      PROVE  HoldsAt(p, z[p], next', prev', head'[p], tail'[p], count'[p])
  <2>1. CASE p \in C
    BY <1>0, <2>1 DEF About
  <2>2. CASE p \notin C
    <3>1. z[p] = s[p] /\ head'[p] = head[p] /\ tail'[p] = tail[p] /\ count'[p] = count[p]
      BY <1>0, <2>2 DEF About
    <3>2. \A i \in 1 .. Len(s[p]) : next'[s[p][i]] = next[s[p][i]] /\ prev'[s[p][i]] = prev[s[p][i]]
      BY <1>0, <1>2, <1>3, <2>2 DEF Nodes, About
    <3>3. p \in Queue => next'[p] = next[p]
      BY <1>0, <2>2, QueueAssumption DEF Nodes, Mine, Places, About
    <3>4. HoldsAt(p, s[p], next, prev, head[p], tail[p], count[p])
      BY <1>1
    <3> QED
      BY <3>1, <3>2, <3>3, <3>4 DEF HoldsAt
  <2> QED
    BY <2>1, <2>2
<1>5. Apart(z)
  <2> SUFFICES ASSUME NEW p \in Places, NEW r \in Places,
                      NEW i \in 1 .. Len(z[p]), NEW j \in 1 .. Len(z[r]), z[p][i] = z[r][j]
               PROVE  p = r /\ i = j
    BY DEF Apart
  <2>0. /\ \A x \in Places \ C : z[x] = s[x]
        /\ \A x \in C : \A k \in 1 .. Len(z[x]) : Mine(s, C, z[x][k])
    BY <1>0 DEF About
  <2>1. CASE p \in C /\ r \in C
    BY <1>0, <2>1 DEF About
  <2>2. CASE p \notin C /\ r \notin C
    <3>1. z[p] = s[p] /\ z[r] = s[r]
      BY <2>0, <2>2
    <3> QED
      BY <1>1, <3>1 DEF Apart
  <2>3. CASE p \in C /\ r \notin C
    BY <1>3, <2>0, <2>3
  <2>4. CASE p \notin C /\ r \in C
    BY <1>3, <2>0, <2>4
  <2> QED
    BY <2>1, <2>2, <2>3, <2>4
<1>6. ASSUME NEW e \in Elem, Free(z, e)
      PROVE  next'[e] = Null /\ prev'[e] = Null
  <2>1. \A p \in C : ~ In(z, p, e)
    BY <1>6, <1>7 DEF Free
  <2>2. Mine(s, C, e)
    <3>1. \A p \in Places \ C : ~ In(s, p, e)
      BY <1>0, <1>6 DEF Free, In, About
    <3> QED
      BY <3>1 DEF Mine, Free
  <2> QED
    BY <1>0, <2>1, <2>2 DEF About
<1> QED
  BY <1>0, <1>4, <1>5, <1>6 DEF Good, Stores, About

-----------------------------------------------------------------------------
\* What a link leads along from a node.
GoesAlong(w, f, n) ==
    \A k \in 0 .. n : \A m \in Ends :
        w[k][m] = IF k = 0 \/ m \in Queue \union {Null} THEN <<>>
                                                       ELSE <<m>> \o w[k - 1][f[m]]

Trail(f, n) ==
    LET w[k \in 0 .. Cardinality(Nodes)] ==
            [m \in Ends |->
                IF k = 0 \/ m \in Queue \union {Null} THEN <<>>
                                                      ELSE <<m>> \o w[k - 1][f[m]]]
    IN  w[Cardinality(Nodes)][n]

\* The hooks are finitely many, so that a link followed that often has come to
\* its end.
LEMMA NodesFinite == IsFiniteSet(Nodes) /\ Cardinality(Nodes) \in Nat
<1>1. IsFiniteSet(Nodes)
  BY QueueAssumption, FS_Union DEF Nodes
<1> QED
  BY <1>1, FS_CardinalityType

\* What a link leads along exists, for any number of steps: by induction on
\* it.
LEMMA TrailExists ==
  ASSUME NEW f \in [Nodes -> Ends], NEW n \in Nat
  PROVE  \E w \in [0 .. n -> [Ends -> Seq(Elem)]] : GoesAlong(w, f, n)
<1> DEFINE Halts == Queue \union {Null}
           Right == {m \in Nat :
                       \E w \in [0 .. m -> [Ends -> Seq(Elem)]] : GoesAlong(w, f, m)}
<1>1. 0 \in Right
  <2> DEFINE w == [k \in 0 .. 0 |-> [m \in Ends |-> <<>>]]
  <2>1. w \in [0 .. 0 -> [Ends -> Seq(Elem)]]
    BY EmptySeq
  <2>2. GoesAlong(w, f, 0)
    BY DEF GoesAlong
  <2> QED
    BY <2>1, <2>2
<1>2. ASSUME NEW k \in Nat, k \in Right PROVE k + 1 \in Right
  <2>1. PICK w \in [0 .. k -> [Ends -> Seq(Elem)]] : GoesAlong(w, f, k)
    BY <1>2
  <2> DEFINE last == [m \in Ends |-> IF m \in Halts THEN <<>> ELSE <<m>> \o w[k][f[m]]]
             v == [i \in 0 .. k + 1 |-> IF i <= k THEN w[i] ELSE last]
  <2>2. ASSUME NEW m \in Ends, m \notin Halts
        PROVE  <<m>> \o w[k][f[m]] \in Seq(Elem)
    <3>1. m \in Elem /\ f[m] \in Ends
      BY <2>2 DEF Ends, Nodes
    <3>2. w[k][f[m]] \in Seq(Elem)
      BY <2>1, <3>1
    <3>3. <<m>> \in Seq(Elem)
      BY <3>1
    <3> QED
      BY <3>2, <3>3, ConcatProperties
  <2>3. last \in [Ends -> Seq(Elem)]
    BY <2>2, EmptySeq
  <2>4. \A m \in Ends : last[m] = IF m \in Halts THEN <<>> ELSE <<m>> \o w[k][f[m]]
    OBVIOUS
  <2> HIDE DEF last
  <2>5. v \in [0 .. k + 1 -> [Ends -> Seq(Elem)]]
    BY <2>1, <2>3
  <2>6. v[k + 1] = last /\ \A i \in 0 .. k : v[i] = w[i]
    OBVIOUS
  <2> HIDE DEF v
  <2>7. ASSUME NEW i \in 0 .. k + 1, NEW m \in Ends
        PROVE  v[i][m] = IF i = 0 \/ m \in Halts THEN <<>> ELSE <<m>> \o v[i - 1][f[m]]
    <3>1. CASE i <= k
      <4>1. i \in 0 .. k /\ v[i] = w[i] /\ (i # 0 => v[i - 1] = w[i - 1])
        BY <2>6, <3>1
      <4> QED
        BY <2>1, <4>1 DEF GoesAlong
    <3>2. CASE i = k + 1
      <4>1. i # 0 /\ v[i] = last /\ v[i - 1] = w[k]
        BY <2>6, <3>2
      <4> QED
        BY <2>4, <4>1
    <3> QED
      BY <3>1, <3>2
  <2>8. GoesAlong(v, f, k + 1)
    BY <2>7 DEF GoesAlong
  <2>9. \E g \in [0 .. k + 1 -> [Ends -> Seq(Elem)]] : GoesAlong(g, f, k + 1)
    BY <2>5, <2>8
  <2>10. k + 1 \in Nat
    OBVIOUS
  <2> QED
    BY <2>9, <2>10, Zenon
<1>3. Nat \subseteq Right
  <2> HIDE DEF Right
  <2> QED
    BY <1>1, <1>2, SetInduction
<1> QED
  BY <1>3

\* Trail is the last value of one.
LEMMA TrailIs ==
  ASSUME NEW f \in [Nodes -> Ends]
  PROVE  \E w : GoesAlong(w, f, Cardinality(Nodes))
                /\ \A m : Trail(f, m) = w[Cardinality(Nodes)][m]
<1> DEFINE Size == Cardinality(Nodes)
           Body(w) == [k \in 0 .. Size |-> [m \in Ends |->
                         IF k = 0 \/ m \in Queue \union {Null} THEN <<>>
                                                       ELSE <<m>> \o w[k - 1][f[m]]]]
           c == CHOOSE w : w = Body(w)
<1>1. Size \in Nat
  BY NodesFinite
<1>2. PICK w \in [0 .. Size -> [Ends -> Seq(Elem)]] : GoesAlong(w, f, Size)
  BY <1>1, TrailExists
<1>3. w = Body(w)
  <2>1. \A k \in 0 .. Size : w[k] = Body(w)[k]
    BY <1>2 DEF GoesAlong
  <2> QED
    BY <1>2, <2>1
<1>4. c = Body(c)
  BY <1>3
<1>5. \A m : Trail(f, m) = c[Size][m]
  BY DEF Trail
<1>6. GoesAlong(c, f, Size)
  <2> HIDE DEF c
  <2> SUFFICES ASSUME NEW k \in 0 .. Size, NEW m \in Ends
               PROVE  c[k][m] = IF k = 0 \/ m \in Queue \union {Null} THEN <<>>
                                ELSE <<m>> \o c[k - 1][f[m]]
    BY DEF GoesAlong
  <2> DEFINE g == [l \in Ends |-> IF k = 0 \/ l \in Queue \union {Null} THEN <<>>
                                  ELSE <<l>> \o c[k - 1][f[l]]]
  <2>1. c[k] = Body(c)[k]
    BY <1>4
  <2>2. c[k] = g
    BY <2>1
  <2> QED
    BY <2>2
<1> QED
  BY <1>5, <1>6

\* From the first of q that is linked to the next and so on, Trail is q.
LEMMA TrailFinds ==
  ASSUME NEW f \in [Nodes -> Ends], NEW q \in Seq(Elem), IsInjective(q),
         \A i \in 1 .. Len(q) :
             IF i = Len(q) THEN f[q[i]] \in Queue \union {Null} ELSE f[q[i]] = q[i + 1]
  PROVE  /\ \A m \in Queue \union {Null} : Trail(f, m) = <<>>
         /\ q # <<>> => Trail(f, q[1]) = q
<1> DEFINE Size == Cardinality(Nodes)  L == Len(q)
<1>1. PICK w : GoesAlong(w, f, Size) /\ \A m : Trail(f, m) = w[Size][m]
  BY TrailIs
<1>2. Size \in Nat /\ L \in Nat
  BY NodesFinite, LenProperties
<1>3. L <= Size
  <2>1. DOMAIN q = 1 .. L /\ q \in [1 .. L -> Nodes]
    BY LenProperties, ElementOfSeq DEF Nodes
  <2>2. q \in Injection(1 .. L, Nodes)
    BY <2>1 DEF IsInjective, Injection
  <2>3. Cardinality(1 .. L) = IF 1 > L THEN 0 ELSE L - 1 + 1
    <3> HIDE DEF L
    <3>1. L \in Int /\ 1 \in Int
      BY <1>2
    <3> QED
      BY <3>1, FS_Interval
  <2>4. Cardinality(1 .. L) <= Size
    BY <2>2, NodesFinite, FS_Injection
  <2> QED
    BY <1>2, <2>3, <2>4
<1>4. \A i \in 1 .. L : q[i] \in Elem /\ q[i] \in Ends /\ q[i] \notin Queue \union {Null}
  BY ElementOfSeq, QueueAssumption DEF Ends, Nodes
<1>5. ASSUME NEW k \in 0 .. Size, NEW m \in Queue \union {Null} PROVE w[k][m] = <<>>
  BY <1>1 DEF GoesAlong, Ends, Nodes
<1> DEFINE Right == {k \in Nat : k <= Size => \A i \in 1 .. L :
                        L - i + 1 <= k => w[k][q[i]] = SubSeq(q, i, L)}
<1>6. 0 \in Right
  BY <1>2
<1>7. ASSUME NEW k \in Nat, k \in Right PROVE k + 1 \in Right
  <2> SUFFICES ASSUME k + 1 <= Size, NEW i \in 1 .. L, L - i + 1 <= k + 1
               PROVE  w[k + 1][q[i]] = SubSeq(q, i, L)
    OBVIOUS
  <2>1. k + 1 \in 0 .. Size /\ k \in 0 .. Size /\ k + 1 # 0 /\ (k + 1) - 1 = k
    BY <1>2
  <2>2. w[k + 1][q[i]] = <<q[i]>> \o w[k][f[q[i]]]
    <3>1. q[i] \in Ends /\ q[i] \notin Queue \union {Null}
      BY <1>4
    <3> DEFINE e == q[i]  l == k + 1
    <3>2. l \in 0 .. Size /\ e \in Ends /\ e \notin Queue \union {Null} /\ l # 0 /\ l - 1 = k
      BY <2>1, <3>1
    <3> HIDE DEF e, l, Size
    <3>3. w[l][e] = IF l = 0 \/ e \in Queue \union {Null} THEN <<>>
                    ELSE <<e>> \o w[l - 1][f[e]]
      BY <1>1, <3>2 DEF GoesAlong
    <3>4. w[l][e] = <<e>> \o w[k][f[e]]
      BY <3>2, <3>3
    <3> QED
      BY <3>4 DEF e, l
  <2>3. CASE i = L
    <3>1. w[k][f[q[i]]] = <<>>
      BY <1>5, <2>1, <2>3
    <3>2. <<q[i]>> \o <<>> = SubSeq(q, i, L)
      BY <1>2, <2>3
    <3> QED
      BY <2>2, <3>1, <3>2
  <2>4. CASE i # L
    <3>1. f[q[i]] = q[i + 1] /\ i + 1 \in 1 .. L /\ L - (i + 1) + 1 <= k /\ k <= Size
      BY <1>2, <2>1, <2>4
    <3>2. w[k][q[i + 1]] = SubSeq(q, i + 1, L)
      BY <1>7, <3>1
    <3>3. <<q[i]>> \o SubSeq(q, i + 1, L) = SubSeq(q, i, L)
      BY <1>2, <3>1
    <3> QED
      BY <2>2, <3>1, <3>2, <3>3
  <2> QED
    BY <2>3, <2>4
<1>8. Nat \subseteq Right
  <2> HIDE DEF Right
  <2> QED
    BY <1>6, <1>7, SetInduction
<1>9. q # <<>> => Trail(f, q[1]) = q
  <2> SUFFICES ASSUME q # <<>> PROVE Trail(f, q[1]) = q
    OBVIOUS
  <2>1. 1 \in 1 .. L /\ L - 1 + 1 <= Size
    BY <1>2, <1>3, EmptySeq
  <2>2. w[Size][q[1]] = SubSeq(q, 1, L)
    BY <1>2, <1>8, <2>1
  <2>3. SubSeq(q, 1, L) = q
    BY <1>2
  <2> QED
    BY <1>1, <2>2, <2>3
<1>10. \A m \in Queue \union {Null} : Trail(f, m) = <<>>
  BY <1>1, <1>2, <1>5
<1> QED
  BY <1>9, <1>10

\* A list that is read from its end.
LEMMA ReverseIs ==
  ASSUME NEW q \in Seq(Elem)
  PROVE  /\ Reverse(q) \in Seq(Elem) /\ Len(Reverse(q)) = Len(q) /\ Len(q) \in Nat
         /\ \A i \in 1 .. Len(q) : Reverse(q)[i] = q[Len(q) - i + 1]
<1>1. Len(q) \in Nat /\ \A i \in 1 .. Len(q) : q[i] \in Elem
  BY LenProperties, ElementOfSeq
<1>2. \A i \in 1 .. Len(q) : q[(Len(q) - i) + 1] \in Elem
  BY <1>1
<1> QED
  BY <1>1, <1>2 DEF Reverse

\* Read from either end, a place holds what Good says.
LEMMA TrailsHeld ==
  ASSUME NEW s, NEW nx, NEW pv, NEW ck, NEW hd, NEW tl, NEW ct,
         Types(nx, pv, ck, hd, tl, ct), Stores(s, nx, pv, hd, tl, ct), NEW p \in Places
  PROVE  /\ Trail(nx, IF p \in Queue THEN nx[p] ELSE hd[p]) = s[p]
         /\ Trail(pv, tl[p]) = Reverse(s[p])
<1> DEFINE q == s[p]  L == Len(q)  b == Reverse(q)
<1>1. /\ q \in Seq(Elem) /\ L \in Nat
      /\ HoldsAt(p, q, nx, pv, hd[p], tl[p], ct[p])
      /\ \A i, j \in 1 .. L : q[i] = q[j] => i = j
  BY LenProperties DEF Stores, Apart
<1>2. /\ b \in Seq(Elem) /\ Len(b) = L
      /\ \A i \in 1 .. L : b[i] = q[L - i + 1]
  BY <1>1, ReverseIs
<1> HIDE DEF q, b
<1>3. IsInjective(q) /\ IsInjective(b)
  <2>1. IsInjective(q)
    BY <1>1, Injective
  <2>2. ASSUME NEW i \in 1 .. L, NEW j \in 1 .. L, b[i] = b[j] PROVE i = j
    <3>1. L - i + 1 \in 1 .. L /\ L - j + 1 \in 1 .. L
      BY <1>1
    <3>2. q[L - i + 1] = q[L - j + 1]
      BY <1>2, <2>2
    <3>3. L - i + 1 = L - j + 1
      BY <1>1, <3>1, <3>2
    <3> QED
      BY <1>1, <3>3
  <2> QED
    BY <1>2, <2>1, <2>2, Injective
<1>4. nx \in [Nodes -> Ends] /\ pv \in [Nodes -> Ends] /\ Base(p) \in Queue \union {Null}
  BY DEF Types, Ends, Nodes, Base
<1>5. /\ \A m \in Queue \union {Null} : Trail(nx, m) = <<>>
      /\ q # <<>> => Trail(nx, q[1]) = q
  <2>1. \A i \in 1 .. Len(q) :
          IF i = Len(q) THEN nx[q[i]] \in Queue \union {Null} ELSE nx[q[i]] = q[i + 1]
    BY <1>1 DEF HoldsAt
  <2> QED
    BY <1>1, <1>3, <1>4, <2>1, TrailFinds
<1>6. /\ \A m \in Queue \union {Null} : Trail(pv, m) = <<>>
      /\ b # <<>> => Trail(pv, b[1]) = b
  <2>1. ASSUME NEW i \in 1 .. Len(b)
        PROVE  IF i = Len(b) THEN pv[b[i]] \in Queue \union {Null} ELSE pv[b[i]] = b[i + 1]
    <3> DEFINE j == L - i + 1
    <3>1. j \in 1 .. L /\ b[i] = q[j] /\ (j = 1 <=> i = L)
      BY <1>1, <1>2
    <3>2. i # L => i + 1 \in 1 .. L /\ L - (i + 1) + 1 = j - 1
      BY <1>1, <1>2
    <3>3. pv[q[j]] = IF j = 1 THEN Base(p) ELSE q[j - 1]
      BY <1>1, <3>1 DEF HoldsAt
    <3> HIDE DEF j
    <3> QED
      BY <1>2, <1>4, <3>1, <3>2, <3>3
  <2> QED
    BY <1>2, <1>3, <1>4, <2>1, TrailFinds
<1>7. CASE q = <<>>
  <2>1. b = <<>>
    BY <1>1, <1>2, <1>7, EmptySeq
  <2> QED
    BY <1>1, <1>4, <1>5, <1>6, <1>7, <2>1 DEF HoldsAt, q, b
<1>8. CASE q # <<>>
  <2>1. b # <<>> /\ b[1] = q[L] /\ 1 \in 1 .. L
    BY <1>1, <1>2, <1>8, EmptySeq
  <2> QED
    BY <1>1, <1>5, <1>6, <1>8, <2>1 DEF HoldsAt, q, b
<1> QED
  BY <1>7, <1>8

\* That is what the operators of TSQueue read, now and in the next state.
LEMMA TrailsNow ==
  ASSUME NEW p \in Places
  PROVE  /\ Q!Content(p) = Trail(next, IF p \in Queue THEN next[p] ELSE head[p])
         /\ Q!Backward(p) = Trail(prev, tail[p])
         /\ Q!Content(p)' = Trail(next', IF p \in Queue THEN next'[p] ELSE head'[p])
         /\ Q!Backward(p)' = Trail(prev', tail'[p])
  BY DEF Q!Content, Q!Backward, Q!First, Q!Along, Q!Node, Trail, Nodes, Ends,
         Q!Cardinality, Cardinality

\* The elements TSQueue finds in a place, now and in the next state, are those
\* Good names.
LEMMA ContentIs ==
  ASSUME NEW s, NEW p \in Places
  PROVE  /\ Good(s) => Q!Content(p) = s[p] /\ Q!Backward(p) = Reverse(s[p])
         /\ Good(s)' => Q!Content(p)' = s[p] /\ Q!Backward(p)' = Reverse(s[p])
<1>1. Good(s) => Q!Content(p) = s[p] /\ Q!Backward(p) = Reverse(s[p])
  BY TrailsHeld, TrailsNow DEF Good
<1>2. Good(s)' <=> /\ Types(next', prev', check', head', tail', count')
                  /\ Stores(s, next', prev', head', tail', count')
  BY DEF Good, Types, Stores, HoldsAt, Apart, Free, In
<1>3. Good(s)' => Q!Content(p)' = s[p] /\ Q!Backward(p)' = Reverse(s[p])
  BY <1>2, TrailsHeld, TrailsNow
<1> QED
  BY <1>1, <1>3

-----------------------------------------------------------------------------
\* What Good says of a place.
LEMMA PlaceIs ==
  ASSUME NEW s, Good(s), NEW p \in Places
  PROVE  /\ s[p] \in Seq(Elem) /\ Len(s[p]) \in Nat
         /\ s[p] = <<>> <=> Len(s[p]) = 0
         /\ \A i \in 1 .. Len(s[p]) : /\ s[p][i] \in Elem /\ s[p][i] \in Nodes
                                      /\ s[p][i] \notin Queue /\ s[p][i] # Null
         /\ \A i, j \in 1 .. Len(s[p]) : s[p][i] = s[p][j] => i = j
         /\ HoldsAt(p, s[p], next, prev, head[p], tail[p], count[p])
         /\ Q!empty(p) <=> s[p] = <<>>
<1>1. /\ s[p] \in Seq(Elem) /\ Len(s[p]) \in Nat /\ (s[p] = <<>> <=> Len(s[p]) = 0)
      /\ HoldsAt(p, s[p], next, prev, head[p], tail[p], count[p])
  BY LenProperties, EmptySeq DEF Good, Stores
<1>2. \A i \in 1 .. Len(s[p]) : /\ s[p][i] \in Elem /\ s[p][i] \in Nodes
                               /\ s[p][i] \notin Queue /\ s[p][i] # Null
  <2>1. \A i \in 1 .. Len(s[p]) : s[p][i] \in Elem
    BY <1>1, ElementOfSeq
  <2> QED
    BY <2>1, QueueAssumption DEF Nodes
<1>3. \A i, j \in 1 .. Len(s[p]) : s[p][i] = s[p][j] => i = j
  BY DEF Good, Stores, Apart
<1>4. Q!empty(p) <=> s[p] = <<>>
  <2>1. s[p] # <<>> => 1 \in 1 .. Len(s[p]) /\ Len(s[p]) \in 1 .. Len(s[p])
    BY <1>1
  <2> QED
    BY <1>1, <1>2, <2>1 DEF HoldsAt, Q!empty, Base
<1> QED
  BY <1>1, <1>2, <1>3, <1>4

\* A step of one place.
LEMMA OneChanges ==
  ASSUME NEW s, Good(s), NEW p \in Places, NEW b \in Seq(Elem),
         Types(next, prev, check, head, tail, count)',
         \A x \in Places \ {p} : head'[x] = head[x] /\ tail'[x] = tail[x] /\ count'[x] = count[x],
         \A n \in Nodes : n # p /\ ~ Mine(s, {p}, n) => next'[n] = next[n] /\ prev'[n] = prev[n],
         HoldsAt(p, b, next', prev', head'[p], tail'[p], count'[p]),
         \A i \in 1 .. Len(b) : Mine(s, {p}, b[i]),
         \A i, j \in 1 .. Len(b) : b[i] = b[j] => i = j,
         \A e \in Elem : Mine(s, {p}, e) /\ (\A i \in 1 .. Len(b) : b[i] # e)
                            => next'[e] = Null /\ prev'[e] = Null
  PROVE  Good([s EXCEPT ![p] = b])'
<1> DEFINE z == [s EXCEPT ![p] = b]  C == {p}
<1>1. s \in [Places -> Seq(Elem)]
  BY DEF Good, Stores
<1>2. z \in [Places -> Seq(Elem)] /\ z[p] = b /\ \A x \in Places \ C : z[x] = s[x]
  BY <1>1
<1> HIDE DEF z
<1>3. C \in SUBSET Places
  OBVIOUS
<1>4. \A x \in Places \ C : z[x] = s[x] /\ head'[x] = head[x] /\ tail'[x] = tail[x]
                           /\ count'[x] = count[x]
  BY <1>2
<1>5. \A n \in Nodes : n \notin C /\ ~ Mine(s, C, n) => next'[n] = next[n] /\ prev'[n] = prev[n]
  OBVIOUS
<1>6. \A x \in C : HoldsAt(x, z[x], next', prev', head'[x], tail'[x], count'[x])
  BY <1>2
<1>7. \A x \in C : \A i \in 1 .. Len(z[x]) : Mine(s, C, z[x][i])
  BY <1>2
<1>8. \A x, r \in C : \A i \in 1 .. Len(z[x]), j \in 1 .. Len(z[r]) :
        z[x][i] = z[r][j] => x = r /\ i = j
  BY <1>2
<1>9. \A e \in Elem : Mine(s, C, e) /\ (\A x \in C : ~ In(z, x, e))
                          => next'[e] = Null /\ prev'[e] = Null
  BY <1>2 DEF In
<1>10. About(s, z, C)
  <2> HIDE DEF C
  <2> QED
    BY <1>2, <1>3, <1>4, <1>5, <1>6, <1>7, <1>8, <1>9 DEF About
<1> QED
  BY <1>10, Others DEF z

\* A step that takes the elements of two places apart anew.
LEMMA TwoChange ==
  ASSUME NEW s, Good(s), NEW p \in Places, NEW r \in Places, p # r,
         NEW b \in Seq(Elem), NEW d \in Seq(Elem),
         Types(next, prev, check, head, tail, count)',
         \A x \in Places \ {p, r} :
            head'[x] = head[x] /\ tail'[x] = tail[x] /\ count'[x] = count[x],
         \A n \in Nodes : n \notin {p, r} /\ ~ In(s, p, n) /\ ~ In(s, r, n)
                            => next'[n] = next[n] /\ prev'[n] = prev[n],
         HoldsAt(p, b, next', prev', head'[p], tail'[p], count'[p]),
         HoldsAt(r, d, next', prev', head'[r], tail'[r], count'[r]),
         \A i \in 1 .. Len(b) : In(s, p, b[i]) \/ In(s, r, b[i]),
         \A i \in 1 .. Len(d) : In(s, p, d[i]) \/ In(s, r, d[i]),
         \A i, j \in 1 .. Len(b) : b[i] = b[j] => i = j,
         \A i, j \in 1 .. Len(d) : d[i] = d[j] => i = j,
         \A i \in 1 .. Len(b), j \in 1 .. Len(d) : b[i] # d[j],
         \A e \in Elem : In(s, p, e) \/ In(s, r, e) =>
            (\E i \in 1 .. Len(b) : b[i] = e) \/ (\E i \in 1 .. Len(d) : d[i] = e)
  PROVE  Good([s EXCEPT ![p] = b, ![r] = d])'
<1> DEFINE z == [s EXCEPT ![p] = b, ![r] = d]  C == {p, r}
<1>1. s \in [Places -> Seq(Elem)]
  BY DEF Good, Stores
<1>2. z \in [Places -> Seq(Elem)] /\ z[p] = b /\ z[r] = d /\ \A x \in Places \ C : z[x] = s[x]
  BY <1>1
<1> HIDE DEF z
<1>3. C \in SUBSET Places
  OBVIOUS
<1>4. \A x \in Places \ C : z[x] = s[x] /\ head'[x] = head[x] /\ tail'[x] = tail[x]
                           /\ count'[x] = count[x]
  BY <1>2
<1>5. \A e \in Elem : Mine(s, C, e) <=> Free(s, e) \/ In(s, p, e) \/ In(s, r, e)
  BY DEF Mine
<1>6. \A n \in Nodes : n \notin C /\ ~ Mine(s, C, n) => next'[n] = next[n] /\ prev'[n] = prev[n]
  <2>1. \A n \in Nodes : In(s, p, n) \/ In(s, r, n) => n \in Elem
    BY <1>1, ElementOfSeq DEF In
  <2> QED
    BY <1>5, <2>1
<1>7. \A x \in C : HoldsAt(x, z[x], next', prev', head'[x], tail'[x], count'[x])
  BY <1>2
<1>8. \A x \in C : \A i \in 1 .. Len(z[x]) : Mine(s, C, z[x][i])
  BY <1>2, <1>5, ElementOfSeq
<1>9. \A x, y \in C : \A i \in 1 .. Len(z[x]), j \in 1 .. Len(z[y]) :
        z[x][i] = z[y][j] => x = y /\ i = j
  BY <1>2
<1>10. ASSUME NEW e \in Elem, Mine(s, C, e), \A x \in C : ~ In(z, x, e)
       PROVE  next'[e] = Null /\ prev'[e] = Null
  <2>1. ~ In(s, p, e) /\ ~ In(s, r, e)
    BY <1>2, <1>10 DEF In
  <2>2. Free(s, e) /\ e \in Nodes /\ e \notin C
    BY <1>5, <1>10, <2>1, QueueAssumption DEF Nodes, Places
  <2>3. next[e] = Null /\ prev[e] = Null
    BY <2>2 DEF Good, Stores
  <2> QED
    BY <2>1, <2>2, <2>3
<1>11. \A e \in Elem : Mine(s, C, e) /\ (\A x \in C : ~ In(z, x, e))
                          => next'[e] = Null /\ prev'[e] = Null
  BY <1>10
<1>12. About(s, z, C)
  <2> HIDE DEF C
  <2> QED
    BY <1>2, <1>3, <1>4, <1>6, <1>7, <1>8, <1>9, <1>11 DEF About
<1> QED
  BY <1>12, Others DEF z

-----------------------------------------------------------------------------
\* The operations by what they do to the pointers.  The fields of a place after a
\* step: whether it is empty, its first and its last element and their number.
EndsAfter(p, none, first, last, n) ==
    /\ p \in Queue => head'[p] = p /\ next'[p] = IF none THEN Null ELSE first
    /\ p \notin Queue => head'[p] = IF none THEN Null ELSE first
    /\ tail'[p] = IF none THEN Base(p) ELSE last
    /\ count'[p] = n

\* Only the fields of the places of C and the nodes they hold are written.
Within(s, C) ==
    /\ Types(next, prev, check, head, tail, count)'
    /\ \A x \in Places \ C : head'[x] = head[x] /\ tail'[x] = tail[x] /\ count'[x] = count[x]
    /\ \A n \in Nodes : n \notin C /\ (\A x \in C : ~ In(s, x, n))
          => next'[n] = next[n] /\ prev'[n] = prev[n]

\* The elements of p are divided behind the element k: x gets those up to it and y
\* the others.
SplitsAt(s, p, x, y, k) ==
    LET a == s[p]
        n == Len(a)
    IN  /\ \A i \in 1 .. n : next'[a[i]] = IF i = k THEN Null ELSE next[a[i]]
        /\ \A i \in 1 .. n : prev'[a[i]] = IF i = k + 1 THEN Base(y)
                                          ELSE IF i = 1 THEN Base(x) ELSE prev[a[i]]
        /\ EndsAfter(x, k = 0, a[1], a[k], k)
        /\ EndsAfter(y, k = n, a[k + 1], a[n], n - k)

\* A list cut in two stays well linked, in both places.
LEMMA SplitGood ==
  ASSUME NEW s, Good(s), NEW p \in Places, NEW r \in Places, p # r, s[r] = <<>>,
         NEW k \in 0 .. Len(s[p]), Within(s, {p, r}),
         NEW x, NEW y, (x = p /\ y = r) \/ (x = r /\ y = p), SplitsAt(s, p, x, y, k)
  PROVE  Good([s EXCEPT ![x] = SubSeq(s[p], 1, k),
                        ![y] = SubSeq(s[p], k + 1, Len(s[p]))])'
<1> DEFINE a == s[p]  n == Len(a)  f == SubSeq(a, 1, k)  g == SubSeq(a, k + 1, n)
<1>1. /\ a \in Seq(Elem) /\ n \in Nat /\ k \in Nat /\ k <= n
      /\ \A i \in 1 .. n : a[i] \in Elem
      /\ \A i, j \in 1 .. n : a[i] = a[j] => i = j
      /\ HoldsAt(p, a, next, prev, head[p], tail[p], count[p])
  BY PlaceIs
<1>2. /\ \A i \in 1 .. n : next[a[i]] = IF i = n THEN Null ELSE a[i + 1]
      /\ \A i \in 1 .. n : i # 1 => prev[a[i]] = a[i - 1]
  BY <1>1 DEF HoldsAt
<1>3. \A e : In(s, p, e) <=> \E i \in 1 .. n : a[i] = e
  BY DEF In
<1>4. \A e : ~ In(s, r, e)
  BY EmptySeq DEF In
<1>5. /\ \A i \in 1 .. n : next'[a[i]] = IF i = k THEN Null ELSE next[a[i]]
      /\ \A i \in 1 .. n : prev'[a[i]] = IF i = k + 1 THEN Base(y)
                                          ELSE IF i = 1 THEN Base(x) ELSE prev[a[i]]
  BY DEF SplitsAt
<1>17. EndsAfter(x, k = 0, a[1], a[k], k) /\ EndsAfter(y, k = n, a[k + 1], a[n], n - k)
  BY DEF SplitsAt
<1> HIDE DEF a
<1>6. f \in Seq(Elem) /\ Len(f) = k /\ \A i \in 1 .. k : f[i] = a[i]
  BY <1>1
<1>7. g \in Seq(Elem) /\ Len(g) = n - k /\ \A i \in 1 .. n - k : g[i] = a[k + i]
  BY <1>1
<1> HIDE DEF f, g, n
<1>8. ((f = <<>>) <=> k = 0) /\ ((g = <<>>) <=> k = n)
  <2>1. (f = <<>>) <=> k = 0
    BY <1>6, EmptySeq
  <2>2. (g = <<>>) <=> n - k = 0
    BY <1>7, EmptySeq
  <2> QED
    BY <1>1, <2>1, <2>2
<1>9. HoldsAt(x, f, next', prev', head'[x], tail'[x], count'[x])
  <2>1. ASSUME NEW i \in 1 .. k
        PROVE  next'[f[i]] = IF i = k THEN Null ELSE f[i + 1]
    <3>1. i \in 1 .. n /\ (i # k => i + 1 \in 1 .. k /\ i # n)
      BY <1>1
    <3>2. next'[a[i]] = IF i = k THEN Null ELSE a[i + 1]
      BY <1>2, <1>5, <3>1
    <3> QED
      BY <1>6, <3>1, <3>2
  <2>2. ASSUME NEW i \in 1 .. k
        PROVE  prev'[f[i]] = IF i = 1 THEN Base(x) ELSE f[i - 1]
    <3>1. i \in 1 .. n /\ i # k + 1 /\ (i # 1 => i - 1 \in 1 .. k)
      BY <1>1
    <3>2. prev'[a[i]] = IF i = 1 THEN Base(x) ELSE a[i - 1]
      BY <1>2, <1>5, <3>1
    <3> QED
      BY <1>6, <3>1, <3>2
  <2>3. k # 0 => f[1] = a[1] /\ f[k] = a[k]
    BY <1>1, <1>6
  <2> QED
    BY <1>17, <1>6, <1>8, <2>1, <2>2, <2>3 DEF HoldsAt, EndsAfter
<1>10. HoldsAt(y, g, next', prev', head'[y], tail'[y], count'[y])
  <2>1. ASSUME NEW i \in 1 .. n - k
        PROVE  /\ next'[g[i]] = IF i = n - k THEN Null ELSE g[i + 1]
               /\ prev'[g[i]] = IF i = 1 THEN Base(y) ELSE g[i - 1]
    <3>1. k + i \in 1 .. n /\ k + i # k /\ (k + i = n <=> i = n - k)
          /\ (k + i = k + 1 <=> i = 1) /\ (i # 1 => k + i # 1) /\ g[i] = a[k + i]
      BY <1>1, <1>7
    <3>2. next'[a[k + i]] = IF i = n - k THEN Null ELSE a[k + i + 1]
      <4> DEFINE j == k + i
      <4>1. j \in 1 .. n /\ j # k /\ (j = n <=> i = n - k) /\ k + i + 1 = j + 1
        BY <3>1
      <4> HIDE DEF j
      <4>2. next'[a[j]] = IF j = n THEN Null ELSE a[j + 1]
        BY <1>2, <1>5, <4>1
      <4> QED
        BY <4>1, <4>2 DEF j
    <3>3. i # n - k => i + 1 \in 1 .. n - k /\ g[i + 1] = a[k + i + 1]
      BY <1>1, <1>7
    <3>4. i # 1 => i - 1 \in 1 .. n - k /\ g[i - 1] = a[k + i - 1]
      BY <1>1, <1>7
    <3>5. prev'[a[k + i]] = IF i = 1 THEN Base(y) ELSE a[k + i - 1]
      <4> DEFINE j == k + i
      <4>1. j \in 1 .. n /\ (j = k + 1 <=> i = 1) /\ (i # 1 => j # 1) /\ k + i - 1 = j - 1
        BY <3>1
      <4> HIDE DEF j
      <4>2. prev'[a[j]] = IF i = 1 THEN Base(y) ELSE a[j - 1]
        BY <1>2, <1>5, <4>1
      <4> QED
        BY <4>1, <4>2 DEF j
    <3> QED
      BY <3>1, <3>2, <3>3, <3>4, <3>5
  <2>2. k # n => g[1] = a[k + 1] /\ g[n - k] = a[n]
    <3>1. k # n => 1 \in 1 .. n - k /\ n - k \in 1 .. n - k /\ k + (n - k) = n
      BY <1>1
    <3> QED
      BY <1>7, <3>1
  <2> QED
    BY <1>1, <1>17, <1>7, <1>8, <2>1, <2>2 DEF HoldsAt, EndsAfter
<1>11. /\ \A i \in 1 .. Len(f) : In(s, p, f[i])
       /\ \A i \in 1 .. Len(g) : In(s, p, g[i])
       /\ \A i, j \in 1 .. Len(f) : f[i] = f[j] => i = j
       /\ \A i, j \in 1 .. Len(g) : g[i] = g[j] => i = j
       /\ \A i \in 1 .. Len(f), j \in 1 .. Len(g) : f[i] # g[j]
  <2>1. ASSUME NEW i \in 1 .. k PROVE i \in 1 .. n /\ f[i] = a[i]
    BY <1>1, <1>6
  <2>2. ASSUME NEW i \in 1 .. n - k PROVE k + i \in 1 .. n /\ g[i] = a[k + i]
    BY <1>1, <1>7
  <2>3. \A i \in 1 .. k : In(s, p, f[i])
    BY <1>3, <2>1
  <2>4. \A i \in 1 .. n - k : In(s, p, g[i])
    BY <1>3, <2>2
  <2>5. \A i, j \in 1 .. k : f[i] = f[j] => i = j
    BY <1>1, <2>1
  <2>6. ASSUME NEW i \in 1 .. n - k, NEW j \in 1 .. n - k, g[i] = g[j] PROVE i = j
    <3>1. k + i = k + j
      BY <1>1, <2>2, <2>6
    <3> QED
      BY <1>1, <3>1
  <2>7. ASSUME NEW i \in 1 .. k, NEW j \in 1 .. n - k PROVE f[i] # g[j]
    <3>1. i # k + j
      BY <1>1
    <3> QED
      BY <1>1, <2>1, <2>2, <3>1
  <2> QED
    BY <1>6, <1>7, <2>3, <2>4, <2>5, <2>6, <2>7
<1>12. ASSUME NEW e \in Elem, In(s, p, e)
       PROVE  (\E i \in 1 .. Len(f) : f[i] = e) \/ (\E i \in 1 .. Len(g) : g[i] = e)
  <2>1. PICK i \in 1 .. n : a[i] = e
    BY <1>3, <1>12
  <2>2. CASE i <= k
    BY <1>6, <2>1, <2>2
  <2>3. CASE i > k
    <3>1. i - k \in 1 .. n - k /\ k + (i - k) = i
      BY <1>1, <2>3
    <3> QED
      BY <1>7, <2>1, <3>1
  <2> QED
    BY <1>1, <2>2, <2>3
<1>13. /\ Types(next, prev, check, head, tail, count)'
       /\ \A u \in Places \ {x, y} :
             head'[u] = head[u] /\ tail'[u] = tail[u] /\ count'[u] = count[u]
       /\ \A u \in Nodes : u \notin {x, y} /\ ~ In(s, x, u) /\ ~ In(s, y, u)
                           => next'[u] = next[u] /\ prev'[u] = prev[u]
       /\ x \in Places /\ y \in Places /\ x # y
  BY DEF Within
<1>14. /\ \A i \in 1 .. Len(f) : In(s, x, f[i]) \/ In(s, y, f[i])
       /\ \A i \in 1 .. Len(g) : In(s, x, g[i]) \/ In(s, y, g[i])
  BY <1>11
<1>15. \A e \in Elem : In(s, x, e) \/ In(s, y, e) =>
         (\E i \in 1 .. Len(f) : f[i] = e) \/ (\E i \in 1 .. Len(g) : g[i] = e)
  BY <1>4, <1>12
<1>16. Good([s EXCEPT ![x] = f, ![y] = g])'
  BY <1>6, <1>7, <1>9, <1>10, <1>11, <1>13, <1>14, <1>15, TwoChange
<1> QED
  BY <1>16 DEF f, g, n, a

\* The elements of p, which has some, go behind those of r.
Links(s, p, r) ==
    LET a == s[p]
        n == Len(a)
        b == s[r]
        m == Len(b)
    IN  /\ \A i \in 1 .. n : next'[a[i]] = next[a[i]]
        /\ \A i \in 1 .. n : prev'[a[i]] = IF i = 1 THEN tail[r] ELSE prev[a[i]]
        /\ \A i \in 1 .. m : next'[b[i]] = IF i = m THEN a[1] ELSE next[b[i]]
        /\ \A i \in 1 .. m : prev'[b[i]] = prev[b[i]]
        /\ EndsAfter(p, TRUE, Null, Null, 0)
        /\ EndsAfter(r, FALSE, IF m = 0 THEN a[1] ELSE b[1], a[n], m + n)

\* A list behind another is well linked, and the place it came from is empty.
LEMMA JoinGood ==
  ASSUME NEW s, Good(s), NEW p \in Places, NEW r \in Places, p # r, s[p] # <<>>,
         Within(s, {p, r}), Links(s, p, r)
  PROVE  Good([s EXCEPT ![p] = <<>>, ![r] = s[r] \o s[p]])'
<1> DEFINE a == s[p]  n == Len(a)  b == s[r]  m == Len(b)  c == b \o a
<1>1. /\ a \in Seq(Elem) /\ n \in Nat /\ n # 0
      /\ \A i \in 1 .. n : a[i] \in Elem
      /\ \A i, j \in 1 .. n : a[i] = a[j] => i = j
      /\ HoldsAt(p, a, next, prev, head[p], tail[p], count[p])
  BY PlaceIs
<1>2. /\ b \in Seq(Elem) /\ m \in Nat /\ (b = <<>> <=> m = 0)
      /\ \A i \in 1 .. m : b[i] \in Elem
      /\ \A i, j \in 1 .. m : b[i] = b[j] => i = j
      /\ HoldsAt(r, b, next, prev, head[r], tail[r], count[r])
  BY PlaceIs
<1>3. \A i \in 1 .. n, j \in 1 .. m : a[i] # b[j]
  BY DEF Good, Stores, Apart
<1>4. /\ \A e : In(s, p, e) <=> \E i \in 1 .. n : a[i] = e
      /\ \A e : In(s, r, e) <=> \E i \in 1 .. m : b[i] = e
  BY DEF In
<1>5. /\ \A i \in 1 .. n : next[a[i]] = IF i = n THEN Null ELSE a[i + 1]
      /\ \A i \in 1 .. n : i # 1 => prev[a[i]] = a[i - 1]
      /\ \A i \in 1 .. m : i # m => next[b[i]] = b[i + 1]
      /\ \A i \in 1 .. m : prev[b[i]] = IF i = 1 THEN Base(r) ELSE b[i - 1]
      /\ tail[r] = IF m = 0 THEN Base(r) ELSE b[m]
  BY <1>1, <1>2 DEF HoldsAt
<1>6. /\ \A i \in 1 .. n : next'[a[i]] = next[a[i]]
      /\ \A i \in 1 .. n : prev'[a[i]] = IF i = 1 THEN tail[r] ELSE prev[a[i]]
      /\ \A i \in 1 .. m : next'[b[i]] = IF i = m THEN a[1] ELSE next[b[i]]
      /\ \A i \in 1 .. m : prev'[b[i]] = prev[b[i]]
      /\ EndsAfter(p, TRUE, Null, Null, 0)
      /\ EndsAfter(r, FALSE, IF m = 0 THEN a[1] ELSE b[1], a[n], m + n)
  BY DEF Links
<1> HIDE DEF a, b
<1>7. /\ c \in Seq(Elem) /\ Len(c) = m + n
      /\ \A i \in 1 .. m + n : c[i] = IF i <= m THEN b[i] ELSE a[i - m]
  BY <1>1, <1>2, ConcatProperties
<1> HIDE DEF c, n, m
<1>8. \A i \in 1 .. m : c[i] = b[i]
  BY <1>1, <1>2, <1>7
<1>9. \A i \in 1 .. n : m + i \in 1 .. m + n /\ c[m + i] = a[i]
  <2> SUFFICES ASSUME NEW i \in 1 .. n PROVE m + i \in 1 .. m + n /\ c[m + i] = a[i]
    OBVIOUS
  <2>1. m + i \in 1 .. m + n /\ ~ (m + i <= m) /\ (m + i) - m = i
    BY <1>1, <1>2
  <2> QED
    BY <1>7, <2>1
<1>10. ASSUME NEW i \in 1 .. m + n
       PROVE  \/ i \in 1 .. m
              \/ \E j \in 1 .. n : i = m + j
  <2>1. i > m => i - m \in 1 .. n /\ i = m + (i - m)
    BY <1>1, <1>2
  <2> QED
    BY <1>1, <1>2, <2>1
<1>11. ASSUME NEW i \in 1 .. m + n
       PROVE  /\ next'[c[i]] = IF i = m + n THEN Null ELSE c[i + 1]
              /\ prev'[c[i]] = IF i = 1 THEN Base(r) ELSE c[i - 1]
  <2>1. CASE i \in 1 .. m
    <3>1. c[i] = b[i] /\ i # m + n
      BY <1>1, <1>2, <1>8, <2>1
    <3>2. i # m => i + 1 \in 1 .. m /\ c[i + 1] = b[i + 1]
      BY <1>2, <1>8, <2>1
    <3>3. c[m + 1] = a[1]
      BY <1>1, <1>9
    <3>4. i # 1 => i - 1 \in 1 .. m /\ c[i - 1] = b[i - 1]
      BY <1>2, <1>8, <2>1
    <3> QED
      BY <1>5, <1>6, <2>1, <3>1, <3>2, <3>3, <3>4
  <2>2. CASE \E j \in 1 .. n : i = m + j
    <3>1. PICK j \in 1 .. n : i = m + j
      BY <2>2
    <3>2. c[i] = a[j] /\ (i = m + n <=> j = n)
      BY <1>1, <1>2, <1>9, <3>1
    <3>3. j # n => j + 1 \in 1 .. n /\ c[i + 1] = a[j + 1]
      <4>1. j # n => j + 1 \in 1 .. n /\ i + 1 = m + (j + 1)
        BY <1>1, <1>2, <3>1
      <4> QED
        BY <1>9, <4>1
    <3>4. next'[c[i]] = IF i = m + n THEN Null ELSE c[i + 1]
      BY <1>5, <1>6, <3>2, <3>3
    <3>5. CASE j # 1
      <4>1. j - 1 \in 1 .. n /\ i - 1 = m + (j - 1) /\ i # 1
        BY <1>1, <1>2, <3>1, <3>5
      <4>2. c[i - 1] = a[j - 1]
        BY <1>9, <4>1
      <4> QED
        BY <1>5, <1>6, <3>2, <3>4, <3>5, <4>1, <4>2
    <3>6. CASE j = 1
      <4>1. prev'[c[i]] = IF m = 0 THEN Base(r) ELSE b[m]
        BY <1>5, <1>6, <3>2, <3>6
      <4>2. (i = 1 <=> m = 0) /\ i - 1 = m
        <5>1. i = m + 1 /\ m \in Nat
          BY <1>2, <3>1, <3>6
        <5> QED
          BY <5>1
      <4>3. m # 0 => c[m] = b[m]
        BY <1>2, <1>8
      <4> QED
        BY <3>4, <4>1, <4>2, <4>3
    <3> QED
      BY <3>5, <3>6
  <2> QED
    BY <1>10, <2>1, <2>2
<1>12. HoldsAt(r, c, next', prev', head'[r], tail'[r], count'[r])
  <2>1. c # <<>> /\ c[m + n] = a[n] /\ c[1] = IF m = 0 THEN a[1] ELSE b[1]
    <3>1. c # <<>>
      BY <1>1, <1>2, <1>7, EmptySeq
    <3>2. c[m + n] = a[n]
      BY <1>1, <1>9
    <3>3. m # 0 => c[1] = b[1]
      BY <1>2, <1>8
    <3>4. m = 0 => c[1] = a[1]
      BY <1>1, <1>9
    <3> QED
      BY <3>1, <3>2, <3>3, <3>4
  <2> QED
    BY <1>6, <1>7, <1>11, <2>1 DEF HoldsAt, EndsAfter
<1>13. <<>> \in Seq(Elem) /\ Len(<<>>) = 0
       /\ HoldsAt(p, <<>>, next', prev', head'[p], tail'[p], count'[p])
  BY <1>6, EmptySeq DEF HoldsAt, EndsAfter
<1>14. \A i \in 1 .. Len(c) : In(s, p, c[i]) \/ In(s, r, c[i])
  <2>1. ASSUME NEW i \in 1 .. m + n PROVE In(s, p, c[i]) \/ In(s, r, c[i])
    <3>1. CASE i \in 1 .. m
      BY <1>4, <1>8, <3>1
    <3>2. CASE \E j \in 1 .. n : i = m + j
      BY <1>4, <1>9, <3>2
    <3> QED
      BY <1>10, <3>1, <3>2
  <2> QED
    BY <1>7, <2>1
<1>15. \A i, j \in 1 .. Len(c) : c[i] = c[j] => i = j
  <2> SUFFICES ASSUME NEW i \in 1 .. m + n, NEW j \in 1 .. m + n, c[i] = c[j] PROVE i = j
    BY <1>7
  <2>1. CASE i \in 1 .. m /\ j \in 1 .. m
    BY <1>2, <1>8, <2>1
  <2>2. CASE (\E k \in 1 .. n : i = m + k) /\ (\E k \in 1 .. n : j = m + k)
    <3>1. PICK k \in 1 .. n, l \in 1 .. n : i = m + k /\ j = m + l
      BY <2>2
    <3>2. k = l
      BY <1>1, <1>9, <3>1
    <3> QED
      BY <3>1, <3>2
  <2>3. CASE i \in 1 .. m /\ \E k \in 1 .. n : j = m + k
    BY <1>3, <1>8, <1>9, <2>3
  <2>4. CASE j \in 1 .. m /\ \E k \in 1 .. n : i = m + k
    BY <1>3, <1>8, <1>9, <2>4
  <2> QED
    BY <1>10, <2>1, <2>2, <2>3, <2>4
<1>16. \A e \in Elem : In(s, p, e) \/ In(s, r, e) => \E i \in 1 .. Len(c) : c[i] = e
  <2> SUFFICES ASSUME NEW e \in Elem, In(s, p, e) \/ In(s, r, e)
               PROVE  \E i \in 1 .. m + n : c[i] = e
    BY <1>7
  <2>1. CASE In(s, p, e)
    BY <1>4, <1>9, <2>1
  <2>2. CASE In(s, r, e)
    <3>1. PICK i \in 1 .. m : b[i] = e
      BY <1>4, <2>2
    <3>2. i \in 1 .. m + n
      BY <1>1, <1>2, <3>1
    <3> QED
      BY <1>8, <3>1, <3>2
  <2> QED
    BY <2>1, <2>2
<1>17. /\ Types(next, prev, check, head, tail, count)'
       /\ \A u \in Places \ {p, r} :
             head'[u] = head[u] /\ tail'[u] = tail[u] /\ count'[u] = count[u]
       /\ \A u \in Nodes : u \notin {p, r} /\ ~ In(s, p, u) /\ ~ In(s, r, u)
                           => next'[u] = next[u] /\ prev'[u] = prev[u]
  <2>1. Within(s, {p, r})
    OBVIOUS
  <2> QED
    BY <2>1 DEF Within
<1> DEFINE o == <<>>
<1>18. o \in Seq(Elem) /\ HoldsAt(p, o, next', prev', head'[p], tail'[p], count'[p])
       /\ \A i : i \notin 1 .. Len(o)
  BY <1>13
<1> HIDE DEF o
<1>19. Good([s EXCEPT ![p] = o, ![r] = c])'
  BY <1>7, <1>12, <1>14, <1>15, <1>16, <1>17, <1>18, TwoChange
<1> QED
  BY <1>19 DEF c, a, b, o

\* A step that only takes elements out of one place.
LEMMA OneShrinks ==
  ASSUME NEW s, Good(s), NEW p \in Places, NEW b \in Seq(Elem), Within(s, {p}),
         HoldsAt(p, b, next', prev', head'[p], tail'[p], count'[p]),
         \A i \in 1 .. Len(b) : In(s, p, b[i]),
         \A i, j \in 1 .. Len(b) : b[i] = b[j] => i = j,
         \A i \in 1 .. Len(s[p]) : (\A j \in 1 .. Len(b) : b[j] # s[p][i])
             => next'[s[p][i]] = Null /\ prev'[s[p][i]] = Null
  PROVE  Good([s EXCEPT ![p] = b])'
<1>0. Within(s, {p})
  OBVIOUS
<1>1. /\ Types(next, prev, check, head, tail, count)'
      /\ \A x \in Places \ {p} :
            head'[x] = head[x] /\ tail'[x] = tail[x] /\ count'[x] = count[x]
      /\ \A n \in Nodes : n # p /\ ~ In(s, p, n) => next'[n] = next[n] /\ prev'[n] = prev[n]
  BY <1>0 DEF Within
<1>2. \A n : In(s, p, n) => n \in Elem
  BY PlaceIs DEF In
<1>3. \A n : Mine(s, {p}, n) <=> n \in Elem /\ (Free(s, n) \/ In(s, p, n))
  BY DEF Mine
<1>4. \A n \in Nodes : n # p /\ ~ Mine(s, {p}, n) => next'[n] = next[n] /\ prev'[n] = prev[n]
  BY <1>1, <1>2, <1>3
<1>5. \A i \in 1 .. Len(b) : Mine(s, {p}, b[i])
  BY <1>2, <1>3
<1>6. ASSUME NEW e \in Elem, Mine(s, {p}, e), \A i \in 1 .. Len(b) : b[i] # e
      PROVE  next'[e] = Null /\ prev'[e] = Null
  <2>1. CASE In(s, p, e)
    BY <1>6, <2>1 DEF In
  <2>2. CASE ~ In(s, p, e)
    <3>1. Free(s, e) /\ e \in Nodes /\ e # p
      BY <1>3, <1>6, <2>2, QueueAssumption DEF Nodes, Places
    <3>2. next[e] = Null /\ prev[e] = Null
      BY <3>1 DEF Good, Stores
    <3> QED
      BY <1>1, <2>2, <3>1, <3>2
  <2> QED
    BY <2>1, <2>2
<1>7. \A e \in Elem : Mine(s, {p}, e) /\ (\A i \in 1 .. Len(b) : b[i] # e)
                          => next'[e] = Null /\ prev'[e] = Null
  BY <1>6
<1> QED
  BY <1>1, <1>4, <1>5, <1>7, OneChanges

\* The element k of p is taken out.
Unlinks(s, p, k) ==
    LET a == s[p]
        n == Len(a)
    IN  /\ \A i \in 1 .. n : next'[a[i]] = IF i = k THEN Null
                                          ELSE IF i = k - 1 THEN next[a[k]] ELSE next[a[i]]
        /\ \A i \in 1 .. n : prev'[a[i]] = IF i = k THEN Null
                                          ELSE IF i = k + 1 THEN prev[a[k]] ELSE prev[a[i]]
        /\ EndsAfter(p, n = 1, IF k = 1 THEN a[2] ELSE a[1],
                             IF k = n THEN a[n - 1] ELSE a[n], n - 1)

\* A list without its element k is well linked, and that element's hooks are
\* clear.
LEMMA LeaveGood ==
  ASSUME NEW s, Good(s), NEW p \in Places, NEW k \in 1 .. Len(s[p]),
         Within(s, {p}), Unlinks(s, p, k)
  PROVE  Good([s EXCEPT ![p] = RemoveAt(@, k)])'
<1> DEFINE a == s[p]  n == Len(a)  b == RemoveAt(a, k)
<1>1. /\ a \in Seq(Elem) /\ n \in Nat /\ k \in 1 .. n
      /\ \A i, j \in 1 .. n : a[i] = a[j] => i = j
      /\ HoldsAt(p, a, next, prev, head[p], tail[p], count[p])
  BY PlaceIs
<1>2. /\ \A i \in 1 .. n : next[a[i]] = IF i = n THEN Null ELSE a[i + 1]
      /\ \A i \in 1 .. n : prev[a[i]] = IF i = 1 THEN Base(p) ELSE a[i - 1]
  BY <1>1 DEF HoldsAt
<1>3. /\ \A i \in 1 .. n : next'[a[i]] = IF i = k THEN Null
                                       ELSE IF i = k - 1 THEN next[a[k]] ELSE next[a[i]]
      /\ \A i \in 1 .. n : prev'[a[i]] = IF i = k THEN Null
                                       ELSE IF i = k + 1 THEN prev[a[k]] ELSE prev[a[i]]
  BY DEF Unlinks
<1>4. EndsAfter(p, n = 1, IF k = 1 THEN a[2] ELSE a[1], IF k = n THEN a[n - 1] ELSE a[n], n - 1)
  BY DEF Unlinks
<1>5. /\ b \in Seq(Elem) /\ Len(b) = n - 1
      /\ \A j \in 1 .. n - 1 : b[j] = IF j < k THEN a[j] ELSE a[j + 1]
  BY <1>1, RemoveAtElements
<1>6. \A i \in 1 .. n : In(s, p, a[i])
  BY DEF In
<1>7. Within(s, {p})
  OBVIOUS
<1> HIDE DEF b, a, n
<1>8. ASSUME NEW j \in 1 .. n - 1
      PROVE  /\ next'[b[j]] = IF j = n - 1 THEN Null ELSE b[j + 1]
             /\ prev'[b[j]] = IF j = 1 THEN Base(p) ELSE b[j - 1]
  <2>1. CASE j < k - 1
    <3>1. /\ j \in 1 .. n /\ j # k /\ j # k - 1 /\ j # k + 1 /\ j # n /\ j # n - 1
          /\ j + 1 \in 1 .. n - 1 /\ j < k /\ j + 1 < k
      BY <1>1, <2>1
    <3>2. b[j] = a[j] /\ b[j + 1] = a[j + 1]
      BY <1>5, <3>1
    <3>3. j # 1 => j - 1 \in 1 .. n - 1 /\ j - 1 < k
      BY <1>1, <2>1
    <3>4. j # 1 => b[j - 1] = a[j - 1]
      BY <1>5, <3>3
    <3> QED
      BY <1>2, <1>3, <3>1, <3>2, <3>4
  <2>2. CASE j = k - 1
    <3>1. /\ j \in 1 .. n /\ j # k /\ j # k + 1 /\ j < k /\ j + 1 = k
          /\ (k = n <=> j = n - 1) /\ (j # n - 1 => j + 1 \in 1 .. n - 1 /\ ~ (j + 1 < k))
      BY <1>1, <2>2
    <3>2. b[j] = a[j] /\ (j # n - 1 => b[j + 1] = a[k + 1])
      BY <1>5, <3>1
    <3>3. j # 1 => j - 1 \in 1 .. n - 1 /\ j - 1 < k
      BY <1>1, <2>2
    <3>4. j # 1 => b[j - 1] = a[j - 1]
      BY <1>5, <3>3
    <3>5. next'[a[j]] = next[a[k]] /\ prev'[a[j]] = prev[a[j]]
      BY <1>3, <2>2, <3>1
    <3>6. next[a[k]] = IF k = n THEN Null ELSE a[k + 1]
      BY <1>1, <1>2
    <3> QED
      BY <1>2, <3>1, <3>2, <3>4, <3>5, <3>6
  <2>3. CASE j >= k
    <3> DEFINE i == j + 1
    <3>1. /\ i \in 1 .. n /\ i # k /\ i # k - 1 /\ (i = n <=> j = n - 1) /\ i # 1 /\ i - 1 = j
          /\ ~ (j < k) /\ (j # n - 1 => i \in 1 .. n - 1 /\ ~ (i < k)) /\ (j = k <=> i = k + 1)
      BY <1>1, <2>3
    <3>2. b[j] = a[i]
      BY <1>5, <3>1
    <3> HIDE DEF i
    <3>3. j # n - 1 => b[i] = a[i + 1]
      BY <1>5, <3>1
    <3>4. next'[a[i]] = next[a[i]] /\ next[a[i]] = IF i = n THEN Null ELSE a[i + 1]
      BY <1>2, <1>3, <3>1
    <3>5. next'[b[j]] = IF j = n - 1 THEN Null ELSE b[j + 1]
      BY <3>1, <3>2, <3>3, <3>4 DEF i
    <3>6. CASE j = k
      <4>1. prev'[a[i]] = prev[a[k]]
        BY <1>3, <3>1, <3>6
      <4>2. prev[a[k]] = IF k = 1 THEN Base(p) ELSE a[k - 1]
        BY <1>1, <1>2
      <4>3. j # 1 => j - 1 \in 1 .. n - 1 /\ j - 1 < k
        BY <1>1, <3>6
      <4>4. j # 1 => b[j - 1] = a[k - 1]
        BY <1>5, <3>6, <4>3
      <4> QED
        BY <3>2, <3>5, <3>6, <4>1, <4>2, <4>4
    <3>7. CASE j # k
      <4>1. prev'[a[i]] = a[j]
        BY <1>2, <1>3, <3>1, <3>7
      <4>2. j # 1 /\ j - 1 \in 1 .. n - 1 /\ ~ (j - 1 < k) /\ (j - 1) + 1 = j
        BY <1>1, <2>3, <3>7
      <4>3. b[j - 1] = a[j]
        BY <1>5, <4>2
      <4> QED
        BY <3>2, <3>5, <4>1, <4>2, <4>3
    <3> QED
      BY <3>6, <3>7
  <2>4. j < k - 1 \/ j = k - 1 \/ j >= k
    BY <1>1
  <2> QED
    BY <2>1, <2>2, <2>3, <2>4
<1>9. HoldsAt(p, b, next', prev', head'[p], tail'[p], count'[p])
  <2>1. (b = <<>>) <=> n = 1
    <3>1. (b = <<>>) <=> n - 1 = 0
      BY <1>5, EmptySeq
    <3> QED
      BY <1>1, <3>1
  <2>2. n # 1 => b[1] = IF k = 1 THEN a[2] ELSE a[1]
    <3>1. n # 1 => 1 \in 1 .. n - 1 /\ (1 < k <=> k # 1) /\ 1 + 1 = 2
      BY <1>1
    <3> QED
      BY <1>5, <3>1
  <2>3. n # 1 => b[n - 1] = IF k = n THEN a[n - 1] ELSE a[n]
    <3>1. n # 1 => n - 1 \in 1 .. n - 1 /\ (n - 1 < k <=> k = n) /\ (n - 1) + 1 = n
      BY <1>1
    <3> QED
      BY <1>5, <3>1
  <2> QED
    BY <1>1, <1>4, <1>5, <1>8, <2>1, <2>2, <2>3 DEF HoldsAt, EndsAfter
<1>10. \A j \in 1 .. n - 1 : \E i \in 1 .. n : b[j] = a[i] /\ i = (IF j < k THEN j ELSE j + 1)
  BY <1>1, <1>5
<1>11. \A i \in 1 .. Len(b) : In(s, p, b[i])
  BY <1>5, <1>6, <1>10
<1>12. \A i, j \in 1 .. Len(b) : b[i] = b[j] => i = j
  <2> SUFFICES ASSUME NEW i \in 1 .. n - 1, NEW j \in 1 .. n - 1, b[i] = b[j] PROVE i = j
    BY <1>5
  <2>1. PICK x \in 1 .. n : b[i] = a[x] /\ x = (IF i < k THEN i ELSE i + 1)
    BY <1>10
  <2>2. PICK y \in 1 .. n : b[j] = a[y] /\ y = (IF j < k THEN j ELSE j + 1)
    BY <1>10
  <2>3. x = y
    BY <1>1, <2>1, <2>2
  <2> QED
    BY <1>1, <2>1, <2>2, <2>3
<1>13. ASSUME NEW i \in 1 .. n, \A j \in 1 .. Len(b) : b[j] # a[i]
       PROVE  next'[a[i]] = Null /\ prev'[a[i]] = Null
  <2>1. i = k
    <3>1. CASE i < k
      <4>1. i \in 1 .. n - 1
        BY <1>1, <3>1
      <4> QED
        BY <1>5, <1>13, <3>1, <4>1
    <3>2. CASE i > k
      <4>1. i - 1 \in 1 .. n - 1 /\ ~ (i - 1 < k) /\ (i - 1) + 1 = i
        BY <1>1, <3>2
      <4>2. b[i - 1] = a[i]
        BY <1>5, <4>1
      <4> QED
        BY <1>5, <1>13, <4>1, <4>2
    <3> QED
      BY <1>1, <3>1, <3>2
  <2> QED
    BY <1>3, <2>1
<1>14. \A i \in 1 .. Len(s[p]) : (\A j \in 1 .. Len(b) : b[j] # s[p][i])
          => next'[s[p][i]] = Null /\ prev'[s[p][i]] = Null
  BY <1>13 DEF a, n
<1>15. Good([s EXCEPT ![p] = b])'
  BY <1>5, <1>7, <1>9, <1>11, <1>12, <1>14, OneShrinks
<1> QED
  BY <1>15 DEF b, a

-----------------------------------------------------------------------------
\* What SeqQueue allows, for the sequences before and after the step.
Moves(s, z) ==
    \/ z = s
    \/ \E p \in Places :
        \/ \E e \in Elem : Free(s, e) /\ z = [s EXCEPT ![p] = Append(@, e)]
        \/ \E k \in 1 .. Len(s[p]) : z = [s EXCEPT ![p] = RemoveAt(@, k)]
        \/ \E r \in Places \ {p} :
            \/ z = [s EXCEPT ![p] = <<>>, ![r] = s[r] \o s[p]]
            \/ /\ s[r] = <<>>
               /\ \E k \in 0 .. Len(s[p]) :
                  \E x, y \in {p, r} :
                    /\ x # y
                    /\ z = [s EXCEPT ![x] = SubSeq(s[p], 1, k),
                                     ![y] = SubSeq(s[p], k + 1, Len(s[p]))]
        \/ z = [s EXCEPT ![p] = <<>>]

\* The container may make such a step.
Can(s) == \E z : Good(z)' /\ Moves(s, z)

\* Membership as TSQueue states it.
LEMMA LooseIs ==
  ASSUME NEW s, Good(s)
  PROVE  /\ \A p \in Places : \A e : e \in Q!Range(Q!Content(p)) <=> In(s, p, e)
         /\ \A e : e \in Q!Loose <=> e \in Elem /\ Free(s, e)
<1>1. \A p \in Places : Q!Content(p) = s[p] /\ s[p] \in Seq(Elem)
  BY ContentIs, PlaceIs
<1>2. \A p \in Places : \A e : e \in Q!Range(Q!Content(p)) <=> In(s, p, e)
  <2> SUFFICES ASSUME NEW p \in Places, NEW e
               PROVE  e \in Q!Range(s[p]) <=> In(s, p, e)
    BY <1>1
  <2>1. DOMAIN s[p] = 1 .. Len(s[p])
    BY <1>1, LenProperties
  <2> QED
    BY <2>1 DEF Q!Range, In
<1>3. Q!Place = Places
  BY DEF Q!Place, Places
<1> QED
  BY <1>2, <1>3 DEF Q!Loose, Free

\* What is known of a place p that holds q.
Known(s, p, q) ==
    /\ p \in Places /\ q = s[p] /\ q \in Seq(Elem) /\ Len(q) \in Nat
    /\ (q = <<>>) <=> Len(q) = 0
    /\ \A i \in 1 .. Len(q) : /\ q[i] \in Elem /\ q[i] \in Nodes /\ q[i] \in Ends
                              /\ q[i] \notin Places /\ q[i] \notin Queue /\ q[i] # Null
                              /\ In(s, p, q[i])
    /\ \A i, j \in 1 .. Len(q) : q[i] = q[j] => i = j
    /\ p \in Queue => head[p] = p /\ next[p] = IF q = <<>> THEN Null ELSE q[1]
    /\ p \notin Queue => head[p] = IF q = <<>> THEN Null ELSE q[1]
    /\ tail[p] = IF q = <<>> THEN Base(p) ELSE q[Len(q)]
    /\ \A i \in 1 .. Len(q) : next[q[i]] = IF i = Len(q) THEN Null ELSE q[i + 1]
    /\ \A i \in 1 .. Len(q) : prev[q[i]] = IF i = 1 THEN Base(p) ELSE q[i - 1]
    /\ count[p] = Len(q)
    /\ Q!empty(p) <=> q = <<>>

\* Good says all of that of each place.
LEMMA KnownIs ==
  ASSUME NEW s, Good(s), NEW p \in Places
  PROVE  Known(s, p, s[p])
<1>1. \A i \in 1 .. Len(s[p]) : s[p][i] \in Ends /\ s[p][i] \notin Places /\ In(s, p, s[p][i])
  BY PlaceIs, QueueAssumption DEF Ends, Places, In
<1> DEFINE q == s[p]
<1>2. /\ q \in Seq(Elem) /\ Len(q) \in Nat
      /\ (q = <<>>) <=> Len(q) = 0
      /\ \A i, j \in 1 .. Len(q) : q[i] = q[j] => i = j
      /\ HoldsAt(p, q, next, prev, head[p], tail[p], count[p])
      /\ Q!empty(p) <=> q = <<>>
  BY PlaceIs
<1>3. \A i \in 1 .. Len(q) : q[i] \in Elem /\ q[i] \in Nodes /\ q[i] \notin Queue /\ q[i] # Null
  BY PlaceIs
<1>4. q = s[p]
  OBVIOUS
<1> HIDE DEF q
<1>5. Known(s, p, q)
  BY <1>1, <1>2, <1>3, <1>4 DEF Known, HoldsAt
<1> QED
  BY <1>4, <1>5

\* A queue is the node its first element follows.
LEMMA QueueIs ==
  ASSUME NEW q \in Queue
  PROVE  q \in Places /\ q \in Nodes /\ q \in Ends /\ q # Null /\ Base(q) = q /\ q \notin Elem
  BY QueueAssumption DEF Places, Nodes, Ends, Base

\* A list has no such node.
LEMMA ListIs ==
  ASSUME NEW l \in List
  PROVE  l \in Places /\ l \notin Queue /\ Base(l) = Null /\ l \notin Elem
  BY QueueAssumption DEF Places, Base

\* pushWithoutLock (ts_queue.h:476): the element goes behind tail_.
LEMMA PushStep ==
  ASSUME NEW s, Good(s), NEW q \in Queue, NEW e \in Elem, Q!pushWithoutLock(q, e)
  PROVE  Can(s)
<1> DEFINE a == s[q]  n == Len(a)  b == Append(a, e)  t == tail[q]
<1>1. q \in Places /\ q \in Nodes /\ q \in Ends /\ q # Null /\ Base(q) = q /\ q \notin Elem
  BY QueueIs
<1>2. Known(s, q, a)
  BY <1>1, KnownIs
<1>3. Free(s, e) /\ e \in Nodes /\ e \in Ends /\ e # q
  BY LooseIs, <1>1 DEF Q!pushWithoutLock, Nodes, Ends
<1>4. Types(next, prev, check, head, tail, count)
  BY DEF Good
<1>5. /\ next' = [next EXCEPT ![t] = e, ![e] = Null]
      /\ prev' = [prev EXCEPT ![e] = t]
      /\ tail' = [tail EXCEPT ![q] = e]
      /\ check' = [check EXCEPT ![e] = q]
      /\ count' = [count EXCEPT ![q] = @ + 1]
      /\ head' = head
  BY DEF Q!pushWithoutLock
<1>6. \A i \in 1 .. n : a[i] # e
  BY <1>1, <1>3 DEF Free, In
<1>7. t = IF n = 0 THEN q ELSE a[n]
  BY <1>1, <1>2 DEF Known
<1>8. t \in Nodes /\ t \in Ends /\ t # e /\ (t = q \/ In(s, q, t))
  <2>1. n # 0 => n \in 1 .. n
    BY <1>2 DEF Known
  <2> QED
    BY <1>1, <1>2, <1>3, <1>6, <1>7, <2>1 DEF Known
<1> HIDE DEF t
<1>9. Types(next, prev, check, head, tail, count)'
  BY <1>1, <1>3, <1>4, <1>5, <1>8 DEF Types
<1>10. \A x \in Places \ {q} : head'[x] = head[x] /\ tail'[x] = tail[x] /\ count'[x] = count[x]
  BY <1>4, <1>5 DEF Types
<1>11. \A i : i = e \/ In(s, q, i) => Mine(s, {q}, i)
  <2> SUFFICES ASSUME NEW i, i = e \/ In(s, q, i) PROVE Mine(s, {q}, i)
    OBVIOUS
  <2>1. i \in Elem
    BY <1>2 DEF Known, In
  <2>2. Free(s, i) \/ \E p \in {q} : In(s, p, i)
    BY <1>3
  <2> QED
    BY <2>1, <2>2 DEF Mine
<1>12. \A x \in Nodes : x # q /\ ~ Mine(s, {q}, x) => next'[x] = next[x] /\ prev'[x] = prev[x]
  BY <1>4, <1>5, <1>8, <1>11 DEF Types
<1> HIDE DEF a
<1>13. /\ b \in Seq(Elem) /\ Len(b) = n + 1 /\ n \in Nat
       /\ \A i \in 1 .. n + 1 : b[i] = IF i = n + 1 THEN e ELSE a[i]
  BY <1>2 DEF Known
<1> HIDE DEF b, n
<1>14. b # <<>> /\ b[n + 1] = e /\ \A i \in 1 .. n : b[i] = a[i] /\ a[i] = b[i]
  <2>1. b # <<>>
    BY <1>13, EmptySeq
  <2>2. n + 1 \in 1 .. n + 1 /\ \A i \in 1 .. n : i \in 1 .. n + 1 /\ i # n + 1
    BY <1>13
  <2> QED
    BY <1>13, <2>1, <2>2
<1>15. ASSUME NEW i \in 1 .. n
       PROVE  /\ next'[b[i]] = b[i + 1]
              /\ prev'[b[i]] = IF i = 1 THEN q ELSE b[i - 1]
  <2>1. b[i] = a[i] /\ a[i] # e /\ a[i] \in Nodes
    BY <1>2, <1>6, <1>14 DEF Known, n
  <2>2. prev'[b[i]] = prev[a[i]]
    BY <1>4, <1>5, <2>1 DEF Types
  <2>3. prev[a[i]] = IF i = 1 THEN q ELSE a[i - 1]
    BY <1>1, <1>2 DEF Known, n
  <2>4. i # 1 => i - 1 \in 1 .. n
    BY <1>13
  <2>5. CASE i = n
    BY <1>4, <1>5, <1>7, <1>8, <1>13, <1>14, <2>1, <2>2, <2>3, <2>4, <2>5 DEF Types
  <2>6. CASE i # n
    <3>1. i + 1 \in 1 .. n /\ n \in 1 .. n /\ n # 0
      BY <1>13, <2>6
    <3>2. t # a[i]
      BY <1>2, <1>7, <2>6, <3>1 DEF Known, n
    <3>3. next'[a[i]] = next[a[i]]
      BY <1>4, <1>5, <1>8, <2>1, <3>2 DEF Types
    <3>4. next[a[i]] = a[i + 1]
      BY <1>2, <2>6 DEF Known, n
    <3> QED
      BY <1>14, <2>1, <2>2, <2>3, <2>4, <3>1, <3>3, <3>4
  <2> QED
    BY <2>5, <2>6
<1>16. next'[b[n + 1]] = Null /\ prev'[b[n + 1]] = IF n = 0 THEN q ELSE b[n]
  <2>1. n # 0 => n \in 1 .. n
    BY <1>13
  <2> QED
    BY <1>3, <1>4, <1>5, <1>7, <1>8, <1>14, <2>1 DEF Types
<1>17. \A i \in 1 .. n + 1 : i = n + 1 \/ i \in 1 .. n
  BY <1>13
<1>18. HoldsAt(q, b, next', prev', head'[q], tail'[q], count'[q])
  <2>1. next'[q] = b[1] /\ head'[q] = q
    <3>1. CASE n = 0
      BY <1>1, <1>2, <1>3, <1>4, <1>5, <1>7, <1>8, <1>14, <3>1 DEF Types, Known
    <3>2. CASE n # 0
      <4>1. 1 \in 1 .. n /\ n \in 1 .. n
        BY <1>13, <3>2
      <4>2. a # <<>> /\ next[q] = a[1] /\ head[q] = q
        BY <1>1, <1>2, <3>2 DEF Known, n
      <4>3. t # q
        BY <1>1, <1>2, <1>7, <3>2, <4>1 DEF Known, n
      <4> QED
        BY <1>1, <1>3, <1>4, <1>5, <1>8, <1>14, <4>1, <4>2, <4>3 DEF Types
    <3> QED
      BY <3>1, <3>2
  <2>2. tail'[q] = e /\ count'[q] = n + 1
    BY <1>1, <1>2, <1>4, <1>5 DEF Types, Known, n
  <2>3. \A i \in 1 .. n + 1 : next'[b[i]] = IF i = n + 1 THEN Null ELSE b[i + 1]
    BY <1>13, <1>15, <1>16, <1>17
  <2>4. \A i \in 1 .. n + 1 : prev'[b[i]] = IF i = 1 THEN Base(q) ELSE b[i - 1]
    <3>1. n + 1 = 1 <=> n = 0
      BY <1>13
    <3>2. (n + 1) - 1 = n
      BY <1>13
    <3> QED
      BY <1>1, <1>15, <1>16, <1>17, <3>1, <3>2
  <2> QED
    BY <1>1, <1>13, <1>14, <2>1, <2>2, <2>3, <2>4 DEF HoldsAt
<1>25. /\ \A i \in 1 .. n : In(s, q, a[i])
       /\ \A i, j \in 1 .. n : a[i] = a[j] => i = j
  BY <1>2 DEF Known, n
<1>19. \A i \in 1 .. Len(b) : Mine(s, {q}, b[i])
  <2>1. \A i \in 1 .. n + 1 : Mine(s, {q}, b[i])
    BY <1>11, <1>14, <1>17, <1>25
  <2> QED
    BY <1>13, <2>1
<1>20. \A i, j \in 1 .. Len(b) : b[i] = b[j] => i = j
  <2>1. \A i, j \in 1 .. n + 1 : b[i] = b[j] => i = j
    BY <1>6, <1>14, <1>17, <1>25
  <2> QED
    BY <1>13, <2>1
<1>21. ASSUME NEW x \in Elem, Mine(s, {q}, x), \A i \in 1 .. Len(b) : b[i] # x
       PROVE  next'[x] = Null /\ prev'[x] = Null
  <2>1. x # e
    <3>1. n + 1 \in 1 .. Len(b)
      BY <1>13
    <3> QED
      BY <1>14, <1>21, <3>1
  <2>2. ~ In(s, q, x)
    <3>1. \A i \in 1 .. n : i \in 1 .. Len(b)
      BY <1>13
    <3>2. \A i \in 1 .. n : a[i] # x
      BY <1>14, <1>21, <3>1
    <3> QED
      BY <3>2 DEF In, a, n
  <2>3. Free(s, x) /\ x \in Nodes /\ x # q
    BY <1>1, <1>21, <2>2 DEF Mine, Nodes
  <2>4. next[x] = Null /\ prev[x] = Null
    BY <2>3 DEF Good, Stores
  <2> QED
    BY <1>4, <1>5, <1>8, <2>1, <2>2, <2>3, <2>4 DEF Types
<1>22. \A x \in Elem : Mine(s, {q}, x) /\ (\A i \in 1 .. Len(b) : b[i] # x)
                           => next'[x] = Null /\ prev'[x] = Null
  BY <1>21
<1>23. Good([s EXCEPT ![q] = b])'
  BY <1>1, <1>9, <1>10, <1>12, <1>13, <1>18, <1>19, <1>20, <1>22, OneChanges
<1>24. Moves(s, [s EXCEPT ![q] = b])
  BY <1>1, <1>3 DEF Moves, b, a
<1> QED
  BY <1>23, <1>24 DEF Can

\* No element is in two places.
LEMMA ApartIs ==
  ASSUME NEW s, Good(s), NEW p \in Places, NEW r \in Places, p # r, NEW e, In(s, p, e)
  PROVE  ~ In(s, r, e)
<1>1. Apart(s)
  BY DEF Good, Stores
<1> QED
  BY <1>1 DEF Apart, In

\* The pointers that pushList and append set.
JoinLinks(p, r) ==
    /\ next' = [next EXCEPT ![tail[r]] = head[p]]
    /\ prev' = [prev EXCEPT ![head[p]] = tail[r]]
    /\ tail' = [tail EXCEPT ![r] = tail[p], ![p] = Null]
    /\ head' = [head EXCEPT ![p] = Null]
    /\ count' = [count EXCEPT ![r] = @ + count[p], ![p] = 0]
    /\ check' = check

\* They put the elements of the list p behind those of r.
LEMMA JoinStep ==
  ASSUME NEW s, Good(s), NEW p \in List, NEW r \in Places, p # r,
         ~ Q!empty(p), r \in Queue \/ ~ Q!empty(r), JoinLinks(p, r)
  PROVE  Can(s)
<1> DEFINE a == s[p]  n == Len(a)  b == s[r]  m == Len(b)  t == tail[r]  h == head[p]
<1>1. p \in Places /\ p \notin Queue /\ Base(p) = Null /\ p \notin Elem /\ r \notin Elem
  BY ListIs, QueueAssumption DEF Places
<1>2. Known(s, p, a) /\ Known(s, r, b)
  BY <1>1, KnownIs
<1>3. Types(next, prev, check, head, tail, count)
  BY DEF Good
<1>4. /\ next' = [next EXCEPT ![t] = h] /\ prev' = [prev EXCEPT ![h] = t]
      /\ tail' = [tail EXCEPT ![r] = tail[p], ![p] = Null]
      /\ head' = [head EXCEPT ![p] = Null]
      /\ count' = [count EXCEPT ![r] = @ + count[p], ![p] = 0]
      /\ check' = check
  BY DEF JoinLinks
<1>5. n \in Nat /\ n # 0 /\ m \in Nat /\ 1 \in 1 .. n /\ n \in 1 .. n
      /\ a # <<>> /\ (m = 0 => r \in Queue) /\ ((b = <<>>) <=> m = 0)
  BY <1>2 DEF Known
<1>6. h = a[1] /\ tail[p] = a[n] /\ a[1] \in Elem /\ a[n] \in Elem /\ a[n] \in Ends
      /\ In(s, p, a[1]) /\ a[1] \in Nodes /\ a[1] \in Ends
  BY <1>1, <1>2, <1>5 DEF Known
<1>7. \A e : In(s, p, e) => ~ In(s, r, e)
  BY <1>1, ApartIs
<1>9. /\ t = IF m = 0 THEN r ELSE b[m]
      /\ t \in Nodes /\ t \in Ends /\ ~ In(s, p, t) /\ (t = r \/ In(s, r, t))
      /\ m # 0 => m \in 1 .. m /\ 1 \in 1 .. m
  <2>1. CASE m = 0
    <3>1. t = r /\ t \in Nodes /\ t \in Ends /\ r \in Queue
      BY <1>2, <1>5, <2>1, QueueIs DEF Known
    <3>2. ~ In(s, p, r)
      BY <1>1, <1>2 DEF Known, In
    <3> QED
      BY <2>1, <3>1, <3>2
  <2>2. CASE m # 0
    <3>1. m \in 1 .. m /\ 1 \in 1 .. m
      BY <1>5, <2>2
    <3>2. t = b[m] /\ t \in Nodes /\ t \in Ends /\ In(s, r, t)
      BY <1>2, <1>5, <2>2, <3>1 DEF Known
    <3> QED
      BY <1>7, <2>2, <3>1, <3>2
  <2> QED
    BY <2>1, <2>2
<1> HIDE DEF t, h
<1>10. Types(next, prev, check, head, tail, count)'
  <2>1. next' \in [Nodes -> Elem \union {Null}] /\ prev' \in [Nodes -> Ends]
    BY <1>3, <1>4, <1>6, <1>9 DEF Types
  <2>2. check' \in [Elem -> Queue \union {Null}]
    BY <1>3, <1>4 DEF Types
  <2>3. head' \in [Places -> Ends] /\ tail' \in [Places -> Ends]
    <3>1. Null \in Ends /\ tail[p] \in Ends
      BY <1>6 DEF Ends
    <3> QED
      BY <1>3, <1>4, <3>1 DEF Types
  <2>4. count' \in [Places -> Nat]
    <3>1. count[r] \in Nat /\ count[p] \in Nat
      BY <1>1, <1>3 DEF Types
    <3>2. count[r] + count[p] \in Nat
      BY <3>1
    <3> QED
      BY <1>3, <1>4, <3>2 DEF Types
  <2> QED
    BY <2>1, <2>2, <2>3, <2>4 DEF Types
<1>11. Within(s, {p, r})
  <2>1. \A x \in Places \ {p, r} : head'[x] = head[x] /\ tail'[x] = tail[x] /\ count'[x] = count[x]
    BY <1>3, <1>4 DEF Types
  <2>2. ASSUME NEW x \in Nodes, x \notin {p, r}, ~ In(s, p, x), ~ In(s, r, x)
        PROVE  next'[x] = next[x] /\ prev'[x] = prev[x]
    BY <1>3, <1>4, <1>6, <1>9, <2>2 DEF Types
  <2> QED
    BY <1>10, <2>1, <2>2 DEF Within
<1>12. /\ \A i \in 1 .. n : In(s, p, a[i]) /\ a[i] \in Nodes
       /\ \A i, j \in 1 .. n : a[i] = a[j] => i = j
       /\ \A i \in 1 .. m : In(s, r, b[i]) /\ b[i] \in Nodes /\ b[i] # r
       /\ \A i, j \in 1 .. m : b[i] = b[j] => i = j
  BY <1>2 DEF Known
<1> HIDE DEF a, n, b, m
<1>13. \A i \in 1 .. n : next'[a[i]] = next[a[i]]
  BY <1>3, <1>4, <1>9, <1>12 DEF Types
<1>14. \A i \in 1 .. n : prev'[a[i]] = IF i = 1 THEN t ELSE prev[a[i]]
  BY <1>3, <1>4, <1>5, <1>6, <1>12 DEF Types
<1>15. ASSUME NEW i \in 1 .. m
       PROVE  /\ next'[b[i]] = IF i = m THEN a[1] ELSE next[b[i]]
              /\ prev'[b[i]] = prev[b[i]]
  <2>1. m # 0
    BY <1>5
  <2>2. t = b[i] <=> i = m
    BY <1>9, <1>12, <2>1
  <2>3. b[i] # h /\ b[i] \in Nodes
    BY <1>6, <1>7, <1>12
  <2> QED
    BY <1>3, <1>4, <1>6, <1>9, <2>2, <2>3 DEF Types
<1>16. EndsAfter(p, TRUE, Null, Null, 0)
  BY <1>1, <1>3, <1>4 DEF EndsAfter, Types
<1>17. EndsAfter(r, FALSE, IF m = 0 THEN a[1] ELSE b[1], a[n], m + n)
  <2>1. tail'[r] = a[n] /\ head'[r] = head[r]
    BY <1>3, <1>4, <1>6 DEF Types
  <2>2. count'[r] = m + n
    <3>1. count'[r] = count[r] + count[p]
      BY <1>1, <1>3, <1>4 DEF Types
    <3>2. count[r] = m /\ count[p] = n
      BY <1>2 DEF Known, m, n
    <3> QED
      BY <3>1, <3>2
  <2>3. r \in Queue => next'[r] = IF m = 0 THEN a[1] ELSE b[1]
    <3>1. CASE m = 0
      BY <1>3, <1>4, <1>6, <1>9, <3>1, QueueIs DEF Types
    <3>2. CASE m # 0
      <4>1. t # r
        BY <1>9, <1>12, <3>2
      <4>2. r \in Queue => next[r] = b[1] /\ r \in Nodes
        BY <1>2, <1>5, <3>2, QueueIs DEF Known
      <4> QED
        BY <1>3, <1>4, <1>9, <3>2, <4>1, <4>2 DEF Types
    <3> QED
      BY <3>1, <3>2
  <2>4. /\ r \in Queue => head[r] = r
        /\ r \notin Queue => m # 0 /\ head[r] = b[1]
    BY <1>2, <1>5 DEF Known
  <2> QED
    BY <2>1, <2>2, <2>3, <2>4 DEF EndsAfter
<1>18. Links(s, p, r)
  BY <1>13, <1>14, <1>15, <1>16, <1>17 DEF Links, a, b, n, m, t
<1>19. Good([s EXCEPT ![p] = <<>>, ![r] = s[r] \o s[p]])'
  BY <1>1, <1>5, <1>11, <1>18, JoinGood DEF a
<1>20. Moves(s, [s EXCEPT ![p] = <<>>, ![r] = s[r] \o s[p]])
  <2>1. p \in Places /\ r \in Places \ {p}
    BY <1>1
  <2> QED
    BY <2>1 DEF Moves
<1> QED
  BY <1>19, <1>20 DEF Can

\* pushList (ts_queue.h:302) is such a step.
LEMMA PushListStep ==
  ASSUME NEW s, Good(s), NEW q \in Queue, NEW l \in List, Q!pushList(q, l)
  PROVE  Can(s)
<1>1. JoinLinks(l, q) /\ ~ Q!empty(l)
  BY DEF JoinLinks, Q!pushList
<1>2. q \in Places /\ l # q
  BY QueueIs, ListIs
<1> QED
  BY <1>1, <1>2, JoinStep

\* The pointers that take the element e out of p.
LeaveLinks(p, e) ==
    /\ next' = IF prev[e] = Null THEN [next EXCEPT ![e] = Null]
                                 ELSE [next EXCEPT ![prev[e]] = next[e], ![e] = Null]
    /\ prev' = IF next[e] = Null THEN [prev EXCEPT ![e] = Null]
                                 ELSE [prev EXCEPT ![e] = Null, ![next[e]] = prev[e]]
    /\ head' = [head EXCEPT ![p] = IF prev[e] = Null THEN next[e] ELSE @]
    /\ tail' = [tail EXCEPT ![p] = IF next[e] = Null THEN prev[e] ELSE @]
    /\ check' = [check EXCEPT ![e] = Null]
    /\ count' = [count EXCEPT ![p] = @ - 1]

\* They take the element out and leave the order of the others.
LEMMA LeaveStep ==
  ASSUME NEW s, Good(s), NEW p \in Places, NEW e, In(s, p, e), LeaveLinks(p, e)
  PROVE  Can(s)
<1> DEFINE a == s[p]  n == Len(a)  f == prev[e]  g == next[e]
<1>1. PICK k \in 1 .. n : a[k] = e
  BY DEF In
<1>2. Known(s, p, a)
  BY KnownIs
<1>3. Types(next, prev, check, head, tail, count)
  BY DEF Good
<1>4. /\ next' = IF f = Null THEN [next EXCEPT ![e] = Null]
                             ELSE [next EXCEPT ![f] = g, ![e] = Null]
      /\ prev' = IF g = Null THEN [prev EXCEPT ![e] = Null]
                             ELSE [prev EXCEPT ![e] = Null, ![g] = f]
      /\ head' = [head EXCEPT ![p] = IF f = Null THEN g ELSE @]
      /\ tail' = [tail EXCEPT ![p] = IF g = Null THEN f ELSE @]
      /\ check' = [check EXCEPT ![e] = Null]
      /\ count' = [count EXCEPT ![p] = @ - 1]
  BY DEF LeaveLinks
<1>5. /\ n \in Nat /\ n # 0 /\ 1 \in 1 .. n /\ n \in 1 .. n /\ k \in 1 .. n /\ a # <<>>
      /\ e \in Elem /\ e \in Nodes /\ e # p /\ e \notin Queue /\ e # Null
  BY <1>1, <1>2 DEF Known
<1>6. f = IF k = 1 THEN Base(p) ELSE a[k - 1]
  BY <1>1, <1>2, <1>5 DEF Known
<1>7. g = IF k = n THEN Null ELSE a[k + 1]
  BY <1>1, <1>2, <1>5 DEF Known
<1>8. /\ \A i \in 1 .. n : /\ In(s, p, a[i]) /\ a[i] \in Nodes /\ a[i] \in Elem /\ a[i] \in Ends
                           /\ a[i] # p /\ a[i] # Null
      /\ \A i, j \in 1 .. n : a[i] = a[j] => i = j
  BY <1>2 DEF Known
<1>9. /\ count[p] = n
      /\ tail[p] = a[n]
      /\ p \in Queue => head[p] = p /\ next[p] = a[1] /\ Base(p) = p
                     /\ p \in Nodes /\ p \in Ends /\ p # Null
      /\ p \notin Queue => head[p] = a[1] /\ Base(p) = Null
  BY <1>2, <1>5, QueueIs DEF Known, Base
<1> HIDE DEF a, n, f, g
<1>10. k # 1 => k - 1 \in 1 .. n /\ (k - 1) + 1 = k
  BY <1>5
<1>11. k # n => k + 1 \in 1 .. n
  BY <1>5
<1>12. /\ f \in Ends /\ f # e
       /\ f # Null => f \in Nodes
       /\ f = Null <=> k = 1 /\ p \notin Queue
  <2>1. CASE k = 1
    BY <1>5, <1>6, <1>9, <2>1 DEF Ends
  <2>2. CASE k # 1
    <3>1. k - 1 # k
      BY <1>5
    <3>2. f = a[k - 1] /\ k - 1 \in 1 .. n
      BY <1>6, <1>10, <2>2
    <3>3. f # e
      BY <1>1, <1>5, <1>8, <3>1, <3>2
    <3> QED
      BY <1>8, <2>2, <3>2, <3>3
  <2> QED
    BY <2>1, <2>2
<1>13. /\ g \in Elem \union {Null} /\ g \in Ends /\ g # e
       /\ g # Null => g \in Nodes
       /\ g = Null <=> k = n
  <2>1. CASE k = n
    BY <1>5, <1>7, <2>1 DEF Ends
  <2>2. CASE k # n
    <3>1. k + 1 # k
      BY <1>5
    <3>2. g = a[k + 1] /\ k + 1 \in 1 .. n
      BY <1>7, <1>11, <2>2
    <3>3. g # e
      BY <1>1, <1>5, <1>8, <3>1, <3>2
    <3> QED
      BY <1>8, <2>2, <3>2, <3>3
  <2> QED
    BY <2>1, <2>2
<1>14. /\ \A x \in Nodes : x # e /\ x # f => next'[x] = next[x]
       /\ next'[e] = Null /\ (f # Null => next'[f] = g)
  BY <1>3, <1>4, <1>5, <1>12 DEF Types
<1>15. /\ \A x \in Nodes : x # e /\ x # g => prev'[x] = prev[x]
       /\ prev'[e] = Null /\ (g # Null => prev'[g] = f)
  BY <1>3, <1>4, <1>5, <1>13 DEF Types
<1>16. Types(next, prev, check, head, tail, count)'
  <2>1. next' \in [Nodes -> Elem \union {Null}] /\ prev' \in [Nodes -> Ends]
    BY <1>3, <1>4, <1>5, <1>12, <1>13 DEF Types, Ends
  <2>2. check' \in [Elem -> Queue \union {Null}]
    BY <1>3, <1>4 DEF Types
  <2>3. head' \in [Places -> Ends] /\ tail' \in [Places -> Ends]
    BY <1>3, <1>4, <1>12, <1>13 DEF Types
  <2>4. count' \in [Places -> Nat]
    <3>1. count[p] - 1 \in Nat
      BY <1>5, <1>9
    <3> QED
      BY <1>3, <1>4, <3>1 DEF Types
  <2> QED
    BY <2>1, <2>2, <2>3, <2>4 DEF Types
<1>17. Within(s, {p})
  <2>1. \A x \in Places \ {p} : head'[x] = head[x] /\ tail'[x] = tail[x] /\ count'[x] = count[x]
    BY <1>3, <1>4 DEF Types
  <2>2. f # Null => f = p \/ In(s, p, f)
    BY <1>6, <1>8, <1>9, <1>10
  <2>3. g # Null => In(s, p, g)
    BY <1>7, <1>8, <1>11
  <2>4. ASSUME NEW x \in Nodes, x # p, ~ In(s, p, x)
        PROVE  next'[x] = next[x] /\ prev'[x] = prev[x]
    <3>1. x # e /\ (f # Null => x # f) /\ (g # Null => x # g) /\ x # Null
      BY <2>2, <2>3, <2>4, QueueAssumption DEF Nodes
    <3> QED
      BY <1>14, <1>15, <3>1
  <2> QED
    BY <1>16, <2>1, <2>4 DEF Within
<1>18. ASSUME NEW i \in 1 .. n
       PROVE  /\ next'[a[i]] = IF i = k THEN Null ELSE IF i = k - 1 THEN g ELSE next[a[i]]
              /\ prev'[a[i]] = IF i = k THEN Null ELSE IF i = k + 1 THEN f ELSE prev[a[i]]
  <2>1. a[i] = e <=> i = k
    BY <1>1, <1>5, <1>8
  <2>2. a[i] = f <=> i = k - 1
    <3>1. CASE k = 1
      <4>1. i # k - 1
        BY <3>1
      <4> QED
        BY <1>6, <1>8, <1>9, <3>1, <4>1
    <3>2. CASE k # 1
      BY <1>6, <1>8, <1>10, <3>2
    <3> QED
      BY <3>1, <3>2
  <2>3. a[i] = g <=> i = k + 1
    <3>1. CASE k = n
      <4>1. i # k + 1
        BY <1>5, <3>1
      <4> QED
        BY <1>7, <1>8, <3>1, <4>1
    <3>2. CASE k # n
      BY <1>7, <1>8, <1>11, <3>2
    <3> QED
      BY <3>1, <3>2
  <2>4. a[i] \in Nodes /\ a[i] # Null
    BY <1>8
  <2> QED
    BY <1>14, <1>15, <2>1, <2>2, <2>3, <2>4
<1>19. EndsAfter(p, n = 1, IF k = 1 THEN a[2] ELSE a[1], IF k = n THEN a[n - 1] ELSE a[n], n - 1)
  <2>1. count'[p] = n - 1
    BY <1>3, <1>4, <1>9 DEF Types
  <2>2. tail'[p] = IF n = 1 THEN Base(p) ELSE IF k = n THEN a[n - 1] ELSE a[n]
    <3>1. tail'[p] = IF g = Null THEN f ELSE tail[p]
      BY <1>3, <1>4 DEF Types
    <3>2. n = 1 => k = n
      BY <1>5
    <3> QED
      BY <1>6, <1>9, <1>13, <3>1, <3>2
  <2>3. p \notin Queue => head'[p] = IF n = 1 THEN Null ELSE IF k = 1 THEN a[2] ELSE a[1]
    <3>1. head'[p] = IF f = Null THEN g ELSE head[p]
      BY <1>3, <1>4 DEF Types
    <3>2. (n = 1 => k = 1) /\ (k = 1 => k + 1 = 2)
      BY <1>5
    <3> QED
      BY <1>7, <1>9, <1>12, <3>1, <3>2
  <2>4. p \in Queue => head'[p] = p
    BY <1>3, <1>4, <1>9, <1>12 DEF Types
  <2>5. p \in Queue => next'[p] = IF n = 1 THEN Null ELSE IF k = 1 THEN a[2] ELSE a[1]
    <3>1. CASE k = 1
      <4>1. k + 1 = 2 /\ (p \in Queue => next'[p] = g)
        BY <1>6, <1>9, <1>14, <3>1
      <4> QED
        BY <1>7, <3>1, <4>1
    <3>2. CASE k # 1
      <4>1. n # 1
        BY <1>5, <3>2
      <4>2. p # f /\ p # e
        BY <1>5, <1>6, <1>8, <1>10, <3>2
      <4> QED
        BY <1>9, <1>14, <3>2, <4>1, <4>2
    <3> QED
      BY <3>1, <3>2
  <2> QED
    BY <2>1, <2>2, <2>3, <2>4, <2>5 DEF EndsAfter
<1>20. Unlinks(s, p, k)
  <2>1. g = next[a[k]] /\ f = prev[a[k]]
    BY <1>1 DEF f, g
  <2> QED
    BY <1>18, <1>19, <2>1 DEF Unlinks, a, n
<1>21. Good([s EXCEPT ![p] = RemoveAt(@, k)])'
  BY <1>17, <1>20, LeaveGood DEF a, n
<1>22. Moves(s, [s EXCEPT ![p] = RemoveAt(@, k)])
  <2>1. k \in 1 .. Len(s[p])
    BY DEF a, n
  <2> QED
    BY <2>1 DEF Moves
<1> QED
  BY <1>21, <1>22 DEF Can

\* What the neighbours of an element tell.
LEMMA Neighbours ==
  ASSUME NEW s, Good(s), NEW p \in Places, NEW e, In(s, p, e)
  PROVE  /\ e \in Elem /\ e \in Nodes /\ e # Null
         /\ prev[e] # e /\ next[e] # e
         /\ p \in Queue => prev[e] # Null
         /\ p \notin Queue /\ prev[e] = Null => head[p] = e
         /\ next[e] = Null <=> tail[p] = e
<1> DEFINE a == s[p]  n == Len(a)
<1>1. PICK k \in 1 .. n : a[k] = e
  BY DEF In
<1>2. Known(s, p, a)
  BY KnownIs
<1> HIDE DEF a
<1>3. n \in Nat /\ n # 0 /\ n \in 1 .. n /\ a # <<>> /\ k \in 1 .. n
  BY <1>1, <1>2 DEF Known
<1>4. e \in Elem /\ e \in Nodes /\ e # Null
  BY <1>1, <1>2 DEF Known
<1>5. next[e] = IF k = n THEN Null ELSE a[k + 1]
  BY <1>1, <1>2 DEF Known
<1>6. prev[e] = IF k = 1 THEN Base(p) ELSE a[k - 1]
  BY <1>1, <1>2 DEF Known
<1>7. k # n => a[k + 1] # Null /\ a[k + 1] # e
  <2>1. k # n => k + 1 \in 1 .. n /\ k + 1 # k
    BY <1>3
  <2> QED
    BY <1>1, <1>2, <2>1 DEF Known
<1>8. k # 1 => a[k - 1] # Null /\ a[k - 1] # e
  <2>1. k # 1 => k - 1 \in 1 .. n /\ k - 1 # k
    BY <1>3
  <2> QED
    BY <1>1, <1>2, <2>1 DEF Known
<1>9. tail[p] = a[n] /\ (p \notin Queue => head[p] = a[1]) /\ (a[n] = e <=> k = n)
  BY <1>1, <1>2, <1>3 DEF Known
<1>10. Base(p) # e /\ (p \in Queue => Base(p) # Null)
  BY <1>1, <1>2, QueueAssumption DEF Known, Base
<1> QED
  BY <1>1, <1>4, <1>5, <1>6, <1>7, <1>8, <1>9, <1>10

\* eraseWithoutLock is one of them: the previous node is the sentinel at
\* least.
LEMMA EraseQueueStep ==
  ASSUME NEW s, Good(s), NEW q \in Queue, NEW e \in Elem, Q!eraseWithoutLock(q, e)
  PROVE  Can(s)
<1>1. q \in Places
  BY QueueIs
<1>2. In(s, q, e)
  BY <1>1, LooseIs DEF Q!eraseWithoutLock
<1>3. /\ prev[e] # Null /\ prev[e] # e /\ next[e] # e
      /\ next[e] = Null <=> tail[q] = e
  BY <1>1, <1>2, Neighbours
<1>4. Types(next, prev, check, head, tail, count)
  BY DEF Good
<1>5. /\ next' = [next EXCEPT ![prev[e]] = next[e], ![e] = Null]
      /\ prev' = Q!Set([prev EXCEPT ![e] = Null], next[e], prev[e])
      /\ tail' = [tail EXCEPT ![q] = IF next[e] = Null /\ e = @ THEN prev[@] ELSE @]
      /\ check' = [check EXCEPT ![e] = Null]
      /\ count' = [count EXCEPT ![q] = @ - 1]
      /\ head' = head
  BY DEF Q!eraseWithoutLock
<1>6. prev' = IF next[e] = Null THEN [prev EXCEPT ![e] = Null]
                                ELSE [prev EXCEPT ![e] = Null, ![next[e]] = prev[e]]
  BY <1>5 DEF Q!Set
<1>7. tail' = [tail EXCEPT ![q] = IF next[e] = Null THEN prev[e] ELSE @]
  BY <1>3, <1>5
<1>8. head' = [head EXCEPT ![q] = IF prev[e] = Null THEN next[e] ELSE @]
  BY <1>3, <1>4, <1>5 DEF Types
<1>9. LeaveLinks(q, e)
  BY <1>3, <1>5, <1>6, <1>7, <1>8 DEF LeaveLinks
<1> QED
  BY <1>1, <1>2, <1>9, LeaveStep

\* So is pop, of the first element.
LEMMA PopStep ==
  ASSUME NEW s, Good(s), NEW q \in Queue, Q!pop(q)
  PROVE  Can(s)
<1> DEFINE e == next[q]  a == s[q]
<1>1. q \in Places /\ Base(q) = q
  BY QueueIs
<1>2. Known(s, q, a) /\ a # <<>>
  BY <1>1, KnownIs DEF Q!pop, Known
<1>3. 1 \in 1 .. Len(a)
  BY <1>2 DEF Known
<1>4. In(s, q, e) /\ e \in Nodes /\ prev[e] = q
  BY <1>1, <1>2, <1>3 DEF Known
<1>5. /\ prev[e] # Null /\ prev[e] # e /\ next[e] # e
      /\ next[e] = Null <=> tail[q] = e
  BY <1>1, <1>4, Neighbours
<1>6. Types(next, prev, check, head, tail, count)
  BY DEF Good
<1>7. /\ next' = [next EXCEPT ![q] = next[e], ![e] = Null]
      /\ prev' = Q!Set([prev EXCEPT ![e] = Null], next[e], q)
      /\ tail' = [tail EXCEPT ![q] = IF e = @ THEN q ELSE @]
      /\ check' = [check EXCEPT ![e] = Null]
      /\ count' = [count EXCEPT ![q] = @ - 1]
      /\ head' = head
  BY DEF Q!pop
<1> HIDE DEF e
<1>8. prev' = IF next[e] = Null THEN [prev EXCEPT ![e] = Null]
                                ELSE [prev EXCEPT ![e] = Null, ![next[e]] = prev[e]]
  BY <1>4, <1>7 DEF Q!Set
<1>9. next' = [next EXCEPT ![prev[e]] = next[e], ![e] = Null]
  BY <1>4, <1>7
<1>10. tail' = [tail EXCEPT ![q] = IF next[e] = Null THEN prev[e] ELSE @]
  BY <1>4, <1>5, <1>7
<1>11. head' = [head EXCEPT ![q] = IF prev[e] = Null THEN next[e] ELSE @]
  BY <1>5, <1>6, <1>7 DEF Types
<1>12. LeaveLinks(q, e)
  BY <1>5, <1>7, <1>8, <1>9, <1>10, <1>11 DEF LeaveLinks
<1> QED
  BY <1>1, <1>4, <1>12, LeaveStep

\* So is erase of a list, whose first element has no previous node.
LEMMA EraseListStep ==
  ASSUME NEW s, Good(s), NEW l \in List, NEW e \in Elem, Q!erase(l, e)
  PROVE  Can(s)
<1>1. l \in Places /\ l \notin Queue
  BY ListIs
<1>2. In(s, l, e)
  BY <1>1, LooseIs DEF Q!erase
<1>3. /\ prev[e] # e /\ next[e] # e
      /\ prev[e] = Null => head[l] = e
      /\ next[e] = Null <=> tail[l] = e
  BY <1>1, <1>2, Neighbours
<1>4. Types(next, prev, check, head, tail, count)
  BY DEF Good
<1>5. /\ next' = Q!Set([next EXCEPT ![e] = Null], prev[e], next[e])
      /\ prev' = Q!Set([prev EXCEPT ![e] = Null], next[e], prev[e])
      /\ head' = [head EXCEPT ![l] = IF prev[e] = Null THEN next[@] ELSE @]
      /\ tail' = [tail EXCEPT ![l] = IF next[e] = Null THEN prev[@] ELSE @]
      /\ check' = [check EXCEPT ![e] = Null]
      /\ count' = [count EXCEPT ![l] = @ - 1]
  BY DEF Q!erase
<1>6. prev' = IF next[e] = Null THEN [prev EXCEPT ![e] = Null]
                                ELSE [prev EXCEPT ![e] = Null, ![next[e]] = prev[e]]
  BY <1>5 DEF Q!Set
<1>7. next' = IF prev[e] = Null THEN [next EXCEPT ![e] = Null]
                                ELSE [next EXCEPT ![prev[e]] = next[e], ![e] = Null]
  <2>1. next' = IF prev[e] = Null THEN [next EXCEPT ![e] = Null]
                                  ELSE [next EXCEPT ![e] = Null, ![prev[e]] = next[e]]
    BY <1>5 DEF Q!Set
  <2>2. [next EXCEPT ![e] = Null, ![prev[e]] = next[e]]
          = [next EXCEPT ![prev[e]] = next[e], ![e] = Null]
    BY <1>3, <1>4 DEF Types
  <2> QED
    BY <2>1, <2>2
<1>8. /\ head' = [head EXCEPT ![l] = IF prev[e] = Null THEN next[e] ELSE @]
      /\ tail' = [tail EXCEPT ![l] = IF next[e] = Null THEN prev[e] ELSE @]
  BY <1>3, <1>5
<1>9. LeaveLinks(l, e)
  BY <1>5, <1>6, <1>7, <1>8 DEF LeaveLinks
<1> QED
  BY <1>1, <1>2, <1>9, LeaveStep

\* clear empties a list and clears the hooks of what it held.
LEMMA ClearStep ==
  ASSUME NEW s, Good(s), NEW l \in List, Q!clear(l)
  PROVE  Can(s)
<1> DEFINE gone == Q!Range(Q!Content(l))  b == <<>>
<1>1. l \in Places /\ l \notin Queue /\ Base(l) = Null /\ l \notin Elem
  BY ListIs
<1>2. \A e : e \in gone <=> In(s, l, e)
  BY <1>1, LooseIs
<1> HIDE DEF gone
<1>3. Types(next, prev, check, head, tail, count)
  BY DEF Good
<1>4. Q!Node = Nodes
  BY DEF Q!Node, Nodes
<1>5. /\ next' = [n \in Nodes |-> IF n \in gone THEN Null ELSE next[n]]
      /\ prev' = [n \in Nodes |-> IF n \in gone THEN Null ELSE prev[n]]
      /\ check' = [e \in Elem |-> IF e \in gone THEN Null ELSE check[e]]
      /\ head' = [head EXCEPT ![l] = Null] /\ tail' = [tail EXCEPT ![l] = Null]
      /\ count' = [count EXCEPT ![l] = 0]
  BY <1>4 DEF Q!clear, gone
<1>6. Types(next, prev, check, head, tail, count)'
  <2>1. next' \in [Nodes -> Elem \union {Null}] /\ prev' \in [Nodes -> Ends]
    BY <1>3, <1>5 DEF Types, Ends
  <2>2. check' \in [Elem -> Queue \union {Null}]
    BY <1>3, <1>5 DEF Types
  <2>3. head' \in [Places -> Ends] /\ tail' \in [Places -> Ends] /\ count' \in [Places -> Nat]
    BY <1>3, <1>5 DEF Types, Ends
  <2> QED
    BY <2>1, <2>2, <2>3 DEF Types
<1>7. Within(s, {l})
  <2>1. \A x \in Places \ {l} : head'[x] = head[x] /\ tail'[x] = tail[x] /\ count'[x] = count[x]
    BY <1>3, <1>5 DEF Types
  <2>2. ASSUME NEW x \in Nodes, ~ In(s, l, x) PROVE next'[x] = next[x] /\ prev'[x] = prev[x]
    BY <1>2, <1>5, <2>2
  <2> QED
    BY <1>6, <2>1, <2>2 DEF Within
<1>8. b \in Seq(Elem) /\ Len(b) = 0 /\ HoldsAt(l, b, next', prev', head'[l], tail'[l], count'[l])
  BY <1>1, <1>3, <1>5, EmptySeq DEF HoldsAt, Types
<1>9. \A i \in 1 .. Len(s[l]) : next'[s[l][i]] = Null /\ prev'[s[l][i]] = Null
  <2> SUFFICES ASSUME NEW i \in 1 .. Len(s[l])
               PROVE  next'[s[l][i]] = Null /\ prev'[s[l][i]] = Null
    OBVIOUS
  <2>1. s[l][i] \in Nodes /\ In(s, l, s[l][i])
    BY <1>1, KnownIs DEF Known
  <2> QED
    BY <1>2, <1>5, <2>1
<1> HIDE DEF b
<1>10. \A i : i \notin 1 .. Len(b)
  BY <1>8
<1>11. Good([s EXCEPT ![l] = b])'
  BY <1>1, <1>7, <1>8, <1>9, <1>10, OneShrinks
<1>12. Moves(s, [s EXCEPT ![l] = b])
  BY <1>1 DEF Moves, b
<1> QED
  BY <1>11, <1>12 DEF Can

\* front and nextWithoutLock only note whose the element is.
LEMMA NoteStep ==
  ASSUME NEW s, Good(s), NEW q \in Queue, NEW e \in Elem,
         check' = [check EXCEPT ![e] = q], UNCHANGED <<prev, next, head, tail, count>>
  PROVE  Can(s)
<1>1. Types(next, prev, check, head, tail, count)'
  BY DEF Good, Types
<1>2. Stores(s, next, prev, head, tail, count)'
  BY DEF Good, Stores, HoldsAt, Apart, Free, In
<1>3. Good(s)'
  BY <1>1, <1>2 DEF Good
<1>4. Moves(s, s)
  BY DEF Moves
<1> QED
  BY <1>3, <1>4 DEF Can

\* front is such a step.
LEMMA FrontStep ==
  ASSUME NEW s, Good(s), NEW q \in Queue, Q!front(q)
  PROVE  Can(s)
<1>1. next[q] \in Elem
  BY QueueIs DEF Q!front, Good, Types
<1> QED
  BY <1>1, NoteStep DEF Q!front

\* So is nextWithoutLock.
LEMMA NextStep ==
  ASSUME NEW s, Good(s), NEW q \in Queue, NEW e \in Elem, Q!nextWithoutLock(q, e)
  PROVE  Can(s)
<1>1. next[e] \in Elem
  BY DEF Q!nextWithoutLock, Good, Types, Nodes
<1> QED
  BY <1>1, NoteStep DEF Q!nextWithoutLock

\* A step that sets the pointers of SplitsAt divides what p holds.
LEMMA SplitStep ==
  ASSUME NEW s, Good(s), NEW p \in Places, NEW r \in Places, p # r, s[r] = <<>>,
         NEW k \in 0 .. Len(s[p]), Within(s, {p, r}),
         NEW x, NEW y, (x = p /\ y = r) \/ (x = r /\ y = p), SplitsAt(s, p, x, y, k)
  PROVE  Can(s)
<1> DEFINE z == [s EXCEPT ![x] = SubSeq(s[p], 1, k),
                          ![y] = SubSeq(s[p], k + 1, Len(s[p]))]
<1>1. Good(z)'
  BY SplitGood
<1>2. Moves(s, z)
  <2>1. x \in {p, r} /\ y \in {p, r} /\ x # y /\ r \in Places \ {p}
    OBVIOUS
  <2> QED
    BY <2>1 DEF Moves
<1> QED
  BY <1>1, <1>2 DEF Can

\* pop_front and pop_back take one element at least and no more than there
\* are.
LEMMA TakenIs ==
  ASSUME NEW q, NEW n \in Q!Sizes, Len(q) \in Nat \ {0}
  PROVE  Q!Taken(n, q) \in 1 .. Len(q)
<1>1. n \in Int
  BY DEF Q!Sizes
<1> QED
  BY <1>1 DEF Q!Taken

\* The pointers that give the first c elements of the queue q to the list l.
FrontLinks(s, q, l, c) ==
    LET a == s[q]
        g == next[a[c]]
    IN  /\ next' = [next EXCEPT ![q] = g, ![a[c]] = Null]
        /\ prev' = IF g = Null THEN [prev EXCEPT ![a[1]] = Null]
                               ELSE [prev EXCEPT ![a[1]] = Null, ![g] = q]
        /\ tail' = [tail EXCEPT ![q] = IF g = Null THEN q ELSE @, ![l] = a[c]]
        /\ head' = [head EXCEPT ![l] = a[1]]
        /\ count' = [count EXCEPT ![q] = @ - c, ![l] = c]
        /\ check' = check

\* They divide the queue behind its element c.
LEMMA TakeFront ==
  ASSUME NEW s, Good(s), NEW q \in Queue, NEW l \in List, s[q] # <<>>, s[l] = <<>>,
         NEW c \in 1 .. Len(s[q]), FrontLinks(s, q, l, c)
  PROVE  Can(s)
<1> DEFINE a == s[q]  n == Len(a)  g == next[a[c]]
<1>1. /\ q \in Places /\ q \in Nodes /\ q \in Ends /\ q # Null /\ Base(q) = q /\ q \notin Elem
      /\ l \in Places /\ l \notin Queue /\ Base(l) = Null /\ l \notin Elem /\ q # l
  BY QueueIs, ListIs
<1>2. Known(s, q, a)
  BY <1>1, KnownIs
<1>3. Types(next, prev, check, head, tail, count)
  BY DEF Good
<1>4. /\ next' = [next EXCEPT ![q] = g, ![a[c]] = Null]
      /\ prev' = IF g = Null THEN [prev EXCEPT ![a[1]] = Null]
                             ELSE [prev EXCEPT ![a[1]] = Null, ![g] = q]
      /\ tail' = [tail EXCEPT ![q] = IF g = Null THEN q ELSE @, ![l] = a[c]]
      /\ head' = [head EXCEPT ![l] = a[1]]
      /\ count' = [count EXCEPT ![q] = @ - c, ![l] = c]
      /\ check' = check
  BY DEF FrontLinks
<1>5. n \in Nat /\ n # 0 /\ 1 \in 1 .. n /\ n \in 1 .. n /\ c \in 1 .. n /\ a # <<>>
  BY <1>2 DEF Known
<1>6. g = IF c = n THEN Null ELSE a[c + 1]
  BY <1>2, <1>5 DEF Known
<1>7. /\ \A i \in 1 .. n : /\ In(s, q, a[i]) /\ a[i] \in Nodes /\ a[i] \in Elem /\ a[i] \in Ends
                           /\ a[i] # q /\ a[i] # Null
      /\ \A i, j \in 1 .. n : a[i] = a[j] => i = j
  BY <1>1, <1>2 DEF Known
<1>8. count[q] = n /\ tail[q] = a[n] /\ head[q] = q
  BY <1>2, <1>5 DEF Known
<1> HIDE DEF a, n, g
<1>9. c # n => c + 1 \in 1 .. n /\ c + 1 # 1
  BY <1>5
<1>10. /\ g \in Elem \union {Null} /\ (g = Null <=> c = n) /\ g # a[1] /\ g # q
       /\ g # Null => In(s, q, g) /\ g \in Nodes
  BY <1>1, <1>5, <1>6, <1>7, <1>9, QueueAssumption
<1>11. Types(next, prev, check, head, tail, count)'
  <2>1. next' \in [Nodes -> Elem \union {Null}] /\ prev' \in [Nodes -> Ends]
    BY <1>1, <1>3, <1>4, <1>10 DEF Types, Ends
  <2>2. check' \in [Elem -> Queue \union {Null}]
    BY <1>3, <1>4 DEF Types
  <2>3. head' \in [Places -> Ends] /\ tail' \in [Places -> Ends]
    BY <1>1, <1>3, <1>4, <1>5, <1>7 DEF Types
  <2>4. count' \in [Places -> Nat]
    <3>1. count[q] - c \in Nat /\ c \in Nat
      BY <1>5, <1>8
    <3> QED
      BY <1>3, <1>4, <3>1 DEF Types
  <2> QED
    BY <2>1, <2>2, <2>3, <2>4 DEF Types
<1>12. Within(s, {q, l})
  <2>1. \A x \in Places \ {q, l} : head'[x] = head[x] /\ tail'[x] = tail[x] /\ count'[x] = count[x]
    BY <1>3, <1>4 DEF Types
  <2>2. ASSUME NEW x \in Nodes, x \notin {q, l}, ~ In(s, q, x)
        PROVE  next'[x] = next[x] /\ prev'[x] = prev[x]
    <3>1. x # q /\ x # a[1] /\ x # a[c] /\ (g # Null => x # g)
      BY <1>5, <1>7, <1>10, <2>2
    <3> QED
      BY <1>3, <1>4, <3>1 DEF Types
  <2> QED
    BY <1>11, <2>1, <2>2 DEF Within
<1>13. ASSUME NEW i \in 1 .. n
       PROVE  /\ next'[a[i]] = IF i = c THEN Null ELSE next[a[i]]
              /\ prev'[a[i]] = IF i = c + 1 THEN q ELSE IF i = 1 THEN Null ELSE prev[a[i]]
  <2>1. a[i] \in Nodes /\ a[i] # q /\ (a[i] = a[c] <=> i = c) /\ (a[i] = a[1] <=> i = 1)
        /\ a[i] # Null
    BY <1>5, <1>7
  <2>2. a[i] = g <=> i = c + 1
    <3>1. CASE c = n
      <4>1. i # c + 1
        BY <1>5, <3>1
      <4> QED
        BY <1>6, <1>7, <3>1, <4>1
    <3>2. CASE c # n
      BY <1>6, <1>7, <1>9, <3>2
    <3> QED
      BY <3>1, <3>2
  <2>3. next'[a[i]] = IF i = c THEN Null ELSE next[a[i]]
    BY <1>3, <1>4, <2>1 DEF Types
  <2>4. prev'[a[i]] = IF a[i] = g THEN q ELSE IF i = 1 THEN Null ELSE prev[a[i]]
    BY <1>3, <1>4, <1>10, <2>1 DEF Types
  <2> QED
    BY <2>2, <2>3, <2>4
<1>14. EndsAfter(l, c = 0, a[1], a[c], c)
  <2>1. head'[l] = a[1] /\ tail'[l] = a[c] /\ count'[l] = c
    BY <1>1, <1>3, <1>4 DEF Types
  <2>2. c # 0
    BY <1>5
  <2> QED
    BY <1>1, <2>1, <2>2 DEF EndsAfter
<1>15. EndsAfter(q, c = n, a[c + 1], a[n], n - c)
  <2>1. head'[q] = q /\ count'[q] = n - c
    BY <1>1, <1>3, <1>4, <1>8 DEF Types
  <2>2. tail'[q] = IF g = Null THEN q ELSE a[n]
    BY <1>1, <1>3, <1>4, <1>8 DEF Types
  <2>3. next'[q] = g
    BY <1>1, <1>3, <1>4, <1>5, <1>7 DEF Types
  <2> QED
    BY <1>1, <1>6, <1>10, <2>1, <2>2, <2>3 DEF EndsAfter
<1>16. SplitsAt(s, q, l, q, c)
  BY <1>1, <1>13, <1>14, <1>15 DEF SplitsAt, a, n
<1>17. c \in 0 .. Len(s[q])
  BY <1>5 DEF n, a
<1> QED
  BY <1>1, <1>12, <1>16, <1>17, SplitStep

\* pop_front sets them, for the number it has counted.
LEMMA PopFrontStep ==
  ASSUME NEW s, Good(s), NEW q \in Queue, NEW l \in List, NEW n \in Q!Sizes,
         Q!pop_front(q, n, l)
  PROVE  Can(s)
<1> DEFINE a == s[q]  c == Q!Taken(n, a)
<1>1. q \in Places /\ l \in Places /\ q \in Queue /\ q \notin Elem
  BY QueueIs, ListIs
<1>2. Known(s, q, a) /\ Known(s, l, s[l])
  BY <1>1, KnownIs
<1>3. Q!Content(q) = a
  BY <1>1, ContentIs
<1>4. a # <<>> /\ s[l] = <<>>
  BY <1>2 DEF Q!pop_front, Known
<1>5. Len(a) \in Nat \ {0}
  BY <1>2, <1>4 DEF Known
<1>6. c \in 1 .. Len(a)
  BY <1>5, TakenIs
<1>7. /\ next' = [next EXCEPT ![q] = next[a[c]], ![a[c]] = Null]
      /\ prev' = Q!Set([prev EXCEPT ![next[q]] = Null], next[a[c]], q)
      /\ tail' = [tail EXCEPT ![q] = IF a[c] = @ THEN q ELSE @, ![l] = a[c]]
      /\ head' = [head EXCEPT ![l] = next[q]]
      /\ count' = [count EXCEPT ![q] = @ - c, ![l] = c]
      /\ check' = check
  BY <1>3 DEF Q!pop_front
<1> HIDE DEF c
<1>8. next[q] = a[1]
  BY <1>2, <1>4 DEF Known
<1>9. In(s, q, a[c])
  BY <1>2, <1>6 DEF Known
<1>10. next[a[c]] = Null <=> tail[q] = a[c]
  BY <1>1, <1>9, Neighbours
<1>11. FrontLinks(s, q, l, c)
  BY <1>7, <1>8, <1>10 DEF FrontLinks, Q!Set
<1> QED
  BY <1>4, <1>6, <1>11, TakeFront

\* pop_allWithoutLock sets them for all elements, whose last has no next
\* already.
LEMMA PopAllStep ==
  ASSUME NEW s, Good(s), NEW q \in Queue, NEW l \in List, Q!pop_allWithoutLock(q, l)
  PROVE  Can(s)
<1> DEFINE a == s[q]  c == Len(a)
<1>1. q \in Places /\ q \in Nodes /\ l \in Places /\ q \notin Elem /\ q # l
  BY QueueIs, ListIs
<1>2. Known(s, q, a) /\ Known(s, l, s[l])
  BY <1>1, KnownIs
<1>3. a # <<>> /\ s[l] = <<>>
  BY <1>2 DEF Q!pop_allWithoutLock, Known
<1>4. c \in Nat /\ c # 0 /\ c \in 1 .. c
  BY <1>2, <1>3 DEF Known
<1>5. /\ next[q] = a[1] /\ tail[q] = a[c] /\ count[q] = c
      /\ next[a[c]] = Null /\ a[c] \in Nodes /\ a[c] # q
  BY <1>1, <1>2, <1>3, <1>4 DEF Known
<1>6. Types(next, prev, check, head, tail, count)
  BY DEF Good
<1>7. /\ tail' = [tail EXCEPT ![q] = q, ![l] = a[c]]
      /\ next' = [next EXCEPT ![q] = Null]
      /\ prev' = [prev EXCEPT ![a[1]] = Null]
      /\ head' = [head EXCEPT ![l] = a[1]]
      /\ count' = [count EXCEPT ![q] = 0, ![l] = c]
      /\ check' = check
  BY <1>5 DEF Q!pop_allWithoutLock
<1> HIDE DEF a, c
<1>8. next' = [next EXCEPT ![q] = Null, ![a[c]] = Null]
  BY <1>5, <1>6, <1>7 DEF Types
<1>9. count' = [count EXCEPT ![q] = @ - c, ![l] = c]
  <2>1. count[q] - c = 0
    BY <1>4, <1>5
  <2> QED
    BY <1>7, <2>1
<1>10. FrontLinks(s, q, l, c)
  BY <1>5, <1>7, <1>8, <1>9 DEF FrontLinks, a
<1>11. c \in 1 .. Len(s[q]) /\ s[q] # <<>>
  BY <1>3, <1>4 DEF a, c
<1> QED
  BY <1>3, <1>10, <1>11, TakeFront

\* pop_backWithoutLock: the list gets the last c elements, and what the first
\* of them followed becomes the end of the queue.
LEMMA PopBackStep ==
  ASSUME NEW s, Good(s), NEW q \in Queue, NEW l \in List, NEW num \in Q!Sizes,
         Q!pop_backWithoutLock(q, num, l)
  PROVE  Can(s)
<1> DEFINE a == s[q]  n == Len(a)  c == Q!Taken(num, Reverse(a))  k == n - c
           first == Reverse(a)[c]  f == prev[first]
<1>1. /\ q \in Places /\ q \in Nodes /\ q \in Ends /\ q # Null /\ Base(q) = q /\ q \notin Elem
      /\ l \in Places /\ l \notin Queue /\ Base(l) = Null /\ l \notin Elem /\ q # l
  BY QueueIs, ListIs
<1>2. Known(s, q, a) /\ Known(s, l, s[l])
  BY <1>1, KnownIs
<1>3. Types(next, prev, check, head, tail, count)
  BY DEF Good
<1>4. Q!Backward(q) = Reverse(a)
  BY <1>1, ContentIs
<1>5. /\ tail' = [tail EXCEPT ![q] = f, ![l] = tail[q]]
      /\ next' = [next EXCEPT ![f] = Null]
      /\ prev' = [prev EXCEPT ![first] = Null]
      /\ head' = [head EXCEPT ![l] = first]
      /\ count' = [count EXCEPT ![q] = @ - c, ![l] = c]
      /\ check' = check
  BY <1>4 DEF Q!pop_backWithoutLock
<1>6. a # <<>> /\ s[l] = <<>>
  BY <1>2 DEF Q!pop_backWithoutLock, Known
<1>7. n \in Nat /\ n # 0 /\ 1 \in 1 .. n /\ n \in 1 .. n
  BY <1>2, <1>6 DEF Known
<1>8. Len(Reverse(a)) = n /\ \A i \in 1 .. n : Reverse(a)[i] = a[n - i + 1]
  BY <1>2, ReverseIs DEF Known
<1>9. c \in 1 .. n
  BY <1>7, <1>8, TakenIs
<1> HIDE DEF c
<1>10. first = a[k + 1]
  <2>1. n - c + 1 = k + 1
    OBVIOUS
  <2> QED
    BY <1>8, <1>9, <2>1
<1>11. /\ k \in 0 .. n /\ k # n /\ k + 1 \in 1 .. n /\ k = n - c /\ c = n - k
       /\ k # 0 => k \in 1 .. n
       /\ k + 1 = 1 <=> k = 0
  BY <1>7, <1>9
<1>12. f = IF k = 0 THEN q ELSE a[k]
  <2>1. prev[a[k + 1]] = IF k + 1 = 1 THEN q ELSE a[(k + 1) - 1]
    BY <1>1, <1>2, <1>11 DEF Known
  <2>2. (k + 1) - 1 = k
    BY <1>11
  <2> QED
    BY <1>10, <1>11, <2>1, <2>2
<1>13. /\ \A i \in 1 .. n : /\ In(s, q, a[i]) /\ a[i] \in Nodes /\ a[i] \in Elem /\ a[i] \in Ends
                            /\ a[i] # q /\ a[i] # Null
       /\ \A i, j \in 1 .. n : a[i] = a[j] => i = j
  BY <1>1, <1>2 DEF Known
<1>14. /\ count[q] = n /\ tail[q] = a[n] /\ head[q] = q /\ next[q] = a[1]
       /\ prev[a[1]] = q
  BY <1>1, <1>2, <1>6, <1>7 DEF Known
<1> HIDE DEF a, n, k, first, f
<1>15. /\ f \in Nodes /\ f \in Ends /\ (f = q \/ In(s, q, f)) /\ (f = q <=> k = 0)
       /\ first \in Nodes /\ first \in Elem /\ first \in Ends /\ In(s, q, first) /\ first # q
  BY <1>1, <1>10, <1>11, <1>12, <1>13
<1>16. Types(next, prev, check, head, tail, count)'
  <2>1. next' \in [Nodes -> Elem \union {Null}] /\ prev' \in [Nodes -> Ends]
    BY <1>3, <1>5, <1>15 DEF Types, Ends
  <2>2. check' \in [Elem -> Queue \union {Null}]
    BY <1>3, <1>5 DEF Types
  <2>3. head' \in [Places -> Ends] /\ tail' \in [Places -> Ends]
    BY <1>3, <1>5, <1>7, <1>13, <1>14, <1>15 DEF Types
  <2>4. count' \in [Places -> Nat]
    <3>1. count[q] - c \in Nat /\ c \in Nat
      BY <1>7, <1>9, <1>14
    <3> QED
      BY <1>3, <1>5, <3>1 DEF Types
  <2> QED
    BY <2>1, <2>2, <2>3, <2>4 DEF Types
<1>17. Within(s, {q, l})
  <2>1. \A x \in Places \ {q, l} : head'[x] = head[x] /\ tail'[x] = tail[x] /\ count'[x] = count[x]
    BY <1>3, <1>5 DEF Types
  <2>2. ASSUME NEW x \in Nodes, x \notin {q, l}, ~ In(s, q, x)
        PROVE  next'[x] = next[x] /\ prev'[x] = prev[x]
    BY <1>3, <1>5, <1>15, <2>2 DEF Types
  <2> QED
    BY <1>16, <2>1, <2>2 DEF Within
<1>18. ASSUME NEW i \in 1 .. n
       PROVE  /\ next'[a[i]] = IF i = k THEN Null ELSE next[a[i]]
              /\ prev'[a[i]] = IF i = k + 1 THEN Null ELSE IF i = 1 THEN q ELSE prev[a[i]]
  <2>1. a[i] = f <=> i = k
    <3>1. CASE k = 0
      <4>1. i # k
        BY <3>1
      <4> QED
        BY <1>12, <1>13, <3>1, <4>1
    <3>2. CASE k # 0
      BY <1>11, <1>12, <1>13, <3>2
    <3> QED
      BY <3>1, <3>2
  <2>2. a[i] = first <=> i = k + 1
    BY <1>10, <1>11, <1>13
  <2>3. a[i] \in Nodes
    BY <1>13
  <2>4. next'[a[i]] = IF a[i] = f THEN Null ELSE next[a[i]]
    BY <1>3, <1>5, <2>3 DEF Types
  <2>5. prev'[a[i]] = IF a[i] = first THEN Null ELSE prev[a[i]]
    BY <1>3, <1>5, <2>3 DEF Types
  <2> QED
    BY <1>14, <2>1, <2>2, <2>4, <2>5
<1>19. EndsAfter(q, k = 0, a[1], a[k], k)
  <2>1. head'[q] = q /\ count'[q] = k
    BY <1>1, <1>3, <1>5, <1>11, <1>14 DEF Types
  <2>2. tail'[q] = f
    BY <1>1, <1>3, <1>5 DEF Types
  <2>3. next'[q] = IF f = q THEN Null ELSE a[1]
    BY <1>1, <1>3, <1>5, <1>14 DEF Types
  <2> QED
    BY <1>1, <1>12, <1>15, <2>1, <2>2, <2>3 DEF EndsAfter
<1>20. EndsAfter(l, k = n, a[k + 1], a[n], n - k)
  <2>1. head'[l] = a[k + 1] /\ tail'[l] = a[n]
    BY <1>1, <1>3, <1>5, <1>10, <1>14 DEF Types
  <2>2. count'[l] = n - k
    BY <1>1, <1>3, <1>5, <1>11 DEF Types
  <2> QED
    BY <1>1, <1>11, <2>1, <2>2 DEF EndsAfter
<1>21. SplitsAt(s, q, q, l, k)
  BY <1>1, <1>18, <1>19, <1>20 DEF SplitsAt, a, n
<1>22. k \in 0 .. Len(s[q])
  BY <1>11 DEF n, a
<1> QED
  BY <1>1, <1>6, <1>17, <1>21, <1>22, SplitStep

\* The pointers that give the first k elements of the list p to the empty list m.
CutLinks(s, p, m, k) ==
    LET a == s[p]
        g == next[a[k]]
    IN  /\ next' = [next EXCEPT ![a[k]] = Null]
        /\ prev' = IF g = Null THEN prev ELSE [prev EXCEPT ![g] = Null]
        /\ head' = [head EXCEPT ![m] = a[1], ![p] = g]
        /\ tail' = [tail EXCEPT ![m] = a[k], ![p] = IF g = Null THEN Null ELSE @]
        /\ count' = [count EXCEPT ![m] = k, ![p] = @ - k]
        /\ check' = check

\* They divide the list behind its element k.
LEMMA CutStep ==
  ASSUME NEW s, Good(s), NEW p \in List, NEW m \in List, p # m, s[p] # <<>>, s[m] = <<>>,
         NEW k \in 1 .. Len(s[p]), CutLinks(s, p, m, k)
  PROVE  Can(s)
<1> DEFINE a == s[p]  n == Len(a)  g == next[a[k]]
<1>1. /\ p \in Places /\ p \notin Queue /\ Base(p) = Null /\ p \notin Elem
      /\ m \in Places /\ m \notin Queue /\ Base(m) = Null /\ m \notin Elem
  BY ListIs
<1>2. Known(s, p, a)
  BY <1>1, KnownIs
<1>3. Types(next, prev, check, head, tail, count)
  BY DEF Good
<1>4. /\ next' = [next EXCEPT ![a[k]] = Null]
      /\ prev' = IF g = Null THEN prev ELSE [prev EXCEPT ![g] = Null]
      /\ head' = [head EXCEPT ![m] = a[1], ![p] = g]
      /\ tail' = [tail EXCEPT ![m] = a[k], ![p] = IF g = Null THEN Null ELSE @]
      /\ count' = [count EXCEPT ![m] = k, ![p] = @ - k]
      /\ check' = check
  BY DEF CutLinks
<1>5. n \in Nat /\ n # 0 /\ 1 \in 1 .. n /\ n \in 1 .. n /\ k \in 1 .. n /\ k # 0
  BY <1>2 DEF Known
<1>6. g = IF k = n THEN Null ELSE a[k + 1]
  BY <1>2, <1>5 DEF Known
<1>7. /\ \A i \in 1 .. n : /\ In(s, p, a[i]) /\ a[i] \in Nodes /\ a[i] \in Elem /\ a[i] \in Ends
                           /\ a[i] # p /\ a[i] # Null
      /\ \A i, j \in 1 .. n : a[i] = a[j] => i = j
  BY <1>1, <1>2 DEF Known
<1>8. count[p] = n /\ tail[p] = a[n] /\ prev[a[1]] = Null
  BY <1>1, <1>2, <1>5 DEF Known
<1> HIDE DEF a, n, g
<1>9. k # n => k + 1 \in 1 .. n /\ k + 1 # 1
  BY <1>5
<1>10. /\ g \in Elem \union {Null} /\ g \in Ends /\ (g = Null <=> k = n)
       /\ g # Null => In(s, p, g) /\ g \in Nodes
  BY <1>5, <1>6, <1>7, <1>9 DEF Ends
<1>11. Types(next, prev, check, head, tail, count)'
  <2>1. next' \in [Nodes -> Elem \union {Null}] /\ prev' \in [Nodes -> Ends]
    BY <1>3, <1>4 DEF Types, Ends
  <2>2. check' \in [Elem -> Queue \union {Null}]
    BY <1>3, <1>4 DEF Types
  <2>3. head' \in [Places -> Ends] /\ tail' \in [Places -> Ends]
    <3>1. Null \in Ends /\ a[1] \in Ends /\ a[k] \in Ends
      BY <1>5, <1>7 DEF Ends
    <3> QED
      BY <1>3, <1>4, <1>10, <3>1 DEF Types
  <2>4. count' \in [Places -> Nat]
    <3>1. count[p] - k \in Nat /\ k \in Nat
      BY <1>5, <1>8
    <3> QED
      BY <1>3, <1>4, <3>1 DEF Types
  <2> QED
    BY <2>1, <2>2, <2>3, <2>4 DEF Types
<1>12. Within(s, {p, m})
  <2>1. \A x \in Places \ {p, m} : head'[x] = head[x] /\ tail'[x] = tail[x] /\ count'[x] = count[x]
    BY <1>3, <1>4 DEF Types
  <2>2. ASSUME NEW x \in Nodes, x \notin {p, m}, ~ In(s, p, x)
        PROVE  next'[x] = next[x] /\ prev'[x] = prev[x]
    <3>1. x # a[k] /\ (g # Null => x # g)
      BY <1>5, <1>7, <1>10, <2>2
    <3> QED
      BY <1>3, <1>4, <3>1 DEF Types
  <2> QED
    BY <1>11, <2>1, <2>2 DEF Within
<1>13. ASSUME NEW i \in 1 .. n
       PROVE  /\ next'[a[i]] = IF i = k THEN Null ELSE next[a[i]]
              /\ prev'[a[i]] = IF i = k + 1 THEN Null ELSE IF i = 1 THEN Null ELSE prev[a[i]]
  <2>1. a[i] \in Nodes /\ (a[i] = a[k] <=> i = k) /\ a[i] # Null
    BY <1>5, <1>7
  <2>2. a[i] = g <=> i = k + 1
    <3>1. CASE k = n
      <4>1. i # k + 1
        BY <1>5, <3>1
      <4> QED
        BY <1>6, <1>7, <3>1, <4>1
    <3>2. CASE k # n
      BY <1>6, <1>7, <1>9, <3>2
    <3> QED
      BY <3>1, <3>2
  <2>3. next'[a[i]] = IF i = k THEN Null ELSE next[a[i]]
    BY <1>3, <1>4, <2>1 DEF Types
  <2>4. prev'[a[i]] = IF a[i] = g THEN Null ELSE prev[a[i]]
    BY <1>3, <1>4, <1>10, <2>1 DEF Types
  <2> QED
    BY <1>8, <2>2, <2>3, <2>4
<1>14. EndsAfter(m, k = 0, a[1], a[k], k)
  <2>1. head'[m] = a[1] /\ tail'[m] = a[k] /\ count'[m] = k
    BY <1>1, <1>3, <1>4 DEF Types
  <2> QED
    BY <1>1, <1>5, <2>1 DEF EndsAfter
<1>15. EndsAfter(p, k = n, a[k + 1], a[n], n - k)
  <2>1. head'[p] = g /\ count'[p] = n - k
    BY <1>1, <1>3, <1>4, <1>8 DEF Types
  <2>2. tail'[p] = IF g = Null THEN Null ELSE a[n]
    BY <1>1, <1>3, <1>4, <1>8 DEF Types
  <2> QED
    BY <1>1, <1>6, <1>10, <2>1, <2>2 DEF EndsAfter
<1>16. SplitsAt(s, p, m, p, k)
  BY <1>1, <1>13, <1>14, <1>15 DEF SplitsAt, a, n
<1>17. k \in 0 .. Len(s[p])
  BY <1>5 DEF n, a
<1> QED
  BY <1>1, <1>12, <1>16, <1>17, SplitStep

\* operator= gives a list all of them.
LEMMA MoveStep ==
  ASSUME NEW s, Good(s), NEW p \in List, NEW m \in List, p # m, ~ Q!empty(p), Q!empty(m),
         Q!Move(p, m)
  PROVE  Can(s)
<1> DEFINE a == s[p]  k == Len(a)
<1>1. p \in Places /\ m \in Places /\ p \notin Queue
  BY ListIs
<1>2. Known(s, p, a) /\ Known(s, m, s[m])
  BY <1>1, KnownIs
<1>3. a # <<>> /\ s[m] = <<>>
  BY <1>2 DEF Known
<1>4. k \in Nat /\ k # 0 /\ k \in 1 .. k
  BY <1>2, <1>3 DEF Known
<1>5. /\ head[p] = a[1] /\ tail[p] = a[k] /\ count[p] = k /\ next[a[k]] = Null
      /\ a[k] \in Nodes
  BY <1>1, <1>2, <1>3, <1>4 DEF Known
<1>6. Types(next, prev, check, head, tail, count)
  BY DEF Good
<1>7. /\ head' = [head EXCEPT ![m] = a[1], ![p] = Null]
      /\ tail' = [tail EXCEPT ![m] = a[k], ![p] = Null]
      /\ count' = [count EXCEPT ![m] = k, ![p] = 0]
      /\ prev' = prev /\ next' = next /\ check' = check
  BY <1>5 DEF Q!Move
<1> HIDE DEF a, k
<1>8. next' = [next EXCEPT ![a[k]] = Null]
  BY <1>5, <1>6, <1>7 DEF Types
<1>9. count' = [count EXCEPT ![m] = k, ![p] = @ - k]
  <2>1. count[p] - k = 0
    BY <1>4, <1>5
  <2> QED
    BY <1>7, <2>1
<1>10. CutLinks(s, p, m, k)
  BY <1>5, <1>7, <1>8, <1>9 DEF CutLinks, a
<1>11. k \in 1 .. Len(s[p]) /\ s[p] # <<>>
  BY <1>3, <1>4 DEF a, k
<1> QED
  BY <1>3, <1>10, <1>11, CutStep

\* append moves into an empty list, and joins to one that is not.
LEMMA AppendStep ==
  ASSUME NEW s, Good(s), NEW m \in List, NEW l \in List, Q!append(m, l)
  PROVE  Can(s)
<1>1. CASE Q!empty(m) /\ Q!Move(l, m)
  BY <1>1, MoveStep DEF Q!append
<1>2. CASE ~ (Q!empty(m) /\ Q!Move(l, m))
  <2>1. JoinLinks(l, m) /\ ~ Q!empty(m) /\ ~ Q!empty(l) /\ m # l
    BY <1>2 DEF JoinLinks, Q!append
  <2>2. m \in Places
    BY ListIs
  <2> QED
    BY <2>1, <2>2, JoinStep
<1> QED
  BY <1>1, <1>2

\* cut moves, or sets the pointers behind the element n.
LEMMA CutListStep ==
  ASSUME NEW s, Good(s), NEW l \in List, NEW n \in Q!Sizes, NEW m \in List, Q!cut(l, n, m)
  PROVE  Can(s)
<1>1. CASE Q!Move(l, m)
  BY <1>1, MoveStep DEF Q!cut
<1>2. CASE ~ Q!Move(l, m)
  <2> DEFINE a == s[l]  g == next[a[n]]
  <2>1. l \in Places /\ m \in Places /\ l \notin Queue
    BY ListIs
  <2>2. Known(s, l, a) /\ Known(s, m, s[m]) /\ Q!Content(l) = a
    BY <2>1, KnownIs, ContentIs
  <2>3. a # <<>> /\ s[m] = <<>> /\ l # m
    BY <2>2 DEF Q!cut, Known
  <2>4. /\ n < count[l] /\ n # 0
        /\ head' = [head EXCEPT ![m] = head[l], ![l] = g]
        /\ tail' = [tail EXCEPT ![m] = a[n]]
        /\ next' = [next EXCEPT ![a[n]] = Null]
        /\ prev' = [prev EXCEPT ![g] = Null]
        /\ count' = [count EXCEPT ![m] = n, ![l] = @ - n]
        /\ check' = check
    BY <1>2, <2>2 DEF Q!cut
  <2>5. n \in 1 .. Len(a) /\ n # Len(a) /\ n + 1 \in 1 .. Len(a)
    BY <2>2, <2>4 DEF Known, Q!Sizes
  <2>6. g # Null /\ head[l] = a[1]
    BY <2>1, <2>2, <2>3, <2>5 DEF Known
  <2>7. Types(next, prev, check, head, tail, count)
    BY DEF Good
  <2> HIDE DEF g
  <2>8. tail' = [tail EXCEPT ![m] = a[n], ![l] = IF g = Null THEN Null ELSE @]
    BY <2>1, <2>3, <2>4, <2>6, <2>7 DEF Types
  <2>9. CutLinks(s, l, m, n)
    BY <2>4, <2>6, <2>8 DEF CutLinks, g
  <2> QED
    BY <2>3, <2>5, <2>9, CutStep
<1> QED
  BY <1>1, <1>2

QueuesInv == \E s : Good(s)

\* At the start everything is empty.
LEMMA QueuesStart ==
  ASSUME Q!Init
  PROVE  /\ Good([p \in Places |-> <<>>])
         /\ Q!Sequences!Init
<1> DEFINE s == [p \in Places |-> <<>>]
<1>1. Q!Node = Nodes /\ Q!Place = Places
  BY DEF Q!Node, Nodes, Q!Place, Places
<1>2. /\ prev = [n \in Nodes |-> Null] /\ next = [n \in Nodes |-> Null]
      /\ check = [e \in Elem |-> Null]
      /\ head = [p \in Places |-> IF p \in Queue THEN p ELSE Null]
      /\ tail = head
      /\ count = [p \in Places |-> 0]
  BY <1>1 DEF Q!Init
<1>3. Types(next, prev, check, head, tail, count)
  BY <1>2 DEF Types, Ends, Nodes
<1>4. s \in [Places -> Seq(Elem)] /\ \A p \in Places : s[p] = <<>> /\ Len(s[p]) = 0
  BY EmptySeq
<1>5. \A p \in Places : \A i : i \notin 1 .. Len(s[p])
  BY <1>4
<1> HIDE DEF s
<1>6. Apart(s)
  BY <1>5 DEF Apart
<1>7. ASSUME NEW p \in Places
      PROVE  HoldsAt(p, s[p], next, prev, head[p], tail[p], count[p])
  <2>1. p \in Queue => p \in Nodes
    BY DEF Nodes
  <2> QED
    BY <1>2, <1>4, <1>5, <2>1 DEF HoldsAt, Base
<1>8. \A e \in Elem : next[e] = Null /\ prev[e] = Null
  BY <1>2 DEF Nodes
<1>9. Good(s)
  BY <1>3, <1>4, <1>6, <1>7, <1>8 DEF Good, Stores
<1>10. Q!Sequences!Init
  <2>1. \A p \in Places : Q!Content(p) = <<>>
    BY <1>4, <1>9, ContentIs
  <2> QED
    BY <1>1, <2>1 DEF Q!Sequences!Init
<1> QED
  BY <1>9, <1>10 DEF s

\* Every step of MCRuntime, of the queues or not, is such a move.
LEMMA QueuesStep ==
  ASSUME NEW s, Good(s), [MCNext]_mcVars
  PROVE  Can(s)
<1>1. CASE UNCHANGED queueVars
  <2>1. Good(s)'
    BY <1>1 DEF queueVars, Good, Types, Stores, HoldsAt, Apart, Free, In
  <2>2. Moves(s, s)
    BY DEF Moves
  <2> QED
    BY <2>1, <2>2 DEF Can
<1>2. CASE Q!Next
  <2>1. CASE \E q \in Queue : Q!front(q) \/ Q!pop(q)
    BY <2>1, FrontStep, PopStep
  <2>2. CASE \E q \in Queue, e \in Elem :
               Q!pushWithoutLock(q, e) \/ Q!nextWithoutLock(q, e) \/ Q!eraseWithoutLock(q, e)
    BY <2>2, PushStep, NextStep, EraseQueueStep
  <2>3. CASE \E q \in Queue, l \in List : Q!pushList(q, l) \/ Q!pop_allWithoutLock(q, l)
    BY <2>3, PushListStep, PopAllStep
  <2>4. CASE \E q \in Queue, l \in List, n \in Q!Sizes :
               Q!pop_front(q, n, l) \/ Q!pop_backWithoutLock(q, n, l)
    BY <2>4, PopFrontStep, PopBackStep
  <2>5. CASE \E l \in List : Q!clear(l)
    BY <2>5, ClearStep
  <2>6. CASE \E l \in List, e \in Elem : Q!erase(l, e)
    BY <2>6, EraseListStep
  <2>7. CASE \E l \in List, m \in List : Q!append(m, l) \/ \E n \in Q!Sizes : Q!cut(l, n, m)
    BY <2>7, AppendStep, CutListStep
  <2> QED
    BY <1>2, <2>1, <2>2, <2>3, <2>4, <2>5, <2>6, <2>7 DEF Q!Next
<1> QED
  BY <1>1, <1>2 DEF MCNext, mcVars, Running, Queues, Locking

\* The sequences SeqQueue speaks of.
LEMMA HeldIs ==
  ASSUME NEW s, s \in [Places -> Seq(Elem)]
  PROVE  /\ Good(s) => [p \in Q!Place |-> Q!Content(p)] = s
         /\ Good(s)' => [p \in Q!Place |-> Q!Content(p)]' = s
<1>1. Q!Place = Places
  BY DEF Q!Place, Places
<1>2. Good(s) => \A p \in Places : Q!Content(p) = s[p]
  BY ContentIs
<1>3. Good(s)' => \A p \in Places : Q!Content(p)' = s[p]
  BY ContentIs
<1> QED
  BY <1>1, <1>2, <1>3

\* Such a move is a step of SeqQueue or changes nothing of what is held.
LEMMA QueuesMove ==
  ASSUME NEW s, Good(s), NEW z, Good(z)', Moves(s, z)
  PROVE  [Q!Sequences!Next]_([p \in Q!Place |-> Q!Content(p)])
<1> DEFINE H == [p \in Q!Place |-> Q!Content(p)]
<1>1. s \in [Places -> Seq(Elem)] /\ z \in [Places -> Seq(Elem)]
  BY DEF Good, Stores
<1>2. H = s /\ H' = z
  BY <1>1, HeldIs
<1>3. Q!Place = Places
  BY DEF Q!Place, Places
<1>4. CASE z = s
  BY <1>2, <1>4
<1>5. CASE \E p \in Places, e \in Elem : Free(s, e) /\ z = [s EXCEPT ![p] = Append(@, e)]
  <2>1. PICK p \in Places, e \in Elem : Free(s, e) /\ z = [s EXCEPT ![p] = Append(@, e)]
    BY <1>5
  <2>2. Q!Sequences!Enter(p, e)
    <3>1. e \notin UNION {Q!Sequences!Range(s[x]) : x \in Places}
      <4>1. \A x \in Places : e \notin Q!Sequences!Range(s[x])
        <5>1. \A x \in Places : DOMAIN s[x] = 1 .. Len(s[x])
          BY <1>1, LenProperties
        <5> QED
          BY <2>1, <5>1 DEF Free, In, Q!Sequences!Range
      <4> QED
        BY <4>1
    <3> QED
      BY <1>2, <1>3, <2>1, <3>1 DEF Q!Sequences!Enter, Q!Sequences!Held
  <2> QED
    BY <1>3, <2>2 DEF Q!Sequences!Next
<1>6. CASE \E p \in Places : \E k \in 1 .. Len(s[p]) : z = [s EXCEPT ![p] = RemoveAt(@, k)]
  <2>1. PICK p \in Places : \E k \in 1 .. Len(s[p]) : z = [s EXCEPT ![p] = RemoveAt(@, k)]
    BY <1>6
  <2>2. PICK k \in 1 .. Len(s[p]) : z = [s EXCEPT ![p] = RemoveAt(@, k)]
    BY <2>1
  <2>3. s[p][k] \in Elem
    BY <1>1, ElementOfSeq
  <2>4. Q!Sequences!Leave(p, s[p][k])
    <3>1. z = [s EXCEPT ![p] = Q!Sequences!RemoveAt(@, k)]
      BY <2>2 DEF RemoveAt, Q!Sequences!RemoveAt
    <3> QED
      BY <1>2, <3>1 DEF Q!Sequences!Leave
  <2> QED
    BY <1>3, <2>3, <2>4 DEF Q!Sequences!Next
<1>7. CASE \E p \in Places, r \in Places :
             p # r /\ z = [s EXCEPT ![p] = <<>>, ![r] = s[r] \o s[p]]
  <2>1. PICK p \in Places, r \in Places :
             p # r /\ z = [s EXCEPT ![p] = <<>>, ![r] = s[r] \o s[p]]
    BY <1>7
  <2>2. z = [s EXCEPT ![p] = <<>>, ![r] = @ \o s[p]]
    BY <1>1, <2>1
  <2>3. Q!Sequences!Join(p, r)
    BY <1>2, <2>1, <2>2 DEF Q!Sequences!Join
  <2> QED
    BY <1>3, <2>3 DEF Q!Sequences!Next
<1>8. CASE \E p \in Places, r \in Places :
             /\ p # r /\ s[r] = <<>>
             /\ \E k \in 0 .. Len(s[p]) : \E x, y \in {p, r} :
                   /\ x # y
                   /\ z = [s EXCEPT ![x] = SubSeq(s[p], 1, k),
                                    ![y] = SubSeq(s[p], k + 1, Len(s[p]))]
  <2>1. PICK p \in Places, r \in Places :
             /\ p # r /\ s[r] = <<>>
             /\ \E k \in 0 .. Len(s[p]) : \E x, y \in {p, r} :
                   /\ x # y
                   /\ z = [s EXCEPT ![x] = SubSeq(s[p], 1, k),
                                    ![y] = SubSeq(s[p], k + 1, Len(s[p]))]
    BY <1>8
  <2>2. PICK k \in 0 .. Len(s[p]), x \in {p, r}, y \in {p, r} :
             /\ x # y
             /\ z = [s EXCEPT ![x] = SubSeq(s[p], 1, k),
                              ![y] = SubSeq(s[p], k + 1, Len(s[p]))]
    BY <2>1
  <2> DEFINE front == SubSeq(s[p], 1, k)  back == SubSeq(s[p], k + 1, Len(s[p]))
  <2>3. \/ z = [s EXCEPT ![p] = back, ![r] = front]
        \/ z = [s EXCEPT ![p] = front, ![r] = back]
    <3>1. z = [s EXCEPT ![x] = front, ![y] = back]
      BY <2>2
    <3> HIDE DEF front, back
    <3>2. CASE x = p /\ y = r
      BY <3>1, <3>2
    <3>3. CASE x = r /\ y = p
      <4>1. [s EXCEPT ![r] = front, ![p] = back] = [s EXCEPT ![p] = back, ![r] = front]
        BY <1>1, <2>1
      <4> QED
        BY <3>1, <3>3, <4>1
    <3> QED
      BY <2>2, <3>2, <3>3
  <2>4. Q!Sequences!Split(p, r, k)
    BY <1>2, <2>1, <2>3 DEF Q!Sequences!Split
  <2>5. k \in 0 .. Len(H[p])
    BY <1>2
  <2> QED
    BY <1>3, <2>4, <2>5 DEF Q!Sequences!Next
<1>9. CASE \E p \in Places : z = [s EXCEPT ![p] = <<>>]
  <2>1. PICK p \in Places : z = [s EXCEPT ![p] = <<>>]
    BY <1>9
  <2>2. Q!Sequences!Clear(p)
    BY <1>2, <2>1 DEF Q!Sequences!Clear
  <2> QED
    BY <1>3, <2>2 DEF Q!Sequences!Next
<1> QED
  BY <1>4, <1>5, <1>6, <1>7, <1>8, <1>9 DEF Moves

\* What Good says of a state is the type invariant and LinkedWell.
LEMMA QueuesWell ==
  ASSUME NEW s, Good(s)
  PROVE  Q!TypeOK /\ Q!LinkedWell
<1>1. Q!Node = Nodes /\ Q!Place = Places
  BY DEF Q!Node, Nodes, Q!Place, Places
<1>2. Types(next, prev, check, head, tail, count)
  BY DEF Good
<1>3. ASSUME NEW p \in Places
      PROVE  count[p] \in 0 .. Q!Cardinality(Elem)
  <2> DEFINE q == s[p]  n == Len(q)
  <2>1. Known(s, p, q)
    BY KnownIs
  <2>2. IsFiniteSet(Elem) /\ Cardinality(Elem) \in Nat
    BY QueueAssumption, FS_CardinalityType
  <2>3. DOMAIN q = 1 .. n /\ q \in [1 .. n -> Elem] /\ n \in Nat
    BY <2>1, LenProperties DEF Known
  <2>4. \A i, j \in 1 .. n : q[i] = q[j] => i = j
    BY <2>1 DEF Known
  <2> HIDE DEF q, n
  <2>5. q \in Injection(1 .. n, Elem)
    BY <2>3, <2>4 DEF IsInjective, Injection
  <2>6. Cardinality(1 .. n) = IF 1 > n THEN 0 ELSE n - 1 + 1
    <3>1. n \in Int /\ 1 \in Int
      BY <2>3
    <3> QED
      BY <3>1, FS_Interval
  <2>7. Cardinality(1 .. n) <= Cardinality(Elem)
    BY <2>2, <2>5, FS_Injection
  <2>8. n <= Cardinality(Elem)
    BY <2>2, <2>3, <2>6, <2>7
  <2>9. count[p] = n
    BY <2>1 DEF Known, n, q
  <2> QED
    BY <2>2, <2>3, <2>8, <2>9 DEF Q!Cardinality, Cardinality
<1>4. Q!TypeOK
  BY <1>1, <1>2, <1>3 DEF Q!TypeOK, Types, Ends
<1>5. ASSUME NEW p \in Places
      PROVE  /\ Q!Backward(p) = Q!Reverse(Q!Content(p))
             /\ count[p] = Len(Q!Content(p))
             /\ Q!Content(p) # <<>> =>
                  /\ tail[p] = Q!Last(Q!Content(p)) /\ next[Q!Last(Q!Content(p))] = Null
                  /\ prev[Q!Content(p)[1]] = IF p \in Queue THEN p ELSE Null
             /\ Q!Content(p) = <<>> => Q!empty(p)
  <2> DEFINE q == s[p]
  <2>1. Known(s, p, q) /\ Q!Content(p) = q /\ Q!Backward(p) = Reverse(q)
    BY KnownIs, ContentIs
  <2> HIDE DEF q
  <2>2. Reverse(q) = Q!Reverse(q) /\ Q!Last(q) = q[Len(q)]
    BY DEF Reverse, Q!Reverse, Q!Last
  <2>3. q # <<>> => 1 \in 1 .. Len(q) /\ Len(q) \in 1 .. Len(q)
    BY <2>1 DEF Known
  <2>4. q # <<>> => /\ tail[p] = q[Len(q)] /\ next[q[Len(q)]] = Null
                    /\ prev[q[1]] = IF p \in Queue THEN p ELSE Null
    BY <2>1, <2>3 DEF Known, Base
  <2>5. count[p] = Len(q) /\ (q = <<>> => Q!empty(p))
    BY <2>1 DEF Known
  <2> QED
    BY <2>1, <2>2, <2>4, <2>5
<1>6. \A e \in Q!Loose : Q!Unlinked(e)
  BY LooseIs DEF Good, Stores, Q!Unlinked
<1>7. Q!LinkedWell
  BY <1>1, <1>5, <1>6 DEF Q!LinkedWell
<1> QED
  BY <1>4, <1>7

\* Whatever the queues and lists are used for, their pointers implement the
\* sequences of SeqQueue, and always lead forward and back along them.
THEOREM QueuesAreSequences == MCSpec => SequencesSpec
<1>1. MCInit => QueuesInv /\ Q!Sequences!Init
  BY QueuesStart DEF MCInit, QueuesInv
<1>2. QueuesInv /\ [MCNext]_mcVars => QueuesInv'
  <2> SUFFICES ASSUME QueuesInv, [MCNext]_mcVars PROVE QueuesInv'
    OBVIOUS
  <2>1. PICK s : Good(s)
    BY DEF QueuesInv
  <2>2. PICK z : Good(z)' /\ Moves(s, z)
    BY <2>1, QueuesStep DEF Can
  <2> QED
    BY <2>2 DEF QueuesInv
<1>3. QueuesInv /\ [MCNext]_mcVars
        => [Q!Sequences!Next]_([p \in Q!Place |-> Q!Content(p)])
  <2> SUFFICES ASSUME QueuesInv, [MCNext]_mcVars
               PROVE  [Q!Sequences!Next]_([p \in Q!Place |-> Q!Content(p)])
    OBVIOUS
  <2>1. PICK s : Good(s)
    BY DEF QueuesInv
  <2>2. PICK z : Good(z)' /\ Moves(s, z)
    BY <2>1, QueuesStep DEF Can
  <2> QED
    BY <2>1, <2>2, QueuesMove
<1>4. QueuesInv => Q!TypeOK /\ Q!LinkedWell
  BY QueuesWell DEF QueuesInv
<1> QED
  BY <1>1, <1>2, <1>3, <1>4, PTL
     DEF MCSpec, SequencesSpec, Q!SequencesSpec, Q!Sequences!Spec
=============================================================================
