---------------------------- MODULE TimerManager ----------------------------
(***************************************************************************)
(* The timers of one Processer, timer/timer.cpp: timer_map_ ordered by     *)
(* time, filled by AddTimer and AddSleeper, emptied by WakeupTimers, which *)
(* the Processer calls after each WaitLoop.  A callback runs outside       *)
(* map_lock_, with its element still in the map, and may add and stop      *)
(* timers; so may other threads.  An iterator is the element it points to; *)
(* a behaviour ends when one is used whose element is gone (wild).         *)
(***************************************************************************)
EXTENDS Integers, SequencesExt

CONSTANTS
    Timer,     \* TimerElements with a callback, each created once
    Sleeper,   \* TimerElements of sleeping tasks
    Foreign,   \* other threads that use timers of this Processer
    Self,      \* the Processer's own thread
    End,       \* timer_map_.end()
    Duration,  \* the durations asked for
    MinWait,   \* MIN_WAITE_TIME
    MaxTime    \* bound of the clock

ASSUME TimerAssumption ==
    /\ Timer \intersect Sleeper = {} /\ End \notin Timer \union Sleeper
    /\ Self \notin Foreign
    /\ Duration \subseteq Nat /\ MinWait \in Nat /\ MaxTime \in Nat

Element == Timer \union Sleeper

VARIABLES
    now,      \* FastSteadyClock::now()
    map,      \* timer_map_
    due,      \* the key of each element
    adding,   \* per thread: the element in AddTimer that has its key but is
              \* not in the map yet, or End
    valid,    \* the timers whose processer_ is set
    wpc,      \* the Processer: "run", "wait" in WaitLoop, "scan" in
              \* WakeupTimers with map_lock_, "call" in a callback
    it, wnow, \* WakeupTimers' locals
    wakeAt,   \* when WaitLoop returns at the latest
    added,    \* the elements that have been put in the map
    fired,    \* the elements whose task was woken, or for whose callback
              \* map_lock_ was released
    stopped,  \* the timers that StopTimer has answered with true
    overtaken,\* the elements that another thread put in front of the iterator
    wild      \* the timers whose StopTimer used or left a dead iterator

vars == <<now, map, due, adding, valid, wpc, it, wnow, wakeAt, added, fired,
          stopped, overtaken, wild>>

Init ==
    /\ now = 0 /\ wnow = 0 /\ wakeAt = 0
    /\ map = <<>>
    /\ due = [e \in Element |-> 0]
    /\ adding = [th \in Foreign \union {Self} |-> End]
    /\ valid = {} /\ added = {} /\ fired = {} /\ stopped = {}
    /\ wpc = "run" /\ it = End
    /\ overtaken = {} /\ wild = {}

\* Who can execute user code: other threads, a coroutine, a callback.
Acts(th) == th \in Foreign \/ (th = Self /\ wpc \in {"run", "call"})

Locked == wpc = "scan"  \* map_lock_, kept from one step to the next

-----------------------------------------------------------------------------
\* What an iterator that points to e says.
Position(e) == CHOOSE i \in DOMAIN map : map[i] = e

\* multimap::insert: behind every element with the same key.
Insert(e) ==
    LET later == {i \in DOMAIN map : due[map[i]] > due[e]}
    IN  InsertAt(map, IF later = {} THEN Len(map) + 1 ELSE Min(later), e)

Erase(e) == IF e \in Range(map) THEN RemoveAt(map, Position(e)) ELSE map

\* The key is computed before map_lock_ is taken.
AddBegin(th, e, d) ==
    /\ Acts(th) /\ adding[th] = End
    /\ e \notin added \union Range(adding)
    /\ e \in Sleeper => th = Self /\ wpc = "run"
    /\ now + d <= MaxTime
    /\ adding' = [adding EXCEPT ![th] = e]
    /\ due' = [due EXCEPT ![e] = now + d]
    /\ UNCHANGED <<now, map, valid, wpc, it, wnow, wakeAt, added, fired,
                   stopped, overtaken, wild>>

AddInsert(th) ==
    /\ adding[th] # End /\ ~Locked
    /\ map' = Insert(adding[th])
    /\ adding' = [adding EXCEPT ![th] = End]
    /\ added' = added \union {adding[th]}
    /\ valid' = valid \union ({adding[th]} \intersect Timer)
    /\ overtaken' = overtaken \union
         (IF th # Self /\ wpc = "call" /\ due[adding[th]] < due[it]
          THEN {adding[th]} ELSE {})
    /\ UNCHANGED <<now, due, wpc, it, wnow, wakeAt, fired, stopped, wild>>

\* erase() of e is given an iterator whose element is gone, or makes the one
\* that WakeupTimers is about to advance such an iterator.
Dead(e) == e \notin Range(map) \/ (wpc = "call" /\ it = e)

StopTimerForgets(th, e) ==  \* fault: the element stays in the map
    /\ Acts(th) /\ adding[th] = End /\ e \in valid /\ ~Locked
    /\ wild' = IF Dead(e) THEN {e} ELSE {}
    /\ valid' = valid \ {e}
    /\ stopped' = stopped \union {e}
    /\ UNCHANGED <<now, map, due, adding, wpc, it, wnow, wakeAt, added, fired,
                   overtaken>>

StopTimerKeeps(th, e) ==  \* fault: processer_ is not cleared
    /\ Acts(th) /\ adding[th] = End /\ e \in valid /\ ~Locked
    /\ map' = Erase(e)
    /\ wild' = IF Dead(e) THEN {e} ELSE {}
    /\ stopped' = stopped \union {e}
    /\ UNCHANGED <<now, due, adding, valid, wpc, it, wnow, wakeAt, added,
                   fired, overtaken>>

\* Scheduler::StopTimer and below: false if processer_ is null, else the
\* element is erased, whether it is still in the map or not.
StopTimer(th, e) ==
    /\ Acts(th) /\ adding[th] = End /\ e \in valid /\ ~Locked
    /\ map' = Erase(e)
    /\ wild' = IF Dead(e) THEN {e} ELSE {}
    /\ valid' = valid \ {e}
    /\ stopped' = stopped \union {e}
    /\ UNCHANGED <<now, due, adding, wpc, it, wnow, wakeAt, added, fired,
                   overtaken>>

-----------------------------------------------------------------------------
GetLastDuration ==
    IF map = <<>> THEN MinWait
    ELSE IF due[Head(map)] <= now THEN 0 ELSE due[Head(map)] - now

\* Nothing is runnable: WaitLoop(GetLastDuration()).
Idle ==
    /\ wpc = "run" /\ adding[Self] = End
    /\ wpc' = "wait"
    /\ wakeAt' = now + GetLastDuration
    /\ UNCHANGED <<now, map, due, adding, valid, it, wnow, added, fired,
                   stopped, overtaken, wild>>

\* The timeout, or earlier an fd or the Interrupter; then WakeupTimers.
WakeupTimers ==
    /\ wpc = "wait"
    /\ IF map = <<>>
       THEN wpc' = "run" /\ UNCHANGED <<it, wnow>>
       ELSE wpc' = "scan" /\ it' = Head(map) /\ wnow' = now
    /\ UNCHANGED <<now, map, due, adding, valid, wakeAt, added, fired,
                   stopped, overtaken, wild>>

Next1(e) ==  \* ++it
    IF e = Last(map) THEN End ELSE map[Position(e) + 1]

PastDue == IF it = End THEN TRUE ELSE due[it] > wnow

\* A sleeper: WakeupBySelfIO under map_lock_.
WakeSleeper ==
    /\ Locked /\ ~PastDue /\ it \in Sleeper
    /\ fired' = fired \union {it}
    /\ it' = Next1(it)
    /\ UNCHANGED <<now, map, due, adding, valid, wpc, wnow, wakeAt, added,
                   stopped, overtaken, wild>>

CallTimer ==
    /\ Locked /\ ~PastDue /\ it \in Timer
    /\ wpc' = "call"
    /\ fired' = fired \union {it}
    /\ UNCHANGED <<now, map, due, adding, valid, it, wnow, wakeAt, added,
                   stopped, overtaken, wild>>

\* The callback returns, map_lock_ is taken again.
CallReturnsFirst ==  \* fault: the iteration starts again
    /\ wpc = "call" /\ adding[Self] = End
    /\ wpc' = "scan"
    /\ it' = IF map = <<>> THEN End ELSE Head(map)
    /\ UNCHANGED <<now, map, due, adding, valid, wnow, wakeAt, added, fired,
                   stopped, overtaken, wild>>

CallReturns ==
    /\ wpc = "call" /\ adding[Self] = End
    /\ wpc' = "scan"
    /\ it' = Next1(it)
    /\ UNCHANGED <<now, map, due, adding, valid, wnow, wakeAt, added, fired,
                   stopped, overtaken, wild>>

EraseWholeMap ==  \* fault: clear() instead of erase(begin(), it)
    /\ Locked /\ PastDue
    /\ map' = <<>>
    /\ wpc' = "run" /\ it' = End
    /\ UNCHANGED <<now, due, adding, valid, wnow, wakeAt, added, fired,
                   stopped, overtaken, wild>>

\* erase(begin(), it).
EraseFired ==
    /\ Locked /\ PastDue
    /\ map' = IF it = End THEN <<>>
              ELSE SubSeq(map, Position(it), Len(map))
    /\ wpc' = "run" /\ it' = End
    /\ UNCHANGED <<now, due, adding, valid, wnow, wakeAt, added, fired,
                   stopped, overtaken, wild>>

\* Time passes, except inside WakeupTimers' locked part and beyond the timeout
\* of WaitLoop.
Tick ==
    /\ now < MaxTime /\ ~Locked
    /\ wpc = "wait" => now < wakeAt
    /\ now' = now + 1
    /\ UNCHANGED <<map, due, adding, valid, wpc, it, wnow, wakeAt, added,
                   fired, stopped, overtaken, wild>>

Loop ==
    \/ Idle \/ WakeupTimers \/ WakeSleeper \/ CallTimer \/ CallReturns
    \/ EraseFired

Adding == \E th \in Foreign \union {Self} : AddInsert(th)

Using ==
    \E th \in Foreign \union {Self} :
        \/ \E e \in Element, d \in Duration : AddBegin(th, e, d)
        \/ \E e \in Timer : StopTimer(th, e)

Next == wild = {} /\ (Loop \/ Adding \/ Using \/ Tick)

Spec == Init /\ [][Next]_vars

-----------------------------------------------------------------------------
\* Every variable has its type; timer_map_ is ordered by key.
TypeOK ==
    /\ \A i, j \in DOMAIN map : i < j => due[map[i]] <= due[map[j]]
    /\ now \in 0 .. MaxTime /\ wnow \in 0 .. MaxTime /\ wakeAt \in Nat
    /\ map \in Seq(Element) /\ it \in Element \union {End}
    /\ due \in [Element -> 0 .. MaxTime]
    /\ adding \in [Foreign \union {Self} -> Element \union {End}]
    /\ valid \in SUBSET Timer /\ fired \in SUBSET Element
    /\ added \in SUBSET Element /\ stopped \in SUBSET Timer
    /\ wpc \in {"run", "wait", "scan", "call"}
    /\ overtaken \in SUBSET Element /\ wild \in SUBSET Timer

\* No iterator is used after its element was erased, although callbacks and
\* other threads add and stop timers while WakeupTimers iterates: what the
\* Timer's lock_ and processer_ are for (timer.h:37-41).  StopTimer fails to
\* keep that only for a timer whose callback has begun, or that another thread
\* put in front of the iterator.
IteratorsValid ==
    /\ TypeOK
    /\ wild \subseteq fired \union overtaken
    /\ wild = {} /\ it # End => it \in Range(map)

\* The comments at timer.h:124 and timer.cpp:68: WakeupTimers wakes what is due
\* and deletes only that.  An element that was added is in the map until it has
\* been woken or stopped; the only others were added by another thread that
\* computed the key before the iteration passed it (timer.h:83).
NothingForgotten ==
    added \subseteq Range(map) \union fired \union stopped \union overtaken

\* Timers and sleepers become due in time order, whatever callbacks and other
\* threads add, and never too early.
InTimeOrder ==
    [][\A e \in fired' \ fired :
         /\ due[e] <= now
         /\ \A x \in Range(map) \ (fired' \union overtaken) :
              due[x] >= due[e]]_vars

\* A timer that StopTimer answered with true is not called afterwards, wherever
\* WakeupTimers was and whichever thread stopped it: the callbacks of Wait,
\* Push, Pop and Poll refer to the stack of the task that stops them.
StoppedStaysQuiet == [][(fired' \ fired) \intersect stopped = {}]_vars

\* Fairness: the Processer becomes idle again and again, callbacks return,
\* time passes; after an access through a dead iterator nothing is promised.
Keeps(A) == wild = {} /\ A

FairSpec ==
    /\ Spec
    /\ WF_vars(Keeps(Idle)) /\ WF_vars(Keeps(WakeupTimers))
    /\ WF_vars(Keeps(WakeSleeper \/ CallTimer \/ EraseFired))
    /\ WF_vars(Keeps(CallReturns)) /\ WF_vars(Keeps(Adding))
    /\ SF_vars(Keeps(Tick))

\* An element that was added fires, unless it is stopped or overtaken, and
\* elements fire in time order; also one that another thread adds while the
\* Processer sleeps in WaitLoop.
EveryTimerFires ==
    /\ InTimeOrder
    /\ \A e \in Element :
         e \in Range(map) ~> \/ e \in fired \union stopped \union overtaken
                              \/ wild # {}
=============================================================================
