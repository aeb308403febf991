# TLA+ models of cpp_go

cpp_go runs coroutines ("tasks") on a fixed set of threads, in the manner of Go:
`go` creates a task, every thread executes the tasks of its own queue, blocking
calls on sockets, timers, mutexes, condition variables and channels suspend the
task and let the thread go on, and a dispatcher moves tasks from busy threads to
idle ones. This directory holds a TLA+ model of it, the TLC configurations that
check the model on small instances, and TLAPS proofs for instances of any size.

Paths below are relative to `src/cpp_go/src/`. The models follow the Linux
build: `USE_EPOLL` and `USE_TASK_CACHE` on, `USE_TASK_GC` and `ENABLE_DEBUGGER`
off, asserts compiled out (`-DNDEBUG`).

## Inventory

| component | state | operations | talks to |
| --- | --- | --- | --- |
| Scheduling loop (`scheduler/processer.cpp`) | `runnableQueue_`, `newQueue_`, `runningTask_`, `nextTask_` of each `Processer` | `Process`, `AddNewTasks`, `SuspendBySelfIO`, `WakeupBySelfIO`, `Steal`, `sleep`, `Stop` | its `TimerManager` and `InnerIoWait`; wakers on other threads push into `runnableQueue_` under its spin lock |
| Task placement (`scheduler/scheduler.cpp`) | `processers_`, `taskCount_`, `lastActive_`, `free_task_map_`, `stop_` | `CreateTask`, `AddTask`, `AvgTotalTasks`, `DispatcherThread`, `Start`, `Stop` | every Processer's queues, from any thread and from the dispatcher |
| Task (`task/`) | `state_`, `proc_`, the links of the intrusive list | `Run`, `Reset`, `ReInit` | the loop (`SwapIn`/`SwapOut`), wakers (`state_`, `proc_` without a lock) |
| Intrusive queue (`common/ts_queue.h`) | head, tail, count, links | push, pop, erase, next, pop_back, pop_all | all of the above |
| Mutex (`sync/co_mutex.cpp`) | `owner_task_`, `waite_queue_` | `lock`, `try_lock`, `unlock` | suspends and wakes tasks through the Processer |
| Condition variable (`sync/co_condition_variable.cpp`) | `waite_queue_` | `Wait` with timeout, `NotifyOne`, `NotifyAll` | the mutex, the timers |
| Channel (`sync/fast_channel_impl.h`) | buffer or `lq_`, `rq_`, `wq_` | `Push`, `Pop` with timeouts, `Close` | the timers; entries lie on the stacks of waiting tasks |
| Timers (`timer/`) | `timer_map_` | `AddSleeper`, `AddTimer`, `WakeupTimers`, `StopTimer` | callbacks run on the Processer's stack |
| fd waits (`netio/inner_net/*_io_wait.cpp`) | `fd_map`, epoll or `fd_set`, the `Interrupter`'s sockets | `Poll`, `WaitLoop`, `PollsetTimeoutDel`, `InterrupteWaitLoop` | timers, the Processer |
| Socket calls (`netio/inner_net/net_fd.cpp`) | a shared, counted fd | `inner_send`, `st_writev`, ... | `Poll` |
| Ring buffers (`sync/ringbuffer.h`, `common/lock_free_ring_queue.h`) | two counters | push, pop | the channel (the second has no user) |
| Thread load, clock, options, debugging, context switch | | | |

What makes the code hard: one task is reachable from its Processer's thread, from
the dispatcher, from any waker and from a timer; only the queue links are under
a lock, while `state_`, `proc_`, `runningTask_` and `nextTask_` are read and written
between locked sections; a task is registered where others can wake it *before* it
has left its stack; the loop keeps a pointer into the queue (`nextTask_`) across a
context switch; and `AvgTotalTasks` works with counts it read earlier.

What each component owes its users:

- the loop and the balancer: a task is in one list at most, on one thread at most,
  none is lost, no wakeup is slept through, a ready task runs;
- the mutex: one holder, no waiter without a waker, hand-over in waiting order;
- the condition variable: a wait returns once, with the mutex held, whether
  notified or timed out;
- the channel: values arrive once and in order, a timed-out call has no effect;
- timers and fd waits: a wait is woken once, by the event or by the timeout, and
  the kernel is asked for what tasks wait for, no less and no more;
- the socket calls: bytes arrive once and in order, results are true, a shared fd
  is closed with its last NetFD;
- start and stop: when Stop returns nothing runs any more, and it returns;
- the containers: what goes in comes out once and in order.

## Modules

- **TaskSched** is the contract between the scheduler and everybody else: a task is
  created, resumed on one thread at a time, leaves it by yielding, parking or
  finishing, and a wakeup makes a parked task ready. It knows no queue.
- **Processer** is the scheduler: the loop of every thread and the dispatcher.
  Variables carry the names of the fields they stand for. `pc[p]` is where thread
  `p` is: "front" ... "endpass" in `Process`, "run" in a coroutine's own code,
  "erased"/"registered" in a suspending call, "push"/"interrupt" in a wakeup; `dpc`
  is where `AvgTotalTasks` is. A section under a queue's spin lock is one action.
  Code outside of any lock is merged with the neighbouring locked section only
  where no other thread can tell: `state_ = block` before the task has registered
  anywhere, `state_` and `proc_` of a task that was just selected to run. A
  coroutine's own code is arbitrary: `UserOps` selects among creating tasks ("go"),
  yielding, finishing, waiting in a mutex, condition or channel ("sync"), taking
  a mutex that became free while suspending ("self"), and sleeping or polling
  ("own"). The module implements TaskSched (`ImplementsTaskSched`): a task is on
  thread p from `SwapIn` until it has switched back, and parked when its `state_` is
  block and it is on no thread.
- **Suspension** is what the library code above the scheduler sees of it: `state_`,
  the threads and the parked tasks of TaskSched, and how a task suspends, switches
  out or is woken before it could.
- **CoMutex** is the mutex, on top of TaskSched: one action per section under `lock_`
  and per switch, with the task's `state_` deciding at the switch whether it parks
  or was woken already.
- **CoConditionVariable** extends CoMutex: `Wait` unlocks and locks by the mutex' own
  steps, `timer` and `isTimeOut` are the timer of a timed Wait. **ProducerConsumer**
  extends it with the program of `test_condition_variable`
  (`test_cpp_go/src/base_test.cpp`): `Change` is what a producer or consumer does
  under the mutex.
- **FastChannel** is the channel, on Suspension: `Push` and `Pop` under the channel's
  lock, one action per way through them, the switch, the timers, `Close`. `wq` and
  `rq` hold the waiting entries, `slot` and `got` the values on the tasks' stacks.
  **Channel** is what it promises, a bounded queue whose calls block, and
  FastChannel implements it (`ImplementsChannel`): the values in flight are those
  of the buffer followed by those of the waiting writers.
- **RingBuffer** (the channel's buffer, with counters of `WIDTH` bits), **WaitQueue**
  (its `wq_` and `rq_`, at the level of the links) and **LockFreeRingQueue** (one
  atomic access per step).
- **TimerManager** is one Processer's `timer_map_`: `map` is the multimap in order, `it`
  the iterator of `WakeupTimers`, which lets go of `map_lock_` while a callback runs.
  The own thread, callbacks and other threads add and stop timers. `overtaken` records
  the elements another thread put in front of the iterator, `wild` the timers whose
  StopTimer came too late.
- **EpollIoWait** and **SelectIoWait** are the two versions of `Poll` and `WaitLoop`, with
  `fd_map`, the registrations or sets, and the timers of timed Polls. `active` is
  what the kernel has to report.
- **SocketStream** is one writing and one reading call over a connection that takes
  and gives any part of what it is asked for; **SharedNetFD** is the life of the NetFD
  objects and of the descriptors behind them, shared and not, in any mixture of copies,
  assignments and inner_close. A number is what the code has; `is` and `sock` only
  record which socket it stood for, `hit`, `stale` and `mixed` what went wrong with it.
- **Lifecycle** is Start and Stop; **ThreadLoad** the measurement by which the dispatcher
  is to decide when to balance.
- **TSQueue** is the intrusive queue and list, pointer by pointer, and implements
  **SeqQueue**, the sequences that Processer works with.
- **MCProcesser**, **MCScheduling**, **MCChannel**, **MCCondition**, **MCIoWait**, **MCSockets** and
  **MCRuntime** instantiate them for TLC; their capacities, entries, elements and bounds are
  constants, so the theorems about them hold for any. Most of them put several uses, or several
  small components, side by side: a variable that never changes (`use`, `what`,
  `build`, `part`) says what a behaviour is about, only that steps, and the rest
  stays as it began. So one run has one state space with an independent part
  for each of them.
- **ProcesserProofs**, **MutexProofs** (with the condition variable), **ChannelProofs**,
  **TimerProofs**, **IoWaitProofs** (both fd waits), **NetFDProofs** and **LifecycleProofs** hold
  the theorems, **SeqLemmas** the facts about sequences they share.

How they fit together: Processer implements TaskSched. CoMutex, CoConditionVariable
and FastChannel use TaskSched as their scheduler and so hold for any that
implements it. TimerManager and the fd waits are used by Processer as "something
wakes a suspended task of this Processer once" (`WakeupOwn`), which is what
`NothingForgotten` and `WaitersReached` say. SocketStream uses Poll as "returns when
the fd is ready, or after the timeout", which is `PollEnds` and `TimeoutIsReal`.

Two choices in Processer deserve a word. `AddTask` may pick any Processer: the
index comes from `lastActive_`, which threads read and write without a lock. And
`WaitLoop` may return at any moment: its timeout is `GetLastDuration()`, never
infinite, so a Processer is never stuck in epoll_wait, only late.

## Runs

| run | question | instance and size |
| --- | --- | --- |
| `scheduling` | Is a task lost (`Accounted`), in two lists (`OnePlace`), on two threads (`RunExclusive`), does `nextTask_` point outside its queue (`NextInQueue`), is a wakeup slept through (`NoMissedWakeup`) or a task resumed when it must not be (`ImplementsTaskSched`)? | 3 tasks, 2 threads, four uses side by side (`MCScheduling`), three with one balancing and one with two: 0.51 million states |
| `fair` | Is every ready task eventually resumed (`ReadyTasksRun`)? | 3 tasks that yield, wait for their own fds and timers and end; 2 threads, 2 balancings: 0.12 million |
| `channel` | Does the channel implement the abstract one (`ImplementsChannel`), with waiters that can be answered (`EntriesWait`) and are woken when they are (`AnsweredIsReady`)? Are its containers in order (`RingFifo`, `QueueFifo`, `SlotsExclusive`)? | 3 tasks, 2 threads, capacity 0 and 1, every timeout; rings of 3 and 4 slots with 4-bit counters; 2 wait entries; lock-free ring 1+1 and 2+0 threads: 0.46 million |
| `condition` | Does Wait return with the mutex (`HoldsMutexUntimed`), can a notification miss a waiter (`WaitersQueued`), does the test's program keep its deque in bounds (`DequeInBounds`) and go on (`ProgramConsumes`)? | 3 tasks, 2 threads (2 tasks with timeouts); 1 producer, 2 consumers: 0.17 million |
| `timers` | Is an iterator used after its element is gone (`IteratorsValid`), a timer dropped (`NothingForgotten`), or called after it was stopped (`StoppedStaysQuiet`); do all fire, in order (`EveryTimerFires`)? | 3 timers, 1 sleeper, a second thread that adds and stops timers, 2 ticks: 0.8 million |
| `iowait` | Is the kernel asked for exactly what tasks wait for (`InterestExact`), does an event find its task (`WaitersReached`) and end its Poll (`PollEnds`), is a timeout one (`TimeoutIsReal`), does select answer what was asked (`SelectAnswers`)? | 3 NetFDs on 2 fds, 4 on 3 for select; timeouts, errors and stealing in turn: 0.31 million |
| `sockets` | Do bytes arrive once and in order (`StreamIntact`), are results and leftover iovecs true (`ResultIsTrue`), do the calls return (`CallsReturn`), is a shared fd closed when it should be, however NetFDs are mixed (`SharedFdLives`)? | 5 bytes in up to 3 iovecs over a buffer of 3, empty or full at first; 3 NetFDs, 2 tasks, 2 descriptors: 0.3 million |
| `runtime` | Is everything quiet when Stop returns (`StopQuiet`), and does it (`StopReturns`)? Do the queues implement sequences (`SequencesSpec`)? Does the mutex exclude (`MutualExclusion`), keep the waiting order (`NoBarging`), suspend whoever waits (`WaitersSuspended`) and forget nobody (`NoStrandedWaiter`), and does a contended lock() return (`LockReturns`)? | 3 Processers, 2 callers each; 2 queues, 2 lists, 3 elements; 4 tasks on 2 threads: 22 thousand |
| `pass`, `interrupt`, `send`, `load` | Four statements of the comments that the code does not keep, see Findings | 2 tasks on 1 thread; 3 tasks on 2; 5 bytes; 2 threads, 1 of them tracked |

Each of the checked properties is also tried against a plausible mistake in the
code it is about: the operators marked "fault" or "without" in the modules, which
no specification uses.

Bounds. Two threads are what every race here takes: a Processer and another thread
(waker, dispatcher or both); the dispatcher has its own steps. Three tasks let one
run, one be `nextTask_` and one be stolen; in a channel one waits, one answers and
one comes in between; in a mutex the fourth barges. `MaxBalance` bounds how often
`AvgTotalTasks` runs: with 2, Start's call and one by the dispatcher, which in
`scheduling` meets coroutines that suspend and are woken while it steals, in `fair`
whatever they do. A capacity of 0 hands values over, of 1 is full and empty in turn.
Counters of 4 bits wrap in the state space, with a number of slots that divides
their range and one that does not. Two NetFDs on one fd and one alone show joining,
leaving and independence. A message of 5 bytes over a buffer of 3 splits inside
iovecs, at their ends and around empty ones. Two ticks let a timer be added before,
at and after another, by a callback, and by another thread while WaitLoop sleeps, while
a callback runs, or between taking the clock and the lock. The theorems below do not depend on these bounds.

Where a run puts several uses side by side TLC counts their steps as one action; by
`-coverage` every action of the components is taken. Two branches of the code are not:
a Poll of select that times out while another NetFD of the fd waits for the same event,
which `net_fd.h:71-76` rules out, and a second consumer of the lock-free ring that
overtakes the first.

Deadlock is checked in `scheduling`, `fair` and `runtime`, where some thread
always has a step. In the other modules a program may be done: all coroutines wait in
a channel, all bytes are sent, time has reached its bound.

### Fairness

`Processer!Fairness`: threads keep running (weak fairness of the loop and of library
code in progress), and a coroutine eventually yields, suspends or returns, however
many others it wakes first (strong fairness, since a wakeup moves its thread
through other steps). That is what a cooperative scheduler asks of its
coroutines; nothing is assumed of wakeups, fds, timers or `CreateTask`.
`ReadyTasksRun` is checked without "sync": with it, coroutines that keep waking each
other starve the rest, which the run `pass` shows, and without "go", since endless
creation makes the state space too large for liveness.

`MCRuntime!MutexFairness`: ready tasks are resumed (what `ReadyTasksRun` says), a step inside
lock() or unlock() is not held up, a holder eventually unlocks, and user code
eventually leaves the CPU. Strong fairness of Resume stands for the queue
order the abstract scheduler does not have. `PcFairness` says the same of the
producer and the consumers.

`TimerManager!FairSpec`: the Processer becomes idle again and again, callbacks return
and time passes, until a StopTimer that came too late uses or leaves a dead iterator;
then nothing is promised. `MCIoWait!Fairness`: the Processer comes back to WaitLoop and runs woken
tasks, stated where no Poll has a timeout, since a timeout of the model may fire at
any time. `MCSockets!Fairness`: the two calls go on, earlier bytes are
read and the writer closes.
`MCRuntime!LifeFairness`: threads run; a Processer sees `stop_` since WaitLoop has a timeout and
coroutines yield; nobody is bound to call Start or Stop.

## Findings

- `processer.cpp:126` says the inner loop runs each task of `runnableQueue_` once and
  ends. Woken tasks are appended to the list the loop is walking, so two coroutines
  that wake each other and suspend keep it going for ever; new tasks, timers
  and fds are not looked at meanwhile (run `pass`, one thread, two tasks).
- `co_mutex.cpp:138`, `co_condition_variable.cpp:78` and `fast_channel_impl.h:278` read
  `proc_` of a task they have just pushed. It can have finished by then, and
  `Task::Reset` has set `proc_` to nullptr (run `interrupt`). The other runs let
  the waker go on in that state.
- `scheduler.h:118` says the dispatcher steals tasks from highly loaded Processers by
  their load. The registration of their threads is compiled in under `LIBGO_SYS_Unix`
  (`scheduler.cpp:258`), which nothing defines (`config.h` defines `SYS_Unix`): as built
  only Start's thread is tracked, its load is compared with its own average, and the
  dispatcher never balances after Start (run `load`, two threads). Processer lets
  it balance at any time, as a build with the macro does.
- `net_fd.h:119` says `inner_send` returns when the buffer has been sent. After a partial
  send on Linux it calls `send` with `buf`, not `buf + offset` (`net_fd.cpp:377`), so the
  first bytes go out again and the last never (run `send`). st_write, st_writev and
  st_writev_resid advance correctly (run `sockets`).

### What the passing runs leave out, and why

Behaviours in which the code does not do what its comments say, met while the
modules were written. Where a model contains one, the constant or the mode that keeps
it out of a passing run is named.

- `processer.cpp:382` says `WakeupBySelfIO` is only called in the task's own Processer.
  Mutexes, conditions and channels call it from the waker's thread. Nothing is left
  out: the lock of the queue makes it safe, as `scheduling` shows.
- A Wait with a timeout stops its timer only after `mutex.lock()` has returned: the
  timer can resume the task inside `lock()`, without the mutex
  (`co_condition_variable.cpp:48`), and a timed-out task stays in `waite_queue_`.
  `HoldsMutexUntimed` and half of `WaitersQueued` are about the uses without timeouts.
- A Push or Pop that times out leaves its entry, on its stack, in the wait queue
  (`fast_channel_impl.h:250`); the other side answers it and its value is lost.
  `EntriesWait` speaks of the entries that have not timed out; `wild` records an
  answer to one that has.
- A call that answers a waiter reads the waiter's entry again after it has pushed
  the task, for `entry->task_->proc_` (`fast_channel_impl.h:278`, `348`, and in Close). The
  entry is on the waiter's stack and may be gone. FastChannel answers and wakes in
  one step and leaves that read out; nothing it computes depends on it but the
  interrupt, which is the run `interrupt`'s.
- The consumers of the test see `exitFlag` only between rounds (`base_test.cpp:589`): one
  that waits when the last producer leaves is never told. `ProgramConsumes` is about
  the time before `exitFlag` is set.
- `AddTimer` computes the key before it takes `map_lock_` (`timer.h:83`). Called from
  another thread during a callback, it can insert in front of the iterator, and
  the element is erased unfired. `timers` contains this; its elements are the `overtaken`
  ones, which `NothingForgotten` and `EveryTimerFires` except.
- A timer that another thread adds wakes nobody (`processer.cpp:421`, `scheduler.cpp:460`):
  a Processer that sleeps in WaitLoop sees it when its earlier timeout is over,
  `MIN_WAITE_TIME` if `timer_map_` was empty and else the time of the nearest timer. So
  the Processer can oversleep, by as much as that timer is away, and no property says
  otherwise; `EveryTimerFires` says that the new timer still fires.
- `StopTimer` of a timer whose callback has begun erases a dead iterator, or makes
  WakeupTimers' own one dead, and returns true (`timer.cpp:79`; `timer.h:126` says false).
  Wait, Push, Pop and Poll ask `isTimeOut` first, but nothing orders that with a
  timer that fires at the same moment, and an overtaken timer is gone without having fired.
  A behaviour of `timers` ends there (`wild`); `IteratorsValid` says that it only happens to
  such timers.
- After an exceptional event an fd is modified, not deleted (`epoll_io_wait.cpp:105`): it
  stays registered with no owner. `InterestExact` excludes the mode "errors". When
  such an fd is reported again WaitLoop finds no task and its assert at line 75 fails;
  without asserts it goes on and deletes the registration. `WaitersReached` includes the
  assert's condition (`ReportsFindTasks`) only outside the mode "errors", the rest of it
  in all modes.
- WaitLoop makes a task runnable before it clears its timer (`epoll_io_wait.cpp:95`); if
  the task is stolen in between, Poll reports a timeout. The modes with timeouts do
  not steal. `assert(events > 0)` at line 280 sees EPOLLET, the sign bit; the model
  is of the build without asserts.
- The select version keeps `owner_task` after a timeout (`select_io_wait.cpp:259`), and
  the same task's next Poll exits the process. `SelectAnswers` says it is these NetFDs
  and no others.
- With timeout 0 st_write, st_writev and st_writev_resid wait without limit after a
  partial write (`net_fd.cpp:751`; `net_fd.h:130` says they return at once), and a read
  returns 0 for "nothing there" as for "closed" (`net_fd.cpp:356`, `net_fd.h:105`). The
  modes contain both; `ResultIsTrue` and `CallsReturn` say nothing of when such a call
  returns.
- The copy constructor of a NetFD that another task waits with copies it all the
  same in a build without asserts (`net_fd.cpp:74`). `Across` has "assign" only, which
  returns at that place.
- A shared NetFD that is assigned one that is not shared takes its number and keeps its
  own `share_fd` (`net_fd.cpp:34-48`): inner_close will not close the number, and the
  old socket is closed with the last NetFD of that cell. So in
  `NetFD s(true); s = inner_socket(..., false);` nothing ever closes the socket. The run
  contains such assignments and those in the other direction; `SharedFdLives` asks that a
  NetFD's number be that of its `share_fd` of all others (`mixed`).
- A copy of a NetFD that is not shared has its number, and inner_close of both closes
  it twice (`net_fd.cpp:258`): the second hits whatever socket has the number by then. The
  run contains that; `SharedFdLives` says that a shared socket is closed early only so.
- With several producers and a consumer the lock-free ring publishes slots nothing
  was stored in (`lock_free_ring_queue.h:64`). `SlotsExclusive` has one of each, or two
  producers alone. Nothing in the repository uses the class.
- The order of values in a ring buffer survives the wrap of `size_t` only if `capacity_ + 1`
  divides its range: `RingFifo` asks for order from such a ring, for the size from all.
- Stop that overlaps Start misses threads (`scheduler.cpp:244`), and without Start waits
  for ever, since `active_` is true from construction (`processer.cpp:77`). Lifecycle's
  `Call` comes after Start has reached Process. `active_` is cleared before the last use
  of the Processer (`processer.cpp:206`): `StopQuiet` says of the main thread only that
  it runs no coroutine.
- A `check_` of ts_queue.h survives a move between queues, so that `eraseWithoutLock(hook,
  true)` can accept an element of another queue (`ts_queue.h:459`). All callers pass
  false, and so does the model.

## Proofs

The proofs hold for every set of tasks and every number of threads, callers, timers,
values, capacities and bytes. They assume what the modules' ASSUMEs say: there is a
thread; tasks, NetFDs or elements are told apart from "none"; what the code counts is
finite (the tasks of `taskCount_` in Processer, the fds of `evtlist_cnt` in
EpollIoWait, the entries and elements of the queues); and of the numbers: capacities are
in Nat and below the range of `size_t`, and one of the two rings of MCChannel has a
number of slots that divides that range. None
of the safety properties is inductive on its own, so each module of proofs begins with
its inductive invariant; TLC checked each of them as an invariant of the component's
run. With them every safety property of the passing runs is a theorem, and so are the
three refinements.

- **ProcesserProofs**. `TypeCorrect`. The type invariant needs two facts about
  control: a thread at a point where it uses `runningTask_` or its wakee has one
  (`RunInv`, `WakeeInv`), and Steal goes on to `runnableQueue_` only while tasks are
  missing, so its count is positive (`StealInv`). The queue operations
  have a typing lemma each. `Invariant`: `CInv` says that some function `l` gives every task
  one place, a `runnableQueue_`, a `newQueue_`, one of the local lists that carry tasks
  from one queue to another (`moved`, `part`, `stolen`), or nowhere, and that every
  list holds exactly the tasks of its place, once (`Lists`). That alone is not inductive:
  a wakeup appends a task, so the task must be nowhere, so it must be known to be
  waiting and pushed by one waker only (`Waiting`, `Waking`); a task that ends or
  suspends is unlinked from the queue of the thread that runs it, so Steal must
  have left it there (`Running`); the loop goes on with `nextTask_`, so Steal must not
  have moved that either (`Successors`); and a task that is nowhere is waiting, being
  woken, or in the hands of its thread (`Tasks`). Every step moves tasks between
  places; the lemmas of the section "The lists when tasks change their place" say
  once what linking, unlinking, cutting and appending do to `l`.
  From `CInv` follow `LinkedOnce` (`OnePlace`), `HeldOnce` (`RunExclusive`) and
  `SuccessorLinked` (`NextInQueue`). `NoneLost` (`Accounted`) adds
  `Counted`: `taskCount_` lags behind by the tasks their threads have yet to recycle.
  `NoneSleptThrough` (`NoMissedWakeup`) adds `Awake`: for each task in the queue of a
  thread that found nothing to do, there is a byte in its interrupter or the task's
  waker is about to send one. `Refinement`: initial states map to initial states of
  TaskSched, and under `CInv` SwapIn is Resume, the switch back is Yield, Park
  or Finish by the task's `state_`, a wakeup is Wake when the task has left its
  thread and a stutter before that, CreateTask is Create, and all else is a stutter.
- **MutexProofs**. That the task which returns from lock() owns the mutex rests on
  where every other task is. `IInv` says so: `OwnerInv` (a task that is past lock() and not
  parked owns the mutex, a task woken before it switched out owns it too, and nobody
  else does), `BlockInv` (which program points `state_ = block` belongs to), `QueueInv`
  (waiters are distinct, suspended, and not the owner), `WakeInv` (one hand-over is in
  progress at most, and its task owns the mutex already), `SchedInv` (a task executes
  on one thread and is not parked). From it: `TypeCorrect`, `MutexSafe`, `NoneStranded`,
  `WaitersAreSuspended`, and `NoneBarges`, an action property: only
  `UnlockHandOver` can change the owner while tasks wait.
  The condition variable breaks most of that when its Waits have timeouts (Findings),
  so two invariants cover it. `QInv` holds in all three uses of the run: whoever
  is suspended is in the mutex' queue or the condition's, or its waker is on the
  way. `UInv` is for uses without timeouts and is `IInv` again, with the tasks in Wait
  told apart: who owns the mutex (`Owner`), whom `state_ = block` holds for (`Blocked`),
  who is in which queue, once (`Waiters`), and the one hand-over (`HandOver`). From
  them `NoneUnqueued` (`WaitersQueued`), `MutexHeld` (`HoldsMutexUntimed`), `DequeBounded`
  (`DequeInBounds`: only who owns the mutex has the deque in its hands), and
  `WaitHoldsMutex` for any other program without timeouts.
- **ChannelProofs**. `ChInv`: the queues hold a task once, only while it is in a call,
  and suspended unless its timer has fired (`Entries`); a task's result, its `state_`
  and where it is agree (`Phase`); a reader waits only while the
  channel is empty and a writer only while it is full (`Needed`). From it
  `WaitersNotifiable` (`EntriesWait`) and `AnsweredReturns` (`AnsweredIsReady`).
  `ChannelRefines` (`ImplementsChannel`) needs `RefInv`, which adds that whoever is
  suspended has an entry, so that a timer which fires takes a waiting call out of
  the abstract channel, and that whoever has timed out is on its way back, so that
  an entry which notifies is one the abstract channel still has. `Keep` leaves the
  timed-out entries out of a queue; the lemmas about it say what an entry that joins,
  leaves or times out does to what is kept. It refines up to `wild`, the step in
  which the code writes through an entry that timed out.
  `RingInOrder` (`RingFifo`) counts the slots of a ring from the remainder of `read_`
  (`RingInv`); the wrap of `write_` keeps it where the number of slots divides the range of
  `size_t`, and the number of values is a difference taken modulo that range in any case.
  `EachSlotOnce` (`SlotsExclusive`): in the lock-free ring a slot is claimed before it is
  stored to, so with one producer and one consumer `PairInv` counts the slots claimed,
  stored and being taken from each thread's program counter; with producers alone
  `AloneInv` says that no slot from `write_` on has been used. `WaitersInOrder`
  (`QueueFifo`): the links of `WaitQueue1` are those of some sequence without
  repetitions (`QueueInv`), and following them yields it (`Walk`).
- **TimerProofs**. `TmInv`: an element is in `timer_map_` once (`MapInv`), the iterator of
  `WakeupTimers` points to an element of the map, and what a callback adds comes
  behind it (`IterInv`), what it has passed has fired or was overtaken (`PassedFired`: the final
  erase drops nothing else), a timer that may be stopped is in the map unless it has
  fired or was overtaken (`StoppableInMap`), and what was stopped is in it no more
  (`StoppedGone`). `TimerInv` keeps that until a StopTimer comes too late, and says which
  timers can be late. From it `IteratorsStayValid`, `NoneForgotten`, `StoppedNeverCalled`
  (`StoppedStaysQuiet`), and `FiredInTimeOrder` for the safety part of `EveryTimerFires`. They hold
  for any other threads that add and stop timers at any time, with no hypothesis
  on when.
- **IoWaitProofs**. The theorems are about MCIoWait, with any NetFDs, fds and Processers in
  place of its instance: `EventsFindWaiters` (`WaitersReached`), `NothingElseListened`
  (`InterestExact`), `TimeoutsAreReal` (`TimeoutIsReal`), `AnswersAreAsked` (`SelectAnswers`).
  In the epoll version what the properties say of a Processer outside WaitLoop is
  false inside it, so `EInv` says what WaitLoop has in its hands (`LoopInv`: the fds
  still to come are registered and differ, the NetFDs not yet visited are in `fd_map`),
  and of the fd it is at that a waiting task is either not yet visited or already in
  `modEvents` (`CoverInv`), with nothing in `modEvents` but that (`ExactInv`). `evtlist_cnt`
  is the number of registrations and that fd; after an exceptional event it may
  only be larger (`CountInv`). A timer belongs to a task in Poll or is the one WaitLoop
  is about to stop (`TimerInv`). A task that is stolen with its timer loses
  `TimeoutIsReal` (what the passing runs leave out, above); `ModeInv` says that the
  uses keep the two apart. In the select version `SInv` tells `events`, `revents` and `owner_task` from where a
  task is (`PollInv`); an fd is in a set for some task that waits, and one that
  is missing there is WaitLoop's to wake (`SetInv`).
- **NetFDProofs**. `SharedFds` (`SharedFdLives`). `NInv`: a cell none points to is empty, and
  no two hold the same socket (`CellsInv`); the number in a cell is open for the
  cell's own socket, unless a second inner_close of that number has hit it (`OpenInv`);
  a shared NetFD has the number of its cell, unless it was assigned one that is
  not shared, and what inner_close is meant for was never shared (`AgreeInv`). `Left` says
  once what remains when pointers or objects go. The kernel gives a closed number
  away again, so all of this is about sockets and not only numbers.
  `BytesInOrder` (`StreamIntact`) and `ResultsAreTrue` (`ResultIsTrue`) are about the
  bytes, where inner_send is only called with timeout 0 (Findings). `StreamInv`: the
  writer's iovecs stand for the bytes behind those accepted (`WriterInv`), the connection
  holds those accepted and not delivered, in order, or is still full of an earlier
  message (`NetInv`), and the reader's iovecs stand for the memory behind what it has
  (`ReaderInv`). `Chained(v, s, t)` says that iovecs `v` are the `t` bytes behind `s`, by
  their partial sums; `AdvanceIs` and `RestIs` that the two loops which drop iovecs
  leave what comes behind n bytes, wherever in an iovec that is. That st_writev with
  timeout 0 returns 0 only when it has sent nothing rests on `NetInv` too: it comes
  back to a full connection only if Poll has not said that there is room.
- **LifecycleProofs**. `StoppedIsQuiet` (`StopQuiet`). `LInv`: only the first Start begins anything
  (`StartOnce`), `active_` and `joinable` follow the threads they are about (`Tracked`),
  and the Processers before `turn`, the place of the holder of the lock in Stop's
  loop, have ended and stay so (`StopOrder`); a second caller waits for the lock, so it
  returns after the same work. `QueuesAreSequences` (`SequencesSpec`): `Good(s)` says that the
  pointers of queues and lists hold the sequences s, `Trail` that following the links
  yields them; for each operation of ts_queue.h a lemma names the sequences it leaves
  (`Links`, `Unlinks`, `CutLinks`, ...), which are those of the same operation of SeqQueue
  (`Moves`).
- **SeqLemmas** says what pushing, linking, cutting and unlinking do to the elements of
  a list and to their being in it once, has the facts about `%` that the rings need, and
  induction over numbers and sequences in a form the provers can use: over a set in
  place of a predicate (`SetInduction`, from the least number of a set). With it follow
  the recursive definitions of the models and of the library, which say what they
  compute only as a function that is chosen: that one exists is proved first.

Only model-checked is liveness, since fairness and ENABLED are out of TLAPS' reach:
`ReadyTasksRun`, `LockReturns`, `ProgramConsumes`, `PollEnds`, `CallsReturn`, `StopReturns`, and
that timers do fire (`EveryTimerFires`; `FiredInTimeOrder` is the safety part of it). What
a theorem's hypothesis or a property's exception excludes (inner_send after a partial send;
timers that were overtaken or stopped after their callback began; descriptors closed
twice) is excluded because the code does not keep the promise there, as described
under Findings.

## Not modelled

- `inner_connect`, `inner_accept`, `inner_bind`, `inner_listen`: they keep no state and
  translate what the kernel answers; the Poll two of them wait in is EpollIoWait's.
- `CoMutex::is_lock`, calls from outside a coroutine, unlock by a task that is not the
  owner: an unlocked read and two asserts.
- The class `WaitQueue` of `wait_queue.h` (the channel uses `WaitQueue1`), `IsBlocking`, `Mark`,
  `Steal(0)`: nothing calls them.
- `ReleaseTask` at the end of Process: `Leave` of Lifecycle stands for it; the tasks
  themselves are Processer's, which never stops.
- The `AddTimer` that is given a time point (`timer.h:91`): nothing calls it.
- The Windows branches, and the memory figures of ThreadPhyInfo: not compiled here.
- Spin locks (a section under one is a step), the clock (time is a counter),
  boost.context, options and logging. The benchmarks of `test_cpp_go`.
- Weak memory: atomics and locked sections are sequentially consistent in the models.

## Plan

All components with logic of their own are modelled and checked, and every safety
property of the passing runs is proved for instances of any size. What is left is
liveness beyond the bounds of the runs, and the parts under "Not modelled", which would
become worth modelling if the code gave them state: the connecting side of the
sockets, and the load tracking once `LIBGO_SYS_Unix` is defined.
