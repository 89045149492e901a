# TLA+ models of the synchronization, executor and fiber library

This directory holds TLA+ specifications of the C++ code of this repository
(mutexes, lock-free structures, thread pools, executors, fibers and stackless
coroutines), configurations that check them with TLC on small instances, and
proofs checked by TLAPS for instances of any size. Paths below are relative to
the root of the repository; `futures/executors/exe/executors` is abbreviated
to `executors`.

## 1. Inventory

The repository is a collection of small concurrent components. Several
directories hold a copy of an earlier one (the fibers' thread pools, spinlocks
and stack allocators; the executors of `futures` and `stackless`); a copy that
does not differ is listed with its original.

| component | state it keeps | operations | what is hard | what makes it correct |
|---|---|---|---|---|
| futex mutex, `mutex/mutex` | `state_`, `counter_` | Lock, Unlock | sleeping races waking; the decision to wake is taken on another word than the lock | exclusion, no lost wakeup, progress |
| MCS spinlock, `mutex/queue` | `tail_`; `next_`, `owner_` in guards on the waiters' stacks | Guard (acquire, release) | enqueue in two steps races release; pointers into other stacks | exclusion, FIFO, no starvation, no dangling guard |
| ticket lock, `mutex/try-lock` | two counters | Lock, TryLock, Unlock | TryLock compares a ticket read earlier; wrap-around | exclusion, FIFO, TryLock succeeds only on a free lock |
| TAS spinlock, `mutex/spinlock`, `*/support/spinlock.hpp` | one flag | Lock, TryLock, Unlock | starvation is possible by design | exclusion, progress |
| philosophers, `mutex/dining` | forks, plates, meals | Eat | circular waiting | no deadlock, plates accessed under their forks |
| simulations, `mutex/deadlock`, `mutex/livelock` | two mutexes; a tricky lock | scripted fibers | they claim a deadlock and a livelock | the claimed outcomes are reachable |
| cyclic barrier, `condvar/barrier` | two counters, current index | Arrive | reuse by fast threads while slow ones leave | nobody passes early, everybody passes |
| condition variable, `condvar/condvar`, `fibers/.../condvar.hpp` | notification counter | Wait, NotifyOne, NotifyAll | unlock and sleep are two steps; 32-bit wrap | no notification after unlock is missed |
| semaphore, bounded queue, `condvar/semaphore` | tokens; buffer | Acquire, Release; Put, Take | order of five calls; pairing of tokens and elements | capacity, FIFO, no lost element, no deadlock |
| task pool, `condvar/thread-pool`, `fibers/*/exe/tp` | queue, count, workers | Submit, WaitIdle, Stop | as below, with other notifications | as below |
| lock-free stack, `lockfree/stack` | `top_` with a stamp; `next`, `dec_count` in nodes | Push, TryPop, destructor | reclamation split between two counters; ABA; spurious failures | LIFO, no use after free, no leak |
| compute pool, `executors/tp/compute` | queue, `is_open_`, `count_`, workers | Execute, WaitIdle, Stop | notifications after unlock; Stop races Execute; tasks submit tasks | every task runs or is discarded once, idle means idle, Stop ends |
| strand, `executors/strand.cpp` | intrusive stack, `scheduled_` | Execute, and its job | hand-over of the job when the stack refills | serial, FIFO, nothing stranded |
| inline and manual executors | a list | Execute, RunAtMost, Drain | tasks that submit tasks while the list is run | FIFO, limits respected |
| coroutines and fiber runtime, `fibers/coroutine` | contexts, completion, exception, pool of stacks | Resume, Suspend, Go, Step | exceptions, nesting, reuse of stacks | one resumer at a time, stacks not shared |
| fiber mutex, futex, `fibers/mutex` | words as in the futex mutex; spinlock, queue of nodes on fiber stacks | Lock, Unlock, ParkIfEqual, WakeOne, WakeAll | a lock held across a context switch; a fiber queued before it has left its stack | exclusion, no lost fiber, handles valid |
| fiber wait group | count, `doing_`, condition variable | Add, Done, Wait, destructor | destruction races the last Done | Wait returns at zero, nothing touched after destruction |
| sleeping fibers, `fibers/sleep_for` | io_context, timers | SleepFor, Yield | resumption is queued before the suspension | a fiber is resumed only when suspended |
| coroutine mutex, `stackless/.../sync/mutex.hpp` | `head_`, `tail_`, nodes in coroutine frames | ScopedLock, Unlock | lock-free enqueue; hand-over inside Unlock | exclusion, FIFO, every waiter resumed once |
| one-shot event and task wait group | `tail_`; count | Wait, Fire; Add, Done | waiters enqueue while the event fires | every waiter resumed once |
| tasks and teleport | coroutine frames | FireAndForget, TeleportTo, Yield | the frame moves between threads, is destroyed when discarded | one resumer, destroyed once |
| mutexed, `mutex/mutexed` | object and mutex | Lock, operator-> | the reference is built in two steps | operations through a reference are atomic |
| generators, processors, `tasks::Run` | - | - | stubs without a working body | - |

How they interact. Everything on threads uses the (twist) standard mutex,
condition variable and atomics. A `Fiber` is a coroutine that submits its own
`Step` to a task pool; the fiber futex parks it by suspending it with the
futex's spinlock held; fiber Mutex, CondVar and WaitGroup are built on the
futex. A `Strand` submits one job at a time to any executor, usually the
compute pool; a coroutine teleports by submitting its awaiter to an executor.
The pool discards pending tasks when it is stopped, which reaches the
coroutines as the destruction of their frames.

Hazards: `PROJECT.json` lists them, each at its line, with the properties that
cover it, or with the reason why none does (section 7).

## 2. Modules

| module | models | kind |
|---|---|---|
| `AbstractLock` | what a lock promises: exclusion, progress | abstract |
| `AbstractFifoLock` | a lock that is first-come first-served | abstract |
| `FutexMutex` | `mutex/mutex/mutex.hpp` | detailed; refines `AbstractLock` |
| `CondVar` | `condvar/condvar/condvar.hpp` over `FutexMutex` | composition |
| `FutexMutexProofs` | theorems about `FutexMutex` and `CondVar` | proofs |
| `QueueSpinLock` | `mutex/queue/queue_spinlock.hpp` | detailed; refines `AbstractFifoLock` |
| `TicketLock` | `mutex/try-lock/ticket_lock.hpp` | detailed; refines `AbstractFifoLock` |
| `SpinLock` | `mutex/spinlock` and the fibers' spinlock | detailed |
| `Mutexed` | `mutex/mutexed/mutexed.hpp` | detailed |
| `Dining` | `mutex/dining/philosopher.cpp` | detailed |
| `Simulations` | the tests `mutex/deadlock` and `mutex/livelock` | programs over an external scheduler |
| `FiberMutex` | fiber Mutex, FutexLike, SpinLock, suspension and the pool's queue | composition; refines `FutexMutex` |
| `FiberRuntime` | Go, stack allocator, Step, Yield, SleepFor, exceptions, Stop: the three copies under `fibers/` | composition |
| `FiberWaitGroup` | fiber WaitGroup over CondVar and Mutex, with its destructor | composition, over `FutexMutex` |
| `Coroutine` | nested standalone coroutines, `fibers/*/exe/coroutine` | detailed |
| `MCFibers` | the four above, one per behaviour | instance for TLC |
| `FiberRuntimeProofs` | theorems about `FiberRuntime` | proofs |
| `FibersProofs` | theorems about `FiberMutex`, `Coroutine` and `MCFibers` | proofs |
| `LockFreeStack` | `lockfree/stack` | detailed |
| `LockFreeStackProofs` | theorems about `LockFreeStack` | proofs |
| `MCLockFreeStack` | the symmetry set of `LockFreeStack` | instance for TLC |
| `ThreadPool` | `executors/tp/compute`: pool, queue, wait group | composition |
| `TaskPool` | `condvar/thread-pool/tp` and `fibers/*/exe/tp`, over `ThreadPool` | variants of it |
| `TaskPoolProofs` | theorems about `ThreadPool` and `TaskPool` | proofs |
| `AbstractStrand` | what a strand promises: serial and FIFO | abstract |
| `Strand` | `executors/strand.cpp` and its intrusive stack | detailed; refines `AbstractStrand` |
| `ExecutorsProofs` | theorems about `Strand`, `ManualExecutor`, `TaskMutex` and `TaskWaitGroup` | proofs |
| `ManualExecutor` | `executors/manual.cpp`, `executors/inline.cpp` | detailed |
| `MCExecutors` | `Strand` or `ManualExecutor`, one per behaviour | instance for TLC |
| `TaskMutex` | `stackless/.../sync/mutex.hpp` with tasks, teleport, yield, and Stop of the pool | composition; refines `AbstractFifoLock` |
| `TaskWaitGroup` | `stackless/.../sync/wait_group.hpp`, `one_shot_event.hpp`, over `TaskMutex` | composition |
| `MCTasks` | `TaskWaitGroup` and with it `TaskMutex`, `next` and `pc` under other names | instance for TLC |
| `AbstractBarrier` | what a barrier promises: all arrive before one passes | abstract |
| `CyclicBarrier` | `condvar/barrier/cyclic_barrier.hpp` | detailed; refines `AbstractBarrier` |
| `MCLocks` | `TicketLock`, `SpinLock`, `Mutexed`, `Dining`, `Simulations` or `CyclicBarrier`, one per behaviour | instance for TLC |
| `LocksProofs` | theorems about `QueueSpinLock` and `MCLocks`, without the simulations | proofs |
| `AbstractBoundedQueue` | a FIFO queue with a capacity | abstract |
| `BoundedQueue` | `condvar/semaphore`: queue and semaphores | composition; refines `AbstractBoundedQueue` |
| `BoundedQueueProofs` | theorems about `BoundedQueue` | proofs |

Small components that do not interact share a run: an `MC` module gives each its
own variables and chooses one of them in its initial state (`lives`), so that
the states add up instead of multiplying. The other detailed modules are
instantiated by their `.cfg` files alone. Where a module has several small
invariants, its run checks their conjunction, which also contains `TypeOK`
(`SafeGuards`, `MutexInPlace` in `FibersInPlace`, `ListIsIntact`, `PoolInvariant`,
`CoroutinesInPlace` in `TasksInPlace`); the other runs check the other properties only,
as TLAPS proves the types for every instance.

Conventions. The variables are the code's fields and the locals that survive
from one shared access to the next; `pc[t]` names the access thread `t`
performs next, so that one action is one atomic access, one call to the
operating system, or one section under a mutex. Sections under a standard
mutex are one step, because nothing outside of the mutex reads what they
write; notifications that the code sends after the unlock are steps of their
own. Memory order is sequentially consistent, as the default order of the
atomics used is (the fiber spinlock's acquire and release order its critical
sections, which is all that is used of them). Each module first defines a few
*mutations*, plausible mistakes, next to the definitions they would replace;
they take no part in the model and serve to show that a property can fail.

### FutexMutex

`Enter`, `Swap`, `FutexWait` are Lock; `Store`, `Subtract`, `FutexWakeOne` are
Unlock. `counter` counts threads from Enter to Subtract. The futex is external:
`FutexWait` compares and falls asleep in one step, `FutexWakeOne` wakes any one
sleeper, `SpuriousWake` any at any time.
`NoLostWakeup` says that a free mutex with sleepers always has somebody awake
who will take it or wake one.

### CondVar

`value_` is loaded under the mutex (`Load`), the mutex is released by the actions
of `FutexMutex`, `Park` compares and falls asleep in one step, `Relock` is the Lock
after it. `Bump`, then `WakeOne` or `WakeAll`, are the notifications, which may come
with or without the mutex, between any two of those steps. The history `told` is
`value_` as the last finished NotifyAll has left it. `NoMissedNotification` says
that nobody sleeps who loaded before that. As the module extends `FutexMutex`, its
run checks the mutex' properties too, in a setting where waiters release and
reacquire it in the middle of a critical section.

### TicketLock, SpinLock, Mutexed, Dining, Simulations

Drawing a ticket, the spin, and TryLock's load and compare-and-swap are steps;
`line`, which the abstract lock sees, is read from the tickets. Tickets are
bounded by `MaxTicket`; `Renew` begins with a new lock when they are used up and
nobody is inside. The two spinlocks differ in `Again`: one exchanges in a loop,
the other looks first. `Mutexed` has the construction of a reference in the order
of its members, object and then guard. The table and the forks of `Dining` are
not in the repository: they are taken from the philosopher's use of them.
`Simulations` are the routines of the tests, as programs, over tinyfibers, which
is external: one fiber runs at a time. Its properties say that the tests do what
they promise, and that each routine alone leaves the mutexes unlocked.

### FiberMutex

The two words of the futex mutex over `FutexLike`, whose spinlock and queue are modelled.
A fiber that parks goes from `parkLocked` to `suspending` (in the queue, still on
its worker) to `asleep` (`AwaitSuspend`: handle stored, spinlock unlocked, off the
worker). `Resume` is a worker that takes the oldest submitted fiber. A fiber may
`Yield` in its own code, inside or outside of its critical section, never inside
Lock or Unlock, where the code does not. The refinement to `FutexMutex` is the
argument that parking is atomic: it maps both `suspending` and `asleep` to the
abstract sleep, which begins at the insertion under the spinlock, and a fiber
whose comparison fails returns to the exchange.

### FiberRuntime

`kind` chooses one of the three copies. A thread is at `idle`, in the fiber's code,
in one of the steps of Go and of the allocator, or `back` in Step, on its own
stack. Which fiber a thread runs (`on`) is kept apart from the thread-local
`running`, which is what the fiber's own calls use: `InOnePlace` says that the two
agree whenever `running` is used, although an exception leaves it stale and
`fibers/sleep_for` never resets it. `deferred` are the handlers that asio holds back
until the running handler has returned; that is why a fiber may queue its own
resumption before it has switched out. `TryTakeFromPool` and `PopBack` are two
steps, under the spinlock. The pool appears by its queue, `open` and the count of
its WaitGroup (its internals are `TaskPool`); `Stop` drops the queued fibers and a
Submit after it drops the fiber that is submitted: they are `lost`. `IdleIsOver`
says that the pool's count, which fibers raise anew at every Yield, is not zero
before all of them have ended.

### FiberWaitGroup

Extends `FutexMutex`: the mutex is the one that `FiberMutex` is shown to implement.
`at[f]` is the fiber's place in Done, Wait or the destructor, `pc[f]` its place in
the mutex; `onWorker` the fibers that have one of the `Workers`. The last waiter to
return destroys the group at once, which is as early as a caller can. Every access
of the group by a fiber is a place other than `gone`, so that `EndsUntouched` is the
statement that nothing is used after it has been freed.

### Coroutine

`calls[t]` is the real nesting of contexts on a thread, `current` and `prev` the
code's record of it, which must agree with it after any sequence of Resume,
Suspend, completion and exception, with coroutines that move between threads.

### QueueSpinLock

A guard is named by the thread whose stack it is on and is reused at every
acquisition. The history variable `line` records the order of the exchanges on
`tail_`; it is what the abstract FIFO lock sees. `NoDanglingGuard` states, for
the two stores into a foreign guard, that its thread is still waiting for
exactly that store.

### LockFreeStack

`old[t]` is `old_head` in TryPop and `new_head` in Push. Nodes are addresses
that New takes from the free ones, so that ABA happens. `Increment` takes a
reference by bumping the stamp of `top_`; `Drop` gives it back in `dec_count`,
where the winner of the pop settles the account with `1 - stamp`. A stamped
pointer in a node's `next` keeps the references taken before another node was
pushed above; `ReadNext` and `PopCas` restore it. The history `stk` is the
sequence of nodes pushed and not popped; `ChainMatches` compares it with the
list in memory. The destructor runs when nobody is inside, after which a new
stack is constructed.
The stamp is bounded by `MaxStamp`: the TryPop that takes a node's stamp past
the bound finishes its compare-and-swap before anybody else moves (`Alone`), so
that the bound neither wraps nor blocks. That leaves out behaviours, all of
them continuations in which one node is contended by more than `MaxStamp + 1`
TryPops between its push and its pop; the wrap of the 16-bit stamp is listed as
a hazard. With `Counting = FALSE` the bound is off, stamps wrap and `dec_count`
is left alone; only the run about lock-freedom uses that.

### ThreadPool

Clients call Execute and WaitIdle, the `Stopper` may call Stop; a worker that
runs a task may call Execute from it. `Add` and `Put` are the two halves of
Execute, `NotifyOne` the notification after the unlock. `Take`, `Run`, `Done`,
`NotifyAll` are WorkerRoutine; `Cancel`, `Closed`, `Join` are Stop. Tasks are used
once; `ran` and `discarded` record their fate. A task's `Run` is noexcept, so the
handler in WorkerRoutine never runs.

### TaskPool

Extends `ThreadPool` by what the earlier pools do otherwise: `PutAndNotify` and
`CancelAndNotify` notify under the mutex, `DoneAndNotify` notifies at any count,
`Throw` is a task that throws. `kind` chooses the pool; the properties of
`ThreadPool` are checked of all three.

### Strand

The intrusive stack is modelled by its pointers: a task is an address, deleted
when it has run and reused by a later task. A job is one call of the lambda in
Schedule. `Exchange` is the exchange of `scheduled_` in Execute and at the end of
a job alike: both schedule a job when it returned false. Tasks that run may
call Execute on their own strand. The underlying executor is external: it runs
every job once, on any of its threads. `line` records the order of the pushes.

### ManualExecutor

One thread; `calls` is its stack: calls of RunAtMost and Drain, with their counts,
and the tasks that run inside of them, from the queue or inline. `CountsTasks`
adds up what has been returned and what is counted in calls that are still on the
stack.

### TaskMutex and TaskWaitGroup

`resume()` is a call, so a worker has a stack of coroutines, the running one
last: `Resume` in Unlock pushes the waiter on the stack of the unlocker, which
goes on when the waiter parks, yields or ends. `TeleportTo` is a coroutine that
suspends and submits itself to the pool, inside or outside of its critical
section. `TryLock`, `TryLockOrEnqueue` are the two halves of ScopedLock, with weak
compare-and-swaps that may fail; `TakeTail`, `Release`, `Exchange` and `Resume`
are Unlock. `Exchange` contains Reverse: once exchanged the list is private to
the unlocker, so that nobody can see it half reversed. A Locker is named by its
coroutine and constructed anew at every lock. `locker[c]` is the local of
Unlock between the choice of the waiter and its resumption. There is no history
variable: the abstract line of waiters is read from the pointers, the list at
`tail_` followed by the list at `head_` reversed (`Waiters`), which is also what
`InOnePlace` uses to say that no waiter is lost or reached twice. In front of them
stands the owner (`Owners`) or the waiter that an Unlock has chosen (`Heirs`); `line`
and `entered` are what the abstract lock sees of it.

Stop of the pool (`Close`, `Discard`, `Closed`) destroys the coroutines in the queue
on the thread of Stop, with the queue's mutex locked. A destroyed coroutine runs
no code of its own but its destructors (`fate` is `doomed`): if it holds the mutex,
its guard unlocks it, and Unlock resumes a waiter right there. If that waiter
teleports, it needs the mutex that the thread has locked: it is `stuck`, and so is
Stop. `StopAlwaysReturns`, that Stop gets to the end of the queue, does therefore
not hold, which the run `task_mutex_stop` shows (section 3, findings). `StopReturns`
states that this deadlock is the only way in which it does not, and `NoStarvation`
promises nothing to the waiters after it.

In `TaskWaitGroup` a behaviour uses either the mutex or the wait group (`uses`, one
of `Uses`), and Stop may come at any time in both.
`Exchanged` and `ResumeAwaiter` are Fire, whose resumptions are nested calls; an
awaiter is gone when its coroutine goes on, so that `ResumeAwaiter` reads its
`next_` in the step that resumes it. Done is called as the event allows: all the
Adds, at least one, come before the first Done. A coroutine that Stop destroys, or
that teleports to the closed pool, before it has called Done never does, as its frame
has no guard that would: it stays in `owes` when it ends. Nor is one started once the
pool is closed; the first thing that it would do is to teleport. The count then never
becomes zero, and the waiters hang. `WaitReturns` excuses exactly that
(`DoneIsLost`) and nothing else.

### CyclicBarrier

A section of Arrive under `mutex_` is one step: `Arrive` runs up to the wait or
to the return, `Woken` from the re-acquisition of the mutex on. The barrier is
used by exactly `thread_count_` threads, as its constructor's argument says.
`Gathered` are the threads inside whose `current_state` is the present round,
`Leaving` those of the round before; `CountersHold` relates the two counters to
them.

### BoundedQueue

Put and Take as the five calls they consist of, each of which is one section
under the mutex of a semaphore or one access to the deque. `TaggedSemaphore` is
not in the repository; its use shows an Acquire that returns a token and a
Release that takes one, and it is modelled as the Semaphore beside it. Tokens
are not objects of the model: where a thread holds one follows from `pc`
(`Putting`, `Taking`), and `Accounting` is the statement that all of them add up.
`NobodyStuck` has three parts. Beside room, whoever waits in Put, for a place or for
the guard, sees elements pushed again and again; beside elements, whoever waits in
Take sees them popped; so neither a token nor the guard is held by somebody who
waits for the other. And nobody sleeps at the guard for ever, even if others pass.
That each single thread gets the guard cannot be had: the semaphore has no queue,
and a thread that wakes may find it taken again every time.

## 3. Runs

| run | instance | shows |
|---|---|---|
| futex_mutex | `CondVar`: 4 threads, 2 of them wait, 1 notifies, 2 notifications | no lost wakeup, no missed notification; refines AbstractLock; progress |
| queue_spinlock | 4 threads | no dangling guard; refines AbstractFifoLock; no starvation |
| locks | `MCLocks`: 3 threads, 5 tickets, 3 operations, 5 philosophers, 2 iterations; barrier with 4 participants | ticket lock refines AbstractFifoLock with TryLock; flags exclude, Mutexed is atomic, plates are guarded; no starvation, a lock keeps being acquired, philosophers eat; barrier counters hold, refines AbstractBarrier, everybody passes; simulations end as promised |
| fiber_mutex | `MCFibers`: mutex with 4 fibers, 3 workers; runtime with 3 fibers, 2 threads, each copy; wait group with 2 waiters, 2 Dones, 2 workers; 3 coroutines, 2 threads | no fiber lost or run twice, stacks not shared, handles and thread-local pointers valid; refines FutexMutex; progress; fibers end; wait group destroyed untouched |
| lock_free_stack | 3 threads, 2 addresses, `MaxStamp` 2, spurious failures, symmetric | no use after free; LIFO under ABA; no leak |
| lock_free_stack_lockfree | 2 threads, 1 address | **violated**: TryPop is not lock-free |
| thread_pool | `TaskPool`: 2 clients, 2 workers, 3 tasks, Stop at any time or never, each pool | tasks in one place, no lost wakeup, Stop is final; count exact; idle is idle; nothing starts after Stop; every task ends or is discarded; Stop returns; WaitIdle returns unless a task is discarded |
| thread_pool_idle_stop | 2 clients, 1 worker, 1 task, Stop | **violated**: WaitIdle does not return after a task was discarded |
| strand | `MCExecutors`: 2 clients, 2 workers, 3 addresses; manual executor with calls 5 deep, 3 tasks | one job; nothing stranded; refines AbstractStrand; every task runs; manual executor counts and drains |
| task_mutex | `MCTasks`: 3 coroutines, 2 workers, mutex or wait group, Stop at any time or never | no waiter lost or resumed twice; refines AbstractFifoLock; no starvation; Stop gets through the queue or deadlocks in a waiter that the destruction of another coroutine has resumed; Wait returns unless a coroutine that owes a Done was destroyed |
| task_mutex_stop | `TaskWaitGroup`, the mutex: 2 coroutines, 2 workers, Stop | **violated**: Stop deadlocks on the queue's mutex |
| bounded_queue | 4 threads, 2 values, capacity 2 | tokens account for places and elements; deque used safely; refines AbstractBoundedQueue; nobody stuck, at the guard neither |

Deadlock is checked where the system must go on for ever. It is not in
`futex_mutex` (waiters whose notifications are used up sleep for ever), `locks` (the
simulations end), `fiber_mutex` (fibers end, the wait group is gone), `strand` (the
manual executor stops at its bound), and `task_mutex` (a Stop that is stuck, a group
that has fired or never will). Nor does it say much where a wait may wake
spuriously, as such a step stays possible. In all of these the liveness properties
say what must not be left undone.

Why the bounds are enough. Three waiters besides the holder are the most that
the locks tell apart: one that is handed the lock, one that is queueing, and one
behind it. Two workers suffice for a fiber to be on one while its waker is on
the other; a third lets a newcomer in. In the stack, one thread that holds a
stale head, one that pops and one that pushes the address back is the shortest
ABA, and three references to one node exercise every order of the drops. In the
pool, a task queued, a task running and a task being submitted exist together.
In the strand two jobs can exist only with two workers, and a batch of two tasks
is the least that has an order. Three coroutines are a holder and a list of two,
which is the least that Reverse can get wrong, and while the list of two is
served a third party may enqueue behind it. In the barrier four threads allow
two in each of the overlapping rounds. In the bounded queue four threads are two
on either side of a buffer that can be empty, full, or in between; two values
tell an order from its reverse. In the fiber runtime, the third fiber is started by
one of the other two, while the stack of the one that has ended may be reused;
two threads suffice for a fiber to be submitted on one and resumed on the other.
In the wait group two Dones and two waiters are one each that is last and one
that is not, and two workers are one that spins in the destructor and one for the
rest. Five philosophers are an odd ring, in which two neighbours have seats of
the same parity, as an even one has not; two notifications are one that is overtaken and one that
overtakes. Symmetry is used only in `lock_free_stack`, which
checks invariants.

Findings. Three runs violate what a comment of the code says. *Lock-freedom of
the stack* (`lock_free_stack.hpp:9`): two threads in TryPop can invalidate each
other's expected stamp for ever. The counterexample is a loop because the model
lets the small stamp wrap; in the program the same schedule goes on for 2^16
stamps. *WaitIdle and Stop* (`tp/compute/thread_pool.hpp:31`): a discarded task
stays in the count. *Stop and coroutines that hold a mutex* (`thread_pool.hpp:34-35` of
the copy in `stackless`): the queue discards its tasks under its own mutex, and what
the destruction of a coroutine resumes may need it.

## 4. Fairness

Weak fairness of a thread's steps once it is inside an operation: the operating
system schedules every thread. No fairness for entering an operation, for
submitting a task, for stopping the pool, nor for spurious wakeups: nothing in
the code obliges anybody. Critical sections and tasks end. Strong fairness
appears where a fiber, coroutine or task may leave its place and come back any
number of times before it does what it does in the end: `FiberMutex` (`Store`) and
`TaskMutex` (`Works`, `Leaves`: a critical section may yield, but not for ever),
`FiberRuntime` (`Complete`: a routine may yield and sleep, but ends), `Strand` (a task
may submit others, but not for ever), and `FiberWaitGroup` (`Dispatch`: the pool's
queue is FIFO, so that a fiber that can run gets a worker). In `MCFibers`, fairness
of actions of different components is stated of their disjunction, of which only
one is ever enabled in a behaviour; in `MCLocks`, of each component, as the fair
steps of one that does not run are disabled. Workers are assumed to take what is
queued. In `TaskWaitGroup`, a coroutine for which Add has been called is started sooner or
later, while the pool is open: whoever calls Add has the coroutine for it.
A weak compare-and-swap does not fail for ever without a reason.

What is promised follows the code. The futex mutex is not fair, hence `LockProgress`
speaks of the lock and not of each thread. The semaphores do not queue their
waiters either, hence `NobodyStuck` allows a Put or a Take to wait as long as
others overtake it. `WaitReturns` of `TaskWaitGroup` allows a coroutine to wait once
Stop has destroyed one that owes a Done, and `StopReturns` of `TaskMutex` allows Stop
to deadlock, in the one way that `task_mutex_stop` shows. `CallsReturn` allows a
WaitIdle not to return once a task has been discarded; that it always returns is
what `thread_pool_idle_stop` refutes.

## 5. Proofs

Every theorem about a component has the form `Spec => []P` or `Spec => Spec'`, for
all values of the constants that the named assumptions allow. Each rests on one
inductive invariant, `IInv`, of which the checked property is a consequence. What
follows is which invariant that is, and why the property alone is not one.

`FutexMutexProofs`: for any finite set of threads, `TypeCorrect`, `Exclusion`,
`WakeupsAreNotLost`, and `LockRefinement` (every behaviour of the mutex is one of
`AbstractLock`). The inductive invariant adds to the checked ones that `counter`
is exactly the number of threads between Enter and Subtract (without it the
decision in Subtract cannot be related to the sleepers) and that `state` is 1
whenever a thread is in its critical section. `CountedFinite` and `CounterStep`
carry the cardinality argument. Of the condition variable, `CondVarUsesMutex`
shows that its Wait is nothing but legal calls of the mutex, so that all of this
carries over (`CondVarKeepsMutex`), and `NotificationsAreNotMissed` that nobody
sleeps who loaded the counter before a finished NotifyAll. For that
one it is enough to add that neither a loaded value nor `told` is ever ahead of `value_`.

`LocksProofs`, the queue spinlock: for any set of threads, `GuardsAreSafe` (no
store into a guard that is gone) and `FifoRefinement`. The invariant describes the
guards along the history `line`: `LineExact` (the threads in it, each once, and `tail_`
its end), `LinksExact` (`next_` is set exactly once the follower has linked itself),
`WaitersWait` and `FirstOwns` (only the first of the line has the lock, or the
flag that gives it). That the follower in line still spins is what makes the
store into its guard safe.

The ticket lock: `TicketRefinement`, for any set of threads and any bound on the
tickets. The line is not a history here but read from the tickets, so the
invariant `Tickets` has to say that it is one: each ticket from the owner's to the
next free one is in the hands of exactly one thread, the owner's is that of the
thread inside, and the ticket that a TryLock compares is not ahead of the
owner's. The last part is what a stale comparison cannot break: if the next free
ticket equals it, nobody is in line.

`SmallLocksAreSafe`, of `MCLocks` as a whole: the flag is up while somebody is
inside (`SpinInv`, of the two spinlocks at once, as they share the flag); a
complete reference has the mutex, and it alone, and in the middle of an operation
the object is as read (`MxInv`); a philosopher owns the forks that its place in
AcquireForks and ReleaseForks says (`DnInv`), of which there are two since there
are at least two seats.

The barrier: for any finite, non-empty set of participants, `CountersAreRight`,
`NobodyIsForgotten` and `BarrierRefinement`. The inductive invariant is `TypeOK`,
`CountersHold` and `NotForgotten` together: that the counter of the last round is
still complete when a slow thread looks at it needs that the present round
cannot be completed, and its successor begun, before that thread has arrived for
it, which is `Gathered # Threads`.

`FibersProofs`, the mutex: for any finite set of fibers and any number of workers,
`EveryFiberInPlace` and `FutexRefinement`, by which the theorems of `FutexMutexProofs`
hold of the mutex of the fibers. `Places` ties queue, workers and the pool's queue
to the fiber's `pc`, `SpinOwned` says that the futex's spinlock has one owner, also
while it is held across the switch of contexts, and `CounterExact` is needed
because the refined module counts too. Coroutines: `Linked` says that the
`prev` pointers are the nesting of the calls, `ActiveOnce` that a coroutine is in one
of them at most; from both, `current` is the innermost one after any return.
The wait group: `GroupIsSafelyFreed`, for any sets of fibers that call Done and Wait.
`GroupInv` says that the two counters are exact, that whoever has found `count_` zero
and left the loop is not deceived, and that the one who destroys the group is the last
waiter: then `doing_` being zero means that all Dones are over.
`AllFibersInPlace` puts the first two together with `SafeHolds` of `FiberRuntimeProofs`, which
is instantiated, and is the invariant of the run `fiber_mutex`.

`FiberRuntimeProofs`: for any finite sets of fibers and threads and each copy of the
runtime, `SafeHolds`: a live fiber is in one place, a stack has one user, an idle pool
has no live fiber. Its invariant is the largest. `Threaded` says where the
thread-local pointer is right. `Placed`, `Queue` and `DeferredOwn` describe the
places: a fiber whose resumption is deferred is the one that is about to leave the
thread, so that it cannot be resumed before it has left. `StacksOwned` has
the exception between the two steps of TryTakeFromPool, where a stack is in the
pool and taken, which only the spinlock in `Threaded` makes harmless. `Counts`
bounds the queued Steps and the busy threads by the pool's count. Its hypothesis
`Finite` is what `MCFibers` assumes of the constants it gives.

`LockFreeStackProofs`: for any finite sets of threads and addresses and any bound on
the stamps, `ListStaysIntact`, `NodesAreReadAlive` and `NodesAreFreed`. The
invariant is the account of each node. While it is in the list, or popped and not yet
dropped by its popper, the stamp in the pointer to it is the number of threads
that hold a reference plus `dec_count` (`Listed`, `Popped`); after that, `dec_count` is minus
the number of holders, and there is at least one (`Dropped`). Hence the Drop that
finds the count complete is the last one, and it is certain to come. `Fresh` and
`Held` close the loop: a node that is about to be pushed has no holder, although its
address may be an old one, and the `next` that a holder has read is still the
node's, so that a pop whose expected stamp agrees is a pop of the list as it is.
`StampsBounded` shows that the bound is never exceeded by more than one thread. The
theorems assume `Counting`, which is the code; without it, in the run about
lock-freedom, `dec_count` is left alone.

`TaskPoolProofs`: for any finite sets of clients, workers and tasks, and each of the
three pools, `PoolIsSound` and `PoolKeepsPromises` (the action and safety properties
of `ThreadPool`). Besides the checked `InOnePlace` and `NoLostWakeup`, the
invariant has `CountIsAll`, that `count_` is the number of tasks that are outstanding
or were discarded, `SubmittedOnce` for the task between Add and Put, and `Stopping`.
The disputable part is `NoLostWakeup`: one notification per Put suffices because a
worker that has been woken looks at the queue again, and a worker on its way there
may take a task for which another one is woken; the proof counts the workers
that are awake.

`ExecutorsProofs`, the strand: for any sets of clients and workers and any finite set of tasks,
`TasksAreSerial`, `JobIsUnique`, `NoTaskIsStranded`, `StrandRefinement`. The argument
follows one token, the job: it is queued, or in the hands of a thread about to
schedule it, or running on a worker. Exclusion of the tasks is a consequence;
alone it is not inductive, as a second queued job would break it a step later.
`HoldersAfter` says once which moves of the token are harmless, and each action is
shown to be one of them. For the order of the tasks, the invariant (`LineSplit`) cuts
the history `line` in three: the task that runs, the batch of the job, the stack
from `top` on, backwards. The chain of pointers is a recursive function, about which
the provers cannot do an induction; its values are related step by step
along a sequence instead, and where an induction is needed the least
counterexample is taken (`LeastNumber`, from the well-foundedness of the order of
the natural numbers).

The tasks: for any finite set of coroutines and any workers, with the mutex or with
the wait group, and with Stop at any time in both,
`TasksAreInPlace` and `TaskFifoRefinement`. The inductive invariant is `CoInv`.
`Scheduled` says that the stacks and the queue of the pool together hold every
coroutine that is started and not suspended once, and no other. `Lists` names
two sequences: T is what the pointers from `tail_` lead to, H what those from
`head_` do. Their elements are distinct and, with the waiter in the hands of an Unlock,
they are exactly the parked coroutines; one coroutine at most has the mutex,
and `head_` is free exactly if none has and none is about to get it. A list is stated
by what it is step by step, not by the recursive `Follow`; `FollowIsList` shows once
that the walk and the list agree, by the least counterexample as in the strand.
So no step has to reason about a walk: `Parks` lengthens H, `TakesTail` shortens T,
`Exchanges` turns H into T. `Lined` does the same for the event of the wait group: A
is the list of the event, B what is left of the one that Fire has exchanged; one
coroutine fires, after all Dones have been called, and nobody enqueues behind the
mark. `LineShape` says that the abstract line is the owner or the heir, then T, then
H reversed; the reversal in `Exchanges` leaves it as it is, which is the point of the
two lists.

`StopDeadlocksInDestructors`, the invariant in `StopReturns`: the coroutine at the
bottom of the stack of Stop's thread is always one that Stop destroys, and one that
waits for the queue's lock is on that stack (`StopInv`).

The manual executor: `ManualExecutorCounts`, for any tasks and limits and calls of any
depth. The invariant carries the partial sums of what the calls on the stack have
counted (`Adds`), which `PendingIsSum` identifies with the sum of the model, and says
that a task of the queue runs right above a loop that has not come to its limit
(`Nested`).

`BoundedQueueProofs`: for any finite set of threads and any capacity,
`TokensAccount`, `BufferSafety` and `QueueRefinement`. Three sums are kept, one for
each semaphore: the tokens in it and the threads that stand where a token is
held. That the guard's sum is one gives the exclusive access to the deque; that
the elements are the counted ones and those in `Stored` gives that the deque is
not empty where it is popped; that the places add up to the capacity gives the
bound. Each action moves one thread across the border of at most two of the
sets, and one lemma says what that does to a cardinality.

Assumptions on constants are named `ASSUME`s in the modules that declare them, or
in the MC module where a component is only instantiated: disjoint sets of
threads, null values outside of the sets, and finiteness where a cardinality is
taken. A theorem about an instantiated module has them as its hypothesis.

Only model-checked: all liveness, which TLAPS does not prove (`Progress` of each
component, that fibers and tasks end, that Stop and WaitIdle return, that the wait
group is destroyed in the end), and the simulations in `MCLocks`, whose properties
are about how they end.

## 6. Plan

Every component with a body is modelled, and every invariant, action property and
refinement that a run checks is proved, but for those of the two simulations. What is
left: `LivesLocked`, the invariant of the livelock, for any number of iterations; an
abstract specification of the thread pool (each task runs once or is discarded) that
`ThreadPool` and `TaskPool` implement; the same for the lock-free stack, whose
linearization points are its two compare-and-swaps; more than one round of the wait
groups.

## 7. Not modelled

- Generators, processors and `tasks::Run` are stubs: the first two have no working
  body, the last one aborts.
- asio (`post`, `defer`, timers), tinyfibers, the switch of contexts and the futex
  system call are not in the repository. They are modelled from their use, and
  marked external.
- An exception of a routine of `fibers/sleep_for`, or of a stackless task: the one
  leaves run() of the io_context, the other terminates the program.
- The wrap of counters: the 2^16 stamps of the lock-free stack (`kMaxStamp` is never
  checked), the 2^32 notifications of the condition variable, and the tickets. The
  first is a hazard without a property, because the code states no bound to check;
  the model stops short of it.
- The destruction of a mutex by its next owner while Unlock still wakes
  (`mutex/mutex/mutex.hpp:20`): no user of the mutex in the repository does that, and
  the fiber WaitGroup, which could, waits for `doing_`.
- A strand over a pool that has been stopped: nothing says what it owes its tasks.
- A task wait group whose count returns to zero twice or is never raised: its event
  fires once, and nothing in the code says that it may be used otherwise. That the
  count is never brought to zero because Stop destroys whoever owes a Done is
  modelled; what the code should do about it is not said anywhere.
- A call of Lock on a Mutexed object in an expression that holds a reference to it
  already deadlocks, as the standard mutex is not recursive; it is the caller's
  mistake.
