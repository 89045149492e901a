---------------------------- MODULE FiberRuntime ----------------------------
(***************************************************************************)
(* Fibers on the threads that run them: Go, the allocator of stacks, Step, *)
(* Yield, SleepFor, completion and exceptions.  The repository has three   *)
(* copies, which kind tells apart:                                         *)
(*   "coroutine"  fibers/coroutine: Step submits a fiber that has yielded; *)
(*   "mutex"      fibers/mutex: Step calls AwaitSuspend of the awaiter for *)
(*                which the fiber has suspended, here YieldAwaiter;        *)
(*   "sleep_for"  fibers/sleep_for, on an asio io_context with threads:    *)
(*                the fiber queues its own resumption before it suspends.  *)
(* The first two run on a tp::ThreadPool, which is modelled in detail by   *)
(* TaskPool and here by its queue and its count, with one step for each    *)
(* operation; its Stop may come at any time.                               *)
(* asio is external: post queues a handler; defer keeps it in a queue of   *)
(* the thread, which is published when the running handler has returned;   *)
(* a timer that has expired queues its handler.                            *)
(***************************************************************************)
EXTENDS Naturals, Sequences, SequencesExt, FiniteSets

CONSTANTS Fibers, Workers,
          Roots,    \* fibers that Go has started from outside
          NoFiber   \* no fiber, and no thread

VARIABLES kind,
          life,     \* life[f]: none, created, live, completed, thrown, deleted, or lost by Stop
          stack,    \* stack[f]: the number of stack_, 0 before there is one
          made,     \* number of stacks allocated with AllocatePages
          free,     \* StackAllocator::pool_
          spin,     \* the worker that has locked spin_lock_
          tasks,    \* tasks or handlers queued for the threads: <<"step", f>> or <<"arm", f>>
          open,     \* the pool's queue is open
          pending,  \* count_ of the pool's WaitGroup
          deferred, \* deferred[w]: handlers that w has deferred
          timers,   \* fibers with a timer that has not expired
          running,  \* running[w]: the thread-local pointer
          on,       \* on[w]: the fiber whose Step is on thread w
          creates,  \* creates[w]: the fiber that Go, on w, constructs
          at        \* at[w]: where thread w is

fibers  == <<life, stack>>
stacks  == <<made, free, spin>>
queues  == <<tasks, deferred, timers>>
pool    == <<open, pending>>
threads == <<running, on, creates>>
vars    == <<kind, fibers, stacks, queues, pool, threads, at>>

\* What a fiber submits.
Resumption(f) == <<"step", f>>

\* Go has been called for the roots before the threads start; with the kind "none"
\* there is no fiber and nothing happens.
InitAs(k) == LET roots == IF k = "none" THEN <<>> ELSE SetToSeq(Roots)
             IN  /\ kind = k
                 /\ life = [f \in Fibers |-> IF Contains(roots, f) THEN "live" ELSE "none"]
                 /\ stack = [f \in Fibers |-> IF Contains(roots, f) THEN CHOOSE i \in DOMAIN roots : roots[i] = f ELSE 0]
                 /\ made = Len(roots) /\ free = <<>> /\ spin = NoFiber
                 /\ tasks = [i \in DOMAIN roots |-> Resumption(roots[i])]
                 /\ open = TRUE /\ pending = Len(roots)
                 /\ deferred = [w \in Workers |-> <<>>] /\ timers = {}
                 /\ running = [w \in Workers |-> NoFiber]
                 /\ on = [w \in Workers |-> NoFiber]
                 /\ creates = [w \in Workers |-> NoFiber]
                 /\ at = [w \in Workers |-> "idle"]

Move(w, from, to) == /\ at[w] = from
                     /\ at' = [at EXCEPT ![w] = to]
                     /\ UNCHANGED kind

\* Mutations: the spinlock is not unlocked; the resumption is posted.
StillLocked  == spin
Posted(w, h) == /\ tasks' = Append(tasks, h)
                /\ UNCHANGED deferred

\* The spinlock when it is unlocked; defer of a handler by the thread of an io_context.
Unlocked     == NoFiber
Defer(w, h)  == /\ deferred' = [deferred EXCEPT ![w] = Append(@, h)]
                /\ UNCHANGED tasks

\* Submit to the pool: count_ first; a closed queue drops the task, and the fiber is
\* never resumed again.
Counted   == pending + 1
Put(f)    == /\ tasks' = IF open THEN Append(tasks, Resumption(f)) ELSE tasks
             /\ life' = [life EXCEPT ![f] = IF open THEN "live" ELSE "lost"]
Submit(f) == /\ pending' = Counted /\ Put(f)
             /\ UNCHANGED open

\* post to the io_context.
Post(f)   == /\ tasks' = Append(tasks, Resumption(f))
             /\ life' = [life EXCEPT ![f] = "live"]
             /\ UNCHANGED pool

\* Take of the next task; the count after the pool's Done for a task that has run.
Available(op) == tasks # <<>> /\ Head(tasks)[1] = op
Done          == IF kind = "sleep_for" THEN pending ELSE pending - 1
-----------------------------------------------------------------------------
(* Go, in a fiber: new Fiber, with a stack from the allocator, and Schedule *)

Go(w) == \E g \in Fibers : /\ life[g] = "none"
                           /\ Move(w, "fiber", "allocate")
                           /\ life' = [life EXCEPT ![g] = "created"]
                           /\ creates' = [creates EXCEPT ![w] = g]
                           /\ UNCHANGED <<pool, stack, stacks, queues, running, on>>

Lock(w) == /\ spin = NoFiber /\ spin' = w
           /\ Move(w, "allocate", "take") \/ Move(w, "release", "push")
           /\ UNCHANGED <<pool, fibers, made, free, queues, threads>>

\* The last stack of the pool, which is popped after it has been moved from.
TryTakeFromPool(w) == /\ free # <<>>
                      /\ Move(w, "take", "pop")
                      /\ stack' = [stack EXCEPT ![creates[w]] = Last(free)]
                      /\ UNCHANGED <<pool, life, stacks, queues, threads>>

PopBack(w) == /\ Move(w, "pop", "submit")
              /\ free' = Front(free)
              /\ spin' = Unlocked
              /\ UNCHANGED <<pool, fibers, made, queues, threads>>

AllocateNewStack(w) == /\ free = <<>>
                       /\ Move(w, "take", "submit")
                       /\ made' = made + 1
                       /\ stack' = [stack EXCEPT ![creates[w]] = made + 1]
                       /\ spin' = Unlocked
                       /\ UNCHANGED <<pool, life, free, queues, threads>>

Allocate(w) == TryTakeFromPool(w) \/ PopBack(w) \/ AllocateNewStack(w)

Schedule(w) == /\ Move(w, "submit", "fiber")
               /\ IF kind = "sleep_for" THEN Post(creates[w]) ELSE Submit(creates[w])
               /\ creates' = [creates EXCEPT ![w] = NoFiber]
               /\ UNCHANGED <<stack, stacks, deferred, timers, running, on>>
-----------------------------------------------------------------------------
(* The fiber's routine suspends or ends *)

Yield(w) == /\ kind = "coroutine"
            /\ Move(w, "fiber", "back")
            /\ UNCHANGED <<pool, fibers, stacks, queues, threads>>

\* With a YieldAwaiter on the fiber's stack.
Suspend(w) == /\ kind = "mutex"
              /\ Move(w, "fiber", "back")
              /\ UNCHANGED <<pool, fibers, stacks, queues, threads>>

YieldDeferred(w) == /\ kind = "sleep_for"
                    /\ Move(w, "fiber", "back")
                    /\ Defer(w, Resumption(running[w]))
                    /\ UNCHANGED <<pool, fibers, stacks, timers, threads>>

\* The timer is on the fiber's stack; the deferred handler starts it.
SleepFor(w) == /\ kind = "sleep_for"
               /\ Move(w, "fiber", "back")
               /\ Defer(w, <<"arm", running[w]>>)
               /\ UNCHANGED <<pool, fibers, stacks, timers, threads>>

\* CoroutineImpl::Run when the routine returns or throws.  An exception would leave
\* run() of the io_context: the routines of fibers/sleep_for do not throw.
Complete(w) == /\ Move(w, "fiber", "back")
               /\ \E end \in {"completed"} \cup IF kind = "sleep_for" THEN {} ELSE {"thrown"} :
                     life' = [life EXCEPT ![on[w]] = end]
               /\ UNCHANGED <<pool, stack, stacks, queues, threads>>
-----------------------------------------------------------------------------
(* Step, on the thread's own stack *)

Step(w) == /\ Available("step")
           /\ Move(w, "idle", "fiber")
           /\ tasks' = Tail(tasks)
           /\ running' = [running EXCEPT ![w] = Head(tasks)[2]]
           /\ on' = [on EXCEPT ![w] = Head(tasks)[2]]
           /\ UNCHANGED <<pool, fibers, stacks, deferred, timers, creates>>

\* Resume rethrows, and the exception leaves Step: running is not reset.
Rethrow(w) == /\ at[w] = "back" /\ life[on[w]] = "thrown"
              /\ Move(w, "back", "idle")
              /\ on' = [on EXCEPT ![w] = NoFiber]
              /\ pending' = Done
              /\ UNCHANGED <<fibers, stacks, queues, open, running, creates>>

\* IsCompleted: delete this, which locks the allocator.
Delete(w) == /\ at[w] = "back" /\ life[on[w]] = "completed"
             /\ Move(w, "back", "release")
             /\ UNCHANGED <<pool, fibers, stacks, queues, threads>>

Release(w) == /\ Move(w, "push", "after")
              /\ free' = Append(free, stack[on[w]])
              /\ life' = [life EXCEPT ![on[w]] = "deleted"]
              /\ spin' = Unlocked
              /\ UNCHANGED <<pool, stack, made, queues, threads>>

Suspended(w) == at[w] = "back" /\ life[on[w]] = "live"

Reschedule(w) == /\ kind = "coroutine" /\ Suspended(w)
                 /\ Move(w, "back", "after")
                 /\ Submit(on[w])
                 /\ UNCHANGED <<stack, stacks, deferred, timers, threads>>

\* GetHandle takes the fiber from running; YieldAwaiter releases and schedules it.
AwaitSuspend(w) == /\ kind = "mutex" /\ Suspended(w)
                   /\ Move(w, "back", "after")
                   /\ Submit(running[w])
                   /\ UNCHANGED <<stack, stacks, deferred, timers, threads>>

Dispatch(w) == /\ kind = "sleep_for" /\ Suspended(w)
               /\ Move(w, "back", "after")
               /\ UNCHANGED <<pool, fibers, stacks, queues, threads>>

\* running = nullptr, but in fibers/sleep_for; the thread goes on with its next handler.
Reset(w) == /\ Move(w, "after", "idle")
            /\ running' = IF kind = "sleep_for" THEN running ELSE [running EXCEPT ![w] = NoFiber]
            /\ on' = [on EXCEPT ![w] = NoFiber]
            /\ tasks' = tasks \o deferred[w]
            /\ deferred' = [deferred EXCEPT ![w] = <<>>]
            /\ pending' = Done
            /\ UNCHANGED <<fibers, stacks, timers, open, creates>>

\* Stop of the pool, whose Cancel drops what is queued, whatever its state.
CloseImpl == /\ open' = FALSE
             /\ tasks' = <<>>
             /\ life' = [f \in Fibers |-> IF \E i \in DOMAIN tasks : tasks[i][2] = f
                                          THEN "lost" ELSE life[f]]

Stop == /\ kind \in {"coroutine", "mutex"} /\ open
        /\ CloseImpl
        /\ UNCHANGED <<kind, stack, stacks, deferred, timers, pending, threads, at>>

\* The handler that calls async_wait, and the timer's expiry.
Arm(w) == /\ at[w] = "idle" /\ Available("arm")
          /\ tasks' = Tail(tasks)
          /\ timers' = timers \cup {Head(tasks)[2]}
          /\ UNCHANGED <<pool, kind, fibers, stacks, deferred, threads, at>>

Expire(f) == /\ f \in timers
             /\ timers' = timers \ {f}
             /\ tasks' = Append(tasks, Resumption(f))
             /\ UNCHANGED <<pool, kind, fibers, stacks, deferred, threads, at>>

\* All of the allocator, which its spinlock guards.
StackAllocator(w) == Lock(w) \/ Allocate(w) \/ Release(w)

OnThread(w) == \/ Go(w) \/ StackAllocator(w) \/ Schedule(w)
               \/ Yield(w) \/ Suspend(w) \/ YieldDeferred(w) \/ SleepFor(w) \/ Complete(w)
               \/ Step(w) \/ Rethrow(w) \/ Delete(w)
               \/ Reschedule(w) \/ AwaitSuspend(w) \/ Dispatch(w) \/ Reset(w) \/ Arm(w)

Next == \/ Stop
        \/ \E w \in Workers : OnThread(w)
        \/ \E f \in Fibers : Expire(f)

\* The threads run, timers expire, and a routine ends however often it yields before.
Fairness == /\ \A w \in Workers : WF_vars(OnThread(w))
            /\ WF_vars(\E f \in Fibers : Expire(f))
            /\ \A f \in Fibers : SF_vars(\E w \in Workers : on[w] = f /\ Complete(w))
-----------------------------------------------------------------------------
\* A live fiber is in one place: in one Step, in one queue, or asleep.  So no fiber is
\* lost, run by two threads, or resumed after it has ended; and what a fiber asks of
\* running is answered for itself, on whichever thread it goes on.
InCode  == {"fiber", "allocate", "take", "pop", "submit"}
Busy(f) == {w \in Workers : on[w] = f /\ at[w] \in InCode \cup {"back"}}
Queued(s, f) == Cardinality({i \in DOMAIN s : s[i][2] = f})

InOnePlace ==
    /\ \A f \in Fibers :
          LET times == Cardinality(Busy(f)) + Queued(tasks, f) + (IF f \in timers THEN 1 ELSE 0)
                          + Cardinality({w \in Workers : Queued(deferred[w], f) > 0})
              own == Cardinality({w \in Busy(f) : Queued(deferred[w], f) > 0})
          IN times - own = IF life[f] = "live" \/ Busy(f) # {} THEN 1 ELSE 0
    /\ \A w \in Workers : at[w] \in InCode => running[w] = on[w] /\ life[on[w]] = "live"

\* A stack is used by one fiber, or is in the pool, once; that of a fiber that threw is
\* never used again.
Users(s) == {f \in Fibers : stack[f] = s /\ life[f] # "deleted"}
StacksApart == \A s \in 1..made :
                  Cardinality(Users(s)) + Cardinality({i \in DOMAIN free : free[i] = s})
                     = IF \E w \in Workers : at[w] = "pop" /\ stack[creates[w]] = s THEN 2 ELSE 1

\* When the pool's WaitIdle returns, every fiber has ended, however often it has been
\* submitted, or has been lost by Stop.
IdleIsOver == /\ kind # "sleep_for" /\ pending = 0
                   => \A f \in Fibers : life[f] \notin {"created", "live", "completed"}
              /\ open => \A f \in Fibers : life[f] # "lost"

Safe == InOnePlace /\ StacksApart /\ IdleIsOver

\* Every fiber that has been started ends, and is deleted unless it threw or the pool
\* was stopped.
FibersEnd == \A f \in Fibers : life[f] = "live" ~> life[f] \in {"deleted", "thrown", "lost"}
=============================================================================
