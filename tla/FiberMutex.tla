----------------------------- MODULE FiberMutex -----------------------------
(***************************************************************************)
(* exe::fibers::Mutex over FutexLike<uint32_t> (fibers/mutex/exe/fibers):  *)
(* the algorithm of FutexMutex, with the futex in full.  A fiber parks by  *)
(* putting a node of its own stack into queue_ and suspending with the     *)
(* futex's spinlock still locked; the worker that ran it stores the        *)
(* fiber's handle in the node and unlocks (AwaitSuspend), once the fiber   *)
(* is off the worker.  The pool is its queue of submitted fibers.          *)
(***************************************************************************)
EXTENDS Naturals, Sequences, SequencesExt, FiniteSets

CONSTANTS Fibers,   \* fibers that use the mutex
          Workers   \* number of threads of the pool

ASSUME FibersAssumption == IsFiniteSet(Fibers) /\ Workers \in Nat \ {0}

VARIABLES state,    \* Mutex::state_, the cell of the futex
          counter,  \* Mutex::counter_
          locked,   \* FutexLike::spinlock_
          queue,    \* FutexLike::queue_, a fiber standing for its FutexNode
          handle,   \* handle[f]: FutexNode::handle_ of f's node is valid
          pc,       \* pc[f]: where f goes on when it is on a worker
          ready,    \* fibers submitted to the pool, oldest first
          running   \* fibers that are on a worker

vars == <<state, counter, locked, queue, handle, pc, ready, running>>
futex == <<locked, queue, handle>>
pool  == <<ready, running>>

\* The given fibers have been submitted, in any order.
InitOf(submitted) == /\ state = 0 /\ counter = 0
                     /\ locked = FALSE /\ queue = <<>> /\ handle = [f \in Fibers |-> FALSE]
                     /\ pc = [f \in Fibers |-> "idle"]
                     /\ ready \in SetToSeqs(submitted) /\ running = {}

Init == InitOf(Fibers)

\* Fiber f, on a worker, goes from one point of its code to the next.
Move(f, from, to) == /\ f \in running
                     /\ pc[f] = from
                     /\ pc' = [pc EXCEPT ![f] = to]

\* Mutations: ParkIfEqual does not compare; nobody is woken for one waiter.
NoCompare(cell)        == TRUE
ContendedOffByOne(old) == old > 2

\* The comparison of ParkIfEqual; where Lock() goes on after it; the test of Unlock();
\* the workers' fibers when f has switched back to the scheduler.
MayPark(cell)  == cell = 1
AfterPark      == "swap"
Contended(old) == old # 1
Off(f)         == running \ {f}
-----------------------------------------------------------------------------
(* Mutex::Lock() *)

Enter(f) == /\ Move(f, "idle", "swap")
            /\ counter' = counter + 1
            /\ UNCHANGED <<state, futex, pool>>

Swap(f) == /\ Move(f, "swap", IF state # 0 THEN "park" ELSE "cs")
           /\ state' = 1
           /\ UNCHANGED <<counter, futex, pool>>

\* SpinLock::Lock() in ParkIfEqual and in WakeOne: the exchange that succeeds.
SpinLock(f) == /\ \/ Move(f, "park", "parkLocked")
                  \/ Move(f, "wake", "wakeLocked")
               /\ ~locked /\ locked' = TRUE
               /\ UNCHANGED <<state, counter, queue, handle, pool>>

\* ParkIfEqual(1) under the spinlock, which the fiber suspends with: a fresh node into
\* the queue, or nothing.
ParkIfEqual(f) ==
    /\ \/ /\ MayPark(state)
          /\ Move(f, "parkLocked", "suspending")
          /\ queue' = Append(queue, f)
          /\ handle' = [handle EXCEPT ![f] = FALSE]
       \/ /\ ~MayPark(state)
          /\ Move(f, "parkLocked", "parkUnlock")
          /\ UNCHANGED <<queue, handle>>
    /\ UNCHANGED <<state, counter, locked, pool>>

\* Fiber::Step when Resume() has returned: AwaitSuspend of the node.
AwaitSuspend(f) == /\ Move(f, "suspending", "asleep")
                   /\ handle' = [handle EXCEPT ![f] = TRUE]
                   /\ locked' = FALSE
                   /\ running' = Off(f)
                   /\ UNCHANGED <<state, counter, queue, ready>>

(* Mutex::Unlock() *)

Store(f) == /\ Move(f, "cs", "sub")
            /\ state' = 0
            /\ UNCHANGED <<counter, futex, pool>>

Subtract(f) == /\ Move(f, "sub", IF Contended(counter) THEN "wake" ELSE "idle")
               /\ counter' = counter - 1
               /\ UNCHANGED <<state, futex, pool>>

\* WakeOne() under the spinlock: PopFront and Schedule, which submits the fiber.
WakeOne(f) ==
    /\ \/ /\ queue = <<>>
          /\ Move(f, "wakeLocked", "wakeUnlock")
          /\ UNCHANGED <<queue, handle, ready>>
       \/ /\ queue # <<>> /\ f \in running /\ pc[f] = "wakeLocked"
          /\ LET u == Head(queue)
             IN  /\ pc' = [pc EXCEPT ![f] = "wakeUnlock", ![u] = AfterPark]
                 /\ handle' = [handle EXCEPT ![u] = FALSE]
                 /\ ready' = Append(ready, u)
          /\ queue' = Tail(queue)
    /\ UNCHANGED <<state, counter, locked, running>>

SpinUnlock(f) == /\ \/ Move(f, "parkUnlock", AfterPark)
                    \/ Move(f, "wakeUnlock", "idle")
                 /\ locked' = FALSE
                 /\ UNCHANGED <<state, counter, queue, handle, pool>>

(* The fiber's own code, in or out of its critical section, may Yield(). *)

Yield(f) == /\ f \in running /\ pc[f] \in {"idle", "cs"}
            /\ running' = Off(f)
            /\ ready' = Append(ready, f)
            /\ UNCHANGED <<state, counter, futex, pc>>

\* A free worker takes the oldest submitted fiber and resumes it.
Resume == /\ ready # <<>> /\ Cardinality(running) < Workers
          /\ running' = running \cup {Head(ready)}
          /\ ready' = Tail(ready)
          /\ UNCHANGED <<state, counter, futex, pc>>

Inside(f) == \/ Swap(f) \/ SpinLock(f) \/ ParkIfEqual(f) \/ AwaitSuspend(f)
             \/ Store(f) \/ Subtract(f) \/ WakeOne(f) \/ SpinUnlock(f)

Next == Resume \/ \E f \in Fibers : Enter(f) \/ Inside(f) \/ Yield(f)

Spec == Init /\ [][Next]_vars

\* The workers run the code of the fibers they are given; outside of the mutex
\* a fiber does not keep its worker for ever; and a critical section does not
\* yield for ever, so that its Store, though interrupted, is reached.
Fairness == /\ WF_vars(Resume)
            /\ \A f \in Fibers : /\ WF_vars(Enter(f) \/ Inside(f) \/ Yield(f))
                                 /\ WF_vars(Inside(f)) /\ SF_vars(Store(f))
-----------------------------------------------------------------------------
Points == {"idle", "swap", "park", "parkLocked", "suspending", "asleep", "parkUnlock",
           "cs", "sub", "wake", "wakeLocked", "wakeUnlock"}

TypeOK == /\ state \in {0, 1} /\ counter \in 0..Cardinality(Fibers)
          /\ locked \in BOOLEAN /\ handle \in [Fibers -> BOOLEAN]
          /\ pc \in [Fibers -> Points]
          /\ queue \in Seq(Fibers) /\ ready \in Seq(Fibers) /\ running \subseteq Fibers

\* A fiber is in one place: on one worker, once in the pool's queue, or once in
\* the futex's queue.  It is never resumed by two workers, nor lost.
InOnePlace ==
    LET parked == {f \in ToSet(queue) : pc[f] = "asleep"}
    IN  /\ IsInjective(queue) /\ IsInjective(ready)
        /\ running \cup ToSet(ready) \cup parked = Fibers
        /\ Cardinality(running) + Len(ready) + Cardinality(parked) = Cardinality(Fibers)

\* WHEELS_ASSERT(fiber_ != nullptr, "Invalid fiber handle") of FiberHandle:
\* whoever pops a node finds in it the handle of a fiber that has suspended.
HandlesAreValid == \A f \in Fibers : pc[f] = "wakeLocked" /\ queue # <<>>
                                        => handle[Head(queue)]

\* The futex's spinlock has one owner, and the owner is on a worker: the workers
\* that spin on it are not waiting for a fiber that needs one of them.
SpinHolders == {f \in Fibers : pc[f] \in {"parkLocked", "suspending", "parkUnlock",
                                          "wakeLocked", "wakeUnlock"}}

SpinlockDiscipline == /\ Cardinality(SpinHolders) = IF locked THEN 1 ELSE 0
                      /\ SpinHolders \subseteq running

\* All of them: no fiber is lost or run twice, no handle is used before it is there,
\* and no worker spins for a fiber that has no worker.
MutexInPlace == TypeOK /\ InOnePlace /\ HandlesAreValid /\ SpinlockDiscipline

FM == INSTANCE FutexMutex
          WITH Threads <- Fibers,
               pc <- [f \in Fibers |->
                        CASE pc[f] \in {"park", "parkLocked"} -> "wait"
                          [] pc[f] \in {"suspending", "asleep"} -> "asleep"
                          [] pc[f] = "parkUnlock" -> "swap"
                          [] pc[f] = "wakeLocked" -> "wake"
                          [] pc[f] = "wakeUnlock" -> "idle"
                          [] OTHER -> pc[f]]

\* FutexLike is a futex: with its spinlock and its queue, parking compares and
\* falls asleep at once, and WakeOne wakes a sleeper if there is one.
ImplementsFutexMutex == FM!Spec

\* While fibers wait in Lock(), the mutex keeps being acquired, however few
\* the workers and although holders yield inside their critical sections.
LockProgress == FM!LockProgress
=============================================================================
