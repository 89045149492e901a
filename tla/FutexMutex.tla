----------------------------- MODULE FutexMutex -----------------------------
(***************************************************************************)
(* stdlike::Mutex of mutex/mutex/mutex.hpp: a test-and-set word state_, a  *)
(* futex on it, and counter_, the number of threads between the first      *)
(* instruction of Lock() and the fetch_sub of Unlock().  One action per    *)
(* atomic access; every thread may lock and unlock for ever.               *)
(* exe::fibers::Mutex is the same algorithm over a futex of its own: see   *)
(* FiberMutex, which implements this module.                               *)
(***************************************************************************)
EXTENDS Naturals, FiniteSets

CONSTANT Threads

ASSUME ThreadsAssumption == IsFiniteSet(Threads)

\* counter_ is a uint32_t; it never exceeds the number of threads (TypeOK), so
\* it is modelled without its width.
VARIABLES state,    \* state_
          counter,  \* counter_
          pc        \* pc[t]: the access that thread t performs next

vars == <<state, counter, pc>>

Init == /\ state = 0
        /\ counter = 0
        /\ pc = [t \in Threads |-> "idle"]

Move(t, from, to) == /\ pc[t] = from
                     /\ pc' = [pc EXCEPT ![t] = to]

\* Mutations of the definitions that follow them: a lone waiter is not woken;
\* FutexWait does not compare; `if` in place of `while` around the exchange.
ContendedOffByOne(old) == old > 2
NoCompare(cell)        == TRUE
WaitOnce               == "cs"

\* The tests of the loop of Lock() and of Unlock() on what the exchange and the
\* fetch_sub return, the comparison made by FutexWait(1), and where Lock() goes
\* on when FutexWait returns: to the exchange.
Taken(old)     == old # 0
Contended(old) == old # 1
MaySleep(cell) == cell = 1
AfterWait      == "swap"
-----------------------------------------------------------------------------
(* Lock() *)

Enter(t) == /\ Move(t, "idle", "swap")
            /\ counter' = counter + 1
            /\ UNCHANGED state

Swap(t) == /\ Move(t, "swap", IF Taken(state) THEN "wait" ELSE "cs")
           /\ state' = 1
           /\ UNCHANGED counter

\* The futex is external: it compares and falls asleep in one step, and a
\* sleeper may be woken for no reason.
FutexWait(t) == /\ Move(t, "wait", IF MaySleep(state) THEN "asleep" ELSE AfterWait)
                /\ UNCHANGED <<state, counter>>

SpuriousWake(t) == /\ Move(t, "asleep", AfterWait)
                   /\ UNCHANGED <<state, counter>>

(* Unlock() *)

Store(t) == /\ Move(t, "cs", "sub")
            /\ state' = 0
            /\ UNCHANGED counter

Subtract(t) == /\ Move(t, "sub", IF Contended(counter) THEN "wake" ELSE "idle")
               /\ counter' = counter - 1
               /\ UNCHANGED state

Asleep == {t \in Threads : pc[t] = "asleep"}

FutexWakeOne(t) ==
    /\ \/ Asleep = {} /\ Move(t, "wake", "idle")
       \/ /\ pc[t] = "wake"
          /\ \E u \in Asleep : pc' = [pc EXCEPT ![t] = "idle", ![u] = AfterWait]
    /\ UNCHANGED <<state, counter>>

\* Inside Lock() or Unlock(); a holder leaves its critical section in the end.
Inside(t) == Swap(t) \/ FutexWait(t) \/ Store(t) \/ Subtract(t) \/ FutexWakeOne(t)

Next == \E t \in Threads : Enter(t) \/ Inside(t) \/ SpuriousWake(t)

Spec == Init /\ [][Next]_vars

\* The operating system runs every thread that can run.  Nobody has to call
\* Lock(), and the futex owes nobody a spurious wake-up.
FairSpec == Spec /\ \A t \in Threads : WF_vars(Inside(t))
-----------------------------------------------------------------------------
TypeOK == /\ state \in {0, 1}
          /\ counter \in 0..Cardinality(Threads)
          /\ pc \in [Threads -> {"idle", "swap", "wait", "asleep", "cs", "sub", "wake"}]

\* At most one thread is between the return of Lock() and the store of
\* Unlock(), although state_ is overwritten by every thread that fails to
\* acquire it and cleared before the counter says who is left.
MutualExclusion == \A t, u \in Threads : pc[t] = "cs" /\ pc[u] = "cs" => t = u

\* No wake-up is lost: while a thread sleeps on the futex, another one holds
\* the mutex, is still to reach the wake-up of its Unlock(), or is awake in the
\* loop of Lock().  A counter that has already dropped to the unlocking thread
\* alone, or a FutexWait that raced the store, must not break this.
Awake(t) == pc[t] \in {"swap", "wait", "cs", "sub", "wake"}

NoLostWakeup == Asleep # {} => \E t \in Threads : Awake(t)

Lock == INSTANCE AbstractLock
            WITH phase <- [t \in Threads |->
                             CASE pc[t] \in {"swap", "wait", "asleep"} -> "trying"
                               [] pc[t] = "cs" -> "cs"
                               [] OTHER -> "idle"]

\* The mutex is a lock: a thread enters its critical section from Lock() only,
\* when nobody else is in one, and leaves it in the store of Unlock().
ImplementsLock == Lock!Spec

\* As long as threads are inside Lock(), the mutex keeps being acquired (it is
\* not fair: a given thread may wait for ever while others barge in).
LockProgress == Lock!Progress
=============================================================================
