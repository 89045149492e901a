------------------------------ MODULE MCTasks ------------------------------
(***************************************************************************)
(* TaskWaitGroup, and with it TaskMutex, for some coroutines on a pool.    *)
(***************************************************************************)
EXTENDS FiniteSets

CONSTANTS PoolWorkers, Stopper, Coroutines, Unlocked, Locked, Uses

ASSUME McAssumption == /\ Stopper \notin PoolWorkers
                       /\ IsFiniteSet(Coroutines) /\ Unlocked # Locked
                       /\ {Unlocked, Locked} \cap Coroutines = {}
                       /\ Uses \subseteq {"mutex", "waitgroup"}

VARIABLES head, tail, succ, locker, stack, queue, closing, fate, place,
          uses, count, owes, last, link, awaiter

TG == INSTANCE TaskWaitGroup WITH Workers <- PoolWorkers, next <- succ, pc <- place

McSpec == TG!FairSpec

\* See TaskMutex and TaskWaitGroup.
TasksInPlace       == TG!TasksInPlace
ImplementsFifoLock == TG!ImplementsFifoLock
NoStarvation       == TG!NoStarvation
StopReturns        == TG!StopReturns
WaitReturns        == TG!WaitReturns
=============================================================================
