------------------------------ MODULE MCFibers ------------------------------
(***************************************************************************)
(* The components of fibers/: a behaviour is one of FiberMutex, one of the *)
(* three copies of FiberRuntime, FiberWaitGroup or Coroutine, each on      *)
(* variables of its own; lives says which.                                 *)
(***************************************************************************)
EXTENDS FiberMutex

CONSTANTS Pool,      \* threads of FiberRuntime and Coroutine
          Few,       \* fibers of FiberRuntime, coroutines of Coroutine
          Roots,     \* fibers of FiberRuntime that Go has started
          Doers,     \* fibers of FiberWaitGroup that call Done, and that wait
          Waiters,
          GroupWorkers,
          None

ASSUME McAssumption == /\ Few \subseteq Fibers /\ Roots \subseteq Few
                       /\ Doers \cup Waiters = Fibers /\ Doers \cap Waiters = {}
                       /\ None \notin Few \cup Pool /\ IsFiniteSet(Pool)

VARIABLES lives,
          kind, life, stack, made, free, spin, tasks, open, pending, deferred, timers,
          rtRunning, on, creates, rtAt,
          wgState, wgCounter, wgPc, count, doing, value, seen, wgAt, onWorker,
          calls, current, prev, coState

rtVars == <<kind, life, stack, made, free, spin, tasks, open, pending, deferred, timers,
            rtRunning, on, creates, rtAt>>
wgVars == <<wgState, wgCounter, wgPc, count, doing, value, seen, wgAt, onWorker>>
coVars == <<calls, current, prev, coState>>
allVars == <<vars, lives, rtVars, wgVars, coVars>>

RT == INSTANCE FiberRuntime WITH Fibers <- Few, Workers <- Pool, NoFiber <- None,
                                 running <- rtRunning, at <- rtAt
WG == INSTANCE FiberWaitGroup WITH Threads <- Fibers, Workers <- GroupWorkers,
                                   state <- wgState, counter <- wgCounter, pc <- wgPc, at <- wgAt
CO == INSTANCE Coroutine WITH Coroutines <- Few, Threads <- Pool, Nobody <- None,
                              state <- coState

Runtimes == {"coroutine", "mutex", "sleep_for"}

McInit == /\ lives \in {"locks", "group", "standalone"} \cup Runtimes
          /\ InitOf(IF lives = "locks" THEN Fibers ELSE {})
          /\ RT!InitAs(IF lives \in Runtimes THEN lives ELSE "none")
          /\ IF lives = "group" THEN WG!InitOf(Doers, Waiters) ELSE WG!InitOf({}, {})
          /\ CO!Init

OfLocks(A)    == lives = "locks" /\ A /\ UNCHANGED <<lives, rtVars, wgVars, coVars>>
OfRuntimes(A) == lives \in Runtimes /\ A /\ UNCHANGED <<lives, vars, wgVars, coVars>>
OfGroup(A)    == lives = "group" /\ A /\ UNCHANGED <<lives, vars, rtVars, coVars>>
Alone(A)      == lives = "standalone" /\ A /\ UNCHANGED <<lives, vars, rtVars, wgVars>>

McNext == OfLocks(Next) \/ OfRuntimes(RT!Next) \/ OfGroup(WG!GroupNext) \/ Alone(CO!Next)

\* Fairness of FiberMutex, RT!Fairness and WG!Fairness: only one of the actions of a
\* disjunction is ever enabled in a behaviour, so that its fairness is that action's.
\* The fibers of the three components have the same names.
McFairness ==
    /\ WF_allVars(OfLocks(Resume) \/ \E f \in Few : OfRuntimes(RT!Expire(f)))
    /\ \A w \in Pool : WF_allVars(OfRuntimes(RT!OnThread(w)))
    /\ \A f \in Fibers :
          /\ WF_allVars(OfLocks(Enter(f) \/ Inside(f) \/ Yield(f)))
          /\ WF_allVars(OfLocks(Inside(f)) \/ OfGroup(WG!Works(f)))
          /\ SF_allVars(\/ OfLocks(Store(f))
                        \/ OfRuntimes(\E w \in Pool : on[w] = f /\ RT!Complete(w))
                        \/ OfGroup(WG!Dispatch(f)))

FairSpec == McInit /\ [][McNext]_allVars /\ McFairness

\* No fiber is lost or run twice, no stack is shared, no handle, thread-local pointer
\* or spinlock is wrong when it is used: see MutexInPlace of FiberMutex, Safe of
\* FiberRuntime, CurrentIsInnermost of Coroutine.
FibersInPlace == /\ lives = "locks" => MutexInPlace
                 /\ RT!Safe
                 /\ CO!CurrentIsInnermost

\* Every fiber that has been started ends, also after a Go, a Yield, a SleepFor or an
\* exception of another one: see FiberRuntime.
FibersEnd == RT!FibersEnd

\* The wait group ends, and is not used when it is gone: see FiberWaitGroup.
EndsUntouched == lives = "group" => WG!EndsUntouched
=============================================================================
