--------------------------- MODULE FiberWaitGroup ---------------------------
(***************************************************************************)
(* exe::fibers::WaitGroup (fibers/mutex/exe/fibers/sync/wait_group.hpp)    *)
(* over its Mutex and its CondVar, for one round: Add has been called for  *)
(* every one of Doers, each of which calls Done once; Waiters call Wait,   *)
(* and the one that knows that all of them have returned destroys the      *)
(* group at once.  The mutex is that of FutexMutex, which FiberMutex       *)
(* implements; WakeAll of FutexLike wakes the fibers that are parked.      *)
(* A fiber that parks leaves its worker; one that spins does not.          *)
(***************************************************************************)
EXTENDS FutexMutex

CONSTANTS Doers, Waiters, \* these are all the fibers, and none is both
          Workers         \* number of threads that run fibers

VARIABLES count,   \* count_
          doing,   \* doing_
          value,   \* value_ of has_waiting_
          seen,    \* seen[f]: the local value of CondVar::Wait
          at,      \* at[f]: where f is in Wait, Done or ~WaitGroup
          onWorker \* the fibers that have a worker

cvars == <<count, doing, value, seen, at>>
allvars == <<vars, cvars, onWorker>>

InitOf(doers, waiters) ==
    /\ Init
    /\ count = Cardinality(doers) /\ doing = 0 /\ value = 0
    /\ seen = [f \in Threads |-> 0]
    /\ at = [f \in Threads |-> IF f \in doers THEN "done"
                               ELSE IF f \in waiters THEN "wait" ELSE "gone"]
    /\ onWorker = {}

\* Mutation: the destructor does not look at doing_.
AtOnce  == TRUE
MayFree == doing = 0

Go(f, from, to) == /\ f \in onWorker
                   /\ at[f] = from
                   /\ at' = [at EXCEPT ![f] = to]

\* The fiber keeps its worker.
Stays == UNCHANGED onWorker
-----------------------------------------------------------------------------
(* Done *)

FirstOfDone(f) == /\ Go(f, "done", "lock")
                  /\ doing' = doing + 1
                  /\ UNCHANGED <<vars, count, value, seen>> /\ Stays

CountDone(f) == /\ pc[f] = "cs" /\ Go(f, "counting", "bump")
                /\ count' = count - 1
                /\ UNCHANGED <<vars, doing, value, seen>> /\ Stays

Bump(f) == /\ Go(f, "bump", "wakeAll")
           /\ value' = value + 1
           /\ UNCHANGED <<vars, count, doing, seen>> /\ Stays

Parked == {f \in Threads : at[f] = "parked"}

WakeAll(f) == /\ f \in onWorker /\ at[f] = "wakeAll"
              /\ at' = [g \in Threads |-> IF g = f THEN "undoing"
                                       ELSE IF g \in Parked THEN "wait" ELSE at[g]]
              /\ UNCHANGED <<vars, count, doing, value, seen>> /\ Stays

LastOfDone(f) == /\ pc[f] = "idle" /\ Go(f, "undoing", "gone")
                 /\ doing' = doing - 1
                 /\ onWorker' = onWorker \ {f}
                 /\ UNCHANGED <<vars, count, value, seen>>
-----------------------------------------------------------------------------
(* Wait, with CondVar::Wait *)

Test(f) == /\ pc[f] = "cs"
           /\ IF count > 0 THEN Go(f, "testing", "waiting") /\ seen' = [seen EXCEPT ![f] = value]
                           ELSE Go(f, "testing", "leaving") /\ UNCHANGED seen
           /\ UNCHANGED <<vars, count, doing, value>> /\ Stays

ParkIfEqual(f) == /\ pc[f] = "idle"
                  /\ IF value = seen[f]
                     THEN Go(f, "waiting", "parked") /\ onWorker' = onWorker \ {f}
                     ELSE Go(f, "waiting", "wait") /\ Stays
                  /\ UNCHANGED <<vars, count, doing, value, seen>>

Return(f) == /\ pc[f] = "idle"
             /\ Go(f, "leaving", IF \A g \in Waiters \ {f} : at[g] = "gone" THEN "destroying" ELSE "gone")
             /\ onWorker' = IF at'[f] = "gone" THEN onWorker \ {f} ELSE onWorker
             /\ UNCHANGED <<vars, count, doing, value, seen>>

\* ~WaitGroup spins until doing_ is zero, and the memory is gone.
Destroy(f) == /\ MayFree
              /\ Go(f, "destroying", "freed")
              /\ onWorker' = onWorker \ {f}
              /\ UNCHANGED <<vars, count, doing, value, seen>>
-----------------------------------------------------------------------------
(* The mutex, as FutexMutex has it; "cs" is left when the fiber unlocks *)

LockMutex(f) == /\ f \in onWorker /\ at[f] \in {"lock", "wait"}
                /\ Enter(f)
                /\ at' = [at EXCEPT ![f] = IF @ = "lock" THEN "counting" ELSE "testing"]
                /\ UNCHANGED <<count, doing, value, seen>> /\ Stays

InMutex(f) == /\ f \in onWorker
              /\ pc[f] = "cs" => at[f] \in {"undoing", "waiting", "leaving"}
              /\ Inside(f)
              /\ onWorker' = {g \in onWorker : pc'[g] # "asleep"}
              /\ UNCHANGED cvars

\* A free worker runs a fiber that is not parked.
Dispatch(f) == /\ f \notin onWorker /\ Cardinality(onWorker) < Workers
               /\ pc[f] # "asleep" /\ at[f] \notin {"parked", "gone", "freed"}
               /\ onWorker' = onWorker \cup {f}
               /\ UNCHANGED <<vars, cvars>>

Done(f)  == FirstOfDone(f) \/ CountDone(f) \/ Bump(f) \/ WakeAll(f) \/ LastOfDone(f)
Wait(f)  == Test(f) \/ ParkIfEqual(f) \/ Return(f)
Works(f) == Done(f) \/ Wait(f) \/ Destroy(f) \/ LockMutex(f) \/ InMutex(f)

GroupNext == \E f \in Threads : Works(f) \/ Dispatch(f)

\* Workers run their fibers; a fiber that can run gets a worker in the end.
Fairness == \A f \in Threads : WF_allvars(Works(f)) /\ SF_allvars(Dispatch(f))
-----------------------------------------------------------------------------
\* When the group is destroyed, nobody is in one of its operations or will be: Done,
\* which has let the waiters go, has made its last access of the mutex, the condition
\* variable and the counters.
Freed        == \E f \in Threads : at[f] = "freed"
Untouched    == \A f \in Threads : at[f] \in {"gone", "freed"} /\ pc[f] = "idle"
SafelyFreed  == Freed => Untouched

\* It is destroyed in the end, safely; and a worker that spins in the destructor is not
\* waited for by a fiber that Done needs.
EndsUntouched == []SafelyFreed /\ <>Freed
=============================================================================
