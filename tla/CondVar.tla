------------------------------ MODULE CondVar -------------------------------
(***************************************************************************)
(* stdlike::CondVar of condvar/condvar/condvar.hpp over the mutex of       *)
(* FutexMutex: a counter of notifications, value_, and a futex on it.      *)
(* Threads lock and unlock; one that holds the mutex may wait, and any     *)
(* thread that is not inside an operation of the mutex may notify, with or *)
(* without the mutex.  exe::fibers::CondVar is the same code over the      *)
(* fibers' Mutex and FutexLike, which park atomically as the mutex and the *)
(* futex here do (FiberMutex refines FutexMutex): FiberWaitGroup uses it.  *)
(***************************************************************************)
EXTENDS FutexMutex

\* Bound of the model: notifications in a behaviour.  value_ is a uint32_t;
\* its wrap after 2^32 notifications is left out.  Waiters call Wait and
\* Notifiers call NotifyOne and NotifyAll; the other threads only lock and unlock.
CONSTANTS MaxValue, Waiters, Notifiers

ASSUME CondVarAssumption == MaxValue \in Nat /\ Waiters \subseteq Threads /\ Notifiers \subseteq Threads

VARIABLES value,  \* value_
          seen,   \* seen[t]: the local value of Wait
          at,     \* at[t]: where t is in an operation of the condition variable
          told    \* history: value_ as the last finished NotifyAll has left it

cvars == <<value, seen, at, told>>
allvars == <<vars, cvars>>

CvInit == /\ Init
          /\ value = 0
          /\ seen = [t \in Threads |-> 0]
          /\ at = [t \in Threads |-> "none"]
          /\ told = 0

\* Mutation: the futex does not compare.
ParkAnyway(t)   == TRUE

\* What FutexWait(value) compares; whom FutexWakeAll wakes.
MayPark(t) == value = seen[t]
Waken(P)   == {P}
-----------------------------------------------------------------------------
(* Wait(mutex): load value_, mutex.unlock() and mutex.lock() by the actions *)
(* of FutexMutex, FutexWait between the two                                 *)

Load(t) == /\ t \in Waiters /\ pc[t] = "cs" /\ at[t] = "none"
           /\ at' = [at EXCEPT ![t] = "wait"]
           /\ seen' = [seen EXCEPT ![t] = value]
           /\ UNCHANGED <<vars, value, told>>

Park(t) == /\ at[t] = "wait" /\ pc[t] = "idle"
           /\ at' = [at EXCEPT ![t] = IF MayPark(t) THEN "parked" ELSE "relock"]
           /\ UNCHANGED <<vars, value, seen, told>>

SpuriousUnpark(t) == /\ at[t] = "parked"
                     /\ at' = [at EXCEPT ![t] = "relock"]
                     /\ UNCHANGED <<vars, value, seen, told>>

Relock(t) == /\ at[t] = "relock" /\ Enter(t)
             /\ at' = [at EXCEPT ![t] = "none"]
             /\ UNCHANGED <<value, seen, told>>

(* NotifyOne() and NotifyAll() *)

Bump(t, wake) == /\ at[t] = "none" /\ value < MaxValue
                 /\ value' = value + 1
                 /\ at' = [at EXCEPT ![t] = wake]
                 /\ seen' = [seen EXCEPT ![t] = value + 1]
                 /\ UNCHANGED <<vars, told>>

Notify(t) == /\ t \in Notifiers /\ pc[t] \in {"idle", "cs"}
             /\ Bump(t, "wakeOne") \/ Bump(t, "wakeAll")

Parked == {t \in Threads : at[t] = "parked"}

Wake(t, P) == at' = [u \in Threads |-> IF u = t THEN "none"
                                       ELSE IF u \in P THEN "relock" ELSE at[u]]

WakeOne(t) == /\ at[t] = "wakeOne"
              /\ \/ Parked = {} /\ Wake(t, {})
                 \/ \E u \in Parked : Wake(t, {u})
              /\ UNCHANGED <<vars, value, seen, told>>

WakeAll(t) == /\ at[t] = "wakeAll"
              /\ \/ Parked = {} /\ Wake(t, {})
                 \/ \E P \in Waken(Parked) : Wake(t, P)
              /\ told' = IF told < seen[t] THEN seen[t] ELSE told
              /\ UNCHANGED <<vars, value, seen>>

(* Lock() and Unlock() of the mutex, by a caller or from Wait *)

Waking(t) == at[t] \in {"wakeOne", "wakeAll"}

CvEnter(t)  == at[t] = "none" /\ Enter(t) /\ UNCHANGED cvars
InMutex(t)  == ~Waking(t) /\ Inside(t) /\ UNCHANGED cvars
Spurious(t) == SpuriousWake(t) /\ UNCHANGED cvars

InCondVar(t) == Park(t) \/ Relock(t) \/ WakeOne(t) \/ WakeAll(t)

CvNext == \E t \in Threads : \/ CvEnter(t) \/ InMutex(t) \/ Spurious(t)
                             \/ Load(t) \/ Notify(t) \/ SpuriousUnpark(t) \/ InCondVar(t)

CvSpec == CvInit /\ [][CvNext]_allvars

\* As in FutexMutex: threads run, critical sections end; nobody has to notify.
FairCvSpec == CvSpec /\ \A t \in Threads : WF_allvars(InMutex(t) \/ InCondVar(t))
-----------------------------------------------------------------------------
\* No notification is missed: whoever sleeps on the condition variable has
\* loaded value_ after the fetch_add of every NotifyAll that has finished,
\* although it lets go of the mutex before it sleeps.
NoMissedNotification == \A t \in Parked : seen[t] >= told
=============================================================================
