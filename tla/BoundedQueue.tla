---------------------------- MODULE BoundedQueue ----------------------------
(***************************************************************************)
(* solutions::BlockingQueue (condvar/semaphore/blocking_queue.hpp) and the *)
(* three semaphores it consists of (semaphore.hpp).  TaggedSemaphore is    *)
(* not in the repository; from its use here it is a Semaphore whose        *)
(* Acquire returns a token and whose Release takes one.  A section under   *)
(* the mutex of a semaphore is one step.                                   *)
(***************************************************************************)
EXTENDS Integers, Sequences, FiniteSets

CONSTANTS Threads, Values, Capacity

ASSUME ThreadsAssumption  == IsFiniteSet(Threads)
ASSUME CapacityAssumption == Capacity \in Nat \ {0}

Semaphores == {"free", "count", "guard"}

VARIABLES tokens,  \* tokens[s]: token_counter_ of semaphore s
          buffer,
          item,    \* item[t]: the value that t puts, or has taken
          pc,      \* pc[t]: the call that t makes next
          asleep   \* the threads in has_tokens_.wait

vars == <<tokens, buffer, item, pc, asleep>>

\* Mutation: both operations acquire the guard before the token.
GuardFirst == [call \in {"putFree", "putGuard", "takeCount", "takeGuard"} |->
                  CASE call = "putGuard" -> "free" [] call = "takeGuard" -> "count" [] OTHER -> "guard"]

\* The semaphore that a thread acquires at each of its calls to Acquire.
Acquired == [call \in {"putFree", "putGuard", "takeCount", "takeGuard"} |->
                CASE call = "putFree" -> "free" [] call = "takeCount" -> "count" [] OTHER -> "guard"]

\* Mutations: one place too many; a token that is not given back; a Release
\* that notifies nobody at the guard; a Take without the guard.
RoomForOneMore   == Capacity + 1
NotReturned(n)   == n
NobodyAtGuard(s) == {t \in asleep : Acquired[pc[t]] = s /\ s # "guard"}
Unguarded        == "pop"

\* The tokens of free_semaphore_; what Acquire and Release make of the counter; whom
\* Release notifies; where Take goes on after its first Acquire.
Room             == Capacity
Spent(n)         == n - 1
Returned(n)      == n + 1
Waiting(s)       == {t \in asleep : Acquired[pc[t]] = s}
AfterCount       == "takeGuard"

Init == /\ tokens = [s \in Semaphores |-> CASE s = "free"  -> Room
                                            [] s = "count" -> 0
                                            [] s = "guard" -> 1]
        /\ buffer = <<>>
        /\ item \in [Threads -> Values]
        /\ pc = [t \in Threads |-> "idle"]
        /\ asleep = {}
-----------------------------------------------------------------------------
(* Semaphore *)

Acquire(t, from, to) ==
    LET s == Acquired[from]
    IN /\ pc[t] = from /\ t \notin asleep
       /\ \/ /\ tokens[s] > 0
             /\ tokens' = [tokens EXCEPT ![s] = Spent(@)]
             /\ pc' = [pc EXCEPT ![t] = to]
             /\ UNCHANGED asleep
          \/ /\ tokens[s] = 0
             /\ asleep' = asleep \cup {t}
             /\ UNCHANGED <<tokens, pc>>
       /\ UNCHANGED <<buffer, item>>

Release(t, s, from, to) == /\ pc[t] = from
                           /\ pc' = [pc EXCEPT ![t] = to]
                           /\ tokens' = [tokens EXCEPT ![s] = Returned(@)]
                           /\ asleep' = asleep \ Waiting(s)
                           /\ UNCHANGED <<buffer, item>>

SpuriousWake(t) == /\ t \in asleep
                   /\ asleep' = asleep \ {t}
                   /\ UNCHANGED <<tokens, buffer, item, pc>>
-----------------------------------------------------------------------------
(* BlockingQueue *)

CallPut(t) == /\ pc[t] = "idle"
              /\ pc' = [pc EXCEPT ![t] = "putFree"]
              /\ \E v \in Values : item' = [item EXCEPT ![t] = v]
              /\ UNCHANGED <<tokens, buffer, asleep>>

PushBack(t) == /\ pc[t] = "push"
               /\ pc' = [pc EXCEPT ![t] = "putUnguard"]
               /\ buffer' = Append(buffer, item[t])
               /\ UNCHANGED <<tokens, item, asleep>>

Put(t) == \/ Acquire(t, "putFree", "putGuard")
          \/ Acquire(t, "putGuard", "push")
          \/ PushBack(t)
          \/ Release(t, "guard", "putUnguard", "releaseCount")
          \/ Release(t, "count", "releaseCount", "idle")

CallTake(t) == /\ pc[t] = "idle"
               /\ pc' = [pc EXCEPT ![t] = "takeCount"]
               /\ UNCHANGED <<tokens, buffer, item, asleep>>

PopFront(t) == /\ pc[t] = "pop"
               /\ pc' = [pc EXCEPT ![t] = "takeUnguard"]
               /\ item' = [item EXCEPT ![t] = Head(buffer)]
               /\ buffer' = Tail(buffer)
               /\ UNCHANGED <<tokens, asleep>>

Take(t) == \/ Acquire(t, "takeCount", AfterCount)
           \/ Acquire(t, "takeGuard", "pop")
           \/ PopFront(t)
           \/ Release(t, "guard", "takeUnguard", "releaseFree")
           \/ Release(t, "free", "releaseFree", "idle")

Next == \E t \in Threads :
            CallPut(t) \/ Put(t) \/ CallTake(t) \/ Take(t) \/ SpuriousWake(t)

Spec == Init /\ [][Next]_vars

\* Threads are scheduled inside of the operations; nobody has to call one.
FairSpec == Spec /\ \A t \in Threads : WF_vars(Put(t) \/ Take(t))
-----------------------------------------------------------------------------
TypeOK == /\ tokens \in [Semaphores -> 0..Capacity]
          /\ buffer \in Seq(Values)
          /\ item \in [Threads -> Values]
          /\ pc \in [Threads -> {"idle", "putFree", "putGuard", "push", "putUnguard", "releaseCount",
                                 "takeCount", "takeGuard", "pop", "takeUnguard", "releaseFree"}]
          /\ asleep \subseteq {t \in Threads : pc[t] \in DOMAIN Acquired}

At(S) == {t \in Threads : pc[t] \in S}

\* Where a thread holds a token of free_semaphore_ or of count_semaphore_, and where
\* it stands for an element of the buffer that count_semaphore_ does not count.
Putting == {"putGuard", "push", "putUnguard", "releaseCount"}
Taking  == {"takeGuard", "pop", "takeUnguard", "releaseFree"}
Stored  == {"takeGuard", "pop", "putUnguard", "releaseCount"}

\* Every place of the buffer is accounted for: it has a token in one of the two
\* semaphores or in the hands of a thread, and the elements are those that were
\* put and not taken, counted or not yet.
Accounting ==
    /\ tokens["free"] + tokens["count"]
          + Cardinality(At(Putting \cup Taking)) = Capacity
    /\ Len(buffer) = tokens["count"] + Cardinality(At(Stored))

\* The deque is accessed by one thread at a time, and front() only if there is one.
BufferIsSafe == /\ \A t, u \in At({"push", "pop"}) : t = u
                /\ At({"pop"}) # {} => buffer # <<>>

\* Elements in the order of the pushes, each taken once, never more than capacity
\* (blocking_queue.hpp:9).
Q == INSTANCE AbstractBoundedQueue
ImplementsQueue == Q!Spec

\* Nobody waits for ever in Put beside room for his element while no element is pushed,
\* be it for a place or, with one, for the guard; nor in Take beside an element while none
\* is popped.
PutsGetIn   == []<>(At({"putFree", "putGuard"}) # {} => Len(buffer) = Capacity \/ At({"push"}) # {})
TakesGetOut == []<>(At({"takeCount", "takeGuard"}) # {} => buffer = <<>> \/ At({"pop"}) # {})

\* The guard is left and its Release wakes everybody: again and again nobody sleeps for
\* it, even if others go on passing.
GuardWakes == []<>(asleep \cap At({"putGuard", "takeGuard"}) = {})

\* No notification of a semaphore is lost, and no holder of the guard waits: a Put or
\* a Take goes on when it can, unless others push or pop before it again and again; from
\* its sleep at the guard it wakes in any case.
NobodyStuck == PutsGetIn /\ TakesGetOut /\ GuardWakes
=============================================================================
