---------------------------- MODULE QueueSpinLock ---------------------------
(***************************************************************************)
(* spinlocks::QueueSpinLock of mutex/queue/queue_spinlock.hpp: a queue of  *)
(* Guard objects, each on the stack of the thread that waits, linked by    *)
(* their next_ pointers; tail_ points to the last.  A thread uses the same *)
(* stack slot, that is, the same guard address, every time it locks.       *)
(***************************************************************************)
EXTENDS Sequences, SequencesExt, FiniteSets

CONSTANTS Threads, Null

ASSUME NullAssumption == Null \notin Threads

VARIABLES tail,   \* tail_, a thread standing for its guard
          next,   \* next[t]: next_ of t's guard
          owner,  \* owner[t]: owner_ of t's guard
          prev,   \* prev[t]: the local prev_tail of Acquire
          pc,     \* pc[t]: the access that thread t performs next
          line    \* history: the holder and the waiters, in order of exchange

vars == <<tail, next, owner, prev, pc, line>>

Init == /\ tail = Null
        /\ next = [t \in Threads |-> Null]
        /\ owner = [t \in Threads |-> FALSE]
        /\ prev = [t \in Threads |-> Null]
        /\ pc = [t \in Threads |-> "idle"]
        /\ line = <<>>

Move(t, from, to) == /\ pc[t] = from
                     /\ pc' = [pc EXCEPT ![t] = to]

\* Mutations: a guard keeps owner_ from its last use; WaitRelease does not wait; a
\* thread that found a predecessor takes the lock as if it were the first.
StaleOwner(t)     == owner[t]
NoWait(g)         == TRUE
OwnAsFirst        == "own"

\* owner_{false} of a new guard; where Release goes on when the guard is not
\* the last any more; the condition that ends WaitRelease; where Acquire goes
\* on when it found a predecessor; tail_ after the last guard's release.
FreshOwner(t)     == FALSE
AfterFailedCas    == "waitNext"
HasSuccessor(g)   == next[g] # Null
AfterPredecessor  == "link"
TailAfter(t)      == Null
-----------------------------------------------------------------------------
(* Acquire, in the constructor of Guard *)

Exchange(t) == /\ Move(t, "idle", IF tail = Null THEN "own" ELSE AfterPredecessor)
               /\ next' = [next EXCEPT ![t] = Null]
               /\ owner' = [owner EXCEPT ![t] = FreshOwner(t)]
               /\ prev' = [prev EXCEPT ![t] = tail]
               /\ tail' = t
               /\ line' = Append(line, t)

Own(t) == /\ Move(t, "own", "spin")
          /\ owner' = [owner EXCEPT ![t] = TRUE]
          /\ UNCHANGED <<tail, next, prev, line>>

Link(t) == /\ Move(t, "link", "spin")
           /\ next' = [next EXCEPT ![prev[t]] = t]
           /\ UNCHANGED <<tail, owner, prev, line>>

WaitAcquire(t) == /\ owner[t]
                  /\ Move(t, "spin", "cs")
                  /\ UNCHANGED <<tail, next, owner, prev, line>>

(* Release, in the destructor of Guard *)

Release(t) == /\ \/ /\ tail = t
                    /\ Move(t, "cs", "idle")
                    /\ tail' = TailAfter(t) /\ line' = Tail(line)
                 \/ /\ tail # t
                    /\ Move(t, "cs", AfterFailedCas)
                    /\ UNCHANGED <<tail, line>>
              /\ UNCHANGED <<next, owner, prev>>

WaitRelease(t) == /\ HasSuccessor(t)
                  /\ Move(t, "waitNext", "pass")
                  /\ UNCHANGED <<tail, next, owner, prev, line>>

Pass(t) == /\ Move(t, "pass", "idle")
           /\ owner' = [owner EXCEPT ![next[t]] = TRUE]
           /\ line' = Tail(line)
           /\ UNCHANGED <<tail, next, prev>>

Inside(t) == Own(t) \/ Link(t) \/ WaitAcquire(t) \/ Release(t) \/ WaitRelease(t) \/ Pass(t)

Next == \E t \in Threads : Exchange(t) \/ Inside(t)

Spec == Init /\ [][Next]_vars

\* Every thread is scheduled, and every critical section ends.
FairSpec == Spec /\ \A t \in Threads : WF_vars(Inside(t))
-----------------------------------------------------------------------------
TypeOK == /\ tail \in Threads \cup {Null}
          /\ next \in [Threads -> Threads \cup {Null}]
          /\ owner \in [Threads -> BOOLEAN]
          /\ prev \in [Threads -> Threads \cup {Null}]
          /\ pc \in [Threads -> {"idle", "own", "link", "spin", "cs", "waitNext", "pass"}]
          /\ line \in Seq(Threads)
          /\ \A t \in Threads : next[t] # t /\ prev[t] # t

\* Guards are objects on other threads' stacks.  A thread about to link itself
\* writes into the guard of the thread just before it in the line, which cannot
\* return meanwhile; a thread about to pass the lock on writes into the guard of
\* the thread just behind it, which is spinning on that very store.
NoDanglingGuard ==
    /\ \A t \in Threads : pc[t] = "link" =>
          \E i \in 2..Len(line) : /\ line[i] = t /\ line[i-1] = prev[t]
                                  /\ next[prev[t]] = Null
    /\ \A t \in Threads : pc[t] = "pass" =>
          /\ Len(line) > 1 /\ line[1] = t /\ line[2] = next[t]
          /\ pc[next[t]] = "spin" /\ ~owner[next[t]]

\* The same, with the types of the pointers: no guard precedes or follows itself.
SafeGuards == TypeOK /\ NoDanglingGuard

FL == INSTANCE AbstractFifoLock
          WITH entered <- \E t \in Threads : pc[t] \in {"cs", "waitNext", "pass"}

\* The lock excludes and is fair: threads enter in the order of their exchanges
\* on tail_, each after the one before it has left.
ImplementsFifoLock == FL!Spec

\* A thread that has queued its guard gets the lock, whatever the others do:
\* neither the hand-over nor a release that races an enqueue loses the lock.
NoStarvation == FL!NoStarvation
=============================================================================
