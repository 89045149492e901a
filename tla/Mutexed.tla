------------------------------ MODULE Mutexed -------------------------------
(***************************************************************************)
(* util::Mutexed of mutex/mutexed/mutexed.hpp: a UniqueRef is a temporary  *)
(* of the expression that uses it, and its guard holds the mutex to the    *)
(* end of that expression.  The object is a counter, and an operation on   *)
(* it reads it and writes it in two steps; an expression may apply several *)
(* operations through one reference.                                       *)
(***************************************************************************)
EXTENDS Naturals

CONSTANTS Threads, MaxUpdates  \* bound on the operations

VARIABLES object,  \* object_
          mutex,   \* the threads that have locked mutex_
          pc,      \* pc[t]: no reference, "constructed", "ref", or in an operation
          seen,    \* seen[t]: what t's operation has read
          updates  \* history: the operations that have ended

vars == <<object, mutex, pc, seen, updates>>

Init == /\ object = 0 /\ mutex = {} /\ updates = 0
        /\ pc = [t \in Threads |-> "none"]
        /\ seen = [t \in Threads |-> 0]

Move(t, from, to) == pc[t] = from /\ pc' = [pc EXCEPT ![t] = to]

\* Mutation: the reference is constructed without the guard.
NoGuard(t) == "ref"

\* Where UniqueRef's constructor goes on after object_: to guard_.
AfterBind(t) == "constructed"

Locked(t) == Move(t, "none", AfterBind(t)) /\ UNCHANGED <<object, mutex, seen, updates>>

Guard(t) == /\ mutex = {} /\ mutex' = {t}
            /\ Move(t, "constructed", "ref")
            /\ UNCHANGED <<object, seen, updates>>

Lock(t) == Locked(t) \/ Guard(t)

\* An operation through operator-> or operator*.
Read(t) == /\ Move(t, "ref", "operates") /\ updates < MaxUpdates
           /\ seen' = [seen EXCEPT ![t] = object]
           /\ UNCHANGED <<object, mutex, updates>>

Write(t) == /\ Move(t, "operates", "ref")
            /\ object' = seen[t] + 1 /\ updates' = updates + 1
            /\ UNCHANGED <<mutex, seen>>

Operate(t) == Read(t) \/ Write(t)

\* The end of the expression: guard_ is destroyed.
Unlock(t) == /\ Move(t, "ref", "none")
             /\ mutex' = mutex \ {t}
             /\ UNCHANGED <<object, seen, updates>>

Next == \E t \in Threads : Lock(t) \/ Operate(t) \/ Unlock(t)
-----------------------------------------------------------------------------
\* No operation is lost, and none sees the object in the middle of another one.
UpdatesAreAtomic == /\ object = updates
                    /\ \A t \in Threads : pc[t] = "operates" => seen[t] = object
=============================================================================
