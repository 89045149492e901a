------------------------------ MODULE SpinLock ------------------------------
(***************************************************************************)
(* The spinlocks that are a single flag: TASSpinLock of                    *)
(* mutex/spinlock/spinlock.hpp, whose accesses are the x86 instructions of *)
(* atomic_ops.S, and exe::fibers::SpinLock of fibers/*/exe/support, which  *)
(* looks at the flag before it tries again (TestFirst) and has no TryLock. *)
(***************************************************************************)
CONSTANTS Threads, TestFirst

VARIABLES locked,  \* locked_
          pc       \* pc[t]: the access that thread t performs next

vars == <<locked, pc>>

Init == locked = 0 /\ pc = [t \in Threads |-> "idle"]

Move(t, from, to) == pc[t] = from /\ pc' = [pc EXCEPT ![t] = to]

\* Where Lock goes on after an exchange that returned 1, for each of the locks;
\* what Unlock stores.
Again == IF TestFirst THEN "look" ELSE "exchange"
Clear == 0
-----------------------------------------------------------------------------
Lock(t) == Move(t, "idle", "exchange") /\ UNCHANGED locked

Exchange(t) == /\ Move(t, "exchange", IF locked = 1 THEN Again ELSE "cs")
               /\ locked' = 1

Look(t) == /\ locked = 0 /\ Move(t, "look", "exchange")
           /\ UNCHANGED locked

TryLock(t) == /\ ~TestFirst
              /\ Move(t, "idle", IF locked = 1 THEN "idle" ELSE "cs")
              /\ locked' = 1

Unlock(t) == /\ Move(t, "cs", "idle")
             /\ locked' = Clear

Inside(t) == Exchange(t) \/ Look(t) \/ Unlock(t)

Next == \E t \in Threads : Lock(t) \/ TryLock(t) \/ Inside(t)


Spec == Init /\ [][Next]_vars
-----------------------------------------------------------------------------
\* One thread at a time is in its critical section, by Lock or by TryLock, which
\* both write the flag whether they get the lock or not; and while threads are
\* inside Lock the lock keeps being acquired (a given thread may starve).
Excludes == \A t, u \in Threads : pc[t] = "cs" /\ pc[u] = "cs" => t = u
Progress == (\E t \in Threads : pc[t] \in {"exchange", "look"})
                ~> (\E t \in Threads : pc[t] = "cs")
=============================================================================
