---------------------------- MODULE AbstractLock ----------------------------
(***************************************************************************)
(* What every lock of the repository promises its callers: Lock() returns  *)
(* to one thread at a time, and while threads are inside Lock() the lock   *)
(* keeps changing hands.  Nothing is promised about the order.             *)
(* FutexMutex and FiberMutex are shown to implement this specification.    *)
(***************************************************************************)
CONSTANT Threads

\* phase[t]: "idle" outside of the lock, "trying" between the call of Lock()
\* and its return, "cs" from that return to the lock's release.
VARIABLE phase

Holder(t) == phase[t] = "cs"

Init == phase = [t \in Threads |-> "idle"]

Request(t) == /\ phase[t] = "idle"
              /\ phase' = [phase EXCEPT ![t] = "trying"]

Acquire(t) == /\ phase[t] = "trying"
              /\ \A u \in Threads : ~Holder(u)
              /\ phase' = [phase EXCEPT ![t] = "cs"]

Release(t) == /\ Holder(t)
              /\ phase' = [phase EXCEPT ![t] = "idle"]

Next == \E t \in Threads : Request(t) \/ Acquire(t) \/ Release(t)

Spec == Init /\ [][Next]_phase

\* Whenever some thread is inside Lock(), some thread gets the lock.
Progress == (\E t \in Threads : phase[t] = "trying")
                ~> (\E t \in Threads : Holder(t))

=============================================================================
