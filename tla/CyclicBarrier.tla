--------------------------- MODULE CyclicBarrier ---------------------------
(***************************************************************************)
(* solutions::CyclicBarrier (condvar/barrier/cyclic_barrier.hpp) for its   *)
(* thread_count_ participants, who call Arrive again and again.  A section *)
(* under mutex_ is one step; wait gives the mutex up, and a thread that is *)
(* woken has to get it again, behind threads of this round or the next.    *)
(***************************************************************************)
EXTENDS Naturals, FiniteSets

CONSTANT Threads  \* finite, and not empty (McAssumption in MCLocks)

VARIABLES waiting_counts, barrier_state,
          current_state,  \* current_state[t]: a local of Arrive
          pc              \* pc[t]: outside, in wait, or woken in wait

vars == <<waiting_counts, barrier_state, current_state, pc>>

thread_count == Cardinality(Threads)

Init == /\ waiting_counts = [s \in 0..1 |-> 0]
        /\ barrier_state = 0
        /\ current_state = [t \in Threads |-> 0]
        /\ pc = [t \in Threads |-> "out"]

\* Mutations: every thread that passes flips the state; one waiter notified only.
AlwaysFlips(t, s)    == TRUE
NotifiedOne(u)       == pc[u] = "wait" /\ u = CHOOSE v \in Threads : pc[v] = "wait"

\* The counters when round s begins; whether a thread of round s is the one that
\* begins the next; whom notify_all wakes.
Reset(counts, s)     == [counts EXCEPT ![s] = 0]
Flips(t, s)          == barrier_state = s
Notified(u)          == pc[u] = "wait"
-----------------------------------------------------------------------------
\* The rest of Arrive, when t has found counts[s] complete.
Return(t, s, counts) ==
    \/ /\ Flips(t, s)
       /\ barrier_state' = 1 - barrier_state
       /\ waiting_counts' = Reset(counts, barrier_state')
       /\ pc' = [u \in Threads |-> IF u = t THEN "out"
                                   ELSE IF Notified(u) THEN "woken" ELSE pc[u]]
    \/ /\ ~Flips(t, s)
       /\ waiting_counts' = counts
       /\ pc' = [pc EXCEPT ![t] = "out"]
       /\ UNCHANGED barrier_state

Sleep(t, counts) == /\ waiting_counts' = counts
                    /\ pc' = [pc EXCEPT ![t] = "wait"]
                    /\ UNCHANGED barrier_state

\* The condition of the loop, and what follows.
Check(t, s, counts) == IF counts[s] # thread_count THEN Sleep(t, counts)
                                                   ELSE Return(t, s, counts)

Arrive(t) == /\ pc[t] = "out"
             /\ current_state' = [current_state EXCEPT ![t] = barrier_state]
             /\ Check(t, barrier_state, [waiting_counts EXCEPT ![barrier_state] = @ + 1])

Woken(t) == /\ pc[t] = "woken"
            /\ Check(t, current_state[t], waiting_counts)
            /\ UNCHANGED current_state

SpuriousWake(t) == /\ pc[t] = "wait"
                   /\ pc' = [pc EXCEPT ![t] = "woken"]
                   /\ UNCHANGED <<waiting_counts, barrier_state, current_state>>

Next == \E t \in Threads : Arrive(t) \/ Woken(t) \/ SpuriousWake(t)

Spec == Init /\ [][Next]_vars

\* A woken thread gets the mutex; nobody has to arrive, or to wake for no reason.
Fairness == \A t \in Threads : WF_vars(Woken(t))
-----------------------------------------------------------------------------
TypeOK == /\ waiting_counts \in [0..1 -> 0..thread_count]
          /\ barrier_state \in 0..1
          /\ current_state \in [Threads -> 0..1]
          /\ pc \in [Threads -> {"out", "wait", "woken"}]

Inside == {t \in Threads : pc[t] # "out"}

\* Of the two rounds that overlap: threads of the state's round are held back, those
\* of the other may go.
Gathered == {t \in Inside : current_state[t] = barrier_state}
Leaving  == Inside \ Gathered

\* Each counter is right for its round as long as somebody looks at it: the current
\* one counts who is there, the last one stays complete until the slowest has left.
CountersHold == /\ waiting_counts[barrier_state] = Cardinality(Gathered)
                /\ Gathered # Threads
                /\ Leaving # {} => waiting_counts[1 - barrier_state] = thread_count

\* No thread that may go sleeps without a notification.
NotForgotten == \A t \in Leaving : pc[t] = "woken"

AB == INSTANCE AbstractBarrier WITH gathered <- Gathered, leaving <- Leaving

\* "Blocks until all participants have invoked Arrive()" (cyclic_barrier.hpp:24), in
\* every round, fast threads in the next round or not.
ImplementsBarrier == AB!Spec

\* Nobody stays behind when the round is complete.
EverybodyPasses == AB!EverybodyPasses
=============================================================================
