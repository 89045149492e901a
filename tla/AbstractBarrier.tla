--------------------------- MODULE AbstractBarrier ---------------------------
(***************************************************************************)
(* What a cyclic barrier promises: threads gather until all are there, and *)
(* nobody gathers for the next round who has not left the last.            *)
(***************************************************************************)
CONSTANT Threads

VARIABLES gathered,  \* the threads that have arrived and may not pass
          leaving    \* the threads that may pass and have not yet

Init == gathered = {} /\ leaving = {}

Arrive(t) == /\ t \notin gathered \cup leaving
             /\ gathered \cup {t} # Threads
             /\ gathered' = gathered \cup {t}
             /\ UNCHANGED leaving

\* The last thread passes at once.
Complete(t) == /\ t \notin gathered \cup leaving
               /\ gathered \cup {t} = Threads
               /\ gathered' = {}
               /\ leaving' = gathered

Pass(t) == /\ t \in leaving
           /\ leaving' = leaving \ {t}
           /\ UNCHANGED gathered

Next == \E t \in Threads : Arrive(t) \/ Complete(t) \/ Pass(t)

Spec == Init /\ [][Next]_<<gathered, leaving>>

\* Whoever may pass does.
EverybodyPasses == \A t \in Threads : t \in leaving ~> t \notin leaving
=============================================================================
