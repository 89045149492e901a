--------------------------- MODULE AbstractStrand ---------------------------
(***************************************************************************)
(* What an exe::executors::Strand promises: it executes tasks              *)
(* "non-concurrently and in FIFO order" (futures/executors, strand.hpp).   *)
(***************************************************************************)
EXTENDS Sequences, SequencesExt

CONSTANTS Tasks, None

VARIABLES line,    \* the tasks that wait, the oldest first
          current  \* the task that runs, or None

vars == <<line, current>>

Init == line = <<>> /\ current = None

Submit(k) == /\ k # current /\ k \notin ToSet(line)
             /\ line' = Append(line, k)
             /\ UNCHANGED current

Begin == /\ current = None /\ line # <<>>
         /\ current' = Head(line)
         /\ line' = Tail(line)

End == current # None /\ current' = None /\ UNCHANGED line

Next == Begin \/ End \/ \E k \in Tasks : Submit(k)

Spec == Init /\ [][Next]_vars

\* Every task submitted is executed.
EveryTaskRuns == \A k \in Tasks : k \in ToSet(line) ~> current = k
=============================================================================
