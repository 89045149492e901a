-------------------------- MODULE AbstractFifoLock --------------------------
(***************************************************************************)
(* What the fair locks of the repository promise: threads stand in a line  *)
(* and enter in the order in which they joined it; a free lock that nobody *)
(* waits for may be taken at once.  QueueSpinLock, TaskMutex, TicketLock  *)
(* are shown to implement this specification.                              *)
(***************************************************************************)
EXTENDS Sequences, SequencesExt

CONSTANT Threads

VARIABLES line,     \* the holder, if any, and the threads waiting, in order
          entered   \* the first of the line has the lock

Init == line = <<>> /\ entered = FALSE

Join(t) == /\ ~Contains(line, t)
           /\ line' = Append(line, t)
           /\ UNCHANGED entered

TryEnter(t) == /\ line = <<>>
               /\ line' = <<t>>
               /\ entered' = TRUE

Enter(t) == /\ line # <<>> /\ Head(line) = t
            /\ ~entered /\ entered' = TRUE
            /\ UNCHANGED line

Leave(t) == /\ entered /\ Head(line) = t
            /\ line' = Tail(line)
            /\ entered' = FALSE

Next == \E t \in Threads : Join(t) \/ TryEnter(t) \/ Enter(t) \/ Leave(t)

Spec == Init /\ [][Next]_<<line, entered>>

\* Everybody who stands in line gets the lock.
NoStarvation == \A t \in Threads :
                    Contains(line, t) ~> (entered /\ Head(line) = t)
=============================================================================
