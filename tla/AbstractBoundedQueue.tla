------------------------- MODULE AbstractBoundedQueue -------------------------
(***************************************************************************)
(* What a bounded blocking queue promises: elements come out in the order  *)
(* in which they went in, each once, and there are never more than fit.    *)
(***************************************************************************)
EXTENDS Naturals, Sequences

CONSTANTS Threads, Values, Capacity

VARIABLES buffer,  \* the elements in the queue, the oldest first
          item     \* item[t]: what t is about to put, or what it took last

Init == buffer = <<>> /\ item \in [Threads -> Values]

Choose(t) == /\ \E v \in Values : item' = [item EXCEPT ![t] = v]
             /\ UNCHANGED buffer

Put(t) == /\ Len(buffer) < Capacity
          /\ buffer' = Append(buffer, item[t])
          /\ UNCHANGED item

Take(t) == /\ buffer # <<>>
           /\ item' = [item EXCEPT ![t] = Head(buffer)]
           /\ buffer' = Tail(buffer)

Next == \E t \in Threads : Choose(t) \/ Put(t) \/ Take(t)

Spec == Init /\ [][Next]_<<buffer, item>>
=============================================================================
