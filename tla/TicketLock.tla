----------------------------- MODULE TicketLock -----------------------------
(***************************************************************************)
(* TicketLock of mutex/try-lock/ticket_lock.hpp: a thread draws a ticket   *)
(* and spins until owner_ticket_ shows it; TryLock draws the ticket that   *)
(* it has seen at the owner's, if that is still the next one.              *)
(***************************************************************************)
EXTENDS Naturals, Sequences

\* Bound of the model: tickets drawn from one lock.  When they are used up and
\* nobody is inside, Renew stands for a new lock; size_t does not wrap.
CONSTANTS Threads, MaxTicket

VARIABLES next_free,  \* next_free_ticket_
          owner,      \* owner_ticket_
          ticket,     \* ticket[t]: this_thread_ticket, or owner_ticket_value of TryLock
          pc          \* pc[t]: the access that thread t performs next

vars == <<next_free, owner, ticket, pc>>

Init == /\ next_free = 0 /\ owner = 0
        /\ ticket = [t \in Threads |-> 0]
        /\ pc = [t \in Threads |-> "idle"]

Move(t, from, to) == pc[t] = from /\ pc' = [pc EXCEPT ![t] = to]

\* Mutation: TryLock expects the next free ticket.
SeenNext        == next_free

\* What TryLock loads to compare next_free_ticket_ with; the end of Lock's spin.
Seen    == owner
MyTurn(t) == owner = ticket[t]
-----------------------------------------------------------------------------
Draw(t) == /\ next_free < MaxTicket
           /\ Move(t, "idle", "spin")
           /\ ticket' = [ticket EXCEPT ![t] = next_free]
           /\ next_free' = next_free + 1
           /\ UNCHANGED owner

Spin(t) == /\ MyTurn(t) /\ Move(t, "spin", "cs")
           /\ UNCHANGED <<next_free, owner, ticket>>

TryLoad(t) == /\ next_free < MaxTicket
              /\ Move(t, "idle", "cas")
              /\ ticket' = [ticket EXCEPT ![t] = Seen]
              /\ UNCHANGED <<next_free, owner>>

TryCas(t) == /\ \/ /\ next_free = ticket[t] /\ Move(t, "cas", "cs")
                   /\ next_free' = ticket[t] + 1
                \/ /\ next_free # ticket[t] /\ Move(t, "cas", "idle")
                   /\ UNCHANGED next_free
             /\ UNCHANGED <<owner, ticket>>

Unlock(t) == /\ Move(t, "cs", "idle")
             /\ owner' = owner + 1
             /\ UNCHANGED <<next_free, ticket>>

Renew == /\ next_free = MaxTicket /\ \A t \in Threads : pc[t] = "idle"
         /\ next_free' = 0 /\ owner' = 0
         /\ ticket' = [t \in Threads |-> 0]
         /\ UNCHANGED pc

Inside(t) == Spin(t) \/ TryCas(t) \/ Unlock(t)

Next == Renew \/ \E t \in Threads : Draw(t) \/ TryLoad(t) \/ Inside(t)

\* Threads run and critical sections end; nobody has to call the lock.
Fairness == \A t \in Threads : WF_vars(Inside(t))

Spec == Init /\ [][Next]_vars /\ Fairness
-----------------------------------------------------------------------------
\* The threads whose tickets are drawn and not yet past, in the tickets' order.
line == [i \in 1..(next_free - owner) |->
            CHOOSE t \in Threads : pc[t] \in {"spin", "cs"} /\ ticket[t] = owner + i - 1]

FL == INSTANCE AbstractFifoLock
          WITH entered <- \E t \in Threads : pc[t] = "cs"

\* Tickets are served in the order in which they are drawn, and TryLock, which
\* compares a ticket that may be stale by then, succeeds on a free lock only.
ServesInOrder == FL!Spec

\* Everybody who has drawn a ticket gets the lock.
NoStarvation == FL!NoStarvation
=============================================================================
