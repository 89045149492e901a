----------------------------- MODULE TaskMutex -----------------------------
(***************************************************************************)
(* exe::tasks::Mutex (stackless/gorroutines/exe/tasks/sync/mutex.hpp) for  *)
(* coroutines that run on the workers of a thread pool.  resume() is a     *)
(* call: the coroutine that Unlock resumes runs on the stack of its        *)
(* resumer, which goes on when the resumed one suspends or ends.  A Locker *)
(* is named by the coroutine whose frame it is in; a coroutine that ended  *)
(* may be started anew, and its Locker is constructed anew at every lock.  *)
(* Stop of the pool destroys the coroutines it finds in the queue, on its  *)
(* own thread and with the queue locked: the guard of one that has the     *)
(* mutex unlocks it there.                                                 *)
(***************************************************************************)
EXTENDS Naturals, Sequences, SequencesExt, FiniteSets

CONSTANTS Workers, Stopper, Coroutines, Unlocked, Locked

\* kUnlocked is also the null pointer; neither mark is the address of a Locker.  (This,
\* and that Stopper is no worker, is McAssumption in MCTasks.)
Threads == Workers \cup {Stopper}

VARIABLES head,    \* head_: a mark, or the last Locker enqueued
          tail,    \* tail_: the next Locker to get the lock, or null
          next,    \* next[c]: next_ of c's Locker
          locker,  \* locker[c]: the Locker that c, in Unlock, is about to resume
          stack,   \* stack[w]: the coroutines called on thread w, the running one last
          queue,   \* the coroutines that wait for a worker of the pool
          closing, \* the pool is open; Stop is in CloseImpl, with the queue locked; closed
          fate,    \* fate[c]: c lives; is being destroyed; waits for the queue it has locked
          pc       \* pc[c]: the access that coroutine c performs next

lock == <<head, tail, next, locker>>
pool == <<stack, queue, closing, fate>>
vars == <<lock, pool, pc>>

Init == /\ head = Unlocked
        /\ tail = Unlocked
        /\ next = [c \in Coroutines |-> Unlocked]
        /\ locker = [c \in Coroutines |-> Unlocked]
        /\ stack = [w \in Threads |-> <<>>]
        /\ queue = <<>>
        /\ closing = "no"
        /\ fate = [c \in Coroutines |-> "lives"]
        /\ pc = [c \in Coroutines |-> "none"]

Runs(w, c) == stack[w] # <<>> /\ Last(stack[w]) = c

\* c executes its own code, not the destructors of its frame.
Lives(w, c) == Runs(w, c) /\ fate[c] = "lives"

Move(c, from, to) == /\ pc[c] = from
                     /\ pc' = [pc EXCEPT ![c] = to]

\* The nodes that the pointers succ lead to from l on, up to a mark.
Follow(l, succ) ==
    LET at[i \in 0..Cardinality(Coroutines)] ==
            IF i = 0 THEN l ELSE IF at[i-1] \in Coroutines THEN succ[at[i-1]] ELSE at[i-1]
        length == Cardinality({i \in 0..Cardinality(Coroutines) : at[i] \in Coroutines})
    IN [i \in 1..length |-> at[i-1]]

Chain(l) == Follow(l, next)

\* Mutations: the list taken as it is; tail_ left at the Locker that is resumed;
\* tail_ not looked at by Unlock.
NotReversed(s)   == s
NotAdvanced(l)   == l
OnlyHead         == FALSE

\* The order in which Reverse leaves the Lockers and what it stores in the last one,
\* the pointer Unlock stores in tail_, its test of tail_.
Reversed(s)      == Reverse(s)
EndOfList        == Unlocked
Advanced(l)      == next'[l]
HasTail          == tail # Unlocked
-----------------------------------------------------------------------------
(* Coroutines outside of the mutex *)

\* The queue is locked only by Stop for longer than one step.
Put(c)    == /\ closing = "no"
             /\ queue' = Append(queue, c)
Available == closing # "in" /\ queue # <<>>

\* FireAndForget of a coroutine that teleports to the open pool first.
FireAndForget(c) == /\ Move(c, "none", "outside")
                    /\ Put(c)
                    /\ UNCHANGED <<lock, stack, closing, fate>>

\* A worker takes the oldest task: TeleportAwaiter::Run resumes the coroutine.
Take(w) == /\ stack[w] = <<>> /\ Available
           /\ stack' = [stack EXCEPT ![w] = <<Head(queue)>>]
           /\ queue' = Tail(queue)
           /\ UNCHANGED <<lock, closing, fate, pc>>

\* Mutation: the discarded task is run.
Resumed(c)   == fate
\* A discarded coroutine is destroyed, on the stack of the thread that discards it.
Destroyed(c) == [fate EXCEPT ![c] = "doomed"]

\* The coroutine is queued; a closed pool discards it on the spot; and the thread that
\* is in CloseImpl waits for the lock that it has.
Execute(w, c) == \/ /\ Put(c)
                    /\ stack' = [stack EXCEPT ![w] = Front(@)]
                    /\ UNCHANGED fate
                 \/ /\ closing = "out"
                    /\ fate' = Destroyed(c)
                    /\ UNCHANGED <<stack, queue>>
                 \/ /\ closing = "in" /\ w = Stopper
                    /\ fate' = [fate EXCEPT ![c] = "stuck"]
                    /\ UNCHANGED <<stack, queue>>

\* TeleportTo, or Yield, in a coroutine's own code: also with the mutex locked.
TeleportTo(w, c) == /\ Lives(w, c) /\ pc[c] \in {"outside", "critical"}
                    /\ Execute(w, c)
                    /\ UNCHANGED <<lock, closing, pc>>

\* The coroutine's frame is destroyed, at the end of its code or after its locals.
End(w, c) == /\ Runs(w, c) /\ fate[c] # "stuck" /\ Move(c, "outside", "none")
             /\ stack' = [stack EXCEPT ![w] = Front(@)]
             /\ fate' = [fate EXCEPT ![c] = "lives"]
             /\ UNCHANGED <<lock, queue, closing>>
-----------------------------------------------------------------------------
(* Stop of the pool, up to the end of CloseImpl *)

Close == /\ closing = "no" /\ closing' = "in"
         /\ UNCHANGED <<lock, stack, queue, fate, pc>>

Discard == /\ closing = "in" /\ stack[Stopper] = <<>> /\ queue # <<>>
           /\ stack' = [stack EXCEPT ![Stopper] = <<Head(queue)>>]
           /\ queue' = Tail(queue)
           /\ fate' = Destroyed(Head(queue))
           /\ UNCHANGED <<lock, closing, pc>>

Closed == /\ closing = "in" /\ stack[Stopper] = <<>> /\ queue = <<>>
          /\ closing' = "out"
          /\ UNCHANGED <<lock, stack, queue, fate, pc>>

CloseImpl == Discard \/ Closed
-----------------------------------------------------------------------------
(* ScopedLock: TryLock in await_ready, TryLockOrEnqueue in await_suspend *)

TryLock(w, c) == /\ Lives(w, c)
                 /\ \/ /\ head = Unlocked /\ head' = Locked
                       /\ Move(c, "outside", "critical")
                       /\ next' = [next EXCEPT ![c] = Unlocked]
                    \/ /\ head # Unlocked /\ UNCHANGED head
                       /\ Move(c, "outside", "enqueue")
                       /\ next' = [next EXCEPT ![c] = head]
                 /\ UNCHANGED <<tail, locker, pool>>

\* One round of the loop.  The weak compare-and-swap may fail in either branch,
\* and reads head_ into next_ when it does.
TryLockOrEnqueue(w, c) ==
    /\ Runs(w, c)
    /\ \/ /\ next[c] = Unlocked /\ head = Unlocked /\ head' = Locked
          /\ Move(c, "enqueue", "critical")
          /\ UNCHANGED <<next, stack>>
       \/ /\ next[c] # Unlocked /\ head = next[c] /\ head' = c
          /\ Move(c, "enqueue", "parked")
          /\ stack' = [stack EXCEPT ![w] = Front(@)]
          /\ UNCHANGED next
       \/ /\ pc[c] = "enqueue"
          /\ next' = [next EXCEPT ![c] = head]
          /\ UNCHANGED <<head, stack, pc>>
    /\ UNCHANGED <<tail, locker, queue, closing, fate>>

\* await_ready suspends the coroutine only when the mutex was locked; await_suspend
\* resumes it at once when it gets the mutex after all; the guard is constructed last.
ScopedLock(w, c) == TryLock(w, c) \/ TryLockOrEnqueue(w, c)
-----------------------------------------------------------------------------
(* Unlock *)

\* The first Locker of tail_ is next, or the compare-and-swap of head_ decides.
TakeTail(w, c) == /\ Runs(w, c) /\ fate[c] # "stuck" /\ HasTail
                  /\ Move(c, "critical", "resume")
                  /\ locker' = [locker EXCEPT ![c] = tail]
                  /\ UNCHANGED <<head, next, pool>>
                  /\ tail' = Advanced(tail)

Release(w, c) == /\ Runs(w, c) /\ fate[c] # "stuck" /\ ~HasTail
                 /\ \/ /\ head = Locked /\ head' = Unlocked
                       /\ Move(c, "critical", "outside")
                    \/ /\ head # Locked /\ UNCHANGED head
                       /\ Move(c, "critical", "exchange")
                 /\ UNCHANGED <<tail, next, locker, pool>>

\* The exchange of head_, and Reverse: the list is c's own from here on.
Exchange(w, c) ==
    LET list == Reversed(Chain(head))
    IN /\ Runs(w, c)
       /\ Move(c, "exchange", "resume")
       /\ head' = Locked
       /\ next' = [n \in Coroutines |->
                      IF \E i \in DOMAIN list : list[i] = n
                      THEN LET i == CHOOSE i \in DOMAIN list : list[i] = n
                           IN IF i = Len(list) THEN EndOfList ELSE list[i+1]
                      ELSE next[n]]
       /\ locker' = [locker EXCEPT ![c] = list[1]]
       /\ tail' = Advanced(list[1])
       /\ UNCHANGED pool

\* handle_.resume(): the waiter goes on, with the mutex, on c's stack.
Resume(w, c) == /\ Runs(w, c) /\ pc[c] = "resume"
                /\ pc' = [pc EXCEPT ![c] = "outside", ![locker[c]] = "critical"]
                /\ stack' = [stack EXCEPT ![w] = Append(@, locker[c])]
                /\ locker' = [locker EXCEPT ![c] = Unlocked]
                /\ UNCHANGED <<head, tail, next, queue, closing, fate>>

Unlock(w, c) == TakeTail(w, c) \/ Release(w, c) \/ Exchange(w, c) \/ Resume(w, c)

Step(w, c) == \/ TeleportTo(w, c) \/ End(w, c)
              \/ ScopedLock(w, c) \/ Unlock(w, c)

Next == \/ \E c \in Coroutines : FireAndForget(c)
        \/ \E w \in Workers : Take(w)
        \/ \E w \in Threads, c \in Coroutines : Step(w, c)
        \/ Close \/ CloseImpl

Spec == Init /\ [][Next]_vars
-----------------------------------------------------------------------------
TypeOK == /\ head \in Coroutines \cup {Unlocked, Locked}
          /\ tail \in Coroutines \cup {Unlocked}
          /\ next \in [Coroutines -> Coroutines \cup {Unlocked, Locked}]
          /\ locker \in [Coroutines -> Coroutines \cup {Unlocked}]
          /\ stack \in [Threads -> Seq(Coroutines)]
          /\ queue \in Seq(Coroutines)
          /\ closing \in {"no", "in", "out"}
          /\ fate \in [Coroutines -> {"lives", "doomed", "stuck"}]
          /\ pc \in [Coroutines -> {"none", "outside", "enqueue", "parked", "critical",
                                    "exchange", "resume"}]

\* The waiters in the order in which they get the lock.
Waiters == Chain(tail) \o Reverse(Chain(head))

\* A coroutine is in one place: not started, queued in the pool, on one stack, or
\* in the mutex, where it is about to be resumed by one Unlock or is in one of the
\* two lists, once.  So no waiter is lost, none is resumed twice, and no Locker is
\* reached after its coroutine has gone on.
Times(s, c) == Cardinality({i \in DOMAIN s : s[i] = c})
Places(c) == /\ Cardinality({w \in Threads : Contains(stack[w], c)})
                 = IF pc[c] \in {"none", "parked"} \/ Contains(queue, c) THEN 0 ELSE 1
             /\ \A w \in Threads : Times(stack[w], c) <= 1
             /\ Times(queue, c) = 0 \/ (Times(queue, c) = 1 /\ pc[c] \in {"outside", "critical"})
             /\ Times(Waiters, c) + Cardinality({d \in Coroutines : locker[d] = c})
                 = IF pc[c] = "parked" THEN 1 ELSE 0
InOnePlace == \A c \in Coroutines : Places(c)

\* The same, with the types: marks and Lockers are not confused.
CoroutinesInPlace == TypeOK /\ InOnePlace

\* Whose lock it is: the coroutine in its critical section or in Unlock, until it
\* gives the lock away; the waiter it is about to resume comes next in line.
Owners == {c \in Coroutines : pc[c] \in {"critical", "exchange"}}
Heirs  == {locker[c] : c \in Coroutines} \ {Unlocked}

line    == SetToSeq(Owners) \o SetToSeq(Heirs) \o Waiters
entered == Owners # {}

FL == INSTANCE AbstractFifoLock WITH Threads <- Coroutines

\* The mutex is exclusive and first-come first-served, across the two lists and the
\* reversal between them, and nobody overtakes a waiter that Unlock hands it to.
ImplementsFifoLock == FL!Spec

\* Stop waits for the queue's lock, which it has itself.
Stuck == \E c \in Coroutines : fate[c] = "stuck"

\* A coroutine that has enqueued itself gets the mutex, also while Stop destroys
\* those before it, unless Stop deadlocks: it is not parked for ever.
NoStarvation == \A c \in Coroutines : []<>(pc[c] # "parked" \/ Stuck)

\* Stop stops the workers, and for that it gets to the end of the queue.
StopAlwaysReturns == (closing = "in") ~> (closing = "out")

\* It does so unless it deadlocks.  It can only deadlock in a coroutine that the
\* destruction of another one has resumed: one that was discarded with the mutex locked.
StopReturns == /\ [](Stuck => fate[Head(stack[Stopper])] = "doomed")
               /\ []<>(closing # "in" \/ Stuck)
=============================================================================
