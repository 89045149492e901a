--------------------------- MODULE TaskWaitGroup ---------------------------
(***************************************************************************)
(* exe::tasks::WaitGroup and the OneShotEvent it is made of                *)
(* (stackless/gorroutines/exe/tasks/sync/) for the coroutines and the pool *)
(* of TaskMutex.  Fire resumes the awaiters one after the other, as nested *)
(* calls on its own stack.  A OneShotAwaiter is named by the coroutine     *)
(* whose frame it is in and is gone as soon as that coroutine goes on.     *)
(* Add has been called for every coroutine that owes a Done, of which      *)
(* there is at least one; the event is not used again after it has fired.  *)
(* Stop of the pool may destroy coroutines that owe a Done.                *)
(***************************************************************************)
EXTENDS TaskMutex

\* The primitives that behaviours use: "mutex", "waitgroup".
CONSTANT Uses

VARIABLES uses,    \* the one that this behaviour uses
          count,   \* count_
          owes,    \* the coroutines that have not called Done yet
          last,    \* tail_ of the event: the last awaiter, null, or kAwaiter
          link,    \* link[c]: next_ of c's awaiter
          awaiter  \* awaiter[c]: the awaiter that c, in Fire, resumes next

groupVars == <<count, owes, last, link, awaiter>>
allVars == <<vars, uses, groupVars>>

\* kAwaiter, and the null pointer.
Fired == Locked
Null  == Unlocked

GroupInit == /\ Init
             /\ uses \in Uses
             /\ owes \in IF uses = "waitgroup" THEN SUBSET Coroutines \ {{}} ELSE {{}}
             /\ count = Cardinality(owes)
             /\ last = Null
             /\ link = [c \in Coroutines |-> Null]
             /\ awaiter = [c \in Coroutines |-> Null]

\* Mutations: kAwaiter not looked at; tail_ loaded, not exchanged.
NeverFired(n)  == FALSE
NotExchanged   == last

\* The test of CheckFire and Enqueue, that of Done on what fetch_sub returns, and what
\* Fire leaves in tail_.
HasFired(n)    == n = Fired
IsLastDone(n)  == n = 1
AfterExchange  == Fired
-----------------------------------------------------------------------------
(* Wait: CheckFire in await_ready, Enqueue in await_suspend.  A coroutine that owes
   a Done calls it before it waits. *)

CheckFire(w, c) == /\ Lives(w, c) /\ c \notin owes
                   /\ Move(c, "outside", IF HasFired(last) THEN "outside" ELSE "await")
                   /\ link' = [link EXCEPT ![c] = last]
                   /\ UNCHANGED <<lock, pool, count, owes, last, awaiter>>

\* One round of the loop.  The weak compare-and-swap may fail for no reason; a failure
\* reads tail_ into next_.
Enqueue(w, c) == /\ Lives(w, c)
                 /\ \/ /\ last = link[c] /\ last' = c
                       /\ Move(c, "await", "waiting")
                       /\ stack' = [stack EXCEPT ![w] = Front(@)]
                       /\ UNCHANGED link
                    \/ /\ Move(c, "await", IF HasFired(last) THEN "outside" ELSE "await")
                       /\ link' = [link EXCEPT ![c] = last]
                       /\ UNCHANGED <<last, stack>>
                 /\ UNCHANGED <<lock, queue, closing, fate, count, owes, awaiter>>

\* The coroutine goes on without suspension when either of them has seen the event fired.
Wait(w, c) == CheckFire(w, c) \/ Enqueue(w, c)
-----------------------------------------------------------------------------
(* Done, and Fire by the last one *)

Done(w, c) == /\ Lives(w, c) /\ c \in owes
              /\ Move(c, "outside", IF IsLastDone(count) THEN "fire" ELSE "outside")
              /\ count' = count - 1
              /\ owes' = owes \ {c}
              /\ UNCHANGED <<lock, pool, last, link, awaiter>>

Exchanged(w, c) == /\ Lives(w, c) /\ Move(c, "fire", "firing")
                   /\ awaiter' = [awaiter EXCEPT ![c] = last]
                   /\ last' = AfterExchange
                   /\ UNCHANGED <<lock, pool, count, owes, link>>

\* next_ is read before the call of resume(), which ends the awaiter's life.
ResumeAwaiter(w, c) ==
    /\ Lives(w, c) /\ pc[c] = "firing"
    /\ IF awaiter[c] = Null
       THEN /\ pc' = [pc EXCEPT ![c] = "outside"]
            /\ UNCHANGED <<stack, awaiter>>
       ELSE /\ pc' = [pc EXCEPT ![awaiter[c]] = "outside"]
            /\ stack' = [stack EXCEPT ![w] = Append(@, awaiter[c])]
            /\ awaiter' = [awaiter EXCEPT ![c] = link[awaiter[c]]]
    /\ UNCHANGED <<lock, queue, closing, fate, count, owes, last, link>>

Fire(w, c) == Exchanged(w, c) \/ ResumeAwaiter(w, c)

\* What a coroutine does with the pool; it ends after it has done its work, unless it
\* is destroyed: its frame has no guard that would call Done.
PoolStep(w, c) == /\ \/ TeleportTo(w, c)
                     \/ (c \in owes => fate[c] = "doomed") /\ End(w, c)
                  /\ UNCHANGED groupVars

GroupStep(w, c) == \/ Wait(w, c)
                   \/ Done(w, c) \/ Fire(w, c) \/ PoolStep(w, c)

\* The steps of the code that runs on thread w.
Steps(w) == \/ /\ uses = "mutex"
               /\ \E c \in Coroutines : Step(w, c)
               /\ UNCHANGED <<uses, groupVars>>
            \/ /\ uses = "waitgroup"
               /\ \E c \in Coroutines : GroupStep(w, c)
               /\ UNCHANGED uses

OfPool(A) == A /\ UNCHANGED <<uses, groupVars>>

GroupNext == \/ \E c \in Coroutines : OfPool(FireAndForget(c))
             \/ \E w \in Workers : OfPool(Take(w))
             \/ \E w \in Threads : Steps(w)
             \/ OfPool(Close) \/ OfPool(CloseImpl)

\* What c does in the end, however often it does other things before: Unlock with the
\* mutex locked, Done if it owes one; and outside of the mutex, end or teleport.
Works(c)  == \E w \in Threads :
                \/ uses = "mutex" /\ OfPool(Unlock(w, c))
                \/ uses = "waitgroup" /\ Done(w, c) /\ UNCHANGED uses
Leaves(c) == \E w \in Threads :
                /\ uses = "mutex" /\ pc[c] = "outside"
                /\ OfPool(End(w, c) \/ TeleportTo(w, c))

\* The threads are scheduled, workers take what is queued and Stop goes on; coroutines
\* that owe a Done are started.  A spurious failure that reads what next_ holds already
\* is a stuttering step: the compare-and-swap does not fail for ever without a reason.
Fairness ==
    /\ WF_allVars(OfPool(CloseImpl))
    /\ \A w \in Workers : WF_allVars(OfPool(Take(w)))
    /\ \A w \in Threads : WF_allVars(Steps(w))
    /\ \A c \in Coroutines : SF_allVars(Works(c)) /\ SF_allVars(Leaves(c))
    /\ WF_allVars(\E c \in owes : OfPool(FireAndForget(c)))

FairSpec == GroupInit /\ [][GroupNext]_allVars /\ Fairness
-----------------------------------------------------------------------------
\* The awaiters that next_ leads to from a on.
Awaiters(a) == Follow(a, link)

\* A coroutine that waits is in the event's list or in that of the one Fire, once, and
\* in no other place; one that does not is in no list, in the queue or on one stack, or
\* has not been started.  The event has fired only if every Done has been called.
AwaitersInPlace ==
    /\ last = Fired => owes = {}
    /\ \A c \in Coroutines :
          LET listed == Times(Awaiters(last), c)
                          + Cardinality({d \in Coroutines : Contains(Awaiters(awaiter[d]), c)})
              placed == Times(queue, c)
                          + Cardinality({w \in Threads : Contains(stack[w], c)})
          IN /\ listed = IF pc[c] = "waiting" THEN 1 ELSE 0
             /\ placed = IF pc[c] \in {"none", "waiting"} THEN 0 ELSE 1

\* Neither primitive loses a coroutine that waits or resumes one twice.
TasksInPlace == IF uses = "mutex" THEN CoroutinesInPlace ELSE AwaitersInPlace

\* A coroutine that owes a Done has been destroyed, or is when it is started: the pool
\* is closed.
DoneIsLost == closing = "out" /\ \E d \in owes : pc[d] = "none"

\* A coroutine that waits for the group, before or after the last Done or during Fire,
\* goes on, unless Stop has destroyed one that owes a Done: the count does not become
\* zero then.
WaitReturns == \A c \in Coroutines : []<>(pc[c] # "waiting" \/ DoneIsLost)
=============================================================================
