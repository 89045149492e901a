------------------------- MODULE FiberRuntimeProofs -------------------------
(***************************************************************************)
(* FiberRuntime for any finite sets of fibers and threads, in each of its  *)
(* three copies: a live fiber is in exactly one place, a stack is used by  *)
(* one fiber or is in the pool once, and an idle pool has no fiber left.   *)
(***************************************************************************)
EXTENDS FiberRuntime, SequenceTheorems, FiniteSetTheorems, TLAPS

\* The runtime in any of its copies, or without fibers.
Kinds == {"coroutine", "mutex", "sleep_for", "none"}
Spec  == (\E k \in Kinds : InitAs(k)) /\ [][Next]_vars

\* The assumptions on the constants; MCFibers, which instantiates the module, has them.
Finite == /\ IsFiniteSet(Fibers) /\ IsFiniteSet(Workers)
          /\ Roots \subseteq Fibers /\ NoFiber \notin Fibers \cup Workers

\* Where a thread is: in an Execution of a fiber, in the construction of another one, in
\* the deletion of the one that has ended.
Creating == {"allocate", "take", "pop", "submit"}
Deleting == {"release", "push"}
Holding  == InCode \cup {"back"} \cup Deleting

Lives == {"none", "created", "live", "completed", "thrown", "deleted", "lost"}
Handlers == {"step", "arm"} \X Fibers

TypeOK == /\ kind \in Kinds
          /\ life \in [Fibers -> Lives]
          /\ stack \in [Fibers -> Nat]
          /\ made \in Nat /\ free \in Seq(Nat) /\ spin \in Workers \cup {NoFiber}
          /\ tasks \in Seq(Handlers) /\ timers \subseteq Fibers
          /\ deferred \in [Workers -> {<<>>} \cup {<<h>> : h \in Handlers}]
          /\ open \in BOOLEAN /\ pending \in Nat
          /\ running \in [Workers -> Fibers \cup {NoFiber}]
          /\ on \in [Workers -> Fibers \cup {NoFiber}]
          /\ creates \in [Workers -> Fibers \cup {NoFiber}]
          /\ at \in [Workers -> Holding \cup {"idle", "after"}]

\* What a thread's place says about the fiber it runs, and the one it constructs.
Threaded ==
    /\ \A w \in Workers :
          /\ at[w] \in Holding => on[w] # NoFiber
          /\ at[w] \in InCode => running[w] = on[w] /\ life[on[w]] = "live"
          /\ at[w] = "back" => life[on[w]] \in {"live", "completed", "thrown"}
          /\ at[w] \in Deleting => life[on[w]] = "completed"
          /\ at[w] = "back" => running[w] = on[w]
          /\ at[w] = "idle" => on[w] = NoFiber
          /\ at[w] \in Creating => creates[w] # NoFiber /\ life[creates[w]] = "created"
          /\ at[w] \notin Creating => creates[w] = NoFiber
          /\ spin = w <=> at[w] \in {"take", "pop", "push"}
    /\ \A v, w \in Workers : on[v] = on[w] /\ at[v] \in Holding /\ at[w] \in Holding => v = w
    /\ \A v, w \in Workers : creates[v] = creates[w] /\ creates[v] # NoFiber => v = w

\* The places of a live fiber.
Held(f)     == \E w \in Workers : on[w] = f /\ at[w] \in Holding
Submitted(f) == \E i \in DOMAIN tasks : tasks[i][2] = f
Deferred(f) == \E w \in Workers : on[w] = f /\ at[w] = "after" /\ deferred[w] # <<>>

\* No fiber is queued twice, and nothing but a Step outside of sleep_for.
Distinct  == \A i, j \in DOMAIN tasks : tasks[i][2] = tasks[j][2] => i = j
OnlySteps == \A i \in DOMAIN tasks : tasks[i][1] = "step"
Queue     == Distinct /\ (kind # "sleep_for" => OnlySteps /\ timers = {})

Placed ==
    /\ \A f \in Fibers : Submitted(f) \/ f \in timers \/ Deferred(f) => life[f] = "live"
    /\ \A f \in Fibers : life[f] = "live" => Held(f) \/ Submitted(f) \/ f \in timers \/ Deferred(f)
    /\ \A f \in Fibers : life[f] = "completed" => Held(f)
    /\ \A f \in Fibers : life[f] = "created" => \E w \in Workers : creates[w] = f
    /\ \A f \in timers : ~Held(f) /\ ~Submitted(f) /\ ~Deferred(f)
    /\ \A f \in Fibers : Submitted(f) => ~Held(f) /\ ~Deferred(f)
    /\ \A f \in Fibers : Deferred(f) => ~Held(f)

\* Deferred handlers are those of the fiber that is about to leave the thread.
DeferredOwn ==
    /\ \A w \in Workers : deferred[w] # <<>> =>
          /\ kind = "sleep_for" /\ at[w] \in {"back", "after"}
          /\ on[w] # NoFiber /\ life[on[w]] = "live" /\ deferred[w][1][2] = on[w]
    /\ \A w \in Workers : kind = "sleep_for" /\ at[w] = "back" /\ life[on[w]] = "live"
                             => deferred[w] # <<>>
    /\ \A v, w \in Workers : deferred[v] # <<>> /\ deferred[w] # <<>> /\ on[v] = on[w] => v = w

\* A stack has one owner: a fiber that is not deleted, or the pool; between the two
\* steps of TryTakeFromPool, under the spinlock, both.
Popping(f) == \E w \in Workers : at[w] = "pop" /\ creates[w] = f
StacksOwned ==
    /\ \A f \in Fibers : stack[f] <= made
    /\ \A f \in Fibers : stack[f] # 0 <=> /\ life[f] # "none"
                                          /\ ~ \E w \in Workers : /\ creates[w] = f
                                                                  /\ at[w] \in {"allocate", "take"}
    /\ \A f, g \in Fibers :
          life[f] # "deleted" /\ life[g] # "deleted" /\ stack[f] = stack[g] /\ stack[f] # 0 => f = g
    /\ \A i \in DOMAIN free : free[i] \in 1..made
    /\ IsInjective(free)
    /\ \A i \in DOMAIN free, f \in Fibers :
          life[f] # "deleted" /\ stack[f] = free[i] => i = Len(free) /\ Popping(f)
    /\ \A w \in Workers : at[w] = "pop" => free # <<>> /\ stack[creates[w]] = Last(free)
    /\ \A s \in 1..made : \/ \E i \in DOMAIN free : free[i] = s
                          \/ \E f \in Fibers : life[f] # "deleted" /\ stack[f] = s

\* The pool's count includes what is queued and what threads run.
Active == {w \in Workers : at[w] # "idle"}
Counts == /\ kind # "sleep_for" => pending >= Len(tasks) + Cardinality(Active)
          /\ \A f \in Fibers : life[f] = "lost" => ~open

IInv == TypeOK /\ Threaded /\ Queue /\ Placed /\ DeferredOwn /\ StacksOwned /\ Counts

-----------------------------------------------------------------------------
(* What the actions do to the queue and to the threads *)

LEMMA SeqFacts ==
    ASSUME NEW S, NEW s \in Seq(S)
    PROVE  Len(s) \in Nat /\ s \in [1..Len(s) -> S] /\ (s = <<>> <=> Len(s) = 0)
BY LenProperties, EmptySeq

LEMMA TasksAppend ==
    ASSUME TypeOK, NEW h \in Handlers, tasks' = Append(tasks, h)
    PROVE  /\ tasks' \in Seq(Handlers) /\ Len(tasks') = Len(tasks) + 1
           /\ \A f \in Fibers : Submitted(f)' <=> Submitted(f) \/ f = h[2]
           /\ Distinct /\ ~Submitted(h[2]) => Distinct'
           /\ OnlySteps /\ h[1] = "step" => OnlySteps'
<1>1. tasks \in Seq(Handlers) /\ Len(tasks) \in Nat /\ DOMAIN tasks = 1..Len(tasks)
  BY SeqFacts DEF TypeOK
<1>2. /\ tasks' \in Seq(Handlers) /\ Len(tasks') = Len(tasks) + 1
      /\ \A i \in 1..Len(tasks) : tasks'[i] = tasks[i]
      /\ tasks'[Len(tasks) + 1] = h
  BY <1>1, AppendProperties
<1>3. DOMAIN tasks' = 1..Len(tasks) + 1
  BY <1>2, SeqFacts
<1>4. /\ \A i \in 1..Len(tasks) + 1 : i \in 1..Len(tasks) \/ i = Len(tasks) + 1
      /\ \A i \in 1..Len(tasks) : i \in 1..Len(tasks) + 1
      /\ Len(tasks) + 1 \in 1..Len(tasks) + 1
  BY <1>1
<1>5. \A f \in Fibers : Submitted(f)' <=> Submitted(f) \/ f = h[2]
  BY <1>1, <1>2, <1>3, <1>4 DEF Submitted
<1>6. Distinct /\ ~Submitted(h[2]) => Distinct'
  BY <1>1, <1>2, <1>3, <1>4 DEF Submitted, Distinct
<1>7. OnlySteps /\ h[1] = "step" => OnlySteps'
  BY <1>1, <1>2, <1>3, <1>4 DEF OnlySteps
<1>. QED  BY <1>2, <1>5, <1>6, <1>7

LEMMA TasksTail ==
    ASSUME TypeOK, Distinct, tasks # <<>>, tasks' = Tail(tasks)
    PROVE  /\ tasks' \in Seq(Handlers) /\ Len(tasks') = Len(tasks) - 1
           /\ Head(tasks) \in Handlers /\ Head(tasks)[2] \in Fibers /\ Submitted(Head(tasks)[2])
           /\ \A f \in Fibers : Submitted(f)' <=> Submitted(f) /\ f # Head(tasks)[2]
           /\ Distinct' /\ (OnlySteps => OnlySteps' /\ Head(tasks)[1] = "step")
<1>1. /\ tasks \in Seq(Handlers) /\ Len(tasks) \in Nat /\ Len(tasks) # 0
      /\ DOMAIN tasks = 1..Len(tasks) /\ \A i \in 1..Len(tasks) : tasks[i] \in Handlers
  BY SeqFacts DEF TypeOK
<1>2. /\ tasks' \in Seq(Handlers) /\ Len(tasks') = Len(tasks) - 1 /\ Head(tasks) = tasks[1]
      /\ \A i \in 1..Len(tasks) - 1 : tasks'[i] = tasks[i+1]
  BY <1>1, HeadTailProperties
<1>3. DOMAIN tasks' = 1..Len(tasks) - 1
  BY <1>2, SeqFacts
<1>4. /\ \A i \in 1..Len(tasks) : i = 1 \/ (i - 1 \in 1..Len(tasks) - 1 /\ (i - 1) + 1 = i)
      /\ \A i \in 1..Len(tasks) - 1 : i + 1 \in 1..Len(tasks) /\ i + 1 # 1
      /\ \A i, j \in 1..Len(tasks) - 1 : i + 1 = j + 1 => i = j
      /\ 1 \in 1..Len(tasks)
  BY <1>1
<1>5. Head(tasks) \in Handlers /\ Head(tasks)[2] \in Fibers /\ Submitted(Head(tasks)[2])
  BY <1>1, <1>2, <1>4 DEF Handlers, Submitted
<1>6. \A f \in Fibers : Submitted(f)' => Submitted(f) /\ f # Head(tasks)[2]
  BY <1>1, <1>2, <1>3, <1>4 DEF Submitted, Distinct
<1>7. ASSUME NEW f \in Fibers, Submitted(f), f # Head(tasks)[2] PROVE Submitted(f)'
  <2>1. PICK i \in 1..Len(tasks) : tasks[i][2] = f
    BY <1>1, <1>7 DEF Submitted
  <2>2. i - 1 \in 1..Len(tasks) - 1 /\ (i - 1) + 1 = i
    BY <1>2, <1>4, <1>7, <2>1
  <2>. QED  BY <1>2, <1>3, <2>1, <2>2 DEF Submitted
<1>8. Distinct'
  BY <1>1, <1>2, <1>3, <1>4 DEF Distinct
<1>9. OnlySteps => OnlySteps' /\ Head(tasks)[1] = "step"
  BY <1>1, <1>2, <1>3, <1>4 DEF OnlySteps
<1>. QED  BY <1>2, <1>5, <1>6, <1>7, <1>8, <1>9

\* A thread moves, the others stay where they are.
Moves(w, to) == /\ at'[w] = to /\ kind' = kind
                /\ \A v \in Workers : v # w => at'[v] = at[v]
                /\ at' \in [Workers -> Holding \cup {"idle", "after"}]

LEMMA MoveFacts ==
    ASSUME TypeOK, NEW w \in Workers, NEW from, NEW to \in Holding \cup {"idle", "after"},
           Move(w, from, to)
    PROVE  at[w] = from /\ Moves(w, to)
BY DEF Move, Moves, TypeOK

LEMMA ActiveStep ==
    ASSUME Finite, NEW w \in Workers, NEW to, Moves(w, to)
    PROVE  /\ Cardinality(Active) \in Nat /\ Cardinality(Active') \in Nat
           /\ at[w] = "idle" /\ to # "idle" => Cardinality(Active') = Cardinality(Active) + 1
           /\ at[w] # "idle" /\ to = "idle" => Cardinality(Active') = Cardinality(Active) - 1
           /\ at[w] # "idle" => Cardinality(Active) # 0
           /\ (at[w] = "idle" <=> to = "idle") => Active' = Active
<1>1. IsFiniteSet(Active) /\ IsFiniteSet(Active')
  BY FS_Subset DEF Finite, Active
<1>2. Cardinality(Active) \in Nat /\ Cardinality(Active') \in Nat
  BY <1>1, FS_CardinalityType
<1>3. at[w] = "idle" /\ to # "idle" => w \notin Active /\ Active' = Active \cup {w}
  BY DEF Active, Moves
<1>4. at[w] # "idle" /\ to = "idle" => w \in Active /\ Active' = Active \ {w}
  BY DEF Active, Moves
<1>5. at[w] # "idle" => Cardinality(Active) # 0
  BY <1>1, FS_EmptySet DEF Active
<1>6. (at[w] = "idle" <=> to = "idle") => Active' = Active
  BY DEF Active, Moves
<1>7. w \notin Active /\ Active' = Active \cup {w} => Cardinality(Active') = Cardinality(Active) + 1
  BY <1>1, FS_AddElement
<1>8. w \in Active /\ Active' = Active \ {w} => Cardinality(Active') = Cardinality(Active) - 1
  BY <1>1, FS_RemoveElement
<1>. QED  BY <1>2, <1>3, <1>4, <1>5, <1>6, <1>7, <1>8

\* A step of a thread that goes on with what it does, and touches no fiber's place.
LEMMA HoldingMove ==
    ASSUME Finite, IInv, NEW w \in Workers, NEW to \in Holding, at[w] \in Holding, Moves(w, to),
           UNCHANGED <<life, tasks, timers, deferred, on, creates, pending, open>>
    PROVE  Queue' /\ Placed' /\ Counts'
<1>1. \A f \in Fibers : (Held(f)' <=> Held(f)) /\ (Deferred(f)' <=> Deferred(f))
  BY DEF Held, Deferred, Moves, Holding, InCode, Deleting
<1>2. \A f \in Fibers : Submitted(f)' <=> Submitted(f)
  BY DEF Submitted
<1>3. Placed'
  BY <1>1, <1>2 DEF IInv, Placed, TypeOK
<1>4. Queue'
  BY DEF IInv, Queue, Distinct, OnlySteps, Moves
<1>5. to # "idle" /\ at[w] # "idle"
  BY DEF Holding, InCode, Deleting
<1>6. Active' = Active
  BY <1>5, ActiveStep
<1>7. Counts'
  BY <1>6 DEF IInv, Counts, Moves
<1>. QED  BY <1>3, <1>4, <1>7

\* A step that leaves the allocator and the stacks alone.
LEMMA StacksKept ==
    ASSUME IInv, UNCHANGED <<stack, made, free>>,
           \A f \in Fibers : /\ life'[f] = "none" <=> life[f] = "none"
                             /\ life'[f] = "deleted" <=> life[f] = "deleted",
           \A w \in Workers :
              /\ at'[w] \in {"allocate", "take"} <=> at[w] \in {"allocate", "take"}
              /\ at'[w] = "pop" <=> at[w] = "pop"
              /\ at[w] \in {"allocate", "take", "pop"} => creates'[w] = creates[w]
    PROVE  StacksOwned'
<1>1. \A f \in Fibers : Popping(f)' <=> Popping(f)
  BY DEF Popping
<1>2. \A f \in Fibers : (\E w \in Workers : creates'[w] = f /\ at'[w] \in {"allocate", "take"})
                    <=> (\E w \in Workers : creates[w] = f /\ at[w] \in {"allocate", "take"})
  OBVIOUS
<1>. QED  BY <1>1, <1>2 DEF IInv, StacksOwned

LEMMA YieldKeeps == ASSUME Finite, IInv, NEW w \in Workers, Yield(w) \/ Suspend(w) PROVE IInv'
<1>1. at[w] = "fiber" /\ Moves(w, "back") /\ kind # "sleep_for"
  BY MoveFacts DEF Yield, Suspend, Holding, IInv
<1>2. UNCHANGED <<pool, fibers, stacks, queues, threads>>
  BY DEF Yield, Suspend
<1>. USE DEF pool, fibers, stacks, queues, threads
<1>3. TypeOK'
  BY <1>1, <1>2 DEF IInv, TypeOK, Moves
<1>4. Threaded'
  BY <1>1, <1>2 DEF IInv, Threaded, Moves, Holding, InCode, Creating, Deleting
<1>5. Queue' /\ Placed' /\ Counts'
  BY <1>1, <1>2, HoldingMove DEF Holding, InCode
<1>6. DeferredOwn'
  BY <1>1, <1>2 DEF IInv, DeferredOwn, Moves
<1>7. StacksOwned'
  BY <1>1, <1>2, StacksKept DEF Moves
<1>. QED  BY <1>3, <1>4, <1>5, <1>6, <1>7 DEF IInv

LEMMA DeleteKeeps == ASSUME Finite, IInv, NEW w \in Workers, Delete(w) PROVE IInv'
<1>1. at[w] = "back" /\ Moves(w, "release") /\ life[on[w]] = "completed"
  BY MoveFacts DEF Delete, Holding, Deleting, IInv
<1>2. UNCHANGED <<pool, fibers, stacks, queues, threads>>
  BY DEF Delete
<1>. USE DEF pool, fibers, stacks, queues, threads
<1>3. TypeOK'
  BY <1>1, <1>2 DEF IInv, TypeOK, Moves
<1>4. Threaded'
  BY <1>1, <1>2 DEF IInv, Threaded, Moves, Holding, InCode, Creating, Deleting
<1>5. Queue' /\ Placed' /\ Counts'
  BY <1>1, <1>2, HoldingMove DEF Holding, InCode, Deleting
<1>6. DeferredOwn'
  BY <1>1, <1>2 DEF IInv, DeferredOwn, Moves
<1>7. StacksOwned'
  BY <1>1, <1>2, StacksKept DEF Moves
<1>. QED  BY <1>3, <1>4, <1>5, <1>6, <1>7 DEF IInv

LEMMA LockKeeps == ASSUME Finite, IInv, NEW w \in Workers, Lock(w) PROVE IInv'
<1>1. \/ at[w] = "allocate" /\ Moves(w, "take")
      \/ at[w] = "release" /\ Moves(w, "push")
  BY MoveFacts DEF Lock, Holding, InCode, Deleting, IInv
<1>2. UNCHANGED <<pool, fibers, made, free, queues, threads>> /\ spin = NoFiber /\ spin' = w
  BY DEF Lock
<1>. USE DEF pool, fibers, stacks, queues, threads
<1>3. TypeOK'
  BY <1>1, <1>2 DEF IInv, TypeOK, Moves
<1>4. Threaded'
  <2>1. w # NoFiber
    BY DEF Finite
  <2>2. \A v \in Workers : at[v] \notin {"take", "pop", "push"}
    BY <1>2 DEF IInv, Threaded, Finite
  <2>. QED  BY <1>1, <1>2, <2>1, <2>2 DEF IInv, Threaded, Moves, Holding, InCode, Creating, Deleting
<1>5. Queue' /\ Placed' /\ Counts'
  BY <1>1, <1>2, HoldingMove DEF Holding, InCode, Deleting
<1>6. DeferredOwn'
  BY <1>1, <1>2 DEF IInv, DeferredOwn, Moves
<1>7. StacksOwned'
  BY <1>1, <1>2, StacksKept DEF Moves
<1>. QED  BY <1>3, <1>4, <1>5, <1>6, <1>7 DEF IInv

LEMMA GoKeeps == ASSUME Finite, IInv, NEW w \in Workers, Go(w) PROVE IInv'
<1>1. PICK g \in Fibers : /\ life[g] = "none" /\ life' = [life EXCEPT ![g] = "created"]
                          /\ creates' = [creates EXCEPT ![w] = g] /\ Move(w, "fiber", "allocate")
  BY DEF Go
<1>2. at[w] = "fiber" /\ Moves(w, "allocate")
  BY <1>1, MoveFacts DEF Holding, InCode, IInv
<1>3. UNCHANGED <<pool, stack, stacks, queues, running, on>>
  BY DEF Go
<1>. USE DEF pool, stacks, queues
<1>4. /\ life'[g] = "created" /\ \A f \in Fibers : f # g => life'[f] = life[f]
      /\ creates'[w] = g /\ \A v \in Workers : v # w => creates'[v] = creates[v]
      /\ g # NoFiber /\ \A v \in Workers : creates[v] # g /\ (at[v] \in Holding => on[v] # g)
  <2>1. \A v \in Workers : creates[v] # g
    BY <1>1 DEF IInv, Threaded, Finite
  <2>2. \A v \in Workers : at[v] \in Holding => on[v] # g
    BY <1>1 DEF IInv, Threaded, Holding
  <2>. QED  BY <1>1, <2>1, <2>2 DEF IInv, TypeOK, Finite
<1>5. TypeOK'
  BY <1>1, <1>2, <1>3 DEF IInv, TypeOK, Moves, Lives
<1>6. Threaded'
  <2>1. \A v \in Workers : at[v] \in Holding => on[v] \in Fibers /\ life'[on[v]] = life[on[v]]
    BY <1>4 DEF IInv, TypeOK, Threaded
  <2>2. \A v \in Workers : creates[v] # NoFiber => life'[creates[v]] = life[creates[v]]
    BY <1>4 DEF IInv, TypeOK
  <2>3. \A v \in Workers : at'[v] \in Holding <=> at[v] \in Holding
    BY <1>2 DEF Moves, Holding, InCode
  <2>4. \A u, v \in Workers : creates'[u] = creates'[v] /\ creates'[u] # NoFiber => u = v
    BY <1>4 DEF IInv, Threaded
  <2>5. \A u, v \in Workers : on'[u] = on'[v] /\ at'[u] \in Holding /\ at'[v] \in Holding => u = v
    BY <1>3, <2>3 DEF IInv, Threaded
  <2>. QED  BY <1>2, <1>3, <1>4, <2>1, <2>2, <2>4, <2>5
            DEF IInv, Threaded, Moves, Holding, InCode, Creating, Deleting
<1>7. Queue'
  BY <1>2, <1>3 DEF IInv, Queue, Distinct, OnlySteps, Moves
<1>8. Placed'
  <2>1. \A f \in Fibers : (Held(f)' <=> Held(f)) /\ (Deferred(f)' <=> Deferred(f))
    BY <1>2, <1>3 DEF Held, Deferred, Moves, Holding, InCode
  <2>2. \A f \in Fibers : Submitted(f)' <=> Submitted(f)
    BY <1>3 DEF Submitted
  <2>3. ~Submitted(g) /\ g \notin timers /\ ~Deferred(g)
    BY <1>1 DEF IInv, Placed
  <2>4. \A f \in Fibers : life'[f] = "created" => \E v \in Workers : creates'[v] = f
    <3>1. creates[w] = NoFiber
      BY <1>2 DEF IInv, Threaded, Creating
    <3>. QED  BY <1>4, <3>1 DEF IInv, Placed, Finite
  <2>. QED  BY <1>3, <1>4, <2>1, <2>2, <2>3, <2>4 DEF IInv, Placed, TypeOK
<1>9. DeferredOwn'
  BY <1>1, <1>2, <1>3, <1>4 DEF IInv, DeferredOwn, Moves, TypeOK
<1>10. StacksOwned'
  <2>1. \A f \in Fibers : Popping(f)' <=> Popping(f)
    BY <1>2, <1>4 DEF Popping, Moves
  <2>2. stack[g] = 0
    BY <1>1 DEF IInv, StacksOwned
  <2>3. \A f \in Fibers : f # g =>
           ((\E v \in Workers : creates'[v] = f /\ at'[v] \in {"allocate", "take"})
             <=> (\E v \in Workers : creates[v] = f /\ at[v] \in {"allocate", "take"}))
    BY <1>2, <1>4 DEF Moves
  <2>4. \E v \in Workers : creates'[v] = g /\ at'[v] \in {"allocate", "take"}
    BY <1>2, <1>4 DEF Moves
  <2>5. \A v \in Workers : at'[v] = "pop" <=> at[v] = "pop"
    BY <1>2 DEF Moves
  <2>6. \A v \in Workers : at[v] = "pop" => creates'[v] = creates[v]
    BY <1>2, <1>4
  <2>7. \A i \in DOMAIN free : free[i] # 0
    BY DEF IInv, StacksOwned, TypeOK
  <2>. QED  BY <1>3, <1>4, <2>1, <2>2, <2>3, <2>4, <2>5, <2>6, <2>7 DEF IInv, StacksOwned
<1>11. Counts'
  <2>1. Active' = Active
    BY <1>2, ActiveStep
  <2>. QED  BY <1>2, <1>3, <1>4, <2>1 DEF IInv, Counts, Moves
<1>. QED  BY <1>5, <1>6, <1>7, <1>8, <1>9, <1>10, <1>11 DEF IInv

LEMMA TryTakeKeeps == ASSUME Finite, IInv, NEW w \in Workers, TryTakeFromPool(w) PROVE IInv'
<1>. DEFINE g == creates[w]
<1>1. at[w] = "take" /\ Moves(w, "pop") /\ free # <<>> /\ stack' = [stack EXCEPT ![g] = Last(free)]
  BY MoveFacts DEF TryTakeFromPool, Holding, InCode, IInv
<1>2. UNCHANGED <<pool, life, stacks, queues, threads>>
  BY DEF TryTakeFromPool
<1>. USE DEF pool, stacks, queues, threads
<1>3. g \in Fibers /\ life[g] = "created" /\ \A v \in Workers : creates[v] = g => v = w
  BY <1>1 DEF IInv, Threaded, Creating, TypeOK
<1>4. /\ Len(free) \in DOMAIN free /\ Last(free) = free[Len(free)] /\ Last(free) \in 1..made
      /\ Last(free) # 0 /\ Last(free) \in Nat
  <2>1. Len(free) \in DOMAIN free
    BY <1>1, SeqFacts DEF IInv, TypeOK
  <2>. QED  BY <2>1 DEF Last, IInv, StacksOwned, TypeOK
<1>5. /\ stack'[g] = Last(free) /\ \A f \in Fibers : f # g => stack'[f] = stack[f]
  BY <1>1, <1>3 DEF IInv, TypeOK
<1>6. TypeOK'
  BY <1>1, <1>2, <1>3, <1>4 DEF IInv, TypeOK, Moves
<1>. HIDE DEF g
<1>7. Threaded'
  BY <1>1, <1>2 DEF IInv, Threaded, Moves, Holding, InCode, Creating, Deleting
<1>8. Queue' /\ Placed' /\ Counts'
  BY <1>1, <1>2, HoldingMove DEF Holding, InCode
<1>9. DeferredOwn'
  BY <1>1, <1>2 DEF IInv, DeferredOwn, Moves
<1>10. StacksOwned'
  <2>1. \A v \in Workers : v # w => at[v] \notin {"take", "pop", "push"}
    BY <1>1 DEF IInv, Threaded
  <2>2. \A f \in Fibers : ~Popping(f)
    BY <1>1, <2>1 DEF Popping
  <2>3. /\ \A f \in Fibers : f = g => Popping(f)'
        /\ \A v \in Workers : at'[v] = "pop" => v = w
    BY <1>1, <1>2, <2>1 DEF Popping, Moves, g
  <2>4. \A f \in Fibers : life[f] # "deleted" => \A i \in DOMAIN free : stack[f] # free[i]
    BY <2>2 DEF IInv, StacksOwned
  <2>5. \A f \in Fibers : f # g =>
           ((\E v \in Workers : creates'[v] = f /\ at'[v] \in {"allocate", "take"})
             <=> (\E v \in Workers : creates[v] = f /\ at[v] \in {"allocate", "take"}))
    BY <1>1, <1>2 DEF Moves, g
  <2>6. ~ \E v \in Workers : creates'[v] = g /\ at'[v] \in {"allocate", "take"}
    BY <1>1, <1>2, <1>3 DEF Moves
  <2>7. stack[g] = 0 /\ \A i \in DOMAIN free : free[i] = Last(free) => i = Len(free)
    BY <1>1, <1>3, <1>4 DEF IInv, StacksOwned, IsInjective, g
  <2>8. \A s \in 1..made : \/ \E i \in DOMAIN free' : free'[i] = s
                           \/ \E f \in Fibers : life'[f] # "deleted" /\ stack'[f] = s
    <3>1. \A s \in 1..made : s # 0
      BY DEF IInv, TypeOK
    <3>. QED  BY <1>2, <1>5, <2>7, <3>1 DEF IInv, StacksOwned
  <2>9. \A f \in Fibers : stack'[f] <= made'
    BY <1>2, <1>4, <1>5 DEF IInv, StacksOwned
  <2>10. creates'[w] = g /\ g # NoFiber
    BY <1>2, <1>3 DEF g, Finite
  <2>11. \A f, h \in Fibers : life'[f] # "deleted" /\ life'[h] # "deleted" /\ stack'[f] = stack'[h]
                                 /\ stack'[f] # 0 => f = h
    BY <1>2, <1>4, <1>5, <2>4 DEF IInv, StacksOwned
  <2>12. \A i \in DOMAIN free', f \in Fibers :
            life'[f] # "deleted" /\ stack'[f] = free'[i] => i = Len(free') /\ Popping(f)'
    BY <1>2, <1>5, <2>3, <2>4, <2>7
  <2>13. \A f \in Fibers : stack'[f] # 0 <=>
            /\ life'[f] # "none"
            /\ ~ \E v \in Workers : creates'[v] = f /\ at'[v] \in {"allocate", "take"}
    BY <1>2, <1>3, <1>4, <1>5, <2>5, <2>6 DEF IInv, StacksOwned
  <2>. QED  BY <1>1, <1>2, <1>5, <2>3, <2>8, <2>9, <2>10, <2>11, <2>12, <2>13 DEF IInv, StacksOwned
<1>. QED  BY <1>6, <1>7, <1>8, <1>9, <1>10 DEF IInv

\* The pool without its last stack.
LEMMA FrontFacts ==
    ASSUME TypeOK, free # <<>>, free' = Front(free)
    PROVE  /\ free' \in Seq(Nat) /\ DOMAIN free = 1..Len(free) /\ DOMAIN free' = 1..Len(free) - 1
           /\ Len(free) \in Nat /\ Len(free) # 0 /\ \A i \in 1..Len(free) - 1 : free'[i] = free[i]
           /\ Last(free) = free[Len(free)]
<1>1. free \in Seq(Nat) /\ Len(free) \in Nat /\ Len(free) # 0 /\ DOMAIN free = 1..Len(free)
  BY SeqFacts DEF TypeOK
<1>2. free' = SubSeq(free, 1, Len(free) - 1)
  BY DEF Front
<1>3. /\ free' \in Seq(Nat) /\ Len(free') = Len(free) - 1
      /\ \A i \in 1..Len(free) - 1 : free'[i] = free[i]
  BY <1>1, <1>2, SubSeqProperties
<1>. QED  BY <1>1, <1>3, SeqFacts DEF Last

LEMMA PopBackKeeps == ASSUME Finite, IInv, NEW w \in Workers, PopBack(w) PROVE IInv'
<1>. DEFINE g == creates[w]
<1>1. at[w] = "pop" /\ Moves(w, "submit") /\ free' = Front(free) /\ spin' = NoFiber
  BY MoveFacts DEF PopBack, Unlocked, Holding, InCode, IInv
<1>2. UNCHANGED <<pool, fibers, made, queues, threads>>
  BY DEF PopBack
<1>. USE DEF pool, fibers, queues, threads
<1>3. /\ g \in Fibers /\ life[g] = "created" /\ free # <<>> /\ stack[g] = Last(free)
      /\ spin = w /\ \A v \in Workers : v # w => at[v] \notin {"take", "pop", "push"}
  BY <1>1 DEF IInv, Threaded, Creating, TypeOK, StacksOwned
<1>. HIDE DEF g
<1>4. /\ free' \in Seq(Nat) /\ DOMAIN free = 1..Len(free) /\ DOMAIN free' = 1..Len(free) - 1
      /\ Len(free) \in Nat /\ Len(free) # 0 /\ \A i \in 1..Len(free) - 1 : free'[i] = free[i]
      /\ Last(free) = free[Len(free)]
  BY <1>1, <1>3, FrontFacts DEF IInv
<1>5. TypeOK'
  BY <1>1, <1>2, <1>4 DEF IInv, TypeOK, Moves
<1>6. Threaded'
  <2>1. \A v \in Workers : v # NoFiber
    BY DEF Finite
  <2>. QED  BY <1>1, <1>2, <1>3, <2>1 DEF IInv, Threaded, Moves, Holding, InCode, Creating, Deleting
<1>7. Queue' /\ Placed' /\ Counts'
  BY <1>1, <1>2, HoldingMove DEF Holding, InCode
<1>8. DeferredOwn'
  BY <1>1, <1>2 DEF IInv, DeferredOwn, Moves
<1>9. StacksOwned'
  <2>0. Len(free) \in Nat /\ Len(free) # 0
    BY <1>4
  <2>1. \A f \in Fibers : life[f] # "deleted" => \A i \in 1..Len(free) - 1 : stack[f] # free[i]
    <3>1. \A i \in 1..Len(free) - 1 : i \in 1..Len(free) /\ i # Len(free)
      BY <2>0
    <3>2. \A i \in 1..Len(free) - 1 : i \in DOMAIN free /\ i # Len(free)
      <4>1. DOMAIN free = 1..Len(free)
        BY <1>4
      <4>. QED  BY <3>1, <4>1
    <3>. QED  BY <3>2 DEF IInv, StacksOwned
  <2>2. \A f \in Fibers : (\E v \in Workers : creates'[v] = f /\ at'[v] \in {"allocate", "take"})
                      <=> (\E v \in Workers : creates[v] = f /\ at[v] \in {"allocate", "take"})
    BY <1>1, <1>2 DEF Moves
  <2>3. \A v \in Workers : at'[v] # "pop"
    BY <1>1, <1>3 DEF Moves
  <2>4. ASSUME NEW s \in 1..made
        PROVE  \/ \E i \in DOMAIN free' : free'[i] = s
               \/ \E f \in Fibers : life'[f] # "deleted" /\ stack'[f] = s
    <3>1. CASE \E i \in DOMAIN free : free[i] = s
      <4>1. PICK i \in 1..Len(free) : free[i] = s
        BY <1>4, <3>1
      <4>2. CASE i = Len(free)
        BY <1>2, <1>3, <1>4, <4>1, <4>2
      <4>3. CASE i # Len(free)
        <5>1. i \in 1..Len(free) - 1
          BY <2>0, <4>1, <4>3
        <5>. QED  BY <1>4, <4>1, <5>1
      <4>. QED  BY <4>2, <4>3
    <3>2. CASE \E f \in Fibers : life[f] # "deleted" /\ stack[f] = s
      BY <1>2, <3>2
    <3>. QED  BY <3>1, <3>2 DEF IInv, StacksOwned
  <2>5. (\A i \in DOMAIN free' : free'[i] \in 1..made) /\ IsInjective(free')
    <3>1. \A i \in 1..Len(free) - 1 : i \in 1..Len(free)
      BY <1>4
    <3>. QED  BY <1>4, <3>1 DEF IInv, StacksOwned, IsInjective
  <2>6. \A i \in DOMAIN free', f \in Fibers : life'[f] # "deleted" => stack'[f] # free'[i]
    BY <1>2, <1>4, <2>1
  <2>7. /\ \A f \in Fibers : stack'[f] <= made'
        /\ \A f, h \in Fibers : life'[f] # "deleted" /\ life'[h] # "deleted"
                                 /\ stack'[f] = stack'[h] /\ stack'[f] # 0 => f = h
        /\ \A f \in Fibers : stack'[f] # 0 <=>
              /\ life'[f] # "none"
              /\ ~ \E v \in Workers : creates'[v] = f /\ at'[v] \in {"allocate", "take"}
    BY <1>2, <2>2 DEF IInv, StacksOwned
  <2>. QED  BY <1>2, <2>3, <2>4, <2>5, <2>6, <2>7 DEF StacksOwned
<1>. QED  BY <1>5, <1>6, <1>7, <1>8, <1>9 DEF IInv

LEMMA AllocateNewKeeps == ASSUME Finite, IInv, NEW w \in Workers, AllocateNewStack(w) PROVE IInv'
<1>. DEFINE g == creates[w]
<1>1. /\ at[w] = "take" /\ Moves(w, "submit") /\ free = <<>> /\ made' = made + 1 /\ spin' = NoFiber
      /\ stack' = [stack EXCEPT ![g] = made + 1]
  BY MoveFacts DEF AllocateNewStack, Unlocked, Holding, InCode, IInv
<1>2. UNCHANGED <<pool, life, free, queues, threads>>
  BY DEF AllocateNewStack
<1>. USE DEF pool, queues, threads
<1>3. /\ g \in Fibers /\ life[g] = "created" /\ made \in Nat
      /\ spin = w /\ \A v \in Workers : v # w => at[v] \notin {"take", "pop", "push"}
  BY <1>1 DEF IInv, Threaded, Creating, TypeOK
<1>4. /\ stack'[g] = made + 1 /\ \A f \in Fibers : f # g => stack'[f] = stack[f]
      /\ stack' \in [Fibers -> Nat]
  BY <1>1, <1>3 DEF IInv, TypeOK
<1>5. TypeOK'
  BY <1>1, <1>2, <1>3, <1>4 DEF IInv, TypeOK, Moves
<1>. HIDE DEF g
<1>6. Threaded'
  <2>1. \A v \in Workers : v # NoFiber
    BY DEF Finite
  <2>. QED  BY <1>1, <1>2, <1>3, <2>1 DEF IInv, Threaded, Moves, Holding, InCode, Creating, Deleting
<1>7. Queue' /\ Placed' /\ Counts'
  BY <1>1, <1>2, HoldingMove DEF Holding, InCode
<1>8. DeferredOwn'
  BY <1>1, <1>2 DEF IInv, DeferredOwn, Moves
<1>9. StacksOwned'
  <2>1. DOMAIN free = {} /\ DOMAIN free' = {} /\ IsInjective(free')
    BY <1>1, <1>2 DEF IsInjective
  <2>2. \A f \in Fibers : stack[f] \in Nat /\ stack[f] <= made
    BY DEF IInv, StacksOwned, TypeOK
  <2>3. \A f \in Fibers : f # g =>
           ((\E v \in Workers : creates'[v] = f /\ at'[v] \in {"allocate", "take"})
             <=> (\E v \in Workers : creates[v] = f /\ at[v] \in {"allocate", "take"}))
    BY <1>1, <1>2 DEF Moves, g
  <2>4. ~ \E v \in Workers : creates'[v] = g /\ at'[v] \in {"allocate", "take"}
    <3>1. \A v \in Workers : creates[v] = g => v = w
      BY <1>3 DEF IInv, Threaded, Finite, g
    <3>. QED  BY <1>1, <1>2, <3>1 DEF Moves
  <2>5. \A v \in Workers : at'[v] # "pop"
    BY <1>1, <1>3 DEF Moves
  <2>6. \A f \in Fibers : stack'[f] <= made'
    BY <1>1, <1>3, <1>4, <2>2
  <2>7. \A f, h \in Fibers : life'[f] # "deleted" /\ life'[h] # "deleted" /\ stack'[f] = stack'[h]
                                /\ stack'[f] # 0 => f = h
    <3>1. \A f \in Fibers : f # g => stack'[f] # stack'[g]
      BY <1>3, <1>4, <2>2
    <3>. QED  BY <1>2, <1>4, <3>1 DEF IInv, StacksOwned
  <2>8. ASSUME NEW s \in 1..made'
        PROVE  \E f \in Fibers : life'[f] # "deleted" /\ stack'[f] = s
    <3>1. CASE s = made + 1
      BY <1>2, <1>3, <1>4, <3>1
    <3>2. CASE s # made + 1
      <4>1. s \in 1..made
        BY <1>1, <1>3, <3>2
      <4>2. PICK f \in Fibers : life[f] # "deleted" /\ stack[f] = s
        BY <2>1, <4>1 DEF IInv, StacksOwned
      <4>3. f # g
        <5>1. stack[g] = 0
          BY <1>1, <1>3 DEF IInv, StacksOwned, g
        <5>. QED  BY <4>1, <4>2, <5>1, <1>3
      <4>. QED  BY <1>2, <1>4, <4>2, <4>3
    <3>. QED  BY <3>1, <3>2
  <2>9. \A f \in Fibers : stack'[f] # 0 <=>
            /\ life'[f] # "none"
            /\ ~ \E v \in Workers : creates'[v] = f /\ at'[v] \in {"allocate", "take"}
    BY <1>2, <1>3, <1>4, <2>3, <2>4 DEF IInv, StacksOwned
  <2>. QED  BY <2>1, <2>5, <2>6, <2>7, <2>8, <2>9 DEF StacksOwned
<1>. QED  BY <1>5, <1>6, <1>7, <1>8, <1>9 DEF IInv

LEMMA ReleaseKeeps == ASSUME Finite, IInv, NEW w \in Workers, Release(w) PROVE IInv'
<1>. DEFINE g == on[w]
<1>1. /\ at[w] = "push" /\ Moves(w, "after") /\ free' = Append(free, stack[g]) /\ spin' = NoFiber
      /\ life' = [life EXCEPT ![g] = "deleted"]
  BY MoveFacts DEF Release, Unlocked, IInv
<1>2. UNCHANGED <<pool, stack, made, queues, threads>>
  BY DEF Release
<1>. USE DEF pool, queues, threads
<1>3. /\ g \in Fibers /\ life[g] = "completed"
      /\ spin = w /\ \A v \in Workers : v # w => at[v] \notin {"take", "pop", "push"}
      /\ \A v \in Workers : v # w /\ at[v] \in Holding => on[v] # g
  BY <1>1 DEF IInv, Threaded, Holding, Deleting, TypeOK
<1>4. /\ life'[g] = "deleted" /\ \A f \in Fibers : f # g => life'[f] = life[f]
      /\ life' \in [Fibers -> Lives]
  BY <1>1, <1>3 DEF IInv, TypeOK, Lives
<1>5. /\ stack[g] \in Nat /\ free' \in Seq(Nat) /\ Len(free) \in Nat /\ Len(free') = Len(free) + 1
      /\ DOMAIN free = 1..Len(free) /\ DOMAIN free' = 1..Len(free) + 1
      /\ free'[Len(free) + 1] = stack[g] /\ \A i \in 1..Len(free) : free'[i] = free[i]
  <2>1. free \in Seq(Nat) /\ stack[g] \in Nat
    BY <1>3 DEF IInv, TypeOK
  <2>2. free' \in Seq(Nat) /\ Len(free') = Len(free) + 1
        /\ free'[Len(free) + 1] = stack[g] /\ \A i \in 1..Len(free) : free'[i] = free[i]
    BY <1>1, <2>1, AppendProperties
  <2>. QED  BY <2>1, <2>2, SeqFacts
<1>6. TypeOK'
  BY <1>1, <1>2, <1>4, <1>5 DEF IInv, TypeOK, Moves
<1>. HIDE DEF g
<1>7. Threaded'
  <2>1. \A v \in Workers : v # NoFiber
    BY DEF Finite
  <2>2. \A v \in Workers : v # w /\ at[v] \in Holding => on[v] \in Fibers /\ life'[on[v]] = life[on[v]]
    BY <1>3, <1>4 DEF IInv, TypeOK, Threaded
  <2>3. \A v \in Workers : creates[v] # NoFiber => life'[creates[v]] = life[creates[v]]
    BY <1>3, <1>4 DEF IInv, TypeOK, Threaded, Creating
  <2>4. \A v \in Workers : at'[v] \in Holding => v # w /\ at[v] \in Holding
    BY <1>1 DEF Moves, Holding, InCode, Deleting
  <2>5. \A u, v \in Workers : on'[u] = on'[v] /\ at'[u] \in Holding /\ at'[v] \in Holding => u = v
    BY <1>2, <2>4 DEF IInv, Threaded
  <2>. QED  BY <1>1, <1>2, <1>3, <2>1, <2>2, <2>3, <2>5
            DEF IInv, Threaded, Moves, Holding, InCode, Creating, Deleting
<1>8. deferred[w] = <<>>
  BY <1>1 DEF IInv, DeferredOwn
<1>9. Placed' /\ Queue'
  <2>1. \A f \in Fibers : f # g => (Held(f)' <=> Held(f))
    BY <1>1, <1>2 DEF Held, Moves, Holding, Deleting, g
  <2>2. \A f \in Fibers : Deferred(f)' <=> Deferred(f)
    BY <1>1, <1>2, <1>8 DEF Deferred, Moves
  <2>3. \A f \in Fibers : Submitted(f)' <=> Submitted(f)
    BY <1>2 DEF Submitted
  <2>4. ~Submitted(g) /\ g \notin timers /\ ~Deferred(g)
    BY <1>3 DEF IInv, Placed
  <2>5. \A f \in Fibers : f = g => ~Submitted(f)' /\ f \notin timers' /\ ~Deferred(f)'
    BY <1>2, <2>2, <2>3, <2>4
  <2>6. Placed'
    BY <1>2, <1>4, <2>1, <2>2, <2>3, <2>5 DEF IInv, Placed, TypeOK
  <2>. QED  BY <1>1, <1>2, <2>6 DEF IInv, Queue, Distinct, OnlySteps, Moves
<1>10. DeferredOwn'
  <2>1. \A v \in Workers : deferred[v] # <<>> => v # w /\ on[v] # g
    BY <1>3, <1>8 DEF IInv, DeferredOwn
  <2>2. \A v \in Workers : at'[v] = "back" => v # w /\ at[v] = "back" /\ on[v] \in Fibers \ {g}
    BY <1>1, <1>3 DEF Moves, IInv, TypeOK, Threaded, Holding
  <2>. QED  BY <1>1, <1>2, <1>4, <2>1, <2>2 DEF IInv, DeferredOwn, Moves, TypeOK
<1>11. StacksOwned'
  <2>1. \A f \in Fibers : ~Popping(f)
    BY <1>1, <1>3 DEF Popping
  <2>2. \A v \in Workers : at'[v] # "pop"
    BY <1>1, <1>3 DEF Moves
  <2>3. stack[g] # 0 /\ stack[g] \in 1..made
    <3>1. \A v \in Workers : creates[v] = g => at[v] \notin {"allocate", "take"}
      BY <1>3 DEF IInv, Threaded, Creating
    <3>2. stack[g] # 0 /\ stack[g] <= made
      BY <1>3, <3>1 DEF IInv, StacksOwned
    <3>. QED  BY <1>5, <3>2 DEF IInv, TypeOK
  <2>4. \A f \in Fibers : (\E v \in Workers : creates'[v] = f /\ at'[v] \in {"allocate", "take"})
                      <=> (\E v \in Workers : creates[v] = f /\ at[v] \in {"allocate", "take"})
    BY <1>1, <1>2 DEF Moves
  <2>5. \A i \in 1..Len(free) + 1 : i \in 1..Len(free) \/ i = Len(free) + 1
    BY <1>5
  <2>6. /\ \A i \in 1..Len(free) : i \in 1..Len(free) + 1
        /\ Len(free) + 1 \in 1..Len(free) + 1
    BY <1>5
  <2>7. \A i \in 1..Len(free), f \in Fibers : life[f] # "deleted" => stack[f] # free[i]
    BY <1>5, <2>1 DEF IInv, StacksOwned
  <2>8. (\A i \in DOMAIN free' : free'[i] \in 1..made') /\ IsInjective(free')
    <3>1. \A i \in 1..Len(free) : free[i] # stack[g]
      BY <1>3, <2>7
    <3>2. \A i \in 1..Len(free) : free[i] \in 1..made
      BY <1>5 DEF IInv, StacksOwned
    <3>3. \A i, j \in 1..Len(free) : free[i] = free[j] => i = j
      BY <1>5 DEF IInv, StacksOwned, IsInjective
    <3>4. \A i \in 1..Len(free) + 1 : free'[i] \in 1..made
      BY <1>5, <2>3, <2>5, <3>2
    <3>5. \A i, j \in 1..Len(free) + 1 : free'[i] = free'[j] => i = j
      BY <1>5, <2>5, <3>1, <3>3
    <3>. QED  BY <1>2, <1>5, <3>4, <3>5 DEF IsInjective
  <2>9. \A f \in Fibers : life'[f] # "deleted" =>
           f # g /\ life[f] # "deleted" /\ stack[f] # stack[g]
    BY <1>3, <1>4, <2>3 DEF IInv, StacksOwned
  <2>10. \A i \in DOMAIN free', f \in Fibers : life'[f] # "deleted" => stack'[f] # free'[i]
    BY <1>2, <1>5, <2>5, <2>7, <2>9
  <2>11. \A s \in 1..made' : \/ \E i \in DOMAIN free' : free'[i] = s
                             \/ \E f \in Fibers : life'[f] # "deleted" /\ stack'[f] = s
    <3>1. \A s \in 1..made : \/ \E i \in 1..Len(free) : free[i] = s
                             \/ \E f \in Fibers : life[f] # "deleted" /\ stack[f] = s
      BY <1>5 DEF IInv, StacksOwned
    <3>. QED  BY <1>2, <1>4, <1>5, <2>6, <3>1
  <2>12. /\ \A f \in Fibers : stack'[f] <= made'
         /\ \A f, h \in Fibers : life'[f] # "deleted" /\ life'[h] # "deleted"
                                 /\ stack'[f] = stack'[h] /\ stack'[f] # 0 => f = h
         /\ \A f \in Fibers : stack'[f] # 0 <=>
              /\ life'[f] # "none"
              /\ ~ \E v \in Workers : creates'[v] = f /\ at'[v] \in {"allocate", "take"}
    BY <1>2, <1>3, <1>4, <2>4, <2>9 DEF IInv, StacksOwned
  <2>. QED  BY <2>2, <2>8, <2>10, <2>11, <2>12 DEF StacksOwned
<1>12. Counts'
  <2>1. Active' = Active
    BY <1>1, ActiveStep
  <2>. QED  BY <1>1, <1>2, <1>4, <2>1 DEF IInv, Counts, Moves
<1>. QED  BY <1>6, <1>7, <1>9, <1>10, <1>11, <1>12 DEF IInv

\* What Submit and Post do for a fiber that is not queued.
LEMMA SubmitFacts ==
    ASSUME TypeOK, Queue, NEW f \in Fibers, ~Submitted(f), UNCHANGED <<kind, timers>>,
           IF kind = "sleep_for" THEN Post(f) ELSE Submit(f)
    PROVE  /\ life' \in [Fibers -> Lives] /\ life'[f] \in {"live", "lost"}
           /\ \A g \in Fibers : g # f => life'[g] = life[g]
           /\ tasks' \in Seq(Handlers) /\ pending' \in Nat /\ open' = open
           /\ \A g \in Fibers : Submitted(g)' <=> Submitted(g) \/ (g = f /\ life'[f] = "live")
           /\ life'[f] = "lost" => ~open
           /\ Queue'
           /\ kind # "sleep_for" => pending' = pending + 1 /\ Len(tasks') <= Len(tasks) + 1
<1>. USE DEF Resumption
<1>1. /\ life' = [life EXCEPT ![f] = "live"] \/ life' = [life EXCEPT ![f] = "lost"]
      /\ pending' \in Nat /\ open' = open
      /\ kind # "sleep_for" => pending' = pending + 1
      /\ \/ tasks' = Append(tasks, <<"step", f>>) /\ life' = [life EXCEPT ![f] = "live"]
         \/ tasks' = tasks /\ life' = [life EXCEPT ![f] = "lost"] /\ ~open
  BY DEF Post, Submit, Put, Counted, pool, TypeOK
<1>2. life' \in [Fibers -> Lives] /\ \A g \in Fibers : g # f => life'[g] = life[g]
  BY <1>1 DEF TypeOK, Lives
<1>3. Len(tasks) \in Nat /\ tasks \in Seq(Handlers)
  BY SeqFacts DEF TypeOK
<1>4. CASE tasks' = Append(tasks, <<"step", f>>) /\ life' = [life EXCEPT ![f] = "live"]
  <2>. DEFINE h == <<"step", f>>
  <2>1. h \in Handlers /\ h[2] = f /\ h[1] = "step"
    BY DEF Handlers
  <2>. HIDE DEF h
  <2>2. tasks' = Append(tasks, h)
    BY <1>4 DEF h
  <2>3. ~Submitted(h[2])
    BY <2>1
  <2>4. /\ tasks' \in Seq(Handlers) /\ Len(tasks') = Len(tasks) + 1
        /\ \A g \in Fibers : Submitted(g)' <=> Submitted(g) \/ g = f
        /\ Distinct' /\ (OnlySteps => OnlySteps')
    BY <2>1, <2>2, <2>3, TasksAppend DEF Queue
  <2>5. life'[f] = "live"
    BY <1>4 DEF TypeOK
  <2>6. Queue'
    BY <2>4 DEF Queue
  <2>. QED  BY <1>1, <1>2, <1>3, <2>4, <2>5, <2>6
<1>5. CASE tasks' = tasks /\ life' = [life EXCEPT ![f] = "lost"] /\ ~open
  <2>1. life'[f] = "lost"
    BY <1>5 DEF TypeOK
  <2>2. Queue' /\ \A g \in Fibers : Submitted(g)' <=> Submitted(g)
    BY <1>5 DEF Queue, Distinct, OnlySteps, Submitted
  <2>. QED  BY <1>1, <1>2, <1>3, <1>5, <2>1, <2>2
<1>. QED  BY <1>1, <1>4, <1>5

LEMMA ScheduleKeeps == ASSUME Finite, IInv, NEW w \in Workers, Schedule(w) PROVE IInv'
<1>. DEFINE g == creates[w]
<1>1. /\ at[w] = "submit" /\ Moves(w, "fiber") /\ creates' = [creates EXCEPT ![w] = NoFiber]
      /\ IF kind = "sleep_for" THEN Post(g) ELSE Submit(g)
  BY MoveFacts DEF Schedule, Holding, InCode, IInv
<1>2. UNCHANGED <<stack, stacks, deferred, timers, running, on>>
  BY DEF Schedule
<1>. USE DEF stacks
<1>3. /\ g \in Fibers /\ life[g] = "created" /\ g # NoFiber
      /\ \A v \in Workers : v # w => creates[v] # g
      /\ \A v \in Workers : at[v] \in Holding => on[v] # g
  <2>1. at[w] \in Creating
    BY <1>1 DEF Creating
  <2>2. g # NoFiber /\ life[g] = "created" /\ g \in Fibers
    BY <2>1 DEF IInv, Threaded, TypeOK
  <2>3. \A v \in Workers : v # w => creates[v] # g
    BY <2>2 DEF IInv, Threaded
  <2>4. \A v \in Workers : at[v] \in Holding =>
            life[on[v]] \in {"live", "completed", "thrown"}
    BY DEF IInv, Threaded, Holding
  <2>. QED  BY <2>2, <2>3, <2>4
<1>4. ~Submitted(g) /\ g \notin timers /\ ~Deferred(g) /\ ~Held(g)
  BY <1>3 DEF IInv, Placed, Held
<1>. HIDE DEF g
<1>5. kind' = kind
  BY <1>1 DEF Moves
<1>6. /\ life' \in [Fibers -> Lives] /\ life'[g] \in {"live", "lost"}
      /\ \A f \in Fibers : f # g => life'[f] = life[f]
      /\ tasks' \in Seq(Handlers) /\ pending' \in Nat /\ open' = open
      /\ \A f \in Fibers : Submitted(f)' <=> Submitted(f) \/ (f = g /\ life'[g] = "live")
      /\ life'[g] = "lost" => ~open
      /\ Queue'
      /\ kind # "sleep_for" => pending' = pending + 1 /\ Len(tasks') <= Len(tasks) + 1
  BY <1>1, <1>2, <1>3, <1>4, <1>5, SubmitFacts DEF IInv
<1>7. creates'[w] = NoFiber /\ \A v \in Workers : v # w => creates'[v] = creates[v]
  BY <1>1 DEF IInv, TypeOK
<1>8. TypeOK'
  BY <1>1, <1>2, <1>6 DEF IInv, TypeOK, Moves
<1>9. Threaded'
  <2>1. \A v \in Workers : at[v] \in Holding => on[v] \in Fibers /\ life'[on[v]] = life[on[v]]
    BY <1>3, <1>6 DEF IInv, TypeOK, Threaded
  <2>2. \A v \in Workers : v # w /\ creates[v] # NoFiber => life'[creates[v]] = life[creates[v]]
    BY <1>3, <1>6 DEF IInv, TypeOK
  <2>3. \A v \in Workers : at'[v] \in Holding <=> at[v] \in Holding
    BY <1>1 DEF Moves, Holding, InCode
  <2>4. \A u, v \in Workers : on'[u] = on'[v] /\ at'[u] \in Holding /\ at'[v] \in Holding => u = v
    BY <1>2, <2>3 DEF IInv, Threaded
  <2>. QED  BY <1>1, <1>2, <1>7, <2>1, <2>2, <2>4
            DEF IInv, Threaded, Moves, Holding, InCode, Creating, Deleting
<1>10. Placed'
  <2>1. \A f \in Fibers : (Held(f)' <=> Held(f)) /\ (Deferred(f)' <=> Deferred(f))
    BY <1>1, <1>2 DEF Held, Deferred, Moves, Holding, InCode
  <2>2. \A f \in Fibers : f = g => f \notin timers' /\ ~Deferred(f)' /\ ~Held(f)'
    BY <1>2, <1>4, <2>1
  <2>3. \A f \in Fibers : life'[f] = "created" => \E v \in Workers : creates'[v] = f
    BY <1>1, <1>3, <1>6, <1>7 DEF IInv, Placed, g
  <2>4. \A f \in Fibers : f # g => (Submitted(f)' <=> Submitted(f))
    BY <1>6
  <2>5. \A f \in Fibers : f = g => (Submitted(f)' <=> life'[f] = "live")
    BY <1>4, <1>6
  <2>. QED  BY <1>2, <1>6, <2>1, <2>2, <2>3, <2>4, <2>5 DEF IInv, Placed, TypeOK
<1>11. DeferredOwn'
  <2>1. \A v \in Workers : deferred[v] # <<>> => v # w /\ on[v] # g /\ on[v] \in Fibers
    BY <1>1, <1>3 DEF IInv, DeferredOwn, TypeOK
  <2>2. \A v \in Workers : at'[v] = "back" => v # w /\ at[v] = "back" /\ on[v] \in Fibers \ {g}
    BY <1>1, <1>3 DEF Moves, IInv, TypeOK, Threaded, Holding
  <2>. QED  BY <1>1, <1>2, <1>6, <2>1, <2>2 DEF IInv, DeferredOwn, Moves
<1>12. StacksOwned'
  <2>1. \A v \in Workers : v # w => creates'[v] = creates[v]
    BY <1>7
  <2>2. \A f \in Fibers : /\ life'[f] = "none" <=> life[f] = "none"
                          /\ life'[f] = "deleted" <=> life[f] = "deleted"
    BY <1>3, <1>6
  <2>. QED  BY <1>1, <1>2, <2>1, <2>2, StacksKept DEF Moves
<1>13. Counts'
  <2>1. Active' = Active /\ Cardinality(Active) \in Nat
    BY <1>1, ActiveStep
  <2>2. Len(tasks) \in Nat /\ Len(tasks') \in Nat /\ pending \in Nat
    BY <1>6, SeqFacts DEF IInv, TypeOK
  <2>3. kind' # "sleep_for" => pending' >= Len(tasks') + Cardinality(Active')
    BY <1>5, <1>6, <2>1, <2>2 DEF IInv, Counts
  <2>. QED  BY <1>6, <2>3 DEF IInv, Counts
<1>. QED  BY <1>6, <1>8, <1>9, <1>10, <1>11, <1>12, <1>13 DEF IInv

LEMMA RescheduleKeeps ==
    ASSUME Finite, IInv, NEW w \in Workers, Reschedule(w) \/ AwaitSuspend(w)
    PROVE  IInv'
<1>. DEFINE g == on[w]
<1>1. /\ at[w] = "back" /\ Moves(w, "after") /\ life[g] = "live" /\ kind # "sleep_for"
      /\ Submit(g)
  BY MoveFacts DEF Reschedule, AwaitSuspend, Suspended, IInv, Threaded
<1>2. UNCHANGED <<stack, stacks, deferred, timers, threads>>
  BY DEF Reschedule, AwaitSuspend
<1>. USE DEF stacks, threads
<1>3. /\ g \in Fibers /\ Held(g) /\ deferred[w] = <<>>
      /\ \A v \in Workers : v # w /\ at[v] \in Holding => on[v] # g
      /\ \A v \in Workers : creates[v] # g
  BY <1>1 DEF IInv, Threaded, DeferredOwn, Held, Holding, Creating, TypeOK, Finite
<1>4. ~Submitted(g) /\ g \notin timers /\ ~Deferred(g)
  BY <1>3 DEF IInv, Placed, TypeOK
<1>. HIDE DEF g
<1>5. kind' = kind
  BY <1>1 DEF Moves
<1>6. /\ life' \in [Fibers -> Lives] /\ life'[g] \in {"live", "lost"}
      /\ \A f \in Fibers : f # g => life'[f] = life[f]
      /\ tasks' \in Seq(Handlers) /\ pending' \in Nat /\ open' = open
      /\ \A f \in Fibers : Submitted(f)' <=> Submitted(f) \/ (f = g /\ life'[g] = "live")
      /\ life'[g] = "lost" => ~open
      /\ Queue'
      /\ pending' = pending + 1 /\ Len(tasks') <= Len(tasks) + 1
  BY <1>1, <1>2, <1>3, <1>4, <1>5, SubmitFacts DEF IInv
<1>7. TypeOK'
  BY <1>1, <1>2, <1>6 DEF IInv, TypeOK, Moves
<1>8. Threaded'
  <2>1. \A v \in Workers : v # w /\ at[v] \in Holding => on[v] \in Fibers /\ life'[on[v]] = life[on[v]]
    BY <1>3, <1>6 DEF IInv, TypeOK, Threaded
  <2>2. \A v \in Workers : creates[v] # NoFiber => life'[creates[v]] = life[creates[v]]
    BY <1>3, <1>6 DEF IInv, TypeOK
  <2>3. \A v \in Workers : at'[v] \in Holding => v # w /\ at[v] \in Holding
    BY <1>1 DEF Moves, Holding, InCode, Deleting
  <2>4. \A u, v \in Workers : on'[u] = on'[v] /\ at'[u] \in Holding /\ at'[v] \in Holding => u = v
    BY <1>2, <2>3 DEF IInv, Threaded
  <2>. QED  BY <1>1, <1>2, <2>1, <2>2, <2>4
            DEF IInv, Threaded, Moves, Holding, InCode, Creating, Deleting
<1>9. Placed'
  <2>1. \A f \in Fibers : f # g => (Held(f)' <=> Held(f))
    BY <1>1, <1>2 DEF Held, Moves, Holding, InCode, g
  <2>2. \A f \in Fibers : Deferred(f)' <=> Deferred(f)
    BY <1>1, <1>2, <1>3 DEF Deferred, Moves
  <2>3. \A f \in Fibers : f = g => f \notin timers' /\ ~Deferred(f)' /\ ~Held(f)'
    BY <1>1, <1>2, <1>3, <1>4, <2>2 DEF Held, Moves, Holding, InCode, Deleting
  <2>4. \A f \in Fibers : f # g => (Submitted(f)' <=> Submitted(f))
    BY <1>6
  <2>5. \A f \in Fibers : f = g => (Submitted(f)' <=> life'[f] = "live")
    BY <1>4, <1>6
  <2>. QED  BY <1>2, <1>6, <2>1, <2>2, <2>3, <2>4, <2>5 DEF IInv, Placed, TypeOK
<1>10. DeferredOwn'
  BY <1>1, <1>2, <1>5 DEF IInv, DeferredOwn
<1>11. StacksOwned'
  <2>1. \A f \in Fibers : /\ life'[f] = "none" <=> life[f] = "none"
                          /\ life'[f] = "deleted" <=> life[f] = "deleted"
    BY <1>1, <1>6 DEF g
  <2>. QED  BY <1>1, <1>2, <2>1, StacksKept DEF Moves
<1>12. Counts'
  <2>1. Active' = Active /\ Cardinality(Active) \in Nat
    BY <1>1, ActiveStep
  <2>2. Len(tasks) \in Nat /\ Len(tasks') \in Nat /\ pending \in Nat
    BY <1>6, SeqFacts DEF IInv, TypeOK
  <2>3. kind' # "sleep_for" => pending' >= Len(tasks') + Cardinality(Active')
    BY <1>5, <1>6, <2>1, <2>2 DEF IInv, Counts
  <2>. QED  BY <1>6, <2>3 DEF IInv, Counts
<1>. QED  BY <1>6, <1>7, <1>8, <1>9, <1>10, <1>11, <1>12 DEF IInv

LEMMA InCodeFacts ==
    ASSUME IInv, NEW w \in Workers, at[w] = "fiber"
    PROVE  /\ on[w] \in Fibers /\ on[w] = running[w] /\ life[on[w]] = "live"
           /\ deferred[w] = <<>>
<1>1. on[w] = running[w] /\ life[on[w]] = "live" /\ on[w] # NoFiber
  BY DEF IInv, Threaded, Holding, InCode
<1>2. on[w] \in Fibers
  BY <1>1 DEF IInv, TypeOK
<1>3. deferred[w] = <<>>
  BY DEF IInv, DeferredOwn
<1>. QED  BY <1>1, <1>2, <1>3

LEMMA DeferKeeps ==
    ASSUME Finite, IInv, NEW w \in Workers, YieldDeferred(w) \/ SleepFor(w)
    PROVE  IInv'
<1>1. at[w] = "fiber" /\ Moves(w, "back") /\ kind = "sleep_for"
  BY MoveFacts DEF YieldDeferred, SleepFor, Holding, IInv
<1>2. UNCHANGED <<pool, fibers, stacks, timers, threads, tasks>>
  BY DEF YieldDeferred, SleepFor, Defer
<1>. USE DEF pool, fibers, stacks, threads
<1>3. on[w] = running[w] /\ on[w] \in Fibers /\ life[on[w]] = "live" /\ deferred[w] = <<>>
  BY <1>1, InCodeFacts
<1>4. PICK op \in {"step", "arm"} : deferred' = [deferred EXCEPT ![w] = Append(@, <<op, on[w]>>)]
  BY <1>3 DEF YieldDeferred, SleepFor, Defer, Resumption
<1>5. <<op, on[w]>> \in Handlers /\ Append(deferred[w], <<op, on[w]>>) = << <<op, on[w]>> >>
  BY <1>3 DEF Handlers
<1>6. deferred'[w] = << <<op, on[w]>> >> /\ \A v \in Workers : v # w => deferred'[v] = deferred[v]
  BY <1>4, <1>5 DEF IInv, TypeOK
<1>7. deferred' \in [Workers -> {<<>>} \cup {<<h>> : h \in Handlers}]
  BY <1>4, <1>5 DEF IInv, TypeOK
<1>8. TypeOK'
  BY <1>1, <1>2, <1>7 DEF IInv, TypeOK, Moves
<1>9. Threaded'
  BY <1>1, <1>2 DEF IInv, Threaded, Moves, Holding, InCode, Creating, Deleting
<1>10. Placed' /\ Queue'
  <2>1. \A f \in Fibers : (Held(f)' <=> Held(f)) /\ (Deferred(f)' <=> Deferred(f))
    BY <1>1, <1>2, <1>6 DEF Held, Deferred, Moves, Holding, InCode
  <2>2. \A f \in Fibers : Submitted(f)' <=> Submitted(f)
    BY <1>2 DEF Submitted
  <2>3. Placed'
    BY <1>2, <2>1, <2>2 DEF IInv, Placed, TypeOK
  <2>. QED  BY <1>1, <1>2, <2>3 DEF IInv, Queue, Distinct, OnlySteps, Moves
<1>11. DeferredOwn'
  <2>1. deferred'[w] # <<>> /\ deferred'[w][1][2] = on[w]
    BY <1>6
  <2>2. on[w] # NoFiber
    BY <1>3 DEF Finite
  <2>3. \A v \in Workers : v # w /\ deferred[v] # <<>> => on[v] # on[w]
    BY <1>1, <1>3 DEF IInv, DeferredOwn, Threaded, Placed, Held, Deferred, Holding, InCode
  <2>. QED  BY <1>1, <1>2, <1>3, <1>6, <2>1, <2>2, <2>3 DEF IInv, DeferredOwn, Moves
<1>12. StacksOwned'
  BY <1>1, <1>2, StacksKept DEF Moves
<1>13. Counts'
  <2>1. Active' = Active
    BY <1>1, ActiveStep
  <2>. QED  BY <1>1, <1>2, <2>1 DEF IInv, Counts, Moves
<1>. QED  BY <1>8, <1>9, <1>10, <1>11, <1>12, <1>13 DEF IInv

LEMMA CompleteKeeps == ASSUME Finite, IInv, NEW w \in Workers, Complete(w) PROVE IInv'
<1>. DEFINE g == on[w]
<1>1. at[w] = "fiber" /\ Moves(w, "back")
  BY MoveFacts DEF Complete, Holding, IInv
<1>2. UNCHANGED <<pool, stack, stacks, queues, threads>>
  BY DEF Complete
<1>. USE DEF pool, stacks, queues, threads
<1>3. /\ g \in Fibers /\ life[g] = "live" /\ Held(g) /\ deferred[w] = <<>>
      /\ \A v \in Workers : v # w /\ at[v] \in Holding => on[v] # g
      /\ \A v \in Workers : creates[v] # g
      /\ running[w] = g
  <2>1. g \in Fibers /\ life[g] = "live" /\ running[w] = g /\ deferred[w] = <<>>
    BY <1>1, InCodeFacts
  <2>2. Held(g)
    BY <1>1 DEF Held, Holding, InCode
  <2>3. \A v \in Workers : v # w /\ at[v] \in Holding => on[v] # g
    BY <1>1 DEF IInv, Threaded, Holding, InCode
  <2>4. \A v \in Workers : creates[v] # g
    BY <2>1 DEF IInv, Threaded, Creating, Finite
  <2>. QED  BY <2>1, <2>2, <2>3, <2>4
<1>4. ~Submitted(g) /\ g \notin timers /\ ~Deferred(g)
  BY <1>3 DEF IInv, Placed, TypeOK
<1>5. /\ life' \in [Fibers -> Lives] /\ life'[g] \in {"completed", "thrown"}
      /\ \A f \in Fibers : f # g => life'[f] = life[f]
  BY <1>3 DEF Complete, IInv, TypeOK, Lives
<1>. HIDE DEF g
<1>6. TypeOK'
  BY <1>1, <1>2, <1>5 DEF IInv, TypeOK, Moves
<1>7. Threaded'
  <2>1. \A v \in Workers : v # w /\ at[v] \in Holding => on[v] \in Fibers /\ life'[on[v]] = life[on[v]]
    BY <1>3, <1>5 DEF IInv, TypeOK, Threaded
  <2>2. \A v \in Workers : creates[v] # NoFiber => life'[creates[v]] = life[creates[v]]
    BY <1>3, <1>5 DEF IInv, TypeOK
  <2>3. \A v \in Workers : at'[v] \in Holding <=> at[v] \in Holding
    BY <1>1 DEF Moves, Holding, InCode
  <2>4. \A u, v \in Workers : on'[u] = on'[v] /\ at'[u] \in Holding /\ at'[v] \in Holding => u = v
    BY <1>2, <2>3 DEF IInv, Threaded
  <2>5. life'[on[w]] \in {"completed", "thrown"}
    BY <1>5 DEF g
  <2>. QED  BY <1>1, <1>2, <2>1, <2>2, <2>4, <2>5
            DEF IInv, Threaded, Moves, Holding, InCode, Creating, Deleting
<1>8. Placed' /\ Queue'
  <2>1. \A f \in Fibers : (Held(f)' <=> Held(f)) /\ (Deferred(f)' <=> Deferred(f))
    BY <1>1, <1>2 DEF Held, Deferred, Moves, Holding, InCode
  <2>2. \A f \in Fibers : Submitted(f)' <=> Submitted(f)
    BY <1>2 DEF Submitted
  <2>3. \A f \in Fibers : f = g => ~Submitted(f)' /\ f \notin timers' /\ ~Deferred(f)' /\ Held(f)'
    BY <1>2, <1>3, <1>4, <2>1, <2>2
  <2>4. Placed'
    BY <1>2, <1>5, <2>1, <2>2, <2>3 DEF IInv, Placed, TypeOK
  <2>. QED  BY <1>1, <1>2, <2>4 DEF IInv, Queue, Distinct, OnlySteps, Moves
<1>9. DeferredOwn'
  <2>1. \A v \in Workers : deferred[v] # <<>> => v # w /\ on[v] # g /\ on[v] \in Fibers
    BY <1>3, <1>4 DEF IInv, DeferredOwn, TypeOK, Deferred, Threaded, Holding
  <2>2. \A v \in Workers : v # w /\ at'[v] = "back" => at[v] = "back" /\ on[v] \in Fibers \ {g}
    BY <1>1, <1>3 DEF Moves, IInv, TypeOK, Threaded, Holding
  <2>3. life'[on[w]] # "live"
    BY <1>5 DEF g
  <2>. QED  BY <1>1, <1>2, <1>5, <2>1, <2>2, <2>3 DEF IInv, DeferredOwn, Moves
<1>10. StacksOwned'
  <2>1. \A f \in Fibers : /\ life'[f] = "none" <=> life[f] = "none"
                          /\ life'[f] = "deleted" <=> life[f] = "deleted"
    BY <1>3, <1>5
  <2>. QED  BY <1>1, <1>2, <2>1, StacksKept DEF Moves
<1>11. Counts'
  <2>1. Active' = Active
    BY <1>1, ActiveStep
  <2>. QED  BY <1>1, <1>2, <1>5, <2>1 DEF IInv, Counts, Moves
<1>. QED  BY <1>6, <1>7, <1>8, <1>9, <1>10, <1>11 DEF IInv

LEMMA StepKeeps == ASSUME Finite, IInv, NEW w \in Workers, Step(w) PROVE IInv'
<1>. DEFINE g == Head(tasks)[2]
<1>1. at[w] = "idle" /\ Moves(w, "fiber") /\ tasks # <<>> /\ tasks' = Tail(tasks)
  BY MoveFacts DEF Step, Available, Holding, InCode, IInv
<1>2. UNCHANGED <<pool, fibers, stacks, deferred, timers, creates>>
  BY DEF Step
<1>. USE DEF pool, fibers, stacks
<1>3. /\ tasks' \in Seq(Handlers) /\ Len(tasks') = Len(tasks) - 1
      /\ g \in Fibers /\ Submitted(g)
      /\ \A f \in Fibers : Submitted(f)' <=> Submitted(f) /\ f # g
      /\ Distinct' /\ (OnlySteps => OnlySteps')
  BY <1>1, TasksTail DEF IInv, Queue
<1>4. running' = [running EXCEPT ![w] = g] /\ on' = [on EXCEPT ![w] = g]
  BY DEF Step
<1>. HIDE DEF g
<1>5. /\ running'[w] = g /\ on'[w] = g
      /\ \A v \in Workers : v # w => running'[v] = running[v] /\ on'[v] = on[v]
  BY <1>4 DEF IInv, TypeOK
<1>6. life[g] = "live" /\ ~Held(g) /\ ~Deferred(g) /\ g \notin timers
  BY <1>3 DEF IInv, Placed
<1>7. on[w] = NoFiber /\ g # NoFiber /\ deferred[w] = <<>>
  BY <1>1, <1>3 DEF IInv, Threaded, DeferredOwn, Finite
<1>8. TypeOK'
  BY <1>1, <1>2, <1>3, <1>4 DEF IInv, TypeOK, Moves
<1>9. Threaded'
  <2>1. \A v \in Workers : v # w /\ at[v] \in Holding => on[v] # g
    BY <1>6 DEF Held
  <2>2. \A v \in Workers : v # w => (at'[v] \in Holding <=> at[v] \in Holding)
    BY <1>1 DEF Moves
  <2>3. \A u, v \in Workers : on'[u] = on'[v] /\ at'[u] \in Holding /\ at'[v] \in Holding => u = v
    BY <1>5, <2>1, <2>2 DEF IInv, Threaded
  <2>. QED  BY <1>1, <1>2, <1>5, <1>6, <1>7, <2>3
            DEF IInv, Threaded, Moves, Holding, InCode, Creating, Deleting
<1>10. Placed'
  <2>1. \A f \in Fibers : f # g => (Held(f)' <=> Held(f))
    BY <1>1, <1>5 DEF Held, Moves, Holding, InCode, Deleting
  <2>2. \A f \in Fibers : Deferred(f)' <=> Deferred(f)
    BY <1>1, <1>2, <1>5, <1>7 DEF Deferred, Moves
  <2>3. \A f \in Fibers : f = g => ~Submitted(f)' /\ f \notin timers' /\ ~Deferred(f)' /\ Held(f)'
    BY <1>1, <1>2, <1>3, <1>5, <1>6, <2>2 DEF Held, Moves, Holding, InCode
  <2>4. \A f \in Fibers : f # g => (Submitted(f)' <=> Submitted(f))
    BY <1>3
  <2>. QED  BY <1>2, <1>6, <2>1, <2>2, <2>3, <2>4 DEF IInv, Placed, TypeOK
<1>11. Queue'
  BY <1>1, <1>2, <1>3 DEF IInv, Queue, Moves
<1>12. DeferredOwn'
  <2>1. \A v \in Workers : deferred[v] # <<>> => v # w /\ on'[v] = on[v] /\ at'[v] = at[v]
    BY <1>1, <1>5, <1>7 DEF Moves
  <2>2. \A v \in Workers : at'[v] = "back" => v # w /\ at[v] = "back" /\ on'[v] = on[v]
    BY <1>1, <1>5 DEF Moves
  <2>. QED  BY <1>1, <1>2, <2>1, <2>2 DEF IInv, DeferredOwn, Moves
<1>13. StacksOwned'
  BY <1>1, <1>2, StacksKept DEF Moves
<1>14. Counts'
  <2>1. Cardinality(Active') = Cardinality(Active) + 1 /\ Cardinality(Active) \in Nat
    BY <1>1, ActiveStep
  <2>2. Len(tasks) \in Nat /\ pending \in Nat
    BY SeqFacts DEF IInv, TypeOK
  <2>3. kind' # "sleep_for" => pending' >= Len(tasks') + Cardinality(Active')
    BY <1>1, <1>2, <1>3, <2>1, <2>2 DEF IInv, Counts, Moves
  <2>. QED  BY <1>2, <2>3 DEF IInv, Counts
<1>. QED  BY <1>8, <1>9, <1>10, <1>11, <1>12, <1>13, <1>14 DEF IInv

\* The count after a task has run.
LEMMA DoneFacts ==
    ASSUME Finite, IInv, NEW w \in Workers, Moves(w, "idle"), at[w] # "idle",
           pending' = Done, NEW n \in Nat, kind # "sleep_for" => n = Len(tasks)
    PROVE  pending' \in Nat /\ (kind # "sleep_for" => pending' >= n + Cardinality(Active'))
<1>1. /\ Cardinality(Active') = Cardinality(Active) - 1 /\ Cardinality(Active') \in Nat
      /\ Cardinality(Active) \in Nat
  BY ActiveStep
<1>2. pending \in Nat /\ Len(tasks) \in Nat
  BY SeqFacts DEF IInv, TypeOK
<1>3. CASE kind = "sleep_for"
  BY <1>2, <1>3 DEF Done
<1>4. CASE kind # "sleep_for"
  <2>1. pending' = pending - 1 /\ pending >= Len(tasks) + Cardinality(Active) /\ n = Len(tasks)
    BY <1>4 DEF Done, IInv, Counts
  <2>. QED  BY <1>1, <1>2, <2>1
<1>. QED  BY <1>3, <1>4

LEMMA RethrowKeeps == ASSUME Finite, IInv, NEW w \in Workers, Rethrow(w) PROVE IInv'
<1>1. at[w] = "back" /\ Moves(w, "idle") /\ life[on[w]] = "thrown"
  BY MoveFacts DEF Rethrow, IInv
<1>2. UNCHANGED <<fibers, stacks, queues, open, running, creates>> /\ pending' = Done
  BY DEF Rethrow
<1>. USE DEF fibers, stacks, queues
<1>3. on'[w] = NoFiber /\ \A v \in Workers : v # w => on'[v] = on[v]
  BY DEF Rethrow, IInv, TypeOK
<1>4. deferred[w] = <<>>
  BY <1>1 DEF IInv, DeferredOwn
<1>5. /\ pending' \in Nat
      /\ kind # "sleep_for" => pending' >= Len(tasks) + Cardinality(Active')
  <2>1. Len(tasks) \in Nat
    BY SeqFacts DEF IInv, TypeOK
  <2>. QED  BY <1>1, <1>2, <2>1, DoneFacts
<1>6. TypeOK'
  BY <1>1, <1>2, <1>5 DEF Rethrow, IInv, TypeOK, Moves
<1>7. Threaded'
  BY <1>1, <1>2, <1>3 DEF IInv, Threaded, Moves, Holding, InCode, Creating, Deleting
<1>8. Placed' /\ Queue'
  <2>1. \A f \in Fibers : life[f] # "thrown" => (Held(f)' <=> Held(f))
    BY <1>1, <1>3 DEF Held, Moves, Holding, InCode, Deleting
  <2>2. \A f \in Fibers : Deferred(f)' <=> Deferred(f)
    BY <1>1, <1>2, <1>3, <1>4 DEF Deferred, Moves
  <2>3. \A f \in Fibers : Submitted(f)' <=> Submitted(f)
    BY <1>2 DEF Submitted
  <2>4. Placed'
    BY <1>2, <2>1, <2>2, <2>3 DEF IInv, Placed, TypeOK
  <2>. QED  BY <1>1, <1>2, <2>4 DEF IInv, Queue, Distinct, OnlySteps, Moves
<1>9. DeferredOwn'
  <2>1. \A v \in Workers : deferred[v] # <<>> => v # w /\ on'[v] = on[v] /\ at'[v] = at[v]
    BY <1>1, <1>3, <1>4 DEF Moves
  <2>2. \A v \in Workers : at'[v] = "back" => v # w /\ at[v] = "back" /\ on'[v] = on[v]
    BY <1>1, <1>3 DEF Moves
  <2>. QED  BY <1>1, <1>2, <2>1, <2>2 DEF IInv, DeferredOwn, Moves
<1>10. StacksOwned'
  BY <1>1, <1>2, StacksKept DEF Moves
<1>11. Counts'
  BY <1>1, <1>2, <1>5 DEF IInv, Counts, Moves
<1>. QED  BY <1>6, <1>7, <1>8, <1>9, <1>10, <1>11 DEF IInv

LEMMA DispatchKeeps == ASSUME Finite, IInv, NEW w \in Workers, Dispatch(w) PROVE IInv'
<1>. DEFINE g == on[w]
<1>1. at[w] = "back" /\ Moves(w, "after") /\ life[g] = "live" /\ kind = "sleep_for"
  BY MoveFacts DEF Dispatch, Suspended, IInv
<1>2. UNCHANGED <<pool, fibers, stacks, queues, threads>>
  BY DEF Dispatch
<1>. USE DEF pool, fibers, stacks, queues, threads
<1>3. g \in Fibers /\ Held(g) /\ deferred[w] # <<>>
  BY <1>1 DEF IInv, Threaded, DeferredOwn, Held, Holding, TypeOK
<1>4. \A v \in Workers : v # w /\ at[v] \in Holding => on[v] # g
  BY <1>1 DEF IInv, Threaded, Holding
<1>. HIDE DEF g
<1>5. TypeOK'
  BY <1>1, <1>2 DEF IInv, TypeOK, Moves
<1>6. Threaded'
  <2>1. \A v \in Workers : at'[v] \in Holding => v # w /\ at[v] \in Holding
    BY <1>1 DEF Moves, Holding, InCode, Deleting
  <2>2. \A u, v \in Workers : on'[u] = on'[v] /\ at'[u] \in Holding /\ at'[v] \in Holding => u = v
    BY <1>2, <2>1 DEF IInv, Threaded
  <2>. QED  BY <1>1, <1>2, <2>2 DEF IInv, Threaded, Moves, Holding, InCode, Creating, Deleting
<1>7. Placed' /\ Queue'
  <2>1. \A f \in Fibers : f # g => (Held(f)' <=> Held(f)) /\ (Deferred(f)' <=> Deferred(f))
    BY <1>1, <1>2 DEF Held, Deferred, Moves, Holding, InCode, Deleting, g
  <2>2. \A f \in Fibers : Submitted(f)' <=> Submitted(f)
    BY <1>2 DEF Submitted
  <2>3. \A f \in Fibers : f = g => ~Submitted(f) /\ f \notin timers
    BY <1>3 DEF IInv, Placed
  <2>4. \A f \in Fibers : f = g => ~Held(f)' /\ Deferred(f)'
    BY <1>1, <1>2, <1>3, <1>4 DEF Held, Deferred, Moves, Holding, InCode, Deleting, g
  <2>5. Placed'
    BY <1>1, <1>2, <2>1, <2>2, <2>3, <2>4 DEF IInv, Placed, TypeOK
  <2>. QED  BY <1>1, <1>2, <2>5 DEF IInv, Queue, Distinct, OnlySteps, Moves
<1>8. DeferredOwn'
  BY <1>1, <1>2 DEF IInv, DeferredOwn, Moves
<1>9. StacksOwned'
  BY <1>1, <1>2, StacksKept DEF Moves
<1>10. Counts'
  <2>1. Active' = Active
    BY <1>1, ActiveStep
  <2>. QED  BY <1>1, <1>2, <2>1 DEF IInv, Counts, Moves
<1>. QED  BY <1>5, <1>6, <1>7, <1>8, <1>9, <1>10 DEF IInv

LEMMA ResetKeeps == ASSUME Finite, IInv, NEW w \in Workers, Reset(w) PROVE IInv'
<1>. DEFINE g == on[w]
<1>1. at[w] = "after" /\ Moves(w, "idle")
  BY MoveFacts DEF Reset, IInv
<1>2. UNCHANGED <<fibers, stacks, timers, open, creates>> /\ pending' = Done
  BY DEF Reset
<1>. USE DEF fibers, stacks
<1>3. /\ on'[w] = NoFiber /\ \A v \in Workers : v # w => on'[v] = on[v]
      /\ \A v \in Workers : v # w => running'[v] = running[v]
      /\ deferred'[w] = <<>> /\ \A v \in Workers : v # w => deferred'[v] = deferred[v]
  BY DEF Reset, IInv, TypeOK
<1>4. /\ deferred[w] # <<>> => kind = "sleep_for" /\ g \in Fibers /\ Deferred(g) /\ life[g] = "live"
      /\ ~Deferred(g) => deferred[w] = <<>>
  BY <1>1 DEF IInv, DeferredOwn, TypeOK, Deferred
<1>5. /\ tasks' \in Seq(Handlers) /\ Queue'
      /\ \A f \in Fibers : Submitted(f)' <=> Submitted(f) \/ (f = g /\ deferred[w] # <<>>)
      /\ kind # "sleep_for" => Len(tasks') = Len(tasks)
  <2>1. CASE deferred[w] = <<>>
    <3>1. tasks \in Seq(Handlers) /\ tasks' = tasks \o <<>>
      BY <2>1 DEF Reset, IInv, TypeOK
    <3>2. tasks' = tasks
      BY <3>1, ConcatEmptySeq
    <3>. QED  BY <1>1, <1>2, <2>1, <3>1, <3>2 DEF IInv, Queue, Distinct, OnlySteps, Moves, Submitted
  <2>2. CASE deferred[w] # <<>>
    <3>1. PICK h \in Handlers : deferred[w] = <<h>>
      BY <2>2 DEF IInv, TypeOK
    <3>2. h[2] = g /\ ~Submitted(h[2]) /\ kind = "sleep_for"
      BY <1>4, <2>2, <3>1 DEF IInv, DeferredOwn, Placed
    <3>3. tasks' = Append(tasks, h)
      <4>1. tasks \in Seq(Handlers) /\ tasks' = tasks \o <<h>>
        BY <3>1 DEF Reset, IInv, TypeOK
      <4>. QED  BY <4>1, AppendIsConcat
    <3>4. /\ tasks' \in Seq(Handlers) /\ Distinct'
          /\ \A f \in Fibers : Submitted(f)' <=> Submitted(f) \/ f = g
      BY <3>2, <3>3, TasksAppend DEF IInv, Queue
    <3>. QED  BY <1>1, <2>2, <3>2, <3>4 DEF Queue, Moves
  <2>. QED  BY <2>1, <2>2
<1>. HIDE DEF g
<1>6. /\ pending' \in Nat
      /\ kind # "sleep_for" => pending' >= Len(tasks') + Cardinality(Active')
  <2>1. Len(tasks') \in Nat
    BY <1>5, SeqFacts
  <2>. QED  BY <1>1, <1>2, <1>5, <2>1, DoneFacts
<1>7. TypeOK'
  <2>1. /\ on' \in [Workers -> Fibers \cup {NoFiber}] /\ running' \in [Workers -> Fibers \cup {NoFiber}]
        /\ deferred' \in [Workers -> {<<>>} \cup {<<h>> : h \in Handlers}]
    BY DEF Reset, IInv, TypeOK
  <2>. QED  BY <1>1, <1>2, <1>5, <1>6, <2>1 DEF IInv, TypeOK, Moves
<1>8. Threaded'
  BY <1>1, <1>2, <1>3 DEF IInv, Threaded, Moves, Holding, InCode, Creating, Deleting
<1>9. Placed'
  <2>1. \A f \in Fibers : Held(f)' <=> Held(f)
    BY <1>1, <1>3 DEF Held, Moves, Holding, InCode, Deleting
  <2>2. \A f \in Fibers : f # g \/ deferred[w] = <<>> => (Deferred(f)' <=> Deferred(f))
    BY <1>1, <1>3 DEF Deferred, Moves, g
  <2>3. \A f \in Fibers : f = g /\ deferred[w] # <<>> => ~Deferred(f)'
    <3>1. \A v \in Workers : v # w /\ deferred[v] # <<>> /\ deferred[w] # <<>> => on[v] # g
      BY DEF IInv, DeferredOwn, g
    <3>. QED  BY <1>1, <1>3, <3>1 DEF Deferred, Moves
  <2>4. \A f \in Fibers : f = g /\ deferred[w] # <<>> =>
           Submitted(f)' /\ f \notin timers' /\ ~Deferred(f)' /\ ~Held(f)' /\ life'[f] = "live"
    BY <1>2, <1>4, <1>5, <2>1, <2>3 DEF IInv, Placed
  <2>5. \A f \in Fibers : f # g \/ deferred[w] = <<>> => (Submitted(f)' <=> Submitted(f))
    BY <1>5
  <2>. QED  BY <1>2, <2>1, <2>2, <2>4, <2>5 DEF IInv, Placed, TypeOK
<1>10. DeferredOwn'
  <2>1. \A v \in Workers : deferred'[v] # <<>> =>
           v # w /\ on'[v] = on[v] /\ at'[v] = at[v] /\ deferred'[v] = deferred[v]
    BY <1>1, <1>3 DEF Moves
  <2>2. \A v \in Workers : at'[v] = "back" =>
           v # w /\ at[v] = "back" /\ on'[v] = on[v] /\ deferred'[v] = deferred[v]
    BY <1>1, <1>3 DEF Moves
  <2>. QED  BY <1>1, <1>2, <2>1, <2>2 DEF IInv, DeferredOwn, Moves
<1>11. StacksOwned'
  BY <1>1, <1>2, StacksKept DEF Moves
<1>12. Counts'
  BY <1>1, <1>2, <1>6 DEF IInv, Counts, Moves
<1>. QED  BY <1>5, <1>7, <1>8, <1>9, <1>10, <1>11, <1>12 DEF IInv

\* Stop drops the queued fibers, and only those.
LEMMA StopKeeps == ASSUME Finite, IInv, Stop PROVE IInv'
<1>1. /\ kind \in {"coroutine", "mutex"} /\ open' = FALSE /\ tasks' = <<>>
      /\ life' = [f \in Fibers |-> IF Submitted(f) THEN "lost" ELSE life[f]]
      /\ UNCHANGED <<kind, stack, stacks, deferred, timers, pending, threads, at>>
  BY DEF Stop, CloseImpl, Submitted
<1>. USE DEF stacks, threads
<1>2. \A f \in Fibers : Submitted(f) => life[f] = "live" /\ ~Held(f) /\ ~Deferred(f) /\ f \notin timers
  BY DEF IInv, Placed
<1>3. /\ life' \in [Fibers -> Lives]
      /\ \A f \in Fibers : Submitted(f) => life'[f] = "lost"
      /\ \A f \in Fibers : ~Submitted(f) => life'[f] = life[f]
  BY <1>1 DEF IInv, TypeOK, Lives
<1>4. tasks' \in Seq(Handlers) /\ Len(tasks') = 0 /\ \A f \in Fibers : ~Submitted(f)'
  BY <1>1 DEF Submitted
<1>5. TypeOK'
  BY <1>1, <1>3, <1>4 DEF IInv, TypeOK
<1>6. Threaded'
  <2>1. \A v \in Workers : at[v] \in Holding => on[v] \in Fibers /\ life'[on[v]] = life[on[v]]
    BY <1>2, <1>3 DEF IInv, TypeOK, Threaded, Held
  <2>2. \A v \in Workers : at[v] \in Creating => life'[creates[v]] = life[creates[v]]
    BY <1>2, <1>3 DEF IInv, TypeOK, Threaded
  <2>. QED  BY <1>1, <2>1, <2>2 DEF IInv, Threaded, Holding, InCode, Creating, Deleting
<1>7. Placed' /\ Queue'
  <2>1. \A f \in Fibers : (Held(f)' <=> Held(f)) /\ (Deferred(f)' <=> Deferred(f))
    BY <1>1 DEF Held, Deferred
  <2>2. Placed'
    BY <1>1, <1>2, <1>3, <1>4, <2>1 DEF IInv, Placed, TypeOK
  <2>. QED  BY <1>1, <2>2 DEF IInv, Queue, Distinct, OnlySteps
<1>8. DeferredOwn'
  BY <1>1 DEF IInv, DeferredOwn
<1>9. StacksOwned'
  <2>1. \A f \in Fibers : /\ life'[f] = "none" <=> life[f] = "none"
                          /\ life'[f] = "deleted" <=> life[f] = "deleted"
    BY <1>2, <1>3
  <2>. QED  BY <1>1, <2>1, StacksKept
<1>10. Counts'
  <2>1. Active' = Active
    BY <1>1 DEF Active
  <2>2. Cardinality(Active) \in Nat
    BY FS_Subset, FS_CardinalityType DEF Active, Finite
  <2>3. Len(tasks) \in Nat /\ pending \in Nat
    BY SeqFacts DEF IInv, TypeOK
  <2>4. kind' # "sleep_for" => pending' >= Len(tasks') + Cardinality(Active')
    BY <1>1, <1>4, <2>1, <2>2, <2>3 DEF IInv, Counts
  <2>. QED  BY <1>1, <2>4 DEF Counts
<1>. QED  BY <1>5, <1>6, <1>7, <1>8, <1>9, <1>10 DEF IInv

\* A timer is armed, or expires: the threads stay where they are.
LEMMA TimerKeeps ==
    ASSUME Finite, IInv, (\E w \in Workers : Arm(w)) \/ (\E f \in Fibers : Expire(f))
    PROVE  IInv'
<1>1. PICK g : /\ UNCHANGED <<pool, kind, fibers, stacks, deferred, threads, at>>
               /\ \/ /\ tasks # <<>> /\ g = Head(tasks)[2] /\ Head(tasks)[1] = "arm"
                     /\ tasks' = Tail(tasks) /\ timers' = timers \cup {g}
                  \/ /\ g \in timers /\ timers' = timers \ {g}
                     /\ tasks' = Append(tasks, <<"step", g>>)
  BY DEF Arm, Expire, Available, Resumption
<1>2. UNCHANGED <<pool, kind, fibers, stacks, deferred, threads, at>>
  BY <1>1
<1>. USE DEF pool, fibers, stacks, threads
<1>3. /\ g \in Fibers /\ kind = "sleep_for" /\ life[g] = "live"
      /\ ~Held(g) /\ ~Deferred(g) /\ tasks' \in Seq(Handlers) /\ Distinct'
      /\ timers' \subseteq Fibers
      /\ \A f \in Fibers : f # g => (Submitted(f)' <=> Submitted(f))
      /\ Submitted(g) \/ g \in timers
      /\ \A f \in Fibers : f = g => (Submitted(f)' <=> f \notin timers')
  <2>1. CASE tasks # <<>> /\ g = Head(tasks)[2] /\ Head(tasks)[1] = "arm"
             /\ tasks' = Tail(tasks) /\ timers' = timers \cup {g}
    <3>1. /\ tasks' \in Seq(Handlers) /\ g \in Fibers /\ Submitted(g) /\ Distinct'
          /\ \A f \in Fibers : Submitted(f)' <=> Submitted(f) /\ f # g
      BY <2>1, TasksTail DEF IInv, Queue
    <3>2. kind = "sleep_for"
      BY <2>1, TasksTail DEF IInv, Queue
    <3>. QED  BY <2>1, <3>1, <3>2 DEF IInv, Placed, TypeOK
  <2>2. CASE g \in timers /\ timers' = timers \ {g} /\ tasks' = Append(tasks, <<"step", g>>)
    <3>1. g \in Fibers /\ ~Submitted(g) /\ life[g] = "live" /\ ~Held(g) /\ ~Deferred(g)
      BY <2>2 DEF IInv, TypeOK, Placed
    <3>. DEFINE h == <<"step", g>>
    <3>2. h \in Handlers /\ h[2] = g
      BY <3>1 DEF Handlers
    <3>3. tasks' = Append(tasks, h)
      BY <2>2
    <3>. HIDE DEF h
    <3>4. /\ tasks' \in Seq(Handlers) /\ Distinct'
          /\ \A f \in Fibers : Submitted(f)' <=> Submitted(f) \/ f = g
      BY <3>1, <3>2, <3>3, TasksAppend DEF IInv, Queue
    <3>5. kind = "sleep_for"
      BY <2>2 DEF IInv, Queue
    <3>. QED  BY <2>2, <3>1, <3>4, <3>5 DEF IInv, TypeOK
  <2>. QED  BY <1>1, <2>1, <2>2
<1>4. timers' = timers \cup {g} \/ timers' = timers \ {g}
  BY <1>1
<1>5. TypeOK' /\ Threaded' /\ DeferredOwn'
  BY <1>2, <1>3 DEF IInv, TypeOK, Threaded, DeferredOwn
<1>6. Placed' /\ Queue'
  <2>1. \A f \in Fibers : (Held(f)' <=> Held(f)) /\ (Deferred(f)' <=> Deferred(f))
    BY <1>2 DEF Held, Deferred
  <2>2. \A f \in Fibers : f # g => (f \in timers' <=> f \in timers)
    BY <1>4
  <2>3. \A f \in Fibers : f = g => ~Held(f)' /\ ~Deferred(f)' /\ life'[f] = "live"
    BY <1>2, <1>3, <2>1
  <2>4. Placed'
    BY <1>2, <1>3, <2>1, <2>2, <2>3 DEF IInv, Placed, TypeOK
  <2>. QED  BY <1>2, <1>3, <2>4 DEF Queue
<1>7. StacksOwned'
  BY <1>2, StacksKept
<1>8. Counts'
  BY <1>2, <1>3 DEF IInv, Counts
<1>. QED  BY <1>3, <1>5, <1>6, <1>7, <1>8 DEF IInv

LEMMA Stutter == ASSUME IInv, UNCHANGED vars PROVE IInv'
<1>. USE DEF vars, pool, fibers, stacks, queues, threads
<1>1. TypeOK' /\ Threaded' /\ DeferredOwn'
  BY DEF IInv, TypeOK, Threaded, DeferredOwn
<1>2. \A f \in Fibers : (Held(f)' <=> Held(f)) /\ (Deferred(f)' <=> Deferred(f))
                        /\ (Submitted(f)' <=> Submitted(f))
  BY DEF Held, Deferred, Submitted
<1>3. Placed' /\ Queue'
  BY <1>2 DEF IInv, Placed, TypeOK, Queue, Distinct, OnlySteps
<1>4. StacksOwned'
  BY StacksKept
<1>5. Counts'
  BY DEF IInv, Counts, Active
<1>. QED  BY <1>1, <1>3, <1>4, <1>5 DEF IInv

LEMMA NextKeeps == ASSUME Finite, IInv, [Next]_vars PROVE IInv'
<1>1. ASSUME NEW w \in Workers, OnThread(w) PROVE IInv'
  <2>1. CASE Go(w)             BY <2>1, GoKeeps
  <2>2. CASE StackAllocator(w)
    BY <2>2, LockKeeps, TryTakeKeeps, PopBackKeeps, AllocateNewKeeps, ReleaseKeeps
       DEF StackAllocator, Allocate
  <2>3. CASE Schedule(w)       BY <2>3, ScheduleKeeps
  <2>4. CASE Yield(w) \/ Suspend(w)  BY <2>4, YieldKeeps
  <2>5. CASE YieldDeferred(w) \/ SleepFor(w)  BY <2>5, DeferKeeps
  <2>6. CASE Complete(w)       BY <2>6, CompleteKeeps
  <2>7. CASE Step(w)           BY <2>7, StepKeeps
  <2>8. CASE Rethrow(w)        BY <2>8, RethrowKeeps
  <2>9. CASE Delete(w)         BY <2>9, DeleteKeeps
  <2>10. CASE Reschedule(w) \/ AwaitSuspend(w)  BY <2>10, RescheduleKeeps
  <2>11. CASE Dispatch(w)      BY <2>11, DispatchKeeps
  <2>12. CASE Reset(w)         BY <2>12, ResetKeeps
  <2>13. CASE Arm(w)           BY <2>13, TimerKeeps
  <2>. QED  BY <1>1, <2>1, <2>2, <2>3, <2>4, <2>5, <2>6, <2>7, <2>8, <2>9, <2>10, <2>11, <2>12, <2>13
            DEF OnThread
<1>. QED  BY <1>1, StopKeeps, TimerKeeps, Stutter DEF Next

-----------------------------------------------------------------------------
(* The initial states, and what the invariant says *)

LEMMA RootsInARow ==
    ASSUME Finite
    PROVE  SetToSeq(Roots) \in Seq(Fibers) /\ IsInjective(SetToSeq(Roots))
<1>. DEFINE n == Cardinality(Roots)
<1>1. IsFiniteSet(Roots)
  BY FS_Subset DEF Finite
<1>2. n \in Nat /\ ExistsBijection(1..n, Roots)
  BY <1>1, FS_CardinalityType
<1>3. \E f \in [1..n -> Roots] : IsInjective(f)
  BY <1>2 DEF ExistsBijection, Bijection, Injection
<1>4. SetToSeq(Roots) \in [1..n -> Roots] /\ IsInjective(SetToSeq(Roots))
  BY <1>3 DEF SetToSeq
<1>5. SetToSeq(Roots) \in Seq(Roots)
  BY <1>2, <1>4, IsASeq
<1>. QED  BY <1>4, <1>5, SeqMonotonic DEF Finite

LEMMA InitKeeps == ASSUME Finite, NEW k \in Kinds, InitAs(k) PROVE IInv
<1>. DEFINE roots == IF k = "none" THEN <<>> ELSE SetToSeq(Roots)
            n == Len(roots)
<1>1. roots \in Seq(Fibers) /\ IsInjective(roots)
  BY RootsInARow DEF IsInjective
<1>2. n \in Nat /\ DOMAIN roots = 1..n /\ roots \in [1..n -> Fibers]
  BY <1>1, SeqFacts
<1>3. /\ kind = k
      /\ life = [f \in Fibers |-> IF Contains(roots, f) THEN "live" ELSE "none"]
      /\ stack = [f \in Fibers |-> IF Contains(roots, f) THEN CHOOSE i \in DOMAIN roots : roots[i] = f ELSE 0]
      /\ made = n /\ free = <<>> /\ spin = NoFiber
      /\ tasks = [i \in DOMAIN roots |-> Resumption(roots[i])]
      /\ open = TRUE /\ pending = n
      /\ deferred = [w \in Workers |-> <<>>] /\ timers = {}
      /\ running = [w \in Workers |-> NoFiber]
      /\ on = [w \in Workers |-> NoFiber]
      /\ creates = [w \in Workers |-> NoFiber]
      /\ at = [w \in Workers |-> "idle"]
  BY DEF InitAs
<1>. HIDE DEF roots
<1>. DEFINE In(f) == \E i \in 1..n : roots[i] = f
<1>4. \A f \in Fibers : Contains(roots, f) <=> In(f)
  BY DEF Contains
<1>. HIDE DEF n
<1>5. /\ life \in [Fibers -> Lives] /\ DOMAIN life = Fibers
      /\ \A f \in Fibers : In(f) => life[f] = "live"
      /\ \A f \in Fibers : ~In(f) => life[f] = "none"
  BY <1>3, <1>4 DEF Lives
<1>6. /\ stack \in [Fibers -> Nat]
      /\ \A f \in Fibers : In(f) => stack[f] \in 1..n /\ roots[stack[f]] = f
      /\ \A f \in Fibers : ~In(f) => stack[f] = 0
  <2>1. \A f \in Fibers : In(f) => stack[f] \in 1..n /\ roots[stack[f]] = f
    <3>1. \A f \in Fibers : In(f) => stack[f] = CHOOSE i \in 1..n : roots[i] = f
      BY <1>2, <1>3, <1>4
    <3>. QED  BY <3>1
  <2>2. \A f \in Fibers : ~In(f) => stack[f] = 0
    BY <1>3, <1>4
  <2>3. \A f \in Fibers : stack[f] \in Nat
    BY <1>2, <2>1, <2>2
  <2>4. stack = [f \in Fibers |-> stack[f]]
    BY <1>3
  <2>. QED  BY <2>1, <2>2, <2>3, <2>4
<1>7. /\ tasks \in Seq(Handlers) /\ Len(tasks) = n /\ DOMAIN tasks = 1..n
      /\ \A i \in 1..n : tasks[i] = <<"step", roots[i]>>
  <2>1. tasks \in [1..n -> Handlers]
    BY <1>2, <1>3 DEF Resumption, Handlers
  <2>2. tasks \in Seq(Handlers)
    BY <1>2, <2>1, IsASeq
  <2>3. Len(tasks) = n
    BY <1>2, <2>1, <2>2, SeqFacts, LenProperties
  <2>. QED  BY <1>2, <1>3, <2>1, <2>2, <2>3 DEF Resumption
<1>8. \A f \in Fibers : Submitted(f) <=> In(f)
  BY <1>7 DEF Submitted
<1>9. TypeOK
  BY <1>2, <1>3, <1>5, <1>6, <1>7, EmptySeq DEF TypeOK
<1>10. Threaded
  <2>1. \A w \in Workers : w # NoFiber
    BY DEF Finite
  <2>. QED  BY <1>3, <2>1 DEF Threaded, Holding, InCode, Creating, Deleting
<1>11. Queue
  <2>1. Distinct
    BY <1>1, <1>2, <1>7 DEF Distinct, IsInjective
  <2>2. OnlySteps
    BY <1>7 DEF OnlySteps
  <2>. QED  BY <1>3, <2>1, <2>2 DEF Queue
<1>12. Placed
  <2>1. \A f \in Fibers : ~Held(f) /\ ~Deferred(f)
    BY <1>3 DEF Held, Deferred, Holding, InCode, Deleting
  <2>. QED  BY <1>3, <1>5, <1>8, <2>1 DEF Placed
<1>13. DeferredOwn
  BY <1>3 DEF DeferredOwn
<1>14. StacksOwned
  <2>1. /\ \A w \in Workers : creates[w] = NoFiber /\ at[w] = "idle"
        /\ DOMAIN free = {}
    BY <1>3
  <2>2. \A i \in 1..n : roots[i] \in Fibers /\ stack[roots[i]] = i
    <3>1. \A i, j \in 1..n : roots[i] = roots[j] => i = j
      BY <1>1, <1>2 DEF IsInjective
    <3>. QED  BY <1>2, <1>6, <3>1
  <2>3. \A s \in 1..made : \E f \in Fibers : life[f] # "deleted" /\ stack[f] = s
    <3>1. \A i \in 1..n : In(roots[i])
      OBVIOUS
    <3>. QED  BY <1>2, <1>3, <1>5, <2>2, <3>1
  <2>4. \A f \in Fibers : stack[f] <= made /\ (stack[f] # 0 <=> In(f))
    <3>. HIDE DEF In
    <3>1. \A i \in 1..n : i <= n /\ i # 0
      BY <1>2
    <3>2. made = n /\ 0 <= n
      BY <1>2, <1>3
    <3>. QED  BY <1>6, <3>1, <3>2
  <2>5. \A f, g \in Fibers : stack[f] = stack[g] /\ stack[f] # 0 => f = g
    BY <1>6, <2>4
  <2>6. \A f \in Fibers : In(f) <=> life[f] # "none"
    BY <1>5
  <2>. QED  BY <2>1, <2>3, <2>4, <2>5, <2>6 DEF StacksOwned, IsInjective
<1>15. Counts
  <2>1. Active = {}
    BY <1>3 DEF Active
  <2>. QED  BY <1>2, <1>3, <1>5, <1>7, <2>1, FS_EmptySet DEF Counts
<1>. QED  BY <1>9, <1>10, <1>11, <1>12, <1>13, <1>14, <1>15 DEF IInv

LEMMA Invariant == ASSUME Finite PROVE Spec => []IInv
<1>1. (\E k \in Kinds : InitAs(k)) => IInv
  BY InitKeeps
<1>2. IInv /\ [Next]_vars => IInv'
  BY NextKeeps
<1>. QED  BY <1>1, <1>2, PTL DEF Spec

LEMMA AtMostOne ==
    ASSUME NEW S, \A x, y \in S : x = y
    PROVE  Cardinality(S) = IF S = {} THEN 0 ELSE 1
<1>1. CASE S = {}
  BY <1>1, FS_EmptySet
<1>2. CASE S # {}
  <2>1. PICK x : S = {x}
    BY <1>2
  <2>. QED  BY <1>2, <2>1, FS_Singleton
<1>. QED  BY <1>1, <1>2

LEMMA IsInOnePlace == IInv => InOnePlace
<1>. SUFFICES ASSUME IInv PROVE InOnePlace
  OBVIOUS
<1>. DEFINE D(f) == {w \in Workers : Queued(deferred[w], f) > 0}
            Own(f) == {w \in Busy(f) : Queued(deferred[w], f) > 0}
            Q(f) == {i \in DOMAIN tasks : tasks[i][2] = f}
<1>1. \A w \in Workers, f \in Fibers :
         Queued(deferred[w], f) > 0 <=> deferred[w] # <<>> /\ on[w] = f
  <2>1. SUFFICES ASSUME NEW w \in Workers, NEW f \in Fibers
                 PROVE  Queued(deferred[w], f) > 0 <=> deferred[w] # <<>> /\ on[w] = f
    OBVIOUS
  <2>. DEFINE P == {i \in DOMAIN deferred[w] : deferred[w][i][2] = f}
  <2>2. CASE deferred[w] = <<>>
    <3>1. P = {}
      BY <2>2
    <3>. QED  BY <2>2, <3>1, FS_EmptySet DEF Queued
  <2>3. CASE deferred[w] # <<>>
    <3>1. PICK h : deferred[w] = <<h>>
      BY <2>3 DEF IInv, TypeOK
    <3>2. h[2] = on[w] /\ DOMAIN deferred[w] = {1} /\ deferred[w][1] = h
      BY <2>3, <3>1 DEF IInv, DeferredOwn
    <3>3. P = IF on[w] = f THEN {1} ELSE {}
      BY <3>2
    <3>4. Cardinality(P) = IF on[w] = f THEN 1 ELSE 0
      BY <3>3, FS_EmptySet, FS_Singleton
    <3>. QED  BY <2>3, <3>4 DEF Queued
  <2>. QED  BY <2>2, <2>3
<1>2. ASSUME NEW f \in Fibers
      PROVE  /\ Cardinality(Busy(f)) = IF Busy(f) = {} THEN 0 ELSE 1
             /\ Cardinality(Q(f)) = IF Q(f) = {} THEN 0 ELSE 1
             /\ Cardinality(D(f)) = IF D(f) = {} THEN 0 ELSE 1
             /\ Cardinality(Own(f)) = IF Own(f) = {} THEN 0 ELSE 1
  <2>1. \A v, w \in Busy(f) : v = w
    BY DEF IInv, Threaded, Busy, Holding
  <2>2. \A i, j \in Q(f) : i = j
    BY DEF IInv, Queue, Distinct
  <2>3. \A v, w \in D(f) : v = w
    BY <1>1 DEF IInv, DeferredOwn
  <2>4. \A v, w \in Own(f) : v = w
    BY <2>1
  <2>. HIDE DEF Q, D, Own
  <2>. QED  BY <2>1, <2>2, <2>3, <2>4, AtMostOne
<1>3. ASSUME NEW f \in Fibers
      PROVE  /\ Q(f) # {} <=> Submitted(f)
             /\ Own(f) # {} => Busy(f) # {}
             /\ Busy(f) # {} => ~Submitted(f) /\ f \notin timers /\ Own(f) = D(f)
             /\ Busy(f) = {} => (D(f) # {} <=> Deferred(f))
             /\ life[f] = "live" => Busy(f) # {} \/ Submitted(f) \/ f \in timers \/ Deferred(f)
             /\ life[f] # "live" => ~Submitted(f) /\ f \notin timers /\ ~Deferred(f)
             /\ ~(Submitted(f) /\ f \in timers) /\ ~(Submitted(f) /\ Deferred(f))
             /\ ~(f \in timers /\ Deferred(f))
  <2>1. Q(f) # {} <=> Submitted(f)
    BY DEF Submitted
  <2>2. Busy(f) # {} => Held(f)
    BY DEF Busy, Held, Holding
  <2>3. life[f] = "live" /\ Held(f) => Busy(f) # {}
    BY DEF Busy, Held, Holding, IInv, Threaded
  <2>4. Busy(f) # {} => Own(f) = D(f)
    <3>1. \A w \in Workers : w \in D(f) => at[w] = "back" \/ Deferred(f)
      BY <1>1 DEF IInv, DeferredOwn, Deferred
    <3>2. Held(f) => ~Deferred(f)
      BY DEF IInv, Placed
    <3>3. Busy(f) # {} => \A w \in D(f) : w \in Busy(f)
      BY <1>1, <2>2, <3>1, <3>2 DEF Busy
    <3>. QED  BY <3>3 DEF Busy
  <2>5. Busy(f) = {} => (D(f) # {} <=> Deferred(f))
    BY <1>1 DEF IInv, DeferredOwn, Deferred, Busy
  <2>. QED  BY <2>1, <2>2, <2>3, <2>4, <2>5 DEF IInv, Placed, Busy
<1>4. ASSUME NEW f \in Fibers
      PROVE  (Cardinality(Busy(f)) + Queued(tasks, f) + (IF f \in timers THEN 1 ELSE 0)
                + Cardinality(D(f))) - Cardinality(Own(f))
                = IF life[f] = "live" \/ Busy(f) # {} THEN 1 ELSE 0
  <2>1. Queued(tasks, f) = Cardinality(Q(f))
    BY DEF Queued
  <2>. HIDE DEF Q, D, Own
  <2>2. CASE Busy(f) # {}
    BY <1>2, <1>3, <2>1, <2>2
  <2>3. CASE Busy(f) = {}
    BY <1>2, <1>3, <2>1, <2>3
  <2>. QED  BY <2>2, <2>3
<1>5. \A w \in Workers : at[w] \in InCode => running[w] = on[w] /\ life[on[w]] = "live"
  BY DEF IInv, Threaded
<1>. QED  BY <1>4, <1>5 DEF InOnePlace

LEMMA StacksAreApart == IInv => StacksApart
<1>. SUFFICES ASSUME IInv, NEW s \in 1..made
              PROVE  Cardinality(Users(s)) + Cardinality({i \in DOMAIN free : free[i] = s})
                     = IF \E w \in Workers : at[w] = "pop" /\ stack[creates[w]] = s THEN 2 ELSE 1
  BY DEF StacksApart
<1>. DEFINE Pooled == {i \in DOMAIN free : free[i] = s}
<1>1. s # 0
  BY DEF IInv, TypeOK
<1>2. free \in Seq(Nat) /\ DOMAIN free = 1..Len(free) /\ Len(free) \in Nat
      /\ (free # <<>> => Len(free) \in DOMAIN free)
  <2>1. free \in Seq(Nat)
    BY DEF IInv, TypeOK
  <2>2. Len(free) \in Nat /\ DOMAIN free = 1..Len(free) /\ (free = <<>> <=> Len(free) = 0)
    BY <2>1, SeqFacts
  <2>. QED  BY <2>1, <2>2
<1>3. \A f, g \in Users(s) : f = g
  BY <1>1 DEF IInv, StacksOwned, Users
<1>4. \A i, j \in Pooled : i = j
  BY DEF IInv, StacksOwned, IsInjective
<1>5. CASE \E w \in Workers : at[w] = "pop" /\ stack[creates[w]] = s
  <2>1. PICK w \in Workers : at[w] = "pop" /\ stack[creates[w]] = s
    BY <1>5
  <2>2. creates[w] \in Fibers /\ life[creates[w]] = "created"
    BY <2>1 DEF IInv, TypeOK, Threaded, Creating
  <2>3. creates[w] \in Users(s)
    BY <2>1, <2>2 DEF Users
  <2>4. Len(free) \in Pooled
    BY <1>2, <2>1 DEF IInv, StacksOwned, Last
  <2>. HIDE DEF Pooled
  <2>5. Cardinality(Users(s)) = 1 /\ Cardinality(Pooled) = 1
    BY <1>3, <1>4, <2>3, <2>4, AtMostOne
  <2>. QED  BY <1>5, <2>5 DEF Pooled
<1>6. CASE ~ \E w \in Workers : at[w] = "pop" /\ stack[creates[w]] = s
  <2>1. Users(s) # {} \/ Pooled # {}
    BY DEF IInv, StacksOwned, Users
  <2>2. ~(Users(s) # {} /\ Pooled # {})
    BY <1>6 DEF IInv, StacksOwned, Users, Popping
  <2>. HIDE DEF Pooled
  <2>3. /\ Cardinality(Users(s)) = IF Users(s) = {} THEN 0 ELSE 1
        /\ Cardinality(Pooled) = IF Pooled = {} THEN 0 ELSE 1
    BY <1>3, <1>4, AtMostOne
  <2>. QED  BY <1>6, <2>1, <2>2, <2>3 DEF Pooled
<1>. QED  BY <1>5, <1>6

LEMMA IdleMeansOver == Finite /\ IInv => IdleIsOver
<1>. SUFFICES ASSUME Finite, IInv PROVE IdleIsOver
  OBVIOUS
<1>1. ASSUME kind # "sleep_for", pending = 0
      PROVE  \A f \in Fibers : life[f] \notin {"created", "live", "completed"}
  <2>1. IsFiniteSet(Active)
    BY FS_Subset DEF Finite, Active
  <2>2. Cardinality(Active) \in Nat /\ Len(tasks) \in Nat /\ tasks \in Seq(Handlers)
    BY <2>1, FS_CardinalityType, SeqFacts DEF IInv, TypeOK
  <2>3. Cardinality(Active) = 0 /\ Len(tasks) = 0
    BY <1>1, <2>2 DEF IInv, Counts
  <2>4. Active = {} /\ tasks = <<>>
    BY <2>1, <2>2, <2>3, FS_EmptySet, SeqFacts
  <2>5. \A w \in Workers : at[w] = "idle" /\ creates[w] = NoFiber
    BY <2>4 DEF Active, IInv, Threaded, Creating
  <2>6. \A f \in Fibers : ~Held(f) /\ ~Submitted(f) /\ ~Deferred(f)
    BY <2>4, <2>5 DEF Held, Submitted, Deferred, Holding, InCode, Deleting
  <2>7. timers = {} /\ NoFiber \notin Fibers
    BY <1>1 DEF IInv, Queue, Finite
  <2>. QED  BY <2>5, <2>6, <2>7 DEF IInv, Placed
<1>2. open => \A f \in Fibers : life[f] # "lost"
  BY DEF IInv, Counts
<1>. QED  BY <1>1, <1>2 DEF IdleIsOver

\* A live fiber is in one Step, in one queue, or asleep, once; a stack has one user; and
\* an idle pool has no fiber left: for any finite numbers of fibers and of threads, in
\* each of the three copies of the runtime.
THEOREM SafeHolds == ASSUME Finite PROVE Spec => []Safe
<1>1. IInv => Safe
  BY IsInOnePlace, StacksAreApart, IdleMeansOver DEF Safe
<1>. QED  BY <1>1, Invariant, PTL
=============================================================================
