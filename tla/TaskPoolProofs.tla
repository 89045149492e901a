--------------------------- MODULE TaskPoolProofs ---------------------------
(***************************************************************************)
(* The thread pools, for all finite sets of clients, workers and tasks:    *)
(* the count is exact, a task is in one place, no wake-up of a worker is   *)
(* lost, Stop is final, and what a return from WaitIdle means.  One proof  *)
(* serves the compute pool of ThreadPool and the two others of TaskPool.   *)
(***************************************************************************)
EXTENDS TaskPool, FiniteSetTheorems, SequenceTheorems, TLAPS

\* Where workers and clients can be.
Points ==
    /\ \A w \in Workers : pc[w] \in {"take", "sleepTake", "run", "put", "notify",
                                     "done", "notifyAll", "exit"}
    /\ \A c \in Clients : pc[c] \in {"idle", "put", "notify", "wait", "sleepWait",
                                     "closed", "join", "stopped"}

\* A thread has a task to submit while it is about to put it; a worker has a job until
\* its Done, also while the job submits tasks, and the job has run just before.
Hands ==
    /\ \A t \in Threads : sub[t] # None <=> pc[t] = "put"
    /\ \A w \in Workers : /\ job[w] # None <=> pc[w] \in {"run", "put", "notify", "done"}
                          /\ job[w] # None => (job[w] \in ran <=> pc[w] = "done")

\* A task that is being submitted is nowhere else.
SubmittedOnce == \A t \in Threads : sub[t] # None =>
    /\ sub[t] \notin ToSet(buffer) \cup ran \cup discarded
    /\ \A u \in Threads \ {t} : sub[u] # sub[t]
    /\ \A w \in Workers : job[w] # sub[t]

\* Everything that count_ counts.
Counted    == Outstanding \cup discarded
CountIsAll == count = Cardinality(Counted)

\* After Stop has begun the queue stays empty; after it has returned the workers are gone.
Stopping ==
    /\ ~open => buffer = <<>>
    /\ \A t \in Threads : pc[t] \in {"closed", "join", "stopped"} => ~open
    /\ \A t \in Threads : pc[t] = "stopped" => \A w \in Workers : pc[w] = "exit"

IInv == /\ TypeOK /\ Points /\ Hands /\ InOnePlace /\ SubmittedOnce
        /\ CountIsAll /\ NoLostWakeup /\ Stopping
-----------------------------------------------------------------------------
(* Lemmas about the queue, the tasks that are counted, and the workers that *)
(* are awake                                                                *)

Places(k) == \/ k \in ToSet(buffer) \cup discarded
             \/ \E t \in Threads : sub[t] = k /\ k # None
             \/ \E w \in Workers : job[w] = k /\ k # None

\* A task is counted when it is in one of its places.
LEMMA CountedPlaces ==
    ASSUME TypeOK
    PROVE  \A k : k \in Counted <=> Places(k)
<1>1. None \notin ToSet(buffer)
  BY ThreadsAssumption DEF TypeOK, ToSet
<1>. QED  BY <1>1 DEF Counted, Outstanding, Places

LEMMA CountedPlacesNext ==
    ASSUME TypeOK'
    PROVE  \A k : k \in Counted' <=> Places(k)'
<1>1. None \notin ToSet(buffer')
  BY ThreadsAssumption DEF TypeOK, ToSet
<1>. QED  BY <1>1 DEF Counted, Outstanding, Places

\* Append adds a task to the queue, Take takes its head out.
LEMMA QueueAppend ==
    ASSUME buffer \in Seq(Tasks), NEW k \in Tasks, buffer' = Append(buffer, k)
    PROVE  /\ buffer' \in Seq(Tasks) /\ Len(buffer') = Len(buffer) + 1
           /\ ToSet(buffer') = ToSet(buffer) \cup {k}
           /\ IsInjective(buffer) /\ k \notin ToSet(buffer) => IsInjective(buffer')
<1>1. /\ buffer' \in Seq(Tasks) /\ Len(buffer') = Len(buffer) + 1 /\ Len(buffer) \in Nat
      /\ \A i \in 1..Len(buffer) : buffer'[i] = buffer[i]
      /\ buffer'[Len(buffer) + 1] = k
      /\ DOMAIN buffer = 1..Len(buffer) /\ DOMAIN buffer' = 1..(Len(buffer) + 1)
  BY AppendProperties, LenProperties
<1>2. ToSet(buffer') = ToSet(buffer) \cup {k}
  BY <1>1 DEF ToSet
<1>3. IsInjective(buffer) /\ k \notin ToSet(buffer) => IsInjective(buffer')
  BY <1>1 DEF IsInjective, ToSet
<1>. QED  BY <1>1, <1>2, <1>3

LEMMA QueueTail ==
    ASSUME buffer \in Seq(Tasks), buffer # <<>>, buffer' = Tail(buffer), IsInjective(buffer)
    PROVE  /\ buffer' \in Seq(Tasks) /\ Len(buffer') = Len(buffer) - 1
           /\ Head(buffer) \in Tasks /\ Head(buffer) \in ToSet(buffer)
           /\ ToSet(buffer') = ToSet(buffer) \ {Head(buffer)}
           /\ IsInjective(buffer')
<1>1. /\ buffer' \in Seq(Tasks) /\ Len(buffer') = Len(buffer) - 1 /\ Len(buffer) \in Nat \ {0}
      /\ \A i \in 1..Len(buffer') : buffer'[i] = buffer[i+1]
      /\ DOMAIN buffer = 1..Len(buffer) /\ DOMAIN buffer' = 1..(Len(buffer) - 1)
      /\ Head(buffer) = buffer[1] /\ Head(buffer) \in Tasks
  BY HeadTailProperties, LenProperties, EmptySeq
<1>2. Head(buffer) \in ToSet(buffer)
  BY <1>1 DEF ToSet
<1>3. ASSUME NEW k \in ToSet(buffer') PROVE k \in ToSet(buffer) \ {Head(buffer)}
  <2>1. PICK i \in 1..Len(buffer') : k = buffer[i+1]
    BY <1>1, <1>3 DEF ToSet
  <2>2. i + 1 \in 1..Len(buffer) /\ i + 1 # 1
    BY <1>1, <2>1
  <2>. QED  BY <1>1, <2>1, <2>2 DEF ToSet, IsInjective
<1>4. ASSUME NEW k \in ToSet(buffer) \ {Head(buffer)} PROVE k \in ToSet(buffer')
  <2>1. PICK i \in 1..Len(buffer) : k = buffer[i]
    BY <1>1, <1>4 DEF ToSet
  <2>2. i - 1 \in 1..Len(buffer') /\ buffer'[i-1] = k
    BY <1>1, <1>4, <2>1
  <2>. QED  BY <1>1, <2>2 DEF ToSet
<1>5. IsInjective(buffer')
  BY <1>1 DEF IsInjective
<1>. QED  BY <1>1, <1>2, <1>3, <1>4, <1>5

\* count_ follows the counted tasks: one that is added, one that has ended, or none.
LEMMA CountStep ==
    ASSUME TypeOK, CountIsAll, Counted' \subseteq Tasks, NEW k,
           \/ k \notin Counted /\ Counted' = Counted \cup {k} /\ count' = count + 1
           \/ k \in Counted /\ Counted' = Counted \ {k} /\ count' = count - 1
           \/ Counted' = Counted /\ count' = count
    PROVE  CountIsAll' /\ count' \in 0..Cardinality(Tasks)
<1>1. ASSUME NEW j \in Counted PROVE j \in Tasks
  BY <1>1, CountedPlaces, ThreadsAssumption DEF TypeOK, Places, ToSet, Threads
<1>2. /\ IsFiniteSet(Counted) /\ Cardinality(Counted) \in Nat
      /\ IsFiniteSet(Counted') /\ Cardinality(Counted') \in Nat
      /\ Cardinality(Counted') <= Cardinality(Tasks) /\ Cardinality(Tasks) \in Nat
  BY <1>1, FS_Subset, FS_CardinalityType, TasksAssumption
<1>3. count' = Cardinality(Counted')
  BY <1>2, FS_AddElement, FS_RemoveElement DEF CountIsAll
<1>. QED  BY <1>2, <1>3 DEF CountIsAll

\* The workers on their way to the queue, and the threads that have to notify one.
Active == {w \in Workers : pc[w] = "take"} \cup {t \in Threads : pc[t] = "notify"}

\* A step keeps the wake-ups if it takes away a sleeper's reason to be woken, or wakes
\* everybody, or if it pairs a task with somebody who is awake.
LEMMA WakeupsKept ==
    ASSUME NoLostWakeup, Len(buffer) \in Nat, Len(buffer') \in Nat,
           NEW t \in Threads, NEW u \in Threads,
           \/ /\ Active \subseteq Active' /\ Len(buffer') <= Len(buffer)
              /\ TakeSleepers' \subseteq TakeSleepers
           \/ /\ Active' = Active \cup {t} /\ t \notin Active /\ Len(buffer') = Len(buffer) + 1
              /\ TakeSleepers' \subseteq TakeSleepers
           \/ /\ Active' = (Active \ {t}) \cup {u} /\ t \in Active /\ u \notin Active
              /\ buffer' = buffer /\ TakeSleepers' \subseteq TakeSleepers
           \/ /\ Active' = Active \ {t} /\ t \in Active /\ Len(buffer') = Len(buffer) - 1
              /\ TakeSleepers' \subseteq TakeSleepers
           \/ Len(buffer') = 0
           \/ TakeSleepers' = {}
    PROVE  NoLostWakeup'
<1>1. Active \in SUBSET Threads /\ Active' \in SUBSET Threads
  BY DEF Active, Threads
<1>2. /\ IsFiniteSet(Active) /\ Cardinality(Active) \in Nat
      /\ IsFiniteSet(Active') /\ Cardinality(Active') \in Nat
  BY <1>1, FS_Subset, FS_CardinalityType, ThreadsAssumption DEF Threads
<1>3. Cardinality(Active) >= Len(buffer) \/ TakeSleepers = {}
  BY DEF NoLostWakeup, Active
<1>4. Active \subseteq Active' => Cardinality(Active) <= Cardinality(Active')
  BY <1>2, FS_Subset
<1>5. t \notin Active /\ Active' = Active \cup {t} => Cardinality(Active') = Cardinality(Active) + 1
  BY <1>2, FS_AddElement
<1>6. t \in Active /\ Active' = Active \ {t} => Cardinality(Active') = Cardinality(Active) - 1
  BY <1>2, FS_RemoveElement
<1>7. t \in Active /\ u \notin Active /\ Active' = (Active \ {t}) \cup {u}
         => Cardinality(Active') = Cardinality(Active)
  <2>. SUFFICES ASSUME t \in Active, u \notin Active, Active' = (Active \ {t}) \cup {u}
                PROVE  Cardinality(Active') = Cardinality(Active)
    OBVIOUS
  <2>1. /\ IsFiniteSet(Active \ {t}) /\ Cardinality(Active \ {t}) = Cardinality(Active) - 1
    BY <1>2, FS_RemoveElement
  <2>2. Cardinality(Active') = Cardinality(Active \ {t}) + 1
    BY <2>1, FS_AddElement
  <2>. QED  BY <1>2, <2>1, <2>2
<1>8. Cardinality(Active') >= Len(buffer') \/ TakeSleepers' = {}
  BY <1>2, <1>3, <1>4, <1>5, <1>6, <1>7
<1>. QED  BY <1>8 DEF NoLostWakeup, Active
-----------------------------------------------------------------------------
(* The steps *)

data == <<buffer, open, count, sub, job, ran, discarded>>

\* A step that moves threads only changes where the threads are.
LEMMA DataKept ==
    ASSUME IInv, UNCHANGED data
    PROVE  /\ InOnePlace' /\ SubmittedOnce' /\ CountIsAll'
           /\ Len(buffer) \in Nat /\ Len(buffer') = Len(buffer)
BY DEF data, IInv, TypeOK, InOnePlace, SubmittedOnce, CountIsAll, Counted, Outstanding

\* Steps of a thread that wakes nobody.
LEMMA MoveSteps ==
    ASSUME IInv, NEW t \in Threads,
           \/ t \in Clients /\ (WaitIdle(t) \/ Wait(t) \/ Join(t))
           \/ SpuriousWake(t)
    PROVE  IInv'
<1>. USE ThreadsAssumption DEF IInv, Threads
<1>1. UNCHANGED data
  BY DEF data, WaitIdle, Wait, Join, SpuriousWake
<1>2. TypeOK' /\ Points' /\ Hands'
  BY <1>1 DEF data, WaitIdle, Wait, Join, SpuriousWake, Move, TypeOK, Points, Hands
<1>3. Stopping'
  BY <1>1 DEF data, WaitIdle, Wait, Join, SpuriousWake, Move, TypeOK, Points, Stopping
<1>4. Active \subseteq Active' /\ TakeSleepers' \subseteq TakeSleepers
  BY DEF WaitIdle, Wait, Join, SpuriousWake, Move, TypeOK, Points, Active, TakeSleepers
<1>5. NoLostWakeup'
  BY <1>1, <1>4, DataKept, WakeupsKept
<1>. QED  BY <1>1, <1>2, <1>3, <1>5, DataKept

\* Steps of a thread that wakes sleepers, after it has put a task, ended the last one,
\* or closed the queue.
LEMMA WakeSteps ==
    ASSUME IInv, NEW t \in Threads,
           \/ NotifyOne(t) \/ NotifyTakers(t)
           \/ t \in Workers /\ NotifyAll(t)
           \/ t \in Clients /\ Closed(t)
    PROVE  IInv'
<1>. USE ThreadsAssumption DEF IInv, Threads
<1>1. UNCHANGED data
  BY DEF data, NotifyOne, NotifyTakers, NotifyAll, Closed
<1>2. PICK to, S :
         /\ \/ S \subseteq TakeSleepers
            \/ S \subseteq WaitSleepers
         /\ Wake(t, pc[t], to, S)
         /\ \/ pc[t] = "notify" /\ to = Caller(t) /\ S \in PutWakes
            \/ pc[t] = "notify" /\ to = Caller(t) /\ S = TakeSleepers
            \/ pc[t] = "notifyAll" /\ t \in Workers /\ to = "take" /\ S = WaitSleepers
            \/ pc[t] = "closed" /\ t \in Clients /\ to = "join" /\ S = TakeSleepers
  <2>1. \A S \in PutWakes : S \subseteq TakeSleepers
    BY DEF PutWakes, OneOf
  <2>. QED
    BY <2>1 DEF NotifyOne, NotifyTakers, NotifyAll, Closed, Wake
<1>3. /\ \A u \in S : /\ u \in Workers => pc[u] = "sleepTake"
                      /\ u \in Clients => pc[u] = "sleepWait"
      /\ t \notin S
  BY <1>2 DEF TakeSleepers, WaitSleepers
<1>4. pc' = [u \in Threads |-> IF u = t THEN to
                               ELSE IF u \notin S THEN pc[u]
                               ELSE IF u \in Workers THEN "take" ELSE "wait"]
  BY <1>2 DEF Wake
<1>5. TypeOK' /\ Points' /\ Hands'
  BY <1>1, <1>2, <1>3, <1>4 DEF data, TypeOK, Points, Hands, Caller
<1>6. Stopping'
  BY <1>1, <1>2, <1>3, <1>4 DEF data, TypeOK, Points, Stopping, Caller
<1>7. NoLostWakeup'
  <2>1. TakeSleepers' \subseteq TakeSleepers
    BY <1>2, <1>3, <1>4 DEF TakeSleepers, TypeOK, Caller
  <2>2. CASE S = TakeSleepers
    <3>1. TakeSleepers' = {}
      BY <1>2, <1>3, <1>4, <2>2 DEF TakeSleepers, TypeOK, Caller
    <3>. QED  BY <1>1, <3>1, DataKept, WakeupsKept
  <2>3. CASE pc[t] = "notifyAll" /\ t \in Workers /\ to = "take" /\ S = WaitSleepers
    <3>1. Active \subseteq Active'
      BY <1>3, <1>4, <2>3 DEF Active, TypeOK
    <3>. QED  BY <1>1, <2>1, <3>1, DataKept, WakeupsKept
  <2>4. CASE pc[t] = "notify" /\ to = Caller(t) /\ S \in PutWakes /\ S # TakeSleepers
    <3>1. PICK u \in TakeSleepers : S = {u}
      BY <2>4 DEF PutWakes, OneOf
    <3>2. u \in Threads /\ u \notin Active /\ t \in Active
      BY <2>4, <3>1 DEF TakeSleepers, Active
    <3>3. Active' = (Active \ {t}) \cup {u}
      BY <1>3, <1>4, <2>4, <3>1 DEF Active, TakeSleepers, TypeOK, Caller
    <3>4. buffer' = buffer
      BY <1>1 DEF data
    <3>. QED  BY <1>1, <2>1, <3>2, <3>3, <3>4, DataKept, WakeupsKept
  <2>. QED  BY <1>2, <2>2, <2>3, <2>4
<1>. QED  BY <1>1, <1>5, <1>6, <1>7, DataKept

\* Execute picks a task that has never been submitted, and counts it.
LEMMA AddStep == ASSUME IInv, NEW t \in Threads, Add(t) PROVE IInv'
<1>. USE ThreadsAssumption DEF IInv, Threads
<1>1. PICK k \in Fresh : sub' = [sub EXCEPT ![t] = k]
  BY DEF Add
<1>2. /\ k \in Tasks /\ k \notin Counted /\ k \notin ran /\ k # None
      /\ pc[t] = Caller(t) /\ pc' = [pc EXCEPT ![t] = "put"] /\ count' = count + 1
      /\ UNCHANGED <<buffer, open, job, ran, discarded>>
  BY <1>1 DEF Add, Move, Fresh, Counted, Added
<1>3. sub[t] = None
  BY <1>2 DEF Hands, Caller
<1>4. k \notin ToSet(buffer) /\ k \notin discarded
      /\ (\A u \in Threads : sub[u] # k) /\ \A w \in Workers : job[w] # k
  BY <1>2, CountedPlaces DEF Places
<1>5. Counted' = Counted \cup {k}
  BY <1>1, <1>2, <1>3 DEF Counted, Outstanding, TypeOK
<1>6. CountIsAll' /\ count' \in 0..Cardinality(Tasks)
  <2>1. Counted' \subseteq Tasks
    BY <1>2, <1>5, CountedPlaces DEF TypeOK, Places, ToSet
  <2>. QED  BY <1>2, <1>5, <2>1, CountStep
<1>7. TypeOK' /\ Points'
  BY <1>1, <1>2, <1>6 DEF TypeOK, Points
<1>8. Hands'
  BY <1>1, <1>2, <1>3 DEF TypeOK, Hands, Caller
<1>9. InOnePlace'
  BY <1>2 DEF InOnePlace
<1>10. SubmittedOnce'
  BY <1>1, <1>2, <1>4 DEF TypeOK, SubmittedOnce
<1>11. NoLostWakeup'
  <2>1. Active \subseteq Active' /\ TakeSleepers' \subseteq TakeSleepers
    BY <1>2 DEF Active, TakeSleepers, TypeOK, Caller
  <2>. QED  BY <1>2, <2>1, WakeupsKept DEF TypeOK
<1>12. Stopping'
  BY <1>2 DEF Stopping, TypeOK, Caller
<1>. QED  BY <1>6, <1>7, <1>8, <1>9, <1>10, <1>11, <1>12

\* Put into an open queue, before or together with the notification.
LEMMA AcceptStep ==
    ASSUME IInv, NEW t \in Threads, Accepts, Put(t) \/ PutAndNotify(t) PROVE IInv'
<1>. USE ThreadsAssumption DEF IInv, Threads
<1>1. /\ pc[t] = "put" /\ open /\ buffer' = Append(buffer, sub[t])
      /\ sub' = [sub EXCEPT ![t] = None]
      /\ UNCHANGED <<open, count, job, ran, discarded>>
  BY DEF Put, PutAndNotify, Move, Wake, Accepts
<1>2. /\ sub[t] \in Tasks /\ sub[t] # None
      /\ sub[t] \notin ToSet(buffer) \cup ran \cup discarded
      /\ \A w \in Workers : job[w] # sub[t]
  BY <1>1 DEF Hands, SubmittedOnce, TypeOK
<1>3. /\ buffer' \in Seq(Tasks) /\ Len(buffer') = Len(buffer) + 1
      /\ ToSet(buffer') = ToSet(buffer) \cup {sub[t]} /\ IsInjective(buffer')
  BY <1>1, <1>2, QueueAppend DEF TypeOK, InOnePlace
<1>4. \/ pc' = [pc EXCEPT ![t] = "notify"]
      \/ pc' = [u \in Threads |-> IF u = t THEN Caller(t)
                                  ELSE IF u \notin TakeSleepers THEN pc[u] ELSE "take"]
  BY <1>1 DEF Put, PutAndNotify, Move, Wake, TakeSleepers
<1>5. TypeOK' /\ Points'
  BY <1>1, <1>3, <1>4 DEF TypeOK, Points, TakeSleepers, Caller
<1>6. Hands'
  BY <1>1, <1>2, <1>4 DEF TypeOK, Hands, Points, TakeSleepers, Caller
<1>7. InOnePlace'
  BY <1>1, <1>2, <1>3 DEF InOnePlace
<1>8. SubmittedOnce'
  BY <1>1, <1>2, <1>3 DEF SubmittedOnce, TypeOK
<1>9. CountIsAll'
  <2>1. \A k : Places(k)' <=> Places(k)
    BY <1>1, <1>2, <1>3 DEF Places, TypeOK
  <2>2. Counted' = Counted
    BY <1>5, <2>1, CountedPlaces, CountedPlacesNext
  <2>. QED  BY <1>1, <2>2 DEF CountIsAll
<1>10. NoLostWakeup'
  <2>0. Len(buffer) \in Nat /\ Len(buffer') \in Nat
    BY <1>3 DEF TypeOK
  <2>1. CASE pc' = [pc EXCEPT ![t] = "notify"]
    <3>1. Active' = Active \cup {t} /\ t \notin Active /\ TakeSleepers' \subseteq TakeSleepers
      BY <1>1, <2>1 DEF Active, TakeSleepers, TypeOK
    <3>. QED  BY <1>3, <2>0, <3>1, WakeupsKept
  <2>2. CASE pc' = [u \in Threads |-> IF u = t THEN Caller(t)
                                      ELSE IF u \notin TakeSleepers THEN pc[u] ELSE "take"]
    <3>1. TakeSleepers' = {}
      BY <2>2 DEF TakeSleepers, Caller
    <3>. QED  BY <2>0, <3>1, WakeupsKept
  <2>. QED  BY <1>4, <2>1, <2>2
<1>11. Stopping'
  BY <1>1, <1>4 DEF Stopping, Points, TypeOK, TakeSleepers, Caller
<1>. QED  BY <1>5, <1>6, <1>7, <1>8, <1>9, <1>10, <1>11

\* Put into a closed queue: the task is discarded, and stays in the count.
LEMMA RefuseStep == ASSUME IInv, NEW t \in Threads, ~Accepts, Put(t) PROVE IInv'
<1>. USE ThreadsAssumption DEF IInv, Threads
<1>1. /\ pc[t] = "put" /\ pc' = [pc EXCEPT ![t] = Caller(t)]
      /\ discarded' = discarded \cup {sub[t]}
      /\ sub' = [sub EXCEPT ![t] = None]
      /\ UNCHANGED <<buffer, open, count, job, ran>>
  BY DEF Put, Move
<1>2. /\ sub[t] \in Tasks /\ sub[t] # None
      /\ sub[t] \notin ToSet(buffer) \cup ran \cup discarded
      /\ \A w \in Workers : job[w] # sub[t]
      /\ \A u \in Threads \ {t} : sub[u] # sub[t]
  BY <1>1 DEF Hands, SubmittedOnce, TypeOK
<1>3. TypeOK' /\ Points' /\ Hands'
  BY <1>1, <1>2 DEF TypeOK, Points, Hands, Caller
<1>4. InOnePlace' /\ SubmittedOnce'
  BY <1>1, <1>2 DEF InOnePlace, SubmittedOnce, TypeOK
<1>5. CountIsAll'
  <2>1. \A k : Places(k)' <=> Places(k)
    BY <1>1, <1>2 DEF Places, TypeOK
  <2>2. Counted' = Counted
    BY <1>3, <2>1, CountedPlaces, CountedPlacesNext
  <2>. QED  BY <1>1, <2>2 DEF CountIsAll
<1>6. NoLostWakeup'
  <2>1. Active \subseteq Active' /\ TakeSleepers' \subseteq TakeSleepers
    BY <1>1 DEF Active, TakeSleepers, TypeOK, Caller
  <2>. QED  BY <1>1, <2>1, WakeupsKept DEF TypeOK
<1>7. Stopping'
  BY <1>1 DEF Stopping, TypeOK, Caller
<1>. QED  BY <1>3, <1>4, <1>5, <1>6, <1>7

\* A worker takes the first task, or sleeps, or ends when the queue is closed.
LEMMA TakeStep == ASSUME IInv, NEW w \in Workers, Take(w) PROVE IInv'
<1>. USE ThreadsAssumption DEF IInv, Threads
<1>0. w \in Threads /\ pc[w] = "take" /\ job[w] = None /\ Len(buffer) \in Nat
  BY DEF Take, Move, Hands, TypeOK
<1>1. CASE buffer # <<>>
  <2>1. /\ pc' = [pc EXCEPT ![w] = "run"]
        /\ job' = [job EXCEPT ![w] = Head(buffer)] /\ buffer' = Tail(buffer)
        /\ UNCHANGED <<open, count, sub, ran, discarded>>
    BY <1>1 DEF Take, Move
  <2>2. /\ buffer' \in Seq(Tasks) /\ Len(buffer') = Len(buffer) - 1
        /\ Head(buffer) \in Tasks /\ Head(buffer) \in ToSet(buffer)
        /\ ToSet(buffer') = ToSet(buffer) \ {Head(buffer)} /\ IsInjective(buffer')
    BY <1>1, <2>1, QueueTail DEF TypeOK, InOnePlace
  <2>3. /\ Head(buffer) # None /\ Head(buffer) \notin ran \cup discarded
        /\ (\A v \in Workers : job[v] # Head(buffer)) /\ \A t \in Threads : sub[t] # Head(buffer)
    BY <2>2 DEF InOnePlace, SubmittedOnce, TypeOK
  <2>4. TypeOK' /\ Points' /\ Hands'
    BY <1>0, <2>1, <2>2, <2>3 DEF TypeOK, Points, Hands
  <2>5. InOnePlace' /\ SubmittedOnce'
    BY <1>0, <2>1, <2>2, <2>3 DEF TypeOK, InOnePlace, SubmittedOnce
  <2>6. CountIsAll'
    <3>1. \A k : Places(k)' <=> Places(k)
      BY <1>0, <2>1, <2>2, <2>3 DEF Places, TypeOK
    <3>2. Counted' = Counted
      BY <2>4, <3>1, CountedPlaces, CountedPlacesNext
    <3>. QED  BY <2>1, <3>2 DEF CountIsAll
  <2>7. NoLostWakeup'
    <3>1. Active' = Active \ {w} /\ w \in Active /\ TakeSleepers' \subseteq TakeSleepers
      BY <1>0, <2>1 DEF Active, TakeSleepers, TypeOK
    <3>. QED  BY <1>0, <2>2, <3>1, WakeupsKept DEF TypeOK
  <2>8. Stopping'
    BY <1>0, <1>1, <2>1 DEF Stopping, TypeOK
  <2>. QED  BY <2>4, <2>5, <2>6, <2>7, <2>8
<1>2. CASE buffer = <<>>
  <2>1. UNCHANGED data /\ pc' = [pc EXCEPT ![w] = IF open THEN "sleepTake" ELSE "exit"]
    BY <1>2 DEF Take, Move, data
  <2>2. TypeOK' /\ Points' /\ Hands'
    BY <1>0, <2>1 DEF data, TypeOK, Points, Hands
  <2>3. Stopping'
    BY <1>0, <2>1 DEF data, Stopping, TypeOK
  <2>4. NoLostWakeup'
    BY <1>2, <2>1, WakeupsKept, DataKept, EmptySeq DEF data
  <2>. QED  BY <2>1, <2>2, <2>3, <2>4, DataKept
<1>. QED  BY <1>1, <1>2

\* A job has run, or has thrown.
LEMMA RunStep == ASSUME IInv, NEW w \in Workers, Run(w) \/ Throw(w) PROVE IInv'
<1>. USE ThreadsAssumption DEF IInv, Threads
<1>1. /\ w \in Threads /\ pc[w] = "run" /\ pc' = [pc EXCEPT ![w] = "done"]
      /\ ran' = ran \cup {job[w]} /\ UNCHANGED <<buffer, open, count, sub, job, discarded>>
  BY DEF Run, Throw, AfterThrow, Move
<1>2. /\ job[w] \in Tasks /\ job[w] # None /\ job[w] \notin ToSet(buffer) \cup discarded
      /\ (\A v \in Workers \ {w} : job[v] # job[w]) /\ \A t \in Threads : sub[t] # job[w]
  BY <1>1 DEF Hands, InOnePlace, SubmittedOnce, TypeOK
<1>3. TypeOK' /\ Points'
  BY <1>1, <1>2 DEF TypeOK, Points
<1>4. Hands'
  BY <1>1, <1>2 DEF TypeOK, Hands
<1>5. InOnePlace' /\ SubmittedOnce'
  BY <1>1, <1>2 DEF InOnePlace, SubmittedOnce
<1>6. CountIsAll'
  BY <1>1 DEF CountIsAll, Counted, Outstanding
<1>7. NoLostWakeup'
  <2>1. Active \subseteq Active' /\ TakeSleepers' \subseteq TakeSleepers
    BY <1>1 DEF Active, TakeSleepers, TypeOK
  <2>. QED  BY <1>1, <2>1, WakeupsKept DEF TypeOK
<1>8. Stopping'
  BY <1>1 DEF Stopping, TypeOK
<1>. QED  BY <1>3, <1>4, <1>5, <1>6, <1>7, <1>8

\* Done takes the job out of the count.
LEMMA DoneStep == ASSUME IInv, NEW w \in Workers, Done(w) \/ DoneAndNotify(w) PROVE IInv'
<1>. USE ThreadsAssumption DEF IInv, Threads
<1>1. /\ w \in Threads /\ pc[w] = "done" /\ count' = count - 1
      /\ pc' = [pc EXCEPT ![w] = "take"] \/ pc' = [pc EXCEPT ![w] = "notifyAll"]
      /\ job' = [job EXCEPT ![w] = None]
      /\ UNCHANGED <<buffer, open, sub, ran, discarded>>
  BY DEF Done, DoneAndNotify, Move
<1>2. /\ job[w] \in Tasks /\ job[w] # None /\ job[w] \notin ToSet(buffer) \cup discarded
      /\ (\A v \in Workers \ {w} : job[v] # job[w]) /\ \A t \in Threads : sub[t] # job[w]
  BY <1>1 DEF Hands, InOnePlace, SubmittedOnce, TypeOK
<1>3. job[w] \in Counted /\ Counted' = Counted \ {job[w]}
  <2>1. job[w] \in Counted
    BY <1>2, CountedPlaces DEF Places
  <2>2. Counted' = (ToSet(buffer) \cup (({sub[t] : t \in Threads} \cup {job'[v] : v \in Workers}) \ {None}))
                  \cup discarded
    BY <1>1 DEF Counted, Outstanding
  <2>3. ASSUME NEW k PROVE k \in Counted' <=> k \in Counted /\ k # job[w]
    <3>1. /\ job' \in [Workers -> Tasks \cup {None}] /\ job'[w] = None
          /\ \A v \in Workers \ {w} : job'[v] = job[v]
      BY <1>1 DEF TypeOK
    <3>2. (\E v \in Workers : job'[v] = k /\ k # None)
             <=> (\E v \in Workers : job[v] = k /\ k # None) /\ k # job[w]
      BY <1>2, <3>1
    <3>3. Places(k)' <=> Places(k) /\ k # job[w]
      BY <1>1, <1>2, <3>2 DEF Places
    <3>4. None \notin ToSet(buffer)
      BY DEF TypeOK, ToSet
    <3>5. k \in Counted' <=> Places(k)'
      BY <2>2, <3>4, <1>1 DEF Places
    <3>. QED  BY <3>3, <3>5, CountedPlaces
  <2>. QED  BY <2>1, <2>3
<1>4. CountIsAll' /\ count' \in 0..Cardinality(Tasks)
  <2>1. Counted' \subseteq Tasks
    BY <1>3, CountedPlaces DEF TypeOK, Places, ToSet
  <2>. QED  BY <1>1, <1>3, <2>1, CountStep
<1>5. TypeOK' /\ Points' /\ Hands'
  BY <1>1, <1>2, <1>4 DEF TypeOK, Points, Hands
<1>6. InOnePlace' /\ SubmittedOnce'
  BY <1>1, <1>2 DEF TypeOK, InOnePlace, SubmittedOnce
<1>7. NoLostWakeup'
  <2>1. Active \subseteq Active' /\ TakeSleepers' \subseteq TakeSleepers
    BY <1>1 DEF Active, TakeSleepers, TypeOK
  <2>. QED  BY <1>1, <2>1, WakeupsKept DEF TypeOK
<1>8. Stopping'
  BY <1>1 DEF Stopping, TypeOK
<1>. QED  BY <1>4, <1>5, <1>6, <1>7, <1>8

\* CloseImpl discards what is queued, which stays in the count.
LEMMA CancelStep ==
    ASSUME IInv, NEW c \in Clients, Cancel(c) \/ CancelAndNotify(c) PROVE IInv'
<1>. USE ThreadsAssumption DEF IInv, Threads
<1>1. /\ c \in Threads /\ pc[c] = "idle" /\ open' = FALSE /\ buffer' = <<>>
      /\ UNCHANGED <<count, sub, job, ran>>
  BY DEF Cancel, CancelAndNotify, Move, Wake, Left
<1>2. discarded' = discarded \cup ToSet(buffer)
  <2>1. discarded' = discarded \cup (ToSet(buffer) \ ToSet(buffer'))
    BY DEF Cancel, CancelAndNotify
  <2>2. ToSet(buffer') = {}
    BY <1>1 DEF ToSet
  <2>. QED  BY <2>1, <2>2
<1>3. \/ pc' = [pc EXCEPT ![c] = "closed"]
      \/ pc' = [u \in Threads |-> IF u = c THEN "join"
                                  ELSE IF u \notin TakeSleepers THEN pc[u] ELSE "take"]
  BY DEF Cancel, CancelAndNotify, Move, Wake, TakeSleepers
<1>4. ToSet(buffer') = {} /\ IsInjective(buffer') /\ buffer' \in Seq(Tasks) /\ Len(buffer') = 0
  BY <1>1 DEF ToSet, IsInjective
<1>5. TypeOK' /\ Points' /\ Hands'
  <2>1. ToSet(buffer) \subseteq Tasks
    BY DEF TypeOK, ToSet
  <2>2. TypeOK'
    BY <1>1, <1>2, <1>3, <1>4, <2>1 DEF TypeOK
  <2>3. Points' /\ Hands'
    BY <1>1, <1>3 DEF TypeOK, Points, Hands, TakeSleepers
  <2>. QED  BY <2>2, <2>3
<1>6. InOnePlace' /\ SubmittedOnce'
  BY <1>1, <1>2, <1>4 DEF InOnePlace, SubmittedOnce
<1>7. CountIsAll'
  <2>1. \A k : Places(k)' <=> Places(k)
    BY <1>1, <1>2, <1>4 DEF Places
  <2>2. Counted' = Counted
    BY <1>5, <2>1, CountedPlaces, CountedPlacesNext
  <2>. QED  BY <1>1, <2>2 DEF CountIsAll
<1>8. NoLostWakeup'
  BY <1>1, <1>4, WakeupsKept DEF TypeOK
<1>9. Stopping'
  BY <1>1, <1>3 DEF Stopping, TypeOK, TakeSleepers, Points
<1>. QED  BY <1>5, <1>6, <1>7, <1>8, <1>9

LEMMA InitIInv == PoolInit => IInv
<1>. SUFFICES ASSUME PoolInit PROVE IInv
  OBVIOUS
<1>. USE ThreadsAssumption DEF PoolInit, Init, Threads
<1>1. TypeOK
  <2>1. Cardinality(Tasks) \in Nat
    BY TasksAssumption, FS_CardinalityType
  <2>. QED  BY <2>1 DEF TypeOK
<1>2. Points /\ Hands /\ SubmittedOnce /\ Stopping
  BY DEF Points, Hands, SubmittedOnce, Stopping
<1>3. ToSet(buffer) = {} /\ IsInjective(buffer) /\ Len(buffer) = 0
  BY DEF ToSet, IsInjective
<1>4. InOnePlace
  BY <1>3 DEF InOnePlace
<1>5. CountIsAll
  <2>1. Counted = {}
    BY <1>3 DEF Counted, Outstanding
  <2>. QED  BY <2>1, FS_EmptySet DEF CountIsAll
<1>6. NoLostWakeup
  BY DEF NoLostWakeup, TakeSleepers
<1>. QED  BY <1>1, <1>2, <1>4, <1>5, <1>6 DEF IInv

LEMMA NextIInv == IInv /\ [PoolNext]_<<vars, kind>> => IInv'
<1>. SUFFICES ASSUME IInv, [PoolNext]_<<vars, kind>> PROVE IInv'
  OBVIOUS
<1>1. ASSUME NEW t \in Threads, PoolCall(t) PROVE IInv'
  <2>1. CASE CancelAndNotify(t) \/ (t \in Clients /\ Cancel(t))
    <3>1. t \in Clients
      BY <2>1, ThreadsAssumption DEF CancelAndNotify, Threads
    <3>. QED  BY <2>1, <3>1, CancelStep
  <2>. QED  BY <1>1, <2>1, AddStep, MoveSteps DEF PoolCall
<1>2. ASSUME NEW t \in Threads, PoolStep(t) PROVE IInv'
  <2>1. CASE Common(t)
    BY <2>1, TakeStep, RunStep, WakeSteps, MoveSteps DEF Common
  <2>2. CASE Put(t) \/ PutAndNotify(t)
    BY <2>2, AcceptStep, RefuseStep DEF PutAndNotify
  <2>3. CASE NotifyTakers(t) \/ NotifyOne(t)
    BY <2>3, WakeSteps
  <2>4. CASE t \in Workers /\ (Throw(t) \/ DoneAndNotify(t) \/ Done(t))
    BY <2>4, RunStep, DoneStep
  <2>. QED  BY <1>2, <2>1, <2>2, <2>3, <2>4 DEF PoolStep
<1>3. CASE UNCHANGED <<vars, kind>>
  BY <1>3 DEF vars, IInv, TypeOK, Points, Hands, InOnePlace, SubmittedOnce, CountIsAll, Counted,
              Outstanding, NoLostWakeup, TakeSleepers, Stopping
<1>. QED  BY <1>1, <1>2, <1>3 DEF PoolNext

LEMMA Inductive == PoolSpec => []IInv
BY InitIInv, NextIInv, PTL DEF PoolSpec
-----------------------------------------------------------------------------
\* No task is counted twice: what is outstanding has not been discarded.
LEMMA CountSplits == IInv => CountExact
<1>. SUFFICES ASSUME IInv PROVE CountExact
  OBVIOUS
<1>1. Outstanding \cap discarded = {}
  BY ThreadsAssumption DEF IInv, TypeOK, Outstanding, InOnePlace, SubmittedOnce
<1>2. Counted \subseteq Tasks
  BY CountedPlaces, ThreadsAssumption DEF IInv, TypeOK, Places, ToSet
<1>3. IsFiniteSet(Outstanding) /\ IsFiniteSet(discarded)
  BY <1>2, FS_Subset, TasksAssumption DEF Counted
<1>4. Cardinality(Counted) = Cardinality(Outstanding) + Cardinality(discarded)
  <2>1. Cardinality(Outstanding \cap discarded) = 0
    BY <1>1, FS_EmptySet
  <2>2. Cardinality(Outstanding) \in Nat /\ Cardinality(discarded) \in Nat
    BY <1>3, FS_CardinalityType
  <2>3. Cardinality(Counted) = Cardinality(Outstanding) + Cardinality(discarded)
                                  - Cardinality(Outstanding \cap discarded)
    BY <1>3, FS_Union DEF Counted
  <2>. QED  BY <2>1, <2>2, <2>3
<1>. QED  BY <1>4 DEF IInv, CountIsAll, CountExact

\* In every pool, at any size: the count of the wait group is exact, a task is in one
\* place, no worker sleeps beside a task for want of a notification, and nothing
\* touches a pool whose Stop has returned.
THEOREM PoolIsSound == PoolSpec => []PoolInvariant
<1>1. IInv => StopIsFinal
  BY ThreadsAssumption DEF IInv, StopIsFinal, Stopping, Hands, Threads
<1>2. IInv => PoolInvariant
  BY <1>1, CountSplits DEF IInv, PoolInvariant
<1>. QED  BY <1>2, Inductive, PTL

\* A WaitIdle that returns finds no task outstanding and none discarded, and no task
\* begins after Stop has cleared the queue, whatever other threads are in the middle of.
THEOREM PoolKeepsPromises == PoolSpec => PoolPromises
<1>. DEFINE A == /\ \A c \in Clients : IdleIsIdle(c)
                 /\ \A w \in Workers : NoStartAfterStop(w)
<1>1. IInv /\ [PoolNext]_<<vars, kind>> => [A]_vars
  <2>. SUFFICES ASSUME IInv, PoolNext PROVE A
    BY DEF vars
  <2>. USE ThreadsAssumption DEF IInv, Threads
  <2>1. PICK t \in Threads : PoolCall(t) \/ PoolStep(t)
    BY DEF PoolNext
  \* Only its own look at count_ lets a waiting client go.
  <2>2. ASSUME NEW c \in Clients, pc[c] = "wait", pc'[c] = "idle"
        PROVE  Outstanding = {} /\ discarded = {}
    <3>1. t = c /\ Wait(c) /\ ~Busy
      BY <2>1, <2>2 DEF PoolCall, PoolStep, Common, Add, SpuriousWake, CancelAndNotify, WaitIdle,
            Cancel, Take, Run, NotifyAll, Wait, Closed, Join, PutAndNotify, NotifyTakers, Put,
            NotifyOne, Throw, DoneAndNotify, Done, Move, Wake, TypeOK, Points, Caller,
            PutWakes, OneOf, TakeSleepers, WaitSleepers, AfterThrow
    <3>2. count = 0
      BY <3>1, TasksAssumption, FS_CardinalityType DEF Busy, TypeOK
    <3>3. IsFiniteSet(Counted)
      <4>1. Counted \subseteq Tasks
        BY CountedPlaces DEF TypeOK, Places, ToSet
      <4>. QED  BY <4>1, FS_Subset, TasksAssumption
    <3>4. Counted = {}
      BY <3>2, <3>3, FS_EmptySet DEF CountIsAll
    <3>. QED  BY <3>4 DEF Counted
  <2>3. ASSUME NEW w \in Workers, job'[w] # job[w], job'[w] # None PROVE open
    <3>1. Take(w) /\ buffer # <<>>
      BY <2>1, <2>3 DEF PoolCall, PoolStep, Common, Add, SpuriousWake, CancelAndNotify, WaitIdle,
            Cancel, Take, Run, NotifyAll, Wait, Closed, Join, PutAndNotify, NotifyTakers, Put,
            NotifyOne, Throw, DoneAndNotify, Done, TypeOK
    <3>. QED  BY <3>1 DEF Stopping, TypeOK
  <2>. QED  BY <2>2, <2>3 DEF IdleIsIdle, NoStartAfterStop
<1>. QED  BY <1>1, Inductive, PTL DEF PoolSpec, PoolPromises
=============================================================================
