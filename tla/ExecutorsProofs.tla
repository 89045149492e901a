-------------------------- MODULE ExecutorsProofs --------------------------
(***************************************************************************)
(* Strand, for any number of clients, workers and tasks: its job exists at *)
(* most once, hence its tasks run one at a time, no task is left in the    *)
(* stack with nobody to look at it, and the tasks run in the order of the  *)
(* pushes: the chain of pointers, the batches taken from it and the task   *)
(* that runs are always the line of AbstractStrand.                        *)
(*                                                                         *)
(* ManualExecutor, for any tasks and limits: however its calls nest, every *)
(* task that has run is counted once.                                      *)
(*                                                                         *)
(* TaskMutex and TaskWaitGroup, for any number of coroutines on any number *)
(* of workers (MCTasks): every coroutine is in one place, what the         *)
(* pointers lead to are lists of the waiters, and the two lists of the     *)
(* mutex, with the coroutine that Unlock is about to resume, are the line  *)
(* of AbstractFifoLock.                                                    *)
(***************************************************************************)
EXTENDS MCExecutors, MCTasks, SequenceTheorems, FiniteSetTheorems, NaturalsInduction, TLAPS

Places == {"idle", "push", "exchange", "schedule", "popAll", "next", "run", "isEmpty"}

Types == /\ pc \in [Threads -> Places]
         /\ jobs \in Nat
         /\ scheduled \in BOOLEAN
         /\ DOMAIN running = Workers /\ running = [w \in Workers |-> running[w]]

\* Where a thread is while a task runs on it: in the task, or in an Execute of the
\* task.  That Execute never schedules, for the job is on the thread already.
WhileRunning == \A w \in Workers :
    running[w] # None => pc[w] \in {"run", "push", "exchange"}

IInv == Types /\ WhileRunning /\ OneJob /\ NoStrandedTask

\* The strand starts without a job.
LEMMA InitIInv == Init => IInv
<1> SUFFICES ASSUME Init PROVE IInv
  OBVIOUS
<1>1. Types /\ WhileRunning /\ NoStrandedTask
  BY DEF Init, Types, Places, WhileRunning, NoStrandedTask, Threads
<1>2. Holders = {}
  BY DEF Init, Holders, InJob
<1> QED
  BY <1>1, <1>2 DEF Init, IInv, OneJob

\* What a step has to show: who holds the job afterwards.
LEMMA HoldersAfter ==
    ASSUME IInv, Types', WhileRunning', NoStrandedTask',
           \/ Holders' \subseteq Holders /\ jobs' = jobs /\ scheduled' = scheduled
           \/ \E t \in Holders : /\ Holders' \subseteq Holders \ {t}
                                 /\ jobs' = jobs + 1 /\ scheduled' = scheduled
           \/ \E t \in Threads : /\ jobs > 0 /\ jobs' = jobs - 1 /\ scheduled' = scheduled
                                 /\ Holders' \subseteq Holders \cup {t}
           \/ \E t \in Holders : /\ Holders' \subseteq Holders \ {t}
                                 /\ jobs' = jobs /\ scheduled' = FALSE
           \/ scheduled /\ scheduled' /\ Holders' \subseteq Holders /\ jobs' = jobs
           \/ \E t \in Threads : /\ ~scheduled /\ scheduled' /\ jobs' = jobs
                                 /\ Holders' \subseteq {t}
    PROVE  IInv'
<1>1. OneJob /\ jobs \in Nat
  BY DEF IInv, Types
<1>2. OneJob'
  BY <1>1 DEF OneJob
<1> QED
  BY <1>2 DEF IInv

\* Every step keeps the invariant.
LEMMA NextIInv == IInv /\ [Next]_vars => IInv'
<1> SUFFICES ASSUME IInv, [Next]_vars PROVE IInv'
  OBVIOUS
<1> USE DEF IInv, Types, Places, WhileRunning, NoStrandedTask
<1>1. ASSUME NEW t \in Threads, Execute(t) PROVE IInv'
  <2>1. Types' /\ WhileRunning' /\ NoStrandedTask'
    BY <1>1 DEF Execute, Move, Caller, Threads
  <2>2. Holders' \subseteq Holders /\ jobs' = jobs /\ scheduled' = scheduled
    BY <1>1 DEF Execute, Move, Caller, Holders, InJob, Threads
  <2> QED
    BY <2>1, <2>2, HoldersAfter
<1>2. ASSUME NEW t \in Threads, Push(t) PROVE IInv'
  <2>1. Types' /\ WhileRunning' /\ NoStrandedTask'
    BY <1>2 DEF Push, Move, Threads
  <2>2. Holders' \subseteq Holders /\ jobs' = jobs /\ scheduled' = scheduled
    BY <1>2 DEF Push, Move, Holders, InJob, Threads
  <2> QED
    BY <2>1, <2>2, HoldersAfter
<1>3. ASSUME NEW t \in Threads, Exchange(t) PROVE IInv'
  <2>1. ~scheduled => Holders = {}
    BY DEF OneJob
  <2>2. Types' /\ WhileRunning' /\ NoStrandedTask'
    BY <1>3, <2>1 DEF Exchange, Move, Caller, Relinquish, Threads, Holders, InJob
  <2>3. CASE scheduled
    <3>1. scheduled' /\ jobs' = jobs /\ Holders' \subseteq Holders
      BY <1>3, <2>3 DEF Exchange, Move, Caller, Relinquish, Holders, InJob, Threads
    <3> QED
      BY <2>2, <2>3, <3>1, HoldersAfter
  <2>4. CASE ~scheduled
    <3>1. scheduled' /\ jobs' = jobs /\ Holders' \subseteq {t}
      BY <1>3, <2>1, <2>4 DEF Exchange, Move, Holders, InJob, Threads
    <3> QED
      BY <2>2, <2>4, <3>1, HoldersAfter
  <2> QED
    BY <2>3, <2>4
<1>4. ASSUME NEW t \in Threads, Schedule(t) PROVE IInv'
  <2>1. Types' /\ WhileRunning' /\ NoStrandedTask'
    BY <1>4 DEF Schedule, Move, Caller, Threads
  <2>2. t \in Holders /\ Holders' \subseteq Holders \ {t}
    BY <1>4 DEF Schedule, Move, Caller, Holders, InJob, Threads
  <2>3. jobs' = jobs + 1 /\ scheduled' = scheduled
    BY <1>4 DEF Schedule
  <2> QED
    BY <2>1, <2>2, <2>3, HoldersAfter
<1>5. ASSUME NEW w \in Workers, Start(w) PROVE IInv'
  <2>1. Types' /\ WhileRunning' /\ NoStrandedTask'
    BY <1>5 DEF Start, Move, Threads
  <2>2. w \in Threads /\ Holders' \subseteq Holders \cup {w}
    BY <1>5 DEF Start, Move, Holders, InJob, Threads
  <2>3. jobs > 0 /\ jobs' = jobs - 1 /\ scheduled' = scheduled
    BY <1>5 DEF Start
  <2> QED
    BY <2>1, <2>2, <2>3, HoldersAfter
<1>6. ASSUME NEW w \in Workers, PopAll(w) PROVE IInv'
  <2>1. Types' /\ WhileRunning' /\ NoStrandedTask'
    BY <1>6 DEF PopAll, Move, Threads
  <2>2. Holders' \subseteq Holders /\ jobs' = jobs /\ scheduled' = scheduled
    BY <1>6 DEF PopAll, Move, Holders, InJob, Threads
  <2> QED
    BY <2>1, <2>2, HoldersAfter
<1>7. ASSUME NEW w \in Workers, Begin(w) PROVE IInv'
  <2>1. Types' /\ WhileRunning' /\ NoStrandedTask'
    BY <1>7 DEF Begin, Move, Threads
  <2>2. Holders' \subseteq Holders /\ jobs' = jobs /\ scheduled' = scheduled
    BY <1>7 DEF Begin, Move, Holders, InJob, Threads
  <2> QED
    BY <2>1, <2>2, HoldersAfter
<1>8. ASSUME NEW w \in Workers, End(w) PROVE IInv'
  <2>1. Types' /\ WhileRunning' /\ NoStrandedTask'
    BY <1>8 DEF End, Move, Threads
  <2>2. Holders' \subseteq Holders /\ jobs' = jobs /\ scheduled' = scheduled
    BY <1>8 DEF End, Move, Holders, InJob, Threads
  <2> QED
    BY <2>1, <2>2, HoldersAfter
<1>9. ASSUME NEW w \in Workers, Clear(w) PROVE IInv'
  <2>1. Types' /\ WhileRunning' /\ NoStrandedTask'
    BY <1>9 DEF Clear, AfterClear, Move, Threads
  <2>2. w \in Holders /\ Holders' \subseteq Holders \ {w}
    BY <1>9 DEF Clear, AfterClear, Move, Holders, InJob, Threads
  <2>3. jobs' = jobs /\ scheduled' = FALSE
    BY <1>9 DEF Clear
  <2> QED
    BY <2>1, <2>2, <2>3, HoldersAfter
<1>10. ASSUME NEW w \in Workers, IsEmpty(w) PROVE IInv'
  <2>1. Types' /\ WhileRunning' /\ NoStrandedTask'
    BY <1>10 DEF IsEmpty, Move, Threads
  <2>2. Holders' \subseteq Holders /\ jobs' = jobs /\ scheduled' = scheduled
    BY <1>10 DEF IsEmpty, Move, Holders, InJob, Threads
  <2> QED
    BY <2>1, <2>2, HoldersAfter
<1>11. ASSUME UNCHANGED vars PROVE IInv'
  BY <1>11 DEF vars, OneJob, Holders, InJob, Threads
<1> QED
  BY <1>1, <1>2, <1>3, <1>4, <1>5, <1>6, <1>7, <1>8, <1>9, <1>10, <1>11 DEF Next, Step, Job

LEMMA Inductive == Spec => []IInv
<1> QED
  BY InitIInv, NextIInv, PTL DEF Spec

\* Two tasks of a strand never run at the same time, whatever threads submit them
\* and however many threads the underlying executor has.
THEOREM TasksAreSerial == Spec => []Serial
<1>1. IInv => Serial
  BY DEF IInv, OneJob, Serial, Holders, InJob, Threads
<1> QED
  BY <1>1, Inductive, PTL

\* There is one job of a strand at most, and only while scheduled_ is set.
THEOREM JobIsUnique == Spec => []OneJob
<1>1. IInv => OneJob
  BY DEF IInv
<1> QED
  BY <1>1, Inductive, PTL

\* A task pushed while a job ends is seen by the job's second look at the stack, or
\* by its own Execute.
THEOREM NoTaskIsStranded == Spec => []NoStrandedTask
<1>1. IInv => NoStrandedTask
  BY DEF IInv
<1> QED
  BY <1>1, Inductive, PTL
-----------------------------------------------------------------------------
(* The order of the tasks *)

\* The types of the tasks' places, and a task that runs where the code is in it.
TaskTypes == /\ top \in Tasks \cup {None}
             /\ next \in [Tasks -> Tasks \cup {None}]
             /\ node \in [Threads -> Tasks \cup {None}]
             /\ running \in [Workers -> Tasks \cup {None}]
             /\ tasks \in [Workers -> Seq(Tasks)]
             /\ line \in Seq(Tasks)
             /\ \A w \in Workers : pc[w] = "run" => running[w] # None

\* A task is in one place: submitted by one thread, once in line, or running.
OnePlace == /\ \A t \in Threads : node[t] # None <=> pc[t] = "push"
            /\ \A t, u \in Threads : node[t] # None /\ node[t] = node[u] => t = u
            /\ \A t \in Threads : node[t] \notin ToSet(line)
            /\ \A t \in Threads, w \in Workers : node[t] # None => node[t] # running[w]
            /\ \A w \in Workers : running[w] \notin ToSet(line)
            /\ IsInjective(line)

\* Only the job has a batch.
BatchInJob == \A w \in Workers : tasks[w] # <<>> => running[w] # None \/ pc[w] = "next"

\* The first m tasks in line are the batch of the job, the others are in the stack, the
\* last one on top.
Split(m) == /\ \A w \in Workers : tasks[w] # <<>> =>
                   Len(tasks[w]) = m /\ \A i \in 1..m : tasks[w][i] = line[i]
            /\ m > 0 => \E w \in Workers : tasks[w] # <<>>
            /\ top = IF m = Len(line) THEN None ELSE line[Len(line)]
            /\ \A i \in (m+1)..Len(line) : next[line[i]] = IF i = m + 1 THEN None ELSE line[i-1]

OInv == TaskTypes /\ OnePlace /\ BatchInJob /\ \E m \in 0..Len(line) : Split(m)

\* What the proofs use of a sequence of tasks.
LEMMA SeqFacts ==
    ASSUME NEW s \in Seq(Tasks)
    PROVE  /\ Len(s) \in Nat /\ s \in [1..Len(s) -> Tasks]
           /\ ToSet(s) = {s[i] : i \in 1..Len(s)} /\ ToSet(s) \subseteq Tasks
           /\ s = <<>> <=> Len(s) = 0
BY LenProperties, EmptySeq DEF ToSet

LEMMA AppendFacts ==
    ASSUME NEW s \in Seq(Tasks), NEW k \in Tasks, k \notin ToSet(s), IsInjective(s)
    PROVE  /\ Append(s, k) \in Seq(Tasks) /\ Len(Append(s, k)) = Len(s) + 1
           /\ \A i \in 1..Len(s) : Append(s, k)[i] = s[i]
           /\ Append(s, k)[Len(s) + 1] = k
           /\ ToSet(Append(s, k)) = ToSet(s) \cup {k}
           /\ IsInjective(Append(s, k))
<1>1. /\ Append(s, k) \in Seq(Tasks) /\ Len(Append(s, k)) = Len(s) + 1
      /\ \A i \in 1..Len(s) : Append(s, k)[i] = s[i]
      /\ Append(s, k)[Len(s) + 1] = k
  BY AppendProperties
<1>2. /\ Len(s) \in Nat
      /\ ToSet(Append(s, k)) = {Append(s, k)[i] : i \in 1..Len(s) + 1}
      /\ ToSet(s) = {s[i] : i \in 1..Len(s)}
  BY <1>1, SeqFacts
<1>3. ToSet(Append(s, k)) = ToSet(s) \cup {k}
  <2>1. \A i \in 1..Len(s) + 1 : i \in 1..Len(s) \/ i = Len(s) + 1
    BY <1>2
  <2>2. \A i \in 1..Len(s) : i \in 1..Len(s) + 1
    BY <1>2
  <2>3. Len(s) + 1 \in 1..Len(s) + 1
    BY <1>2
  <2>. QED  BY <1>1, <1>2, <2>1, <2>2, <2>3
<1>4. IsInjective(Append(s, k))
  <2>1. \A i \in 1..Len(s) : s[i] # k
    BY <1>2
  <2>2. \A i, j \in 1..Len(s) : s[i] = s[j] => i = j
    BY SeqFacts DEF IsInjective
  <2>3. DOMAIN Append(s, k) = 1..Len(s) + 1
    BY <1>1, SeqFacts
  <2>4. \A i \in 1..Len(s) + 1 : i \in 1..Len(s) \/ i = Len(s) + 1
    BY <1>2
  <2>. QED  BY <1>1, <2>1, <2>2, <2>3, <2>4 DEF IsInjective
<1>. QED  BY <1>1, <1>3, <1>4

LEMMA TailFacts ==
    ASSUME NEW s \in Seq(Tasks), s # <<>>
    PROVE  /\ Head(s) = s[1] /\ Tail(s) \in Seq(Tasks) /\ Len(Tail(s)) = Len(s) - 1
           /\ \A i \in 1..Len(s) - 1 : Tail(s)[i] = s[i+1]
           /\ ToSet(Tail(s)) \subseteq ToSet(s) /\ Head(s) \in ToSet(s)
           /\ IsInjective(s) => Head(s) \notin ToSet(Tail(s)) /\ IsInjective(Tail(s))
<1>1. /\ Head(s) = s[1] /\ Tail(s) \in Seq(Tasks) /\ Len(Tail(s)) = Len(s) - 1
      /\ \A i \in 1..Len(s) - 1 : Tail(s)[i] = s[i+1]
  BY HeadTailProperties, SeqFacts
<1>2. /\ Len(s) \in Nat /\ Len(s) # 0
      /\ ToSet(Tail(s)) = {Tail(s)[i] : i \in 1..Len(s) - 1}
      /\ ToSet(s) = {s[i] : i \in 1..Len(s)}
      /\ DOMAIN s = 1..Len(s) /\ DOMAIN Tail(s) = 1..Len(s) - 1
  BY <1>1, SeqFacts
<1>3. \A i \in 1..Len(s) - 1 : i \in 1..Len(s) /\ i + 1 \in 1..Len(s) /\ i + 1 # 1
  BY <1>2
<1>4. 1 \in 1..Len(s)
  BY <1>2
<1>5. ToSet(Tail(s)) \subseteq ToSet(s) /\ Head(s) \in ToSet(s)
  BY <1>1, <1>2, <1>3, <1>4
<1>6. ASSUME IsInjective(s) PROVE Head(s) \notin ToSet(Tail(s)) /\ IsInjective(Tail(s))
  <2>1. \A i, j \in 1..Len(s) : s[i] = s[j] => i = j
    BY <1>2, <1>6 DEF IsInjective
  <2>2. Head(s) \notin ToSet(Tail(s))
    BY <1>1, <1>2, <1>3, <1>4, <2>1
  <2>3. \A i, j \in 1..Len(s) - 1 : i + 1 = j + 1 => i = j
    BY <1>2
  <2>4. IsInjective(Tail(s))
    BY <1>1, <1>2, <1>3, <2>1, <2>3 DEF IsInjective
  <2>. QED  BY <2>2, <2>4
<1>. QED  BY <1>1, <1>5, <1>6

\* To remove the first task is to take the tail.
LEMMA RemoveHead ==
    ASSUME NEW s \in Seq(Tasks), s # <<>>
    PROVE  RemoveFirst(s, Head(s)) = Tail(s)
<1>1. Len(s) \in Nat /\ Len(s) # 0 /\ Head(s) = s[1]
  BY SeqFacts, TailFacts
<1>. DEFINE I == {i \in 1..Len(s) : s[i] = Head(s)}
<1>2. 1 \in I /\ I # {} /\ \A i \in I : i \in Nat /\ 1 <= i
  BY <1>1
<1>3. Min(I) = 1
  BY <1>2 DEF Min
<1>4. RemoveFirst(s, Head(s)) = RemoveAt(s, 1)
  BY <1>1, <1>2, <1>3 DEF RemoveFirst, SelectInSeq
<1>5. SubSeq(s, 1, 1 - 1) = <<>> /\ SubSeq(s, 1 + 1, Len(s)) = Tail(s)
  BY <1>1, SubSeqProperties, HeadTailProperties
<1>. QED  BY <1>4, <1>5 DEF RemoveAt

\* There are no more tasks in line than addresses.
LEMMA LineIsShort ==
    ASSUME TaskTypes, OnePlace
    PROVE  Cardinality(Tasks) \in Nat /\ Len(line) <= Cardinality(Tasks)
<1>1. line \in [1..Len(line) -> ToSet(line)] /\ Len(line) \in Nat /\ ToSet(line) \in SUBSET Tasks
  BY SeqFacts DEF TaskTypes
<1>2. line \in Bijection(1..Len(line), ToSet(line))
  BY <1>1, SeqFacts DEF TaskTypes, OnePlace, Bijection, Injection, Surjection, IsInjective
<1>3. Cardinality(ToSet(line)) = Len(line)
  <2>1. ExistsBijection(1..Len(line), ToSet(line))
    BY <1>2 DEF ExistsBijection
  <2>. QED  BY <1>1, <2>1, FS_CountingElements, FS_NatBijection
<1>. QED  BY <1>1, <1>3, FS_Subset, FS_CardinalityType, TasksAssumption

\* Every non-empty set of natural numbers has a least one.
LEMMA LeastNumber ==
    ASSUME NEW S \in SUBSET Nat, S # {}
    PROVE  \E x \in S : \A y \in S : ~(y < x)
<1>. DEFINE R == {p \in Nat \X Nat : p[1] < p[2]}
<1>1. IsWellFoundedOn(R, Nat)
  BY NatLessThanWellFounded DEF OpToRel
<1>2. \E x \in S : \A y \in S : ~(<<y, x>> \in R)
  BY <1>1, WFMin, ZenonT(20)
<1>. QED  BY <1>2

\* What PopAll returns is the line, if no batch comes before it: the walk along next_
\* agrees with the line by the least step at which it would not.
LEMMA PoppedIsLine ==
    ASSUME TaskTypes, OnePlace, Split(0)
    PROVE  Popped = line
<1>. DEFINE n == Len(line)
            k == Cardinality(Tasks)
            Follows(f) == f = [i \in 0..k |-> IF i = 0 THEN top
                                 ELSE IF f[i-1] = None THEN None ELSE next[f[i-1]]]
            g == [i \in 0..k |-> IF i < n THEN line[n - i] ELSE None]
            at == CHOOSE f : Follows(f)
<1>1. k \in Nat /\ n \in Nat /\ n <= k
  BY LineIsShort, SeqFacts DEF TaskTypes
<1>2. \A i \in 1..n : line[i] \in Tasks /\ line[i] # None
  BY SeqFacts, TasksAssumption DEF TaskTypes
<1>3. /\ top = IF n = 0 THEN None ELSE line[n]
      /\ \A i \in 1..n : next[line[i]] = IF i = 1 THEN None ELSE line[i-1]
  BY <1>1 DEF Split
<1>4. Chain = [i \in 1..Cardinality({i \in 0..k : at[i] # None}) |-> at[i-1]]
  BY DEF Chain
<1>. HIDE DEF k
<1>5. Follows(g)
  <2>. SUFFICES ASSUME NEW i \in 0..k
                PROVE  g[i] = IF i = 0 THEN top ELSE IF g[i-1] = None THEN None ELSE next[g[i-1]]
    OBVIOUS
  <2>1. CASE i = 0
    BY <1>1, <1>3, <2>1
  <2>2. CASE i # 0 /\ i - 1 < n
    <3>1. i - 1 \in 0..k /\ n - (i - 1) \in 1..n /\ n - i = (n - (i - 1)) - 1
      BY <1>1, <2>2
    <3>2. i < n <=> n - (i - 1) # 1
      BY <1>1, <2>2
    <3>3. g[i-1] = line[n - (i - 1)] /\ g[i-1] # None
      BY <1>2, <2>2, <3>1
    <3>. QED  BY <1>3, <2>2, <3>1, <3>2, <3>3
  <2>3. CASE i # 0 /\ ~(i - 1 < n)
    <3>0. i \in Nat /\ i # 0 /\ ~(i - 1 < n) /\ i <= k
      BY <1>1, <2>3
    <3>1. i - 1 \in 0..k /\ ~(i < n)
      BY <1>1, <3>0
    <3>. QED  BY <2>3, <3>1
  <2>. QED  BY <2>1, <2>2, <2>3
<1>. HIDE DEF g
<1>6. Follows(at)
  BY <1>5, Zenon
<1>. HIDE DEF at
<1>7. \A i \in 0..k : at[i] = g[i]
  <2>. DEFINE S == {i \in 0..k : at[i] # g[i]}
  <2>. SUFFICES ASSUME S # {} PROVE FALSE
    OBVIOUS
  <2>1. S \in SUBSET Nat
    BY <1>1
  <2>. HIDE DEF S
  <2>2. PICK x \in S : \A y \in S : ~(y < x)
    BY <2>1, LeastNumber
  <2>3. x \in 0..k /\ at[x] # g[x]
    BY <2>2 DEF S
  <2>4. CASE x = 0
    BY <1>5, <1>6, <2>3, <2>4
  <2>5. CASE x # 0
    <3>1. x - 1 \in 0..k /\ x - 1 < x
      BY <1>1, <2>3, <2>5
    <3>2. at[x-1] = g[x-1]
      BY <2>2, <3>1 DEF S
    <3>3. /\ at[x] = IF at[x-1] = None THEN None ELSE next[at[x-1]]
          /\ g[x] = IF g[x-1] = None THEN None ELSE next[g[x-1]]
      BY <1>5, <1>6, <2>3, <2>5
    <3>. QED  BY <2>3, <3>2, <3>3
  <2>. QED  BY <2>4, <2>5
<1>8. Cardinality({i \in 0..k : at[i] # None}) = n
  <2>1. ASSUME NEW i \in 0..k PROVE at[i] # None <=> i < n
    <3>1. i < n => n - i \in 1..n
      BY <1>1, <2>1
    <3>2. g[i] = IF i < n THEN line[n - i] ELSE None
      BY DEF g
    <3>. QED  BY <1>2, <1>7, <3>1, <3>2
  <2>2. {i \in 0..k : at[i] # None} = 0..(n - 1)
    BY <1>1, <2>1
  <2>3. Cardinality(0..(n - 1)) = n
    <3>1. n - 1 \in Int /\ 0 \in Int
      BY <1>1
    <3>2. Cardinality(0..(n - 1)) = IF 0 > n - 1 THEN 0 ELSE (n - 1) - 0 + 1
      BY <3>1, FS_Interval
    <3>. QED  BY <1>1, <3>2
  <2>. QED  BY <2>2, <2>3
<1>9. Chain = [i \in 1..n |-> at[i-1]]
  BY <1>4, <1>8
<1>10. ASSUME NEW i \in 1..n PROVE Chain[(n - i) + 1] = line[i]
  <2>1. /\ (n - i) + 1 \in 1..n /\ ((n - i) + 1) - 1 = n - i
        /\ n - i \in 0..k /\ n - i < n /\ n - (n - i) = i
    BY <1>1, <1>10
  <2>2. Chain[(n - i) + 1] = at[n - i]
    BY <1>9, <2>1
  <2>. QED  BY <1>7, <2>1, <2>2 DEF g
<1>11. Len(Chain) = n
  BY <1>1, <1>9
<1>12. Popped = [i \in 1..n |-> line[i]]
  BY <1>10, <1>11 DEF Popped, Reverse
<1>. QED  BY <1>1, <1>12, SeqFacts DEF TaskTypes

LineSplit == \E m \in 0..Len(line) : Split(m)

\* A step that leaves the line, the batches and top_ alone may only touch the next_ of
\* tasks that are not in line.
LEMMA SplitKept ==
    ASSUME TaskTypes, LineSplit, UNCHANGED <<top, tasks, line>>,
           \A k \in ToSet(line) : next'[k] = next[k]
    PROVE  LineSplit'
<1>1. PICK m \in 0..Len(line) : Split(m)
  BY DEF LineSplit
<1>2. \A i \in (m+1)..Len(line) : line[i] \in ToSet(line)
  BY <1>1, SeqFacts DEF TaskTypes
<1>3. Split(m)'
  BY <1>1, <1>2 DEF Split
<1>. QED  BY <1>1, <1>3 DEF LineSplit

\* The worker with the batch is the one that holds the job.
LEMMA OneBatch ==
    ASSUME IInv, OInv, NEW w \in Workers, w \in Holders, NEW u \in Workers, tasks[u] # <<>>
    PROVE  u = w
BY DEF IInv, OneJob, OInv, BatchInJob, Holders, InJob, Threads

LEMMA ExecuteOrder == ASSUME IInv, OInv, NEW t \in Threads, Execute(t) PROVE OInv'
<1>1. PICK k \in Tasks \ Live : node' = [node EXCEPT ![t] = k] /\ next' = [next EXCEPT ![k] = top]
  BY DEF Execute
<1>2. /\ UNCHANGED <<top, tasks, running, line>>
      /\ pc[t] = Caller(t) /\ pc' = [pc EXCEPT ![t] = "push"]
  BY DEF Execute, Move
<1>3. k # None /\ k \notin ToSet(line) /\ \A u \in Threads : node[u] # k
  BY <1>1, TasksAssumption DEF Live
<1>4. \A w \in Workers : running[w] # k
  BY <1>1, <1>3 DEF Live
<1>5. pc[t] # "push" /\ pc[t] # "next" /\ (pc[t] = "run" => t \in Workers /\ running[t] # None)
  BY <1>2 DEF Caller
<1>6. TaskTypes'
  BY <1>1, <1>2 DEF OInv, TaskTypes, IInv, Types, Threads
<1>7. OnePlace'
  <2>1. \A u \in Threads : u # t => node'[u] = node[u] /\ pc'[u] = pc[u]
    BY <1>1, <1>2 DEF OInv, TaskTypes, IInv, Types
  <2>2. node'[t] = k /\ pc'[t] = "push"
    BY <1>1, <1>2 DEF OInv, TaskTypes, IInv, Types
  <2>. QED  BY <1>2, <1>3, <1>4, <2>1, <2>2 DEF OInv, OnePlace
<1>8. BatchInJob'
  BY <1>2, <1>5 DEF OInv, BatchInJob, IInv, Types, Threads
<1>9. LineSplit'
  BY <1>1, <1>2, <1>3, SplitKept DEF OInv, LineSplit, TaskTypes
<1>. QED  BY <1>6, <1>7, <1>8, <1>9 DEF OInv, LineSplit

LEMMA PushOrder == ASSUME IInv, OInv, NEW t \in Threads, Push(t) PROVE OInv'
<1>. DEFINE k == node[t]
<1>0. pc[t] = "push" /\ k \in Tasks /\ k # None /\ k \notin ToSet(line) /\ UNCHANGED <<tasks, running>>
  BY DEF Push, Move, OInv, OnePlace, TaskTypes
<1>. HIDE DEF k
<1>1. CASE top = next[k] /\ pc' # pc
  <2>1. /\ pc' = [pc EXCEPT ![t] = "exchange"] /\ top' = k /\ line' = Append(line, k)
        /\ node' = [node EXCEPT ![t] = None] /\ next' = next
    BY <1>1 DEF Push, Move, k
  <2>2. /\ line' \in Seq(Tasks) /\ Len(line') = Len(line) + 1 /\ Len(line) \in Nat
        /\ \A i \in 1..Len(line) : line'[i] = line[i] /\ line[i] \in Tasks
        /\ line'[Len(line) + 1] = k
        /\ ToSet(line)' = ToSet(line) \cup {k} /\ IsInjective(line)'
    BY <1>0, <2>1, AppendFacts, SeqFacts DEF OInv, TaskTypes, OnePlace
  <2>3. \A u \in Threads : u # t => node'[u] = node[u] /\ pc'[u] = pc[u]
    BY <2>1 DEF OInv, TaskTypes, IInv, Types
  <2>4. node'[t] = None /\ pc'[t] = "exchange"
    BY <2>1 DEF OInv, TaskTypes, IInv, Types
  <2>5. TaskTypes'
    BY <1>0, <2>1, <2>2 DEF OInv, TaskTypes, IInv, Types, Threads
  <2>6. OnePlace'
    <3>1. \A u \in Threads : node[u] = k => u = t
      BY <1>0 DEF OInv, OnePlace, k
    <3>2. \A w \in Workers : running[w] # k
      BY <1>0 DEF OInv, OnePlace, k
    <3>3. None \notin ToSet(line)'
      BY <2>2, <2>5, SeqFacts, TasksAssumption DEF TaskTypes
    <3>. QED  BY <1>0, <2>2, <2>3, <2>4, <3>1, <3>2, <3>3 DEF OInv, OnePlace
  <2>7. BatchInJob'
    BY <1>0, <2>3, <2>4 DEF OInv, BatchInJob, Threads
  <2>8. LineSplit'
    <3>1. PICK m \in 0..Len(line) : Split(m)
      BY DEF OInv
    <3>2. m \in 0..Len(line') /\ m # Len(line') /\ Len(line) = Len(line') - 1
      BY <2>2, <3>1
    <3>3. \A w \in Workers : tasks'[w] # <<>> =>
             Len(tasks'[w]) = m /\ \A i \in 1..m : tasks'[w][i] = line'[i]
      BY <1>0, <2>2, <3>1 DEF Split
    <3>4. m > 0 => \E w \in Workers : tasks'[w] # <<>>
      BY <1>0, <3>1 DEF Split
    <3>5. top' = line'[Len(line')]
      BY <2>1, <2>2
    <3>6. ASSUME NEW i \in (m+1)..Len(line')
          PROVE  next'[line'[i]] = IF i = m + 1 THEN None ELSE line'[i-1]
      <4>1. CASE i = Len(line')
        <5>1. next'[line'[i]] = IF m = Len(line) THEN None ELSE line[Len(line)]
          BY <1>1, <2>1, <2>2, <3>1, <4>1 DEF Split
        <5>2. (m = Len(line) <=> i = m + 1) /\ i - 1 = Len(line)
          BY <2>2, <3>1, <4>1
        <5>3. m # Len(line) => Len(line) \in 1..Len(line)
          BY <2>2, <3>1
        <5>. QED  BY <2>2, <5>1, <5>2, <5>3
      <4>2. CASE i # Len(line')
        <5>1. i \in (m+1)..Len(line) /\ i \in 1..Len(line) /\ (i # m + 1 => i - 1 \in 1..Len(line))
          BY <2>2, <3>1, <3>6, <4>2
        <5>. QED  BY <2>1, <2>2, <3>1, <5>1 DEF Split
      <4>. QED  BY <4>1, <4>2
    <3>7. Split(m)'
      BY <3>2, <3>3, <3>4, <3>5, <3>6 DEF Split
    <3>. QED  BY <3>2, <3>7 DEF LineSplit
  <2>. QED  BY <2>5, <2>6, <2>7, <2>8 DEF OInv, LineSplit
<1>2. CASE ~(top = next[k] /\ pc' # pc)
  <2>1. /\ UNCHANGED <<top, pc, node, line>>
        /\ next' = next \/ next' = [next EXCEPT ![k] = top]
    BY <1>0, <1>2 DEF Push, Move, Unchanged, IInv, Types, k
  <2>2. TaskTypes'
    BY <1>0, <2>1 DEF OInv, TaskTypes
  <2>3. OnePlace' /\ BatchInJob'
    BY <1>0, <2>1 DEF OInv, OnePlace, BatchInJob
  <2>4. LineSplit'
    <3>1. \A j \in ToSet(line) : j \in Tasks /\ j # k
      BY <1>0, SeqFacts DEF OInv, TaskTypes
    <3>2. \A j \in ToSet(line) : next'[j] = next[j]
      BY <2>1, <3>1 DEF OInv, TaskTypes
    <3>. QED  BY <1>0, <2>1, <3>2, SplitKept DEF OInv, LineSplit
  <2>. QED  BY <2>2, <2>3, <2>4 DEF OInv, LineSplit
<1>. QED  BY <1>1, <1>2

LEMMA PopAllOrder == ASSUME IInv, OInv, NEW w \in Workers, PopAll(w) PROVE OInv'
<1>1. /\ pc[w] = "popAll" /\ pc' = [pc EXCEPT ![w] = "next"]
      /\ tasks' = [tasks EXCEPT ![w] = Popped] /\ top' = None
      /\ UNCHANGED <<next, node, running, line>>
  BY DEF PopAll, Move
<1>2. w \in Threads /\ w \in Holders /\ running[w] = None
  BY <1>1 DEF IInv, WhileRunning, Holders, InJob, Threads
<1>3. \A u \in Workers : tasks[u] = <<>>
  BY <1>1, <1>2, OneBatch DEF OInv, BatchInJob
<1>4. Split(0)
  BY <1>3 DEF OInv, Split
<1>5. Popped = line
  BY <1>4, PoppedIsLine DEF OInv
<1>6. TaskTypes'
  BY <1>1, <1>5, <1>2 DEF OInv, TaskTypes, IInv, Types, Threads
<1>7. \A u \in Workers : u # w => tasks'[u] = <<>>
  BY <1>1, <1>3 DEF OInv, TaskTypes
<1>8. tasks'[w] = line /\ pc'[w] = "next"
  BY <1>1, <1>2, <1>5 DEF OInv, TaskTypes, IInv, Types
<1>9. OnePlace'
  <2>1. \A u \in Threads : u # w => pc'[u] = pc[u]
    BY <1>1 DEF IInv, Types
  <2>. QED  BY <1>1, <1>2, <1>8, <2>1 DEF OInv, OnePlace
<1>10. BatchInJob'
  BY <1>1, <1>7, <1>8 DEF OInv, BatchInJob
<1>11. LineSplit'
  <2>1. Len(line) \in Nat /\ (line # <<>> <=> Len(line) # 0)
    BY SeqFacts DEF OInv, TaskTypes
  <2>2. Split(Len(line))'
    BY <1>1, <1>7, <1>8, <2>1 DEF Split
  <2>3. Len(line) \in 0..Len(line')
    BY <1>1, <2>1
  <2>. QED  BY <1>1, <2>2, <2>3 DEF LineSplit
<1>. QED  BY <1>6, <1>9, <1>10, <1>11 DEF OInv, LineSplit

\* What Begin(w) takes is the first task in line.
LEMMA BeginTakesFirst ==
    ASSUME IInv, OInv, NEW w \in Workers, Begin(w)
    PROVE  /\ line # <<>> /\ Head(tasks[w]) = Head(line) /\ line' = Tail(line)
           /\ \A u \in Workers : running[u] = None /\ (u # w => tasks[u] = <<>>)
<1>1. tasks[w] # <<>> /\ pc[w] = "next" /\ w \in Threads /\ line' = RemoveFirst(line, Head(tasks[w]))
  BY DEF Begin, Move, Threads
<1>2. w \in Holders /\ running[w] = None
  BY <1>1 DEF IInv, WhileRunning, Holders, InJob
<1>3. \A u \in Workers : running[u] # None => u = w
  BY <1>1, <1>2 DEF IInv, OneJob, Holders, InJob, Threads
<1>4. \A u \in Workers : u # w => tasks[u] = <<>>
  BY <1>2, OneBatch
<1>5. PICK m \in 0..Len(line) : Split(m)
  BY DEF OInv
<1>6. Len(tasks[w]) = m /\ m # 0 /\ m \in Nat /\ Len(line) \in Nat
      /\ tasks[w] \in Seq(Tasks) /\ line \in Seq(Tasks)
  BY <1>1, <1>5, SeqFacts DEF Split, OInv, TaskTypes
<1>7. 1 \in 1..m /\ Len(line) # 0
  BY <1>5, <1>6
<1>8. line # <<>> /\ tasks[w][1] = line[1]
  BY <1>1, <1>5, <1>6, <1>7, SeqFacts DEF Split
<1>9. Head(tasks[w]) = Head(line)
  BY <1>1, <1>6, <1>8, TailFacts
<1>. QED  BY <1>1, <1>2, <1>3, <1>4, <1>6, <1>8, <1>9, RemoveHead

LEMMA BeginOrder == ASSUME IInv, OInv, NEW w \in Workers, Begin(w) PROVE OInv'
<1>. DEFINE k == Head(line)
<1>1. /\ tasks[w] # <<>> /\ pc[w] = "next" /\ pc' = [pc EXCEPT ![w] = "run"]
      /\ running' = [running EXCEPT ![w] = k] /\ tasks' = [tasks EXCEPT ![w] = Tail(@)]
      /\ line' = Tail(line) /\ line # <<>>
      /\ UNCHANGED <<top, next, node>>
  BY BeginTakesFirst DEF Begin, Move
<1>2. \A u \in Workers : running[u] = None /\ (u # w => tasks[u] = <<>>)
  BY BeginTakesFirst
<1>3. /\ line \in Seq(Tasks) /\ tasks[w] \in Seq(Tasks) /\ w \in Threads
      /\ Len(line) \in Nat /\ Len(line) # 0 /\ Len(tasks[w]) \in Nat
  BY <1>1, SeqFacts DEF OInv, TaskTypes, Threads
<1>4. /\ line' \in Seq(Tasks) /\ Len(line') = Len(line) - 1
      /\ \A i \in 1..Len(line) - 1 : line'[i] = line[i+1]
      /\ ToSet(line)' \subseteq ToSet(line) /\ k \in ToSet(line) /\ k \in Tasks /\ k # None
      /\ k \notin ToSet(line)' /\ IsInjective(line')
  BY <1>1, <1>3, TailFacts, SeqFacts, TasksAssumption DEF OInv, OnePlace
<1>5. /\ Tail(tasks[w]) \in Seq(Tasks) /\ Len(Tail(tasks[w])) = Len(tasks[w]) - 1
      /\ \A i \in 1..Len(tasks[w]) - 1 : Tail(tasks[w])[i] = tasks[w][i+1]
  BY <1>1, <1>3, TailFacts
<1>. HIDE DEF k
<1>6. /\ tasks'[w] = Tail(tasks[w]) /\ running'[w] = k /\ pc'[w] = "run"
      /\ \A u \in Workers : u # w => tasks'[u] = <<>> /\ running'[u] = None
      /\ \A u \in Threads : u # w => pc'[u] = pc[u]
  BY <1>1, <1>2, <1>3 DEF OInv, TaskTypes, IInv, Types
<1>7. TaskTypes'
  BY <1>1, <1>3, <1>4, <1>5, <1>6 DEF OInv, TaskTypes, Threads
<1>8. OnePlace'
  <2>1. \A t \in Threads : node[t] # k
    BY <1>4 DEF OInv, OnePlace
  <2>2. None \notin ToSet(line)'
    BY <1>7, SeqFacts, TasksAssumption DEF TaskTypes
  <2>. QED  BY <1>1, <1>3, <1>4, <1>6, <2>1, <2>2 DEF OInv, OnePlace
<1>9. BatchInJob'
  BY <1>4, <1>6 DEF BatchInJob
<1>10. LineSplit'
  <2>1. PICK m \in 0..Len(line) : Split(m)
    BY DEF OInv
  <2>2. Len(tasks[w]) = m /\ \A i \in 1..m : tasks[w][i] = line[i]
    BY <1>1, <2>1 DEF Split
  <2>3. m \in Nat /\ m # 0 /\ m - 1 \in 0..Len(line')
    <3>1. m # 0
      BY <1>1, <1>3, <2>2, SeqFacts
    <3>. QED  BY <1>3, <1>4, <2>1, <3>1
  <2>4. \A u \in Workers : tasks'[u] # <<>> =>
           Len(tasks'[u]) = m - 1 /\ \A i \in 1..(m-1) : tasks'[u][i] = line'[i]
    <3>0. m \in Nat /\ Len(line) \in Nat /\ m <= Len(line)
      BY <1>3, <2>1
    <3>1. \A i \in 1..(m-1) : i + 1 \in 1..m /\ i \in 1..Len(line) - 1
      BY <3>0
    <3>2. \A i \in 1..(m-1) : tasks'[w][i] = line'[i]
      BY <1>4, <1>5, <1>6, <2>2, <3>1
    <3>. QED  BY <1>5, <1>6, <2>2, <3>2
  <2>5. m - 1 > 0 => \E u \in Workers : tasks'[u] # <<>>
    <3>1. Len(tasks'[w]) = m - 1 /\ tasks'[w] \in Seq(Tasks)
      BY <1>5, <1>6, <2>2
    <3>. QED  BY <2>3, <3>1, SeqFacts
  <2>6. top' = IF m - 1 = Len(line') THEN None ELSE line'[Len(line')]
    <3>1. m - 1 = Len(line') <=> m = Len(line)
      BY <1>3, <1>4, <2>1
    <3>2. m # Len(line) => Len(line') \in 1..Len(line) - 1 /\ Len(line') + 1 = Len(line)
      BY <1>3, <1>4, <2>1, <2>3
    <3>. QED  BY <1>1, <1>4, <2>1, <3>1, <3>2, Zenon DEF Split
  <2>7. ASSUME NEW i \in ((m-1)+1)..Len(line')
        PROVE  next'[line'[i]] = IF i = (m - 1) + 1 THEN None ELSE line'[i-1]
    <3>1. i \in 1..Len(line) - 1 /\ i + 1 \in (m+1)..Len(line) /\ (i + 1) - 1 = i
      BY <1>3, <1>4, <2>1, <2>3, <2>7
    <3>2. i = (m - 1) + 1 <=> i + 1 = m + 1
      BY <2>3, <3>1
    <3>3. i # (m - 1) + 1 => i - 1 \in 1..Len(line) - 1 /\ (i - 1) + 1 = i
      BY <1>3, <2>3, <2>7, <3>1
    <3>4. next[line[i+1]] = IF i + 1 = m + 1 THEN None ELSE line[i]
      BY <2>1, <3>1 DEF Split
    <3>. QED  BY <1>1, <1>4, <3>1, <3>2, <3>3, <3>4
  <2>8. Split(m - 1)'
    BY <2>4, <2>5, <2>6, <2>7 DEF Split
  <2>. QED  BY <2>3, <2>8 DEF LineSplit
<1>. QED  BY <1>7, <1>8, <1>9, <1>10 DEF OInv, LineSplit

\* The steps that move no task but the one that has run.
LEMMA OtherOrder ==
    ASSUME IInv, OInv, NEW t \in Threads,
           \/ Exchange(t) \/ Schedule(t)
           \/ t \in Workers /\ (Start(t) \/ End(t) \/ Clear(t) \/ IsEmpty(t))
    PROVE  OInv'
<1>1. UNCHANGED <<top, next, node, tasks, line>>
  BY DEF Exchange, Schedule, Start, End, Clear, IsEmpty
<1>2. /\ pc[t] # "push" /\ pc'[t] # "push" /\ \A u \in Threads : u # t => pc'[u] = pc[u]
      /\ \A u \in Workers : running'[u] \in {running[u], None}
      /\ \A u \in Workers : u # t => running'[u] = running[u]
      /\ running' \in [Workers -> Tasks \cup {None}]
  BY DEF Exchange, Schedule, Start, End, Clear, IsEmpty, Move, Relinquish, Caller, AfterClear,
         OInv, TaskTypes, IInv, Types
<1>3. t \in Workers /\ pc'[t] = "run" => running'[t] # None
  BY DEF Exchange, Schedule, Start, End, Clear, IsEmpty, Move, Relinquish, Caller, AfterClear,
         IInv, Types
<1>4. t \in Workers /\ tasks[t] # <<>> => running'[t] # None \/ pc'[t] = "next"
  BY DEF Exchange, Schedule, Start, End, Clear, IsEmpty, Move, Relinquish, Caller, AfterClear,
         OInv, BatchInJob, TaskTypes, IInv, Types, WhileRunning
<1>5. TaskTypes'
  BY <1>1, <1>2, <1>3 DEF OInv, TaskTypes, Threads
<1>6. OnePlace'
  <2>1. None \notin ToSet(line)
    BY SeqFacts, TasksAssumption DEF OInv, TaskTypes
  <2>. QED  BY <1>1, <1>2, <2>1 DEF OInv, OnePlace
<1>7. BatchInJob'
  BY <1>1, <1>2, <1>4 DEF OInv, BatchInJob, Threads
<1>8. LineSplit'
  BY <1>1, SplitKept DEF OInv, LineSplit
<1>. QED  BY <1>5, <1>6, <1>7, <1>8 DEF OInv, LineSplit

LEMMA InitOInv == Init => OInv
<1> SUFFICES ASSUME Init PROVE OInv
  OBVIOUS
<1>1. /\ Len(<<>>) = 0 /\ <<>> \in Seq(Tasks) /\ ToSet(<<>>) = {} /\ IsInjective(<<>>)
  BY EmptySeq, LenProperties DEF ToSet, IsInjective
<1>2. TaskTypes /\ OnePlace /\ BatchInJob
  BY <1>1 DEF Init, TaskTypes, OnePlace, BatchInJob, Threads
<1>3. Split(0) /\ 0 \in 0..Len(line)
  BY <1>1 DEF Init, Split
<1> QED
  BY <1>2, <1>3 DEF OInv

LEMMA NextOInv == IInv /\ OInv /\ [Next]_vars => OInv'
<1> SUFFICES ASSUME IInv, OInv, [Next]_vars PROVE OInv'
  OBVIOUS
<1>1. ASSUME UNCHANGED vars PROVE OInv'
  BY <1>1 DEF vars, OInv, TaskTypes, OnePlace, BatchInJob, Split
<1>2. ASSUME NEW w \in Workers, Job(w) PROVE OInv'
  <2>1. w \in Threads
    BY DEF Threads
  <2>. QED  BY <1>2, <2>1, PopAllOrder, BeginOrder, OtherOrder DEF Job
<1> QED
  BY <1>1, <1>2, ExecuteOrder, PushOrder, OtherOrder DEF Next, Step

\* Every behaviour of the strand is one of the abstract strand: the tasks run one at a
\* time, in the order in which Push has published them, whatever batches the job takes.
THEOREM StrandRefinement == Spec => ImplementsStrand
<1>. DEFINE current == IF \A w \in Workers : running[w] = None THEN None
                       ELSE running[CHOOSE w \in Workers : running[w] # None]
<1>1. Init => AS!Init
  BY DEF Init, AS!Init
<1>2. ASSUME IInv, IInv', OInv, [Next]_vars PROVE [AS!Next]_(AS!vars)
  <2>1. ASSUME NEW w \in Workers, running[w] # None PROVE current = running[w]
    BY <1>2, <2>1 DEF IInv, OneJob, Holders, InJob, Threads
  <2>2. ASSUME NEW w \in Workers, running'[w] # None PROVE current' = running'[w]
    BY <1>2, <2>2 DEF IInv, OneJob, Holders, InJob, Threads
  <2>3. (\A w \in Workers : running[w] = None) => current = None
    OBVIOUS
  <2>4. (\A w \in Workers : running'[w] = None) => current' = None
    OBVIOUS
  <2>5. (\E w \in Workers : running[w] # None) \/ \A w \in Workers : running[w] = None
    OBVIOUS
  <2>. HIDE DEF current
  <2>6. ASSUME NEW t \in Threads, Push(t) PROVE [AS!Next]_<<line, current>>
    <3>1. UNCHANGED running /\ UNCHANGED current
      BY <2>6 DEF Push, current
    <3>2. CASE line' = Append(line, node[t]) /\ pc[t] = "push"
      <4>1. node[t] \in Tasks /\ node[t] # None /\ node[t] \notin ToSet(line)
        BY <1>2, <3>2 DEF OInv, OnePlace, TaskTypes
      <4>2. node[t] # current
        BY <1>2, <2>1, <2>3, <2>5, <4>1 DEF OInv, OnePlace
      <4>3. AS!Submit(node[t])
        BY <3>1, <3>2, <4>1, <4>2 DEF AS!Submit, AS!ToSet, ToSet, current
      <4>. QED  BY <4>1, <4>3 DEF AS!Next
    <3>3. CASE line' = line
      BY <3>1, <3>3
    <3>. QED  BY <2>6, <3>2, <3>3 DEF Push, Move
  <2>7. ASSUME NEW w \in Workers, Begin(w) PROVE [AS!Next]_<<line, current>>
    <3>1. /\ line # <<>> /\ line' = Tail(line) /\ \A u \in Workers : running[u] = None
          /\ running' = [running EXCEPT ![w] = Head(line)]
      BY <1>2, <2>7, BeginTakesFirst DEF Begin
    <3>2. current = None
      BY <2>3, <3>1
    <3>3. Head(line) \in Tasks /\ Head(line) # None
      BY <1>2, <3>1, TailFacts, SeqFacts, TasksAssumption DEF OInv, TaskTypes
    <3>4. running'[w] = Head(line)
      BY <1>2, <3>1 DEF OInv, TaskTypes
    <3>5. current' = Head(line)
      BY <2>2, <3>3, <3>4
    <3>. QED  BY <3>1, <3>2, <3>5 DEF AS!Next, AS!Begin, current
  <2>8. ASSUME NEW w \in Workers, End(w) PROVE [AS!Next]_<<line, current>>
    <3>1. /\ pc[w] = "run" /\ running' = [running EXCEPT ![w] = None] /\ line' = line
      BY <2>8 DEF End, Move
    <3>2. running[w] # None /\ current # None
      BY <1>2, <2>1, <3>1 DEF OInv, TaskTypes
    <3>3. \A u \in Workers : running'[u] = None
      BY <1>2, <3>1, <3>2 DEF OInv, TaskTypes, IInv, OneJob, Holders, InJob, Threads
    <3>4. current' = None
      BY <2>4, <3>3
    <3>. QED  BY <3>1, <3>2, <3>4 DEF AS!Next, AS!End, current
  <2>9. ASSUME UNCHANGED <<line, running>> PROVE [AS!Next]_<<line, current>>
    BY <2>9 DEF current
  <2>10. ASSUME NEW t \in Threads, Execute(t) \/ Exchange(t) \/ Schedule(t)
         PROVE  UNCHANGED <<line, running>>
    BY <2>10 DEF Execute, Exchange, Schedule
  <2>11. ASSUME NEW w \in Workers, Start(w) \/ PopAll(w) \/ Clear(w) \/ IsEmpty(w)
         PROVE  UNCHANGED <<line, running>>
    BY <2>11 DEF Start, PopAll, Clear, IsEmpty
  <2>12. UNCHANGED vars => UNCHANGED <<line, running>>
    BY DEF vars
  <2>13. [AS!Next]_<<line, current>>
    BY <1>2, <2>6, <2>7, <2>8, <2>9, <2>10, <2>11, <2>12 DEF Next, Step, Job
  <2>. QED  BY <2>13 DEF AS!vars, current
<1>3. Spec => []OInv
  BY Inductive, InitOInv, NextOInv, PTL DEF Spec
<1>. QED
  BY <1>1, <1>2, <1>3, Inductive, PTL DEF Spec, ImplementsStrand, AS!Spec
-----------------------------------------------------------------------------
(* TaskMutex and TaskWaitGroup.  First, sequences of coroutines.           *)

Elems(s)    == {s[i] : i \in 1..Len(s)}
Distinct(s) == \A i, j \in 1..Len(s) : s[i] = s[j] => i = j

\* s is what the pointers f lead to from l on, and the mark end comes behind it.
IsList(s, l, f, end) ==
    /\ s \in Seq(Coroutines) /\ Distinct(s)
    /\ l = IF s = <<>> THEN end ELSE s[1]
    /\ \A i \in 1..Len(s) : f[s[i]] = IF i = Len(s) THEN end ELSE s[i+1]

LEMMA ListFacts ==
    ASSUME NEW s \in Seq(Coroutines)
    PROVE  /\ Len(s) \in Nat /\ s \in [1..Len(s) -> Coroutines]
           /\ Elems(s) \subseteq Coroutines /\ (s = <<>> <=> Len(s) = 0)
           /\ s = <<>> <=> Elems(s) = {}
<1>1. Len(s) \in Nat /\ s \in [1..Len(s) -> Coroutines] /\ (s = <<>> <=> Len(s) = 0)
  BY LenProperties, EmptySeq
<1>2. Len(s) # 0 => 1 \in 1..Len(s)
  BY <1>1
<1>3. Len(s) = 0 => 1..Len(s) = {}
  OBVIOUS
<1>. QED  BY <1>1, <1>2, <1>3 DEF Elems

LEMMA EmptyList == <<>> \in Seq(Coroutines) /\ Elems(<<>>) = {} /\ Distinct(<<>>)
<1>1. Len(<<>>) = 0 /\ 1..0 = {} /\ <<>> \in Seq(Coroutines)
  BY EmptySeq
<1>. QED  BY <1>1 DEF Elems, Distinct

LEMMA OneElement ==
    ASSUME NEW x \in Coroutines
    PROVE  <<x>> \in Seq(Coroutines) /\ Elems(<<x>>) = {x} /\ Distinct(<<x>>)
<1>1. <<x>> \in Seq(Coroutines) /\ Len(<<x>>) = 1 /\ <<x>>[1] = x /\ 1..1 = {1}
  OBVIOUS
<1>. QED  BY <1>1 DEF Elems, Distinct

LEMMA ElemsOfAppend ==
    ASSUME NEW s \in Seq(Coroutines), NEW x \in Coroutines
    PROVE  /\ Append(s, x) \in Seq(Coroutines)
           /\ Elems(Append(s, x)) = Elems(s) \cup {x}
           /\ Distinct(s) /\ x \notin Elems(s) => Distinct(Append(s, x))
<1>1. /\ Append(s, x) \in Seq(Coroutines) /\ Len(Append(s, x)) = Len(s) + 1 /\ Len(s) \in Nat
      /\ \A i \in 1..Len(s) : Append(s, x)[i] = s[i]
      /\ Append(s, x)[Len(s) + 1] = x
  BY AppendProperties, ListFacts
<1>2. \A i : i \in 1..Len(s) + 1 <=> i \in 1..Len(s) \/ i = Len(s) + 1
  BY <1>1
<1>. QED  BY <1>1, <1>2 DEF Elems, Distinct

LEMMA ElemsOfTail ==
    ASSUME NEW s \in Seq(Coroutines), s # <<>>
    PROVE  /\ Head(s) = s[1] /\ Head(s) \in Coroutines /\ Tail(s) \in Seq(Coroutines)
           /\ Len(Tail(s)) = Len(s) - 1 /\ \A i \in 1..Len(s) - 1 : Tail(s)[i] = s[i+1]
           /\ Elems(s) = Elems(Tail(s)) \cup {Head(s)}
           /\ Distinct(s) => Distinct(Tail(s)) /\ Head(s) \notin Elems(Tail(s))
<1>1. /\ Head(s) = s[1] /\ Tail(s) \in Seq(Coroutines) /\ Len(Tail(s)) = Len(s) - 1
      /\ \A i \in 1..Len(s) - 1 : Tail(s)[i] = s[i+1]
  BY HeadTailProperties, ListFacts
<1>2. Len(s) \in Nat /\ Len(s) # 0 /\ s \in [1..Len(s) -> Coroutines]
  BY ListFacts
<1>3. /\ 1 \in 1..Len(s)
      /\ \A i \in 1..Len(s) - 1 : i + 1 \in 1..Len(s) /\ i + 1 # 1
      /\ \A i \in 1..Len(s) : i = 1 \/ i - 1 \in 1..Len(s) - 1
      /\ \A i \in 1..Len(s) : (i - 1) + 1 = i
      /\ \A i, j \in 1..Len(s) - 1 : i + 1 = j + 1 => i = j
  BY <1>2
<1>4. Elems(s) = Elems(Tail(s)) \cup {Head(s)}
  <2>1. \A i \in 1..Len(s) : i = 1 \/ s[i] = Tail(s)[i-1]
    BY <1>1, <1>3
  <2>2. \A x \in Elems(s) : x \in Elems(Tail(s)) \cup {Head(s)}
    <3>. SUFFICES ASSUME NEW i \in 1..Len(s) PROVE s[i] \in Elems(Tail(s)) \cup {Head(s)}
      BY DEF Elems
    <3>1. CASE i = 1
      BY <1>1, <3>1
    <3>2. CASE i # 1
      <4>1. i - 1 \in 1..Len(Tail(s)) /\ s[i] = Tail(s)[i-1]
        BY <1>1, <1>3, <2>1, <3>2
      <4>. QED  BY <4>1 DEF Elems
    <3>. QED  BY <3>1, <3>2
  <2>3. \A x \in Elems(Tail(s)) \cup {Head(s)} : x \in Elems(s)
    BY <1>1, <1>3 DEF Elems
  <2>. QED  BY <2>2, <2>3
<1>5. ASSUME Distinct(s) PROVE Distinct(Tail(s)) /\ Head(s) \notin Elems(Tail(s))
  <2>1. \A i, j \in 1..Len(s) - 1 : Tail(s)[i] = Tail(s)[j] => i = j
    BY <1>1, <1>3, <1>5 DEF Distinct
  <2>2. \A i \in 1..Len(s) - 1 : Tail(s)[i] # Head(s)
    BY <1>1, <1>3, <1>5 DEF Distinct
  <2>. QED  BY <1>1, <2>1, <2>2 DEF Distinct, Elems
<1>. QED  BY <1>1, <1>2, <1>3, <1>4, <1>5

LEMMA ElemsOfFront ==
    ASSUME NEW s \in Seq(Coroutines), s # <<>>
    PROVE  /\ TG!Last(s) \in Coroutines /\ TG!Front(s) \in Seq(Coroutines)
           /\ Elems(s) = Elems(TG!Front(s)) \cup {TG!Last(s)}
           /\ Distinct(s) => Distinct(TG!Front(s)) /\ TG!Last(s) \notin Elems(TG!Front(s))
<1>1. Len(s) \in Nat /\ Len(s) # 0 /\ s \in [1..Len(s) -> Coroutines]
  BY ListFacts
<1>2. /\ 1 \in 1..Len(s) + 1 /\ Len(s) - 1 \in 0..Len(s)
      /\ IF 1 > Len(s) - 1 THEN Len(s) - 1 = 0 ELSE (Len(s) - 1) - 1 + 1 = Len(s) - 1
  BY <1>1
<1>3. /\ TG!Front(s) \in Seq(Coroutines) /\ Len(TG!Front(s)) = Len(s) - 1
      /\ \A i \in 1..Len(s) - 1 : TG!Front(s)[i] = s[i]
  <2>1. /\ SubSeq(s, 1, Len(s) - 1) \in Seq(Coroutines)
        /\ Len(SubSeq(s, 1, Len(s) - 1)) = Len(s) - 1
        /\ \A i \in 1..Len(s) - 1 : SubSeq(s, 1, Len(s) - 1)[i] = s[1 + i - 1]
    BY <1>1, <1>2, SubSeqProperties
  <2>2. \A i \in 1..Len(s) - 1 : 1 + i - 1 = i
    BY <1>1
  <2>. QED  BY <2>1, <2>2 DEF TG!Front
<1>4. /\ \A i : i \in 1..Len(s) <=> i \in 1..Len(s) - 1 \/ i = Len(s)
      /\ Len(s) \notin 1..Len(s) - 1
  BY <1>1
<1>. QED  BY <1>1, <1>3, <1>4 DEF Elems, Distinct, TG!Last

LEMMA ElemsOfReverse ==
    ASSUME NEW s \in Seq(Coroutines)
    PROVE  /\ TG!Reverse(s) \in Seq(Coroutines) /\ Len(TG!Reverse(s)) = Len(s)
           /\ \A i \in 1..Len(s) : TG!Reverse(s)[i] = s[Len(s) - i + 1]
           /\ Elems(TG!Reverse(s)) = Elems(s)
           /\ Distinct(s) => Distinct(TG!Reverse(s))
<1>1. Len(s) \in Nat /\ s \in [1..Len(s) -> Coroutines]
  BY ListFacts
<1>2. /\ \A i \in 1..Len(s) : Len(s) - i + 1 \in 1..Len(s) /\ Len(s) - (Len(s) - i + 1) + 1 = i
      /\ \A i, j \in 1..Len(s) : Len(s) - i + 1 = Len(s) - j + 1 => i = j
      /\ \A i \in 1..Len(s) : (Len(s) - i) + 1 = Len(s) - i + 1
  BY <1>1
<1>3. TG!Reverse(s) = [i \in 1..Len(s) |-> s[(Len(s) - i) + 1]]
  BY DEF TG!Reverse
<1>4. /\ TG!Reverse(s) \in Seq(Coroutines) /\ Len(TG!Reverse(s)) = Len(s)
      /\ \A i \in 1..Len(s) : TG!Reverse(s)[i] = s[Len(s) - i + 1]
  BY <1>1, <1>2, <1>3
<1>5. \A i \in 1..Len(s) : TG!Reverse(s)[Len(s) - i + 1] = s[i]
  BY <1>2, <1>4
<1>6. Elems(TG!Reverse(s)) = Elems(s)
  <2>. DEFINE r == TG!Reverse(s)
  <2>0. Len(r) = Len(s) /\ \A i \in 1..Len(s) : r[i] = s[Len(s) - i + 1] /\ r[Len(s) - i + 1] = s[i]
    BY <1>4, <1>5
  <2>. HIDE DEF r
  <2>1. \A x \in Elems(s) : x \in Elems(r)
    <3>. SUFFICES ASSUME NEW i \in 1..Len(s) PROVE s[i] \in Elems(r)
      BY DEF Elems
    <3>1. Len(s) - i + 1 \in 1..Len(r) /\ r[Len(s) - i + 1] = s[i]
      BY <1>2, <2>0
    <3>. QED  BY <3>1 DEF Elems
  <2>2. \A x \in Elems(r) : x \in Elems(s)
    BY <1>2, <2>0 DEF Elems
  <2>. QED  BY <2>1, <2>2 DEF r
<1>7. ASSUME Distinct(s) PROVE Distinct(TG!Reverse(s))
  <2>. SUFFICES ASSUME NEW i \in 1..Len(s), NEW j \in 1..Len(s), TG!Reverse(s)[i] = TG!Reverse(s)[j]
                PROVE  i = j
    BY <1>4 DEF Distinct
  <2>1. s[Len(s) - i + 1] = s[Len(s) - j + 1]
    BY <1>4
  <2>2. Len(s) - i + 1 = Len(s) - j + 1
    BY <1>2, <1>7, <2>1 DEF Distinct
  <2>. QED  BY <1>2, <2>2
<1>. QED  BY <1>4, <1>6, <1>7

\* There are no more elements in a list than coroutines.
LEMMA ListsAreShort ==
    ASSUME NEW s \in Seq(Coroutines), Distinct(s)
    PROVE  TG!Cardinality(Coroutines) \in Nat /\ Len(s) <= TG!Cardinality(Coroutines)
<1>1. s \in [1..Len(s) -> Elems(s)] /\ Len(s) \in Nat /\ Elems(s) \in SUBSET Coroutines
  BY ListFacts DEF Elems
<1>2. s \in Bijection(1..Len(s), Elems(s))
  BY <1>1 DEF Distinct, Elems, Bijection, Injection, Surjection, IsInjective
<1>3. Cardinality(Elems(s)) = Len(s)
  <2>1. ExistsBijection(1..Len(s), Elems(s))
    BY <1>2 DEF ExistsBijection
  <2>. QED  BY <1>1, <2>1, FS_CountingElements, FS_NatBijection
<1>4. Cardinality(Coroutines) \in Nat /\ Len(s) <= Cardinality(Coroutines)
  BY <1>1, <1>3, FS_Subset, FS_CardinalityType, McAssumption
<1>. QED  BY <1>4 DEF TG!Cardinality, Cardinality

\* What the model reads from the pointers of a list is the list: the walk agrees with
\* it by the least step at which it would not.
LEMMA FollowIsList ==
    ASSUME NEW s, NEW l, NEW f, NEW end, end \notin Coroutines, IsList(s, l, f, end)
    PROVE  TG!Follow(l, f) = s
<1>. DEFINE n == Len(s)
            k == TG!Cardinality(Coroutines)
            Walks(a) == a = [i \in 0..k |-> IF i = 0 THEN l
                                ELSE IF a[i-1] \in Coroutines THEN f[a[i-1]] ELSE a[i-1]]
            g == [i \in 0..k |-> IF i < n THEN s[i+1] ELSE end]
            at == CHOOSE a : Walks(a)
<1>1. k \in Nat /\ n \in Nat /\ n <= k /\ s \in [1..n -> Coroutines]
  BY ListsAreShort, ListFacts DEF IsList
<1>2. l = (IF n = 0 THEN end ELSE s[1]) /\ \A i \in 1..n : f[s[i]] = IF i = n THEN end ELSE s[i+1]
  BY ListFacts DEF IsList
<1>3. TG!Follow(l, f) = [i \in 1..TG!Cardinality({i \in 0..k : at[i] \in Coroutines}) |-> at[i-1]]
  BY DEF TG!Follow
<1>. HIDE DEF k, n
<1>4. Walks(g)
  <2>. SUFFICES ASSUME NEW i \in 0..k
                PROVE  g[i] = IF i = 0 THEN l ELSE IF g[i-1] \in Coroutines THEN f[g[i-1]] ELSE g[i-1]
    OBVIOUS
  <2>1. CASE i = 0
    BY <1>1, <1>2, <2>1
  <2>2. CASE i # 0 /\ i - 1 < n
    <3>0. i \in Nat /\ i # 0 /\ i - 1 < n /\ i <= k
      BY <1>1, <2>2
    <3>1. i - 1 \in 0..k /\ i \in 1..n /\ (i - 1) + 1 = i /\ (i < n <=> i # n)
      BY <1>1, <3>0
    <3>2. g[i-1] = s[i] /\ g[i-1] \in Coroutines
      BY <1>1, <2>2, <3>1
    <3>. QED  BY <1>2, <2>2, <3>1, <3>2
  <2>3. CASE i # 0 /\ ~(i - 1 < n)
    <3>0. i \in Nat /\ i # 0 /\ ~(i - 1 < n) /\ i <= k
      BY <1>1, <2>3
    <3>1. i - 1 \in 0..k /\ ~(i < n)
      BY <1>1, <3>0
    <3>. QED  BY <2>3, <3>1
  <2>. QED  BY <2>1, <2>2, <2>3
<1>. HIDE DEF g
<1>5. Walks(at)
  BY <1>4, Zenon
<1>. HIDE DEF at
<1>6. \A i \in 0..k : at[i] = g[i]
  <2>. DEFINE S == {i \in 0..k : at[i] # g[i]}
  <2>. SUFFICES ASSUME S # {} PROVE FALSE
    OBVIOUS
  <2>1. S \in SUBSET Nat
    BY <1>1
  <2>. HIDE DEF S
  <2>2. PICK x \in S : \A y \in S : ~(y < x)
    BY <2>1, LeastNumber
  <2>3. x \in 0..k /\ at[x] # g[x]
    BY <2>2 DEF S
  <2>4. CASE x = 0
    BY <1>4, <1>5, <2>3, <2>4
  <2>5. CASE x # 0
    <3>1. x - 1 \in 0..k /\ x - 1 < x
      BY <1>1, <2>3, <2>5
    <3>2. at[x-1] = g[x-1]
      BY <2>2, <3>1 DEF S
    <3>3. /\ at[x] = IF at[x-1] \in Coroutines THEN f[at[x-1]] ELSE at[x-1]
          /\ g[x] = IF g[x-1] \in Coroutines THEN f[g[x-1]] ELSE g[x-1]
      BY <1>4, <1>5, <2>3, <2>5
    <3>. QED  BY <2>3, <3>2, <3>3
  <2>. QED  BY <2>4, <2>5
<1>7. TG!Cardinality({i \in 0..k : at[i] \in Coroutines}) = n
  <2>1. ASSUME NEW i \in 0..k PROVE at[i] \in Coroutines <=> i < n
    <3>1. i < n => i + 1 \in 1..n
      BY <1>1, <2>1
    <3>2. g[i] = IF i < n THEN s[i+1] ELSE end
      BY DEF g
    <3>. QED  BY <1>1, <1>6, <3>1, <3>2
  <2>2. {i \in 0..k : at[i] \in Coroutines} = 0..(n - 1)
    BY <1>1, <2>1
  <2>3. Cardinality(0..(n - 1)) = n
    <3>1. n - 1 \in Int /\ 0 \in Int
      BY <1>1
    <3>2. Cardinality(0..(n - 1)) = IF 0 > n - 1 THEN 0 ELSE (n - 1) - 0 + 1
      BY <3>1, FS_Interval
    <3>. QED  BY <1>1, <3>2
  <2>. QED  BY <2>2, <2>3 DEF TG!Cardinality, Cardinality
<1>8. \A i \in 1..n : at[i-1] = s[i]
  <2>1. \A i \in 1..n : i - 1 \in 0..k /\ i - 1 < n /\ (i - 1) + 1 = i
    BY <1>1
  <2>. QED  BY <1>6, <2>1 DEF g
<1>9. TG!Follow(l, f) = [i \in 1..n |-> s[i]]
  BY <1>3, <1>7, <1>8
<1>. QED  BY <1>1, <1>9
-----------------------------------------------------------------------------
(* The inductive invariant of both.                                        *)

CoPlaces == IF uses = "mutex"
            THEN {"none", "outside", "enqueue", "parked", "critical", "exchange", "resume"}
            ELSE {"none", "outside", "await", "waiting", "fire", "firing"}

MuTypes == /\ head \in Coroutines \cup {Unlocked, Locked}
           /\ tail \in Coroutines \cup {Unlocked}
           /\ succ \in [Coroutines -> Coroutines \cup {Unlocked, Locked}]
           /\ locker \in [Coroutines -> Coroutines \cup {Unlocked}]

PlTypes == /\ closing \in {"no", "in", "out"}
           /\ fate \in [Coroutines -> {"lives", "doomed", "stuck"}]
           /\ uses \in {"mutex", "waitgroup"}
           /\ place \in [Coroutines -> CoPlaces]

WgTypes == /\ owes \subseteq Coroutines /\ count = Cardinality(owes)
           /\ last \in Coroutines \cup {Unlocked, Locked}
           /\ link \in [Coroutines -> Coroutines \cup {Unlocked, Locked}]
           /\ awaiter \in [Coroutines -> Coroutines \cup {Unlocked}]

CoTypes == MuTypes /\ PlTypes /\ WgTypes

\* A coroutine is on one stack or in the queue, once, unless it is parked in one of
\* the two primitives or has not been started; st, q, p stand for stack, queue, place.
Away == {"none", "parked", "waiting"}
Scheduled(st, q, p) ==
    /\ st \in [TG!Threads -> Seq(Coroutines)] /\ q \in Seq(Coroutines)
    /\ \A w \in TG!Threads : Distinct(st[w])
    /\ \A v, w \in TG!Threads : v # w => Elems(st[v]) \cap Elems(st[w]) = {}
    /\ Distinct(q) /\ \A w \in TG!Threads : Elems(q) \cap Elems(st[w]) = {}
    /\ \A c \in Coroutines :
          p[c] \in Away <=> c \notin Elems(q) /\ \A w \in TG!Threads : c \notin Elems(st[w])
    /\ \A c \in Elems(q) : p[c] \in {"outside", "critical"}

\* T and H are the lists at tail_ and at head_: with the Lockers that Unlock is about to
\* resume, they have each parked coroutine once.  One coroutine has the mutex.
Holds(c) == place[c] \in {"critical", "exchange", "resume"}
Lists(T, H) ==
    /\ IsList(T, tail, succ, Unlocked)
    /\ IF head = Unlocked THEN T = <<>> /\ H = <<>> ELSE IsList(H, head, succ, Locked)
    /\ Elems(T) \cap Elems(H) = {}
    /\ \A c \in Coroutines : place[c] = "parked" <=>
          c \in Elems(T) \/ c \in Elems(H) \/ \E d \in Coroutines : locker[d] = c
    /\ \A d \in Coroutines : /\ locker[d] \notin Elems(T) /\ locker[d] \notin Elems(H)
                             /\ locker[d] # Unlocked <=> place[d] = "resume"
                             /\ place[d] = "exchange" => tail = Unlocked /\ head # Locked
    /\ \A c, d \in Coroutines : Holds(c) /\ Holds(d) => c = d
    /\ head = Unlocked <=> \A c \in Coroutines : ~Holds(c)

\* A is the event's list of awaiters, B what Fire has left of the one it has taken; one
\* coroutine fires, after every Done, and nobody enqueues itself behind the mark.
Fires(c) == place[c] \in {"fire", "firing"}
Lined(A, B) ==
    /\ IF last = Locked THEN A = <<>> ELSE IsList(A, last, link, Unlocked)
    /\ B \in Seq(Coroutines)
    /\ \A d \in Coroutines : IF place[d] = "firing" THEN IsList(B, awaiter[d], link, Unlocked)
                             ELSE awaiter[d] = Unlocked
    /\ B # <<>> => \E d \in Coroutines : place[d] = "firing"
    /\ Elems(A) \cap Elems(B) = {}
    /\ \A c \in Coroutines : /\ place[c] = "waiting" <=> c \in Elems(A) \/ c \in Elems(B)
                             /\ place[c] = "await" => link[c] # Locked
                             /\ Fires(c) => owes = {}
                             /\ place[c] = "fire" => last # Locked
                             /\ place[c] = "firing" => last = Locked
    /\ \A c, d \in Coroutines : Fires(c) /\ Fires(d) => c = d
    /\ last = Locked => owes = {}

MuInv == MuTypes /\ \E T, H \in Seq(Coroutines) : Lists(T, H)
WgInv == WgTypes /\ \E A, B \in Seq(Coroutines) : Lined(A, B)
CoInv == PlTypes /\ Scheduled(stack, queue, place) /\ MuInv /\ WgInv

\* What the steps do to stacks and queue: nothing but to places that are not theirs,
\* a call, a return, a start, a take and a teleport.
LEMMA SchedMove ==
    ASSUME NEW st, NEW q, NEW p, NEW p2, Scheduled(st, q, p),
           \A c \in Coroutines : p2[c] \in Away <=> p[c] \in Away,
           \A c \in Elems(q) : p2[c] \in {"outside", "critical"}
    PROVE  Scheduled(st, q, p2)
BY DEF Scheduled

LEMMA SchedCall ==
    ASSUME NEW st, NEW q, NEW p, NEW p2, Scheduled(st, q, p),
           NEW w \in TG!Threads, NEW x \in Coroutines, p[x] \in Away, p2[x] \notin Away,
           \A c \in Coroutines \ {x} : p2[c] \in Away <=> p[c] \in Away,
           \A c \in Elems(q) : p2[c] \in {"outside", "critical"}
    PROVE  Scheduled([st EXCEPT ![w] = Append(@, x)], q, p2)
<1>. DEFINE s2 == [st EXCEPT ![w] = Append(@, x)]
<1>1. /\ st[w] \in Seq(Coroutines) /\ Distinct(st[w]) /\ x \notin Elems(q)
      /\ \A v \in TG!Threads : x \notin Elems(st[v])
  BY DEF Scheduled
<1>2. /\ s2 \in [TG!Threads -> Seq(Coroutines)] /\ Distinct(s2[w])
      /\ Elems(s2[w]) = Elems(st[w]) \cup {x}
      /\ \A v \in TG!Threads \ {w} : s2[v] = st[v]
  BY <1>1, ElemsOfAppend DEF Scheduled
<1>3. x \in Elems(s2[w])
  BY <1>2
<1>. HIDE DEF s2
<1>4. \A c \in Coroutines :
         p2[c] \in Away <=> c \notin Elems(q) /\ \A v \in TG!Threads : c \notin Elems(s2[v])
  <2>. SUFFICES ASSUME NEW c \in Coroutines
                PROVE  p2[c] \in Away <=> c \notin Elems(q) /\ \A v \in TG!Threads : c \notin Elems(s2[v])
    OBVIOUS
  <2>1. CASE c = x
    BY <1>3, <2>1
  <2>2. CASE c # x
    <3>1. \A v \in TG!Threads : c \in Elems(s2[v]) <=> c \in Elems(st[v])
      BY <1>2, <2>2
    <3>. QED  BY <2>2, <3>1 DEF Scheduled
  <2>. QED  BY <2>1, <2>2
<1>s. \A v \in TG!Threads : Elems(s2[v]) \subseteq Elems(st[v]) \cup (IF v = w THEN {x} ELSE {})
  BY <1>2
<1>5. \A v, u \in TG!Threads : v # u => Elems(s2[v]) \cap Elems(s2[u]) = {}
  <2>. SUFFICES ASSUME NEW v \in TG!Threads, NEW u \in TG!Threads, v # u,
                       NEW y, y \in Elems(s2[v]), y \in Elems(s2[u])
                PROVE  FALSE
    OBVIOUS
  <2>1. y \in Elems(st[v]) \/ (y = x /\ v = w)
    BY <1>2, <1>s
  <2>2. y \in Elems(st[u]) \/ (y = x /\ u = w)
    BY <1>2, <1>s
  <2>. QED  BY <1>1, <2>1, <2>2 DEF Scheduled
<1>6. \A v \in TG!Threads : Distinct(s2[v]) /\ Elems(q) \cap Elems(s2[v]) = {}
  <2>. TAKE v \in TG!Threads
  <2>1. CASE v = w
    BY <1>1, <1>2, <2>1 DEF Scheduled
  <2>2. CASE v # w
    BY <1>2, <2>2 DEF Scheduled
  <2>. QED  BY <2>1, <2>2
<1>7. Scheduled(s2, q, p2)
  BY <1>2, <1>4, <1>5, <1>6 DEF Scheduled
<1>. QED  BY <1>7 DEF s2

LEMMA SchedReturn ==
    ASSUME NEW st, NEW q, NEW p, NEW p2, Scheduled(st, q, p),
           NEW w \in TG!Threads, st[w] # <<>>, p2[TG!Last(st[w])] \in Away,
           \A c \in Coroutines \ {TG!Last(st[w])} : p2[c] = p[c]
    PROVE  Scheduled([st EXCEPT ![w] = TG!Front(@)], q, p2)
<1>. DEFINE s2 == [st EXCEPT ![w] = TG!Front(@)]
            x == TG!Last(st[w])
<1>1. st[w] \in Seq(Coroutines) /\ Distinct(st[w])
  BY DEF Scheduled
<1>2. /\ s2 \in [TG!Threads -> Seq(Coroutines)] /\ Distinct(s2[w]) /\ x \in Coroutines
      /\ Elems(st[w]) = Elems(s2[w]) \cup {x} /\ x \notin Elems(s2[w])
      /\ \A v \in TG!Threads \ {w} : s2[v] = st[v]
  BY <1>1, ElemsOfFront DEF Scheduled
<1>3. p2[x] \in Away /\ \A c \in Coroutines \ {x} : p2[c] = p[c]
  OBVIOUS
<1>. HIDE DEF s2, x
<1>4. x \notin Elems(q) /\ \A v \in TG!Threads : x \notin Elems(s2[v])
  BY <1>2 DEF Scheduled
<1>5. ASSUME NEW c \in Coroutines
      PROVE  p2[c] \in Away <=> c \notin Elems(q) /\ \A v \in TG!Threads : c \notin Elems(s2[v])
  <2>1. CASE c = x
    BY <1>3, <1>4, <2>1
  <2>2. CASE c # x
    <3>1. \A v \in TG!Threads : c \in Elems(s2[v]) <=> c \in Elems(st[v])
      BY <1>2, <2>2
    <3>. QED  BY <1>3, <2>2, <3>1 DEF Scheduled
  <2>. QED  BY <2>1, <2>2
<1>6. \A v, u \in TG!Threads : v # u => Elems(s2[v]) \cap Elems(s2[u]) = {}
  <2>. SUFFICES ASSUME NEW v \in TG!Threads, NEW u \in TG!Threads, v # u,
                       NEW y, y \in Elems(s2[v]), y \in Elems(s2[u])
                PROVE  FALSE
    OBVIOUS
  <2>1. y \in Elems(st[v]) /\ y \in Elems(st[u])
    BY <1>2
  <2>. QED  BY <2>1 DEF Scheduled
<1>7. \A v \in TG!Threads : Distinct(s2[v]) /\ Elems(q) \cap Elems(s2[v]) = {}
  BY <1>1, <1>2 DEF Scheduled
<1>8. \A c \in Elems(q) : p2[c] \in {"outside", "critical"}
  BY <1>3, <1>4, ListFacts DEF Scheduled
<1>9. Scheduled(s2, q, p2)
  BY <1>2, <1>5, <1>6, <1>7, <1>8 DEF Scheduled
<1>. QED  BY <1>9 DEF s2

LEMMA SchedStart ==
    ASSUME NEW st, NEW q, NEW p, NEW p2, Scheduled(st, q, p),
           NEW x \in Coroutines, p[x] \in Away, p2[x] = "outside",
           \A c \in Coroutines \ {x} : p2[c] = p[c]
    PROVE  Scheduled(st, Append(q, x), p2)
<1>. DEFINE q2 == Append(q, x)
<1>1. x \notin Elems(q) /\ \A v \in TG!Threads : x \notin Elems(st[v])
  BY DEF Scheduled
<1>2. q2 \in Seq(Coroutines) /\ Elems(q2) = Elems(q) \cup {x} /\ Distinct(q2)
  BY <1>1, ElemsOfAppend DEF Scheduled
<1>. HIDE DEF q2
<1>3. ASSUME NEW c \in Coroutines
      PROVE  p2[c] \in Away <=> c \notin Elems(q2) /\ \A v \in TG!Threads : c \notin Elems(st[v])
  <2>1. p2[x] \notin Away
    BY DEF Away
  <2>. QED  BY <1>2, <2>1 DEF Scheduled
<1>4. \A c \in Elems(q2) : p2[c] \in {"outside", "critical"}
  BY <1>2, ListFacts DEF Scheduled
<1>5. Scheduled(st, q2, p2)
  BY <1>1, <1>2, <1>3, <1>4 DEF Scheduled
<1>. QED  BY <1>5 DEF q2

LEMMA SchedTake ==
    ASSUME NEW st, NEW q, NEW p, Scheduled(st, q, p),
           NEW w \in TG!Threads, st[w] = <<>>, q # <<>>
    PROVE  Scheduled([st EXCEPT ![w] = <<Head(q)>>], Tail(q), p)
<1>. DEFINE s2 == [st EXCEPT ![w] = <<Head(q)>>]
            q2 == Tail(q)
            x  == Head(q)
<1>1. /\ x \in Coroutines /\ q2 \in Seq(Coroutines)
      /\ Elems(q) = Elems(q2) \cup {x} /\ Distinct(q2) /\ x \notin Elems(q2)
  BY ElemsOfTail DEF Scheduled
<1>2. /\ s2 \in [TG!Threads -> Seq(Coroutines)] /\ Distinct(s2[w]) /\ Elems(s2[w]) = {x}
      /\ \A v \in TG!Threads \ {w} : s2[v] = st[v]
  BY <1>1, OneElement DEF Scheduled
<1>3. Elems(st[w]) = {}
  BY EmptyList
<1>. HIDE DEF s2, q2, x
<1>4. x \in Elems(q) /\ \A v \in TG!Threads : x \notin Elems(st[v])
  BY <1>1 DEF Scheduled
<1>5. ASSUME NEW c \in Coroutines
      PROVE  p[c] \in Away <=> c \notin Elems(q2) /\ \A v \in TG!Threads : c \notin Elems(s2[v])
  <2>1. CASE c = x
    BY <1>2, <1>4, <2>1 DEF Scheduled
  <2>2. CASE c # x
    <3>1. \A v \in TG!Threads : c \in Elems(s2[v]) <=> c \in Elems(st[v])
      BY <1>2, <1>3, <2>2
    <3>. QED  BY <1>1, <2>2, <3>1 DEF Scheduled
  <2>. QED  BY <2>1, <2>2
<1>s. \A v \in TG!Threads : Elems(s2[v]) \subseteq Elems(st[v]) \cup (IF v = w THEN {x} ELSE {})
  BY <1>2
<1>6. \A v, u \in TG!Threads : v # u => Elems(s2[v]) \cap Elems(s2[u]) = {}
  <2>. SUFFICES ASSUME NEW v \in TG!Threads, NEW u \in TG!Threads, v # u,
                       NEW y, y \in Elems(s2[v]), y \in Elems(s2[u])
                PROVE  FALSE
    OBVIOUS
  <2>1. y \in Elems(st[v]) \/ (y = x /\ v = w)
    BY <1>2, <1>s
  <2>2. y \in Elems(st[u]) \/ (y = x /\ u = w)
    BY <1>2, <1>s
  <2>. QED  BY <1>4, <2>1, <2>2 DEF Scheduled
<1>7. \A v \in TG!Threads : Distinct(s2[v]) /\ Elems(q2) \cap Elems(s2[v]) = {}
  <2>. TAKE v \in TG!Threads
  <2>1. CASE v = w
    BY <1>1, <1>2, <2>1 DEF Scheduled
  <2>2. CASE v # w
    BY <1>1, <1>2, <2>2 DEF Scheduled
  <2>. QED  BY <2>1, <2>2
<1>8. Scheduled(s2, q2, p)
  BY <1>1, <1>2, <1>5, <1>6, <1>7 DEF Scheduled
<1>. QED  BY <1>8 DEF s2, q2

LEMMA SchedTeleport ==
    ASSUME NEW st, NEW q, NEW p, Scheduled(st, q, p),
           NEW w \in TG!Threads, st[w] # <<>>, p[TG!Last(st[w])] \in {"outside", "critical"}
    PROVE  Scheduled([st EXCEPT ![w] = TG!Front(@)], Append(q, TG!Last(st[w])), p)
<1>. DEFINE s2 == [st EXCEPT ![w] = TG!Front(@)]
            x  == TG!Last(st[w])
            q2 == Append(q, x)
<1>1. st[w] \in Seq(Coroutines) /\ Distinct(st[w])
  BY DEF Scheduled
<1>2. /\ s2 \in [TG!Threads -> Seq(Coroutines)] /\ Distinct(s2[w]) /\ x \in Coroutines
      /\ Elems(st[w]) = Elems(s2[w]) \cup {x} /\ x \notin Elems(s2[w])
      /\ \A v \in TG!Threads \ {w} : s2[v] = st[v]
  BY <1>1, ElemsOfFront DEF Scheduled
<1>3. x \notin Elems(q)
  BY <1>2 DEF Scheduled
<1>4. q2 \in Seq(Coroutines) /\ Elems(q2) = Elems(q) \cup {x} /\ Distinct(q2)
  BY <1>2, <1>3, ElemsOfAppend DEF Scheduled
<1>5. p[x] \in {"outside", "critical"}
  OBVIOUS
<1>. HIDE DEF s2, q2, x
<1>6. \A v \in TG!Threads : x \notin Elems(s2[v])
  BY <1>2 DEF Scheduled
<1>7. ASSUME NEW c \in Coroutines
      PROVE  p[c] \in Away <=> c \notin Elems(q2) /\ \A v \in TG!Threads : c \notin Elems(s2[v])
  <2>1. CASE c = x
    BY <1>4, <1>5, <2>1 DEF Away
  <2>2. CASE c # x
    <3>1. \A v \in TG!Threads : c \in Elems(s2[v]) <=> c \in Elems(st[v])
      BY <1>2, <2>2
    <3>. QED  BY <1>4, <2>2, <3>1 DEF Scheduled
  <2>. QED  BY <2>1, <2>2
<1>8. \A v, u \in TG!Threads : v # u => Elems(s2[v]) \cap Elems(s2[u]) = {}
  BY <1>2 DEF Scheduled
<1>9. \A v \in TG!Threads : Distinct(s2[v]) /\ Elems(q2) \cap Elems(s2[v]) = {}
  <2>. TAKE v \in TG!Threads
  <2>1. Elems(s2[v]) \subseteq Elems(st[v]) /\ x \notin Elems(s2[v])
    BY <1>2, <1>6
  <2>2. Distinct(s2[v])
    BY <1>2 DEF Scheduled
  <2>. QED  BY <1>4, <2>1, <2>2 DEF Scheduled
<1>10. \A c \in Elems(q2) : p[c] \in {"outside", "critical"}
  BY <1>4, <1>5 DEF Scheduled
<1>11. Scheduled(s2, q2, p)
  BY <1>2, <1>4, <1>7, <1>8, <1>9, <1>10 DEF Scheduled
<1>. QED  BY <1>11 DEF s2, q2, x

\* The steps, one by one.
LEMMA TaskSteps ==
    ASSUME TG!GroupNext
    PROVE  \/ /\ uses' = uses /\ UNCHANGED <<count, owes, last, link, awaiter>>
              /\ \/ \E c \in Coroutines : TG!FireAndForget(c)
                 \/ \E w \in TG!Threads : w # Stopper /\ TG!Take(w)
                 \/ TG!Close \/ TG!Discard \/ TG!Closed
                 \/ \E w \in TG!Threads, c \in Coroutines : TG!TeleportTo(w, c) \/ TG!End(w, c)
                 \/ /\ uses = "mutex"
                    /\ \E w \in TG!Threads, c \in Coroutines :
                          \/ TG!TryLock(w, c) \/ TG!TryLockOrEnqueue(w, c) \/ TG!TakeTail(w, c)
                          \/ TG!Release(w, c) \/ TG!Exchange(w, c) \/ TG!Resume(w, c)
           \/ /\ uses = "waitgroup" /\ uses' = uses
              /\ \E w \in TG!Threads, c \in Coroutines :
                    \/ TG!CheckFire(w, c) \/ TG!Enqueue(w, c) \/ TG!Done(w, c)
                    \/ TG!Exchanged(w, c) \/ TG!ResumeAwaiter(w, c)
<1>1. PoolWorkers \subseteq TG!Threads /\ Stopper \notin PoolWorkers
  BY McAssumption DEF TG!Threads
<1>2. CASE \E w \in TG!Threads : TG!Steps(w)
  BY <1>2 DEF TG!Steps, TG!Step, TG!ScopedLock, TG!Unlock, TG!GroupStep, TG!Wait, TG!Fire,
              TG!PoolStep, TG!groupVars
<1>. QED  BY <1>1, <1>2 DEF TG!GroupNext, TG!OfPool, TG!groupVars, TG!CloseImpl

\* What a coroutine that acts knows of its place.
LEMMA Running ==
    ASSUME CoTypes, Scheduled(stack, queue, place),
           NEW w \in TG!Threads, NEW c \in Coroutines, TG!Runs(w, c)
    PROVE  /\ stack[w] # <<>> /\ TG!Last(stack[w]) = c
           /\ place[c] \notin Away /\ c \notin Elems(queue)
<1>1. stack[w] # <<>> /\ TG!Last(stack[w]) = c
  BY DEF TG!Runs
<1>2. stack[w] \in Seq(Coroutines)
  BY DEF Scheduled
<1>3. c \in Elems(stack[w])
  BY <1>1, <1>2, ElemsOfFront
<1>. QED  BY <1>1, <1>3 DEF Scheduled

LEMMA Moves ==
    ASSUME CoTypes, Scheduled(stack, queue, place),
           NEW w \in TG!Threads, NEW c \in Coroutines, TG!Runs(w, c),
           NEW to, to \notin Away, place' = [place EXCEPT ![c] = to],
           stack' = stack, queue' = queue
    PROVE  Scheduled(stack', queue', place')
<1>1. place[c] \notin Away /\ c \notin Elems(queue)
  BY Running
<1>2. \A d \in Coroutines : place'[d] \in Away <=> place[d] \in Away
  BY <1>1 DEF CoTypes, PlTypes
<1>3. \A d \in Elems(queue) : place'[d] \in {"outside", "critical"}
  BY <1>1 DEF CoTypes, PlTypes, Scheduled
<1>. QED  BY <1>2, <1>3, SchedMove

\* The waiter that Unlock resumes, and the one that Fire resumes.
LEMMA LockerParked ==
    ASSUME CoTypes, NEW T, NEW H, Lists(T, H), NEW c \in Coroutines, place[c] = "resume"
    PROVE  locker[c] \in Coroutines /\ place[locker[c]] = "parked"
BY DEF CoTypes, MuTypes, Lists

LEMMA AwaiterWaits ==
    ASSUME CoTypes, NEW A, NEW B, Lined(A, B), NEW c \in Coroutines, place[c] = "firing",
           awaiter[c] # Unlocked
    PROVE  /\ awaiter[c] \in Coroutines /\ place[awaiter[c]] = "waiting"
           /\ B # <<>> /\ B \in Seq(Coroutines) /\ awaiter[c] = B[1] /\ awaiter[c] = Head(B)
           /\ IsList(B, awaiter[c], link, Unlocked)
<1>1. IsList(B, awaiter[c], link, Unlocked)
  BY DEF Lined
<1>2. B # <<>> /\ B \in Seq(Coroutines) /\ awaiter[c] = B[1]
  BY <1>1 DEF IsList
<1>3. Head(B) = B[1] /\ Head(B) \in Elems(B) /\ Head(B) \in Coroutines
  BY <1>2, ElemsOfTail
<1>. QED  BY <1>1, <1>2, <1>3 DEF Lined

LEMMA ScheduledKeeps ==
    ASSUME CoTypes, Scheduled(stack, queue, place), TG!GroupNext,
           NEW T, NEW H, Lists(T, H), NEW A, NEW B, Lined(A, B)
    PROVE  Scheduled(stack', queue', place')
<1>0. place \in [Coroutines -> CoPlaces] /\ Stopper \in TG!Threads
  BY DEF CoTypes, PlTypes, TG!Threads
<1>1. ASSUME NEW c \in Coroutines, TG!FireAndForget(c) PROVE Scheduled(stack', queue', place')
  <2>1. /\ place[c] = "none" /\ place' = [place EXCEPT ![c] = "outside"]
        /\ stack' = stack /\ queue' = Append(queue, c)
    BY <1>1 DEF TG!FireAndForget, TG!Move, TG!Put
  <2>. QED  BY <1>0, <2>1, SchedStart DEF Away
<1>2. ASSUME NEW w \in TG!Threads, TG!Take(w) PROVE Scheduled(stack', queue', place')
  BY <1>2, SchedTake DEF TG!Take, TG!Available
<1>3. CASE TG!Discard
  BY <1>0, <1>3, SchedTake DEF TG!Discard
<1>4. CASE TG!Close \/ TG!Closed
  BY <1>4 DEF TG!Close, TG!Closed
<1>. SUFFICES ASSUME NEW w \in TG!Threads, NEW c \in Coroutines,
                     \/ TG!TeleportTo(w, c) \/ TG!End(w, c)
                     \/ TG!TryLock(w, c) \/ TG!TryLockOrEnqueue(w, c) \/ TG!TakeTail(w, c)
                     \/ TG!Release(w, c) \/ TG!Exchange(w, c) \/ TG!Resume(w, c)
                     \/ TG!CheckFire(w, c) \/ TG!Enqueue(w, c) \/ TG!Done(w, c)
                     \/ TG!Exchanged(w, c) \/ TG!ResumeAwaiter(w, c)
              PROVE  Scheduled(stack', queue', place')
  BY <1>1, <1>2, <1>3, <1>4, TaskSteps
<1>. USE DEF TG!Move
<1>5. TG!Runs(w, c)
  BY DEF TG!TeleportTo, TG!End, TG!TryLock, TG!TryLockOrEnqueue, TG!TakeTail, TG!Release,
         TG!Exchange, TG!Resume, TG!CheckFire, TG!Enqueue, TG!Done, TG!Exchanged,
         TG!ResumeAwaiter, TG!Lives
<1>6. /\ stack[w] # <<>> /\ TG!Last(stack[w]) = c
      /\ place[c] \notin Away /\ c \notin Elems(queue)
  BY <1>5, Running
<1>7. CASE TG!TeleportTo(w, c)
  <2>1. place[c] \in {"outside", "critical"} /\ place' = place
    BY <1>7 DEF TG!TeleportTo
  <2>2. \/ stack' = [stack EXCEPT ![w] = TG!Front(@)] /\ queue' = Append(queue, c)
        \/ stack' = stack /\ queue' = queue
    BY <1>7 DEF TG!TeleportTo, TG!Execute, TG!Put
  <2>3. Scheduled([stack EXCEPT ![w] = TG!Front(@)], Append(queue, c), place)
    BY <1>6, <2>1, SchedTeleport
  <2>. QED  BY <2>1, <2>2, <2>3
<1>8. CASE TG!End(w, c)
  <2>1. /\ place' = [place EXCEPT ![c] = "none"]
        /\ stack' = [stack EXCEPT ![w] = TG!Front(@)] /\ queue' = queue
    BY <1>8 DEF TG!End
  <2>2. place'[c] \in Away /\ \A d \in Coroutines \ {c} : place'[d] = place[d]
    BY <1>0, <2>1 DEF Away
  <2>3. Scheduled([stack EXCEPT ![w] = TG!Front(@)], queue, place')
    BY <1>6, <2>2, SchedReturn
  <2>. QED  BY <2>1, <2>3
<1>9. CASE \/ TG!TryLock(w, c) \/ TG!TakeTail(w, c) \/ TG!Release(w, c) \/ TG!Exchange(w, c)
           \/ TG!CheckFire(w, c) \/ TG!Done(w, c) \/ TG!Exchanged(w, c)
  <2>1. /\ stack' = stack /\ queue' = queue
        /\ \E to \in {"critical", "enqueue", "resume", "outside", "exchange", "await", "fire", "firing"} :
              place' = [place EXCEPT ![c] = to]
    BY <1>9 DEF TG!TryLock, TG!TakeTail, TG!Release, TG!Exchange, TG!CheckFire, TG!Done,
                TG!Exchanged, TG!pool
  <2>. QED  BY <1>5, <2>1, Moves DEF Away
<1>10. CASE TG!TryLockOrEnqueue(w, c) \/ TG!Enqueue(w, c)
  <2>1. /\ queue' = queue
        /\ \/ stack' = stack /\ place' = place
           \/ stack' = stack /\ \E to \in {"critical", "outside", "await"} :
                                   place' = [place EXCEPT ![c] = to]
           \/ /\ stack' = [stack EXCEPT ![w] = TG!Front(@)]
              /\ \E to \in {"parked", "waiting"} : place' = [place EXCEPT ![c] = to]
    BY <1>10 DEF TG!TryLockOrEnqueue, TG!Enqueue
  <2>2. ASSUME stack' = [stack EXCEPT ![w] = TG!Front(@)],
               NEW to \in {"parked", "waiting"}, place' = [place EXCEPT ![c] = to]
        PROVE  Scheduled(stack', queue', place')
    <3>1. place'[c] \in Away /\ \A d \in Coroutines \ {c} : place'[d] = place[d]
      BY <1>0, <2>2 DEF Away
    <3>2. Scheduled([stack EXCEPT ![w] = TG!Front(@)], queue, place')
      BY <1>6, <3>1, SchedReturn
    <3>. QED  BY <2>1, <2>2, <3>2
  <2>. QED  BY <1>5, <2>1, <2>2, Moves DEF Away
<1>11. CASE TG!Resume(w, c)
  <2>1. /\ place[c] = "resume" /\ queue' = queue
        /\ place' = [place EXCEPT ![c] = "outside", ![locker[c]] = "critical"]
        /\ stack' = [stack EXCEPT ![w] = Append(@, locker[c])]
    BY <1>11 DEF TG!Resume
  <2>2. locker[c] \in Coroutines /\ place[locker[c]] = "parked"
    BY <2>1, LockerParked
  <2>3. /\ place[locker[c]] \in Away /\ place'[locker[c]] \notin Away
        /\ \A d \in Coroutines \ {locker[c]} : place'[d] \in Away <=> place[d] \in Away
    BY <1>0, <1>6, <2>1, <2>2 DEF Away
  <2>4. \A d \in Elems(queue) : place'[d] \in {"outside", "critical"}
    <3>1. \A d \in Elems(queue) : d \in Coroutines /\ place[d] \in {"outside", "critical"}
      BY ListFacts DEF Scheduled
    <3>. QED  BY <1>0, <2>1, <2>2, <3>1
  <2>. QED  BY <2>1, <2>2, <2>3, <2>4, SchedCall
<1>12. CASE TG!ResumeAwaiter(w, c)
  <2>1. CASE awaiter[c] = Unlocked
    <3>1. stack' = stack /\ queue' = queue /\ place' = [place EXCEPT ![c] = "outside"]
      BY <1>12, <2>1 DEF TG!ResumeAwaiter, TG!Null
    <3>. QED  BY <1>5, <3>1, Moves DEF Away
  <2>2. CASE awaiter[c] # Unlocked
    <3>1. /\ place[c] = "firing" /\ queue' = queue
          /\ place' = [place EXCEPT ![awaiter[c]] = "outside"]
          /\ stack' = [stack EXCEPT ![w] = Append(@, awaiter[c])]
      BY <1>12, <2>2 DEF TG!ResumeAwaiter, TG!Null
    <3>2. awaiter[c] \in Coroutines /\ place[awaiter[c]] = "waiting"
      BY <2>2, <3>1, AwaiterWaits
    <3>3. /\ place[awaiter[c]] \in Away /\ place'[awaiter[c]] \notin Away
          /\ \A d \in Coroutines \ {awaiter[c]} : place'[d] \in Away <=> place[d] \in Away
      BY <1>0, <3>1, <3>2 DEF Away
    <3>4. \A d \in Elems(queue) : place'[d] \in {"outside", "critical"}
      BY <1>0, <3>1, <3>2 DEF Scheduled
    <3>. QED  BY <3>1, <3>2, <3>3, <3>4, SchedCall
  <2>. QED  BY <2>1, <2>2
<1>. QED  BY <1>7, <1>8, <1>9, <1>10, <1>11, <1>12

\* The marks are no coroutines, hence a list begins with its mark if it is empty only.
LEMMA ListEnds ==
    ASSUME NEW s, NEW l, NEW f, NEW end, IsList(s, l, f, end), end \notin Coroutines
    PROVE  s \in Seq(Coroutines) /\ (s = <<>> <=> l = end) /\ l \in Coroutines \cup {end}
BY ElemsOfTail DEF IsList

LEMMA EmptyIsList == ASSUME NEW f, NEW end PROVE IsList(<<>>, end, f, end)
<1>1. 1..Len(<<>>) = {}
  OBVIOUS
<1>. QED  BY <1>1, EmptyList DEF IsList

\* The pointers of a list are those of its elements.
LEMMA SameList ==
    ASSUME NEW s, NEW l, NEW f, NEW g, NEW end, IsList(s, l, f, end),
           \A c \in Elems(s) : g[c] = f[c]
    PROVE  IsList(s, l, g, end)
BY DEF IsList, Elems

LEMMA ConsIsList ==
    ASSUME NEW s, NEW l, NEW f, NEW end, IsList(s, l, f, end),
           NEW c \in Coroutines, c \notin Elems(s), f[c] = l
    PROVE  IsList(<<c>> \o s, c, f, end) /\ Elems(<<c>> \o s) = {c} \cup Elems(s)
<1>. DEFINE r == <<c>> \o s
<1>1. s \in Seq(Coroutines) /\ Len(s) \in Nat /\ s \in [1..Len(s) -> Coroutines]
  BY ListFacts DEF IsList
<1>2. <<c>> \in Seq(Coroutines) /\ Len(<<c>>) = 1 /\ <<c>>[1] = c
  OBVIOUS
<1>3. /\ r \in Seq(Coroutines) /\ Len(r) = Len(s) + 1
      /\ \A i \in 1..Len(s) + 1 : r[i] = IF i <= 1 THEN <<c>>[i] ELSE s[i-1]
  BY <1>1, <1>2, ConcatProperties
<1>. HIDE DEF r
<1>4. /\ r[1] = c /\ \A i \in 1..Len(s) : i + 1 \in 1..Len(r) /\ r[i+1] = s[i]
      /\ \A i \in 1..Len(r) : i = 1 \/ (i - 1 \in 1..Len(s) /\ r[i] = s[i-1])
      /\ 1 \in 1..Len(r) /\ r # <<>>
  <2>1. \A i \in 1..Len(s) : i + 1 \in 1..Len(s) + 1 /\ ~(i + 1 <= 1) /\ (i + 1) - 1 = i
    BY <1>1
  <2>2. \A i \in 1..Len(s) + 1 : i = 1 \/ (i - 1 \in 1..Len(s) /\ ~(i <= 1))
    BY <1>1
  <2>3. 1 \in 1..Len(s) + 1 /\ 1 <= 1 /\ Len(s) + 1 # 0
    BY <1>1
  <2>. QED  BY <1>2, <1>3, <2>1, <2>2, <2>3, ListFacts
<1>5. Elems(r) = {c} \cup Elems(s)
  <2>1. \A x \in Elems(r) : x \in {c} \cup Elems(s)
    BY <1>4 DEF Elems
  <2>2. \A x \in {c} \cup Elems(s) : x \in Elems(r)
    BY <1>4 DEF Elems
  <2>. QED  BY <2>1, <2>2
<1>6. Distinct(r)
  <2>. SUFFICES ASSUME NEW i \in 1..Len(r), NEW j \in 1..Len(r), r[i] = r[j] PROVE i = j
    BY DEF Distinct
  <2>1. \A k \in 1..Len(s) : s[k] # c
    BY DEF Elems
  <2>2. CASE i = 1 \/ j = 1
    BY <1>4, <2>1, <2>2
  <2>3. CASE i # 1 /\ j # 1
    <3>1. i - 1 \in 1..Len(s) /\ j - 1 \in 1..Len(s) /\ s[i-1] = s[j-1]
      BY <1>4, <2>3
    <3>2. i - 1 = j - 1
      BY <3>1 DEF IsList, Distinct
    <3>. QED  BY <1>1, <1>3, <3>2
  <2>. QED  BY <2>2, <2>3
<1>7. ASSUME NEW i \in 1..Len(r) PROVE f[r[i]] = IF i = Len(r) THEN end ELSE r[i+1]
  <2>1. CASE i = 1
    <3>1. 1 = Len(r) <=> s = <<>>
      BY <1>1, <1>3, ListFacts
    <3>2. s # <<>> => r[1+1] = s[1]
      <4>1. s # <<>> => 1 \in 1..Len(s)
        BY <1>1, ListFacts
      <4>. QED  BY <1>4, <4>1
    <3>. QED  BY <1>4, <2>1, <3>1, <3>2 DEF IsList
  <2>2. CASE i # 1
    <3>1. i - 1 \in 1..Len(s) /\ r[i] = s[i-1] /\ (i - 1) + 1 = i
      BY <1>1, <1>3, <1>4, <2>2
    <3>2. f[s[i-1]] = IF i - 1 = Len(s) THEN end ELSE s[i]
      BY <3>1 DEF IsList
    <3>3. i - 1 = Len(s) <=> i = Len(r)
      BY <1>1, <1>3, <3>1
    <3>4. i # Len(r) => r[i+1] = s[i]
      <4>1. i # Len(r) => i \in 1..Len(s)
        BY <1>1, <1>3
      <4>. QED  BY <1>4, <4>1
    <3>. QED  BY <3>1, <3>2, <3>3, <3>4
  <2>. QED  BY <2>1, <2>2
<1>8. IsList(r, c, f, end)
  BY <1>3, <1>4, <1>6, <1>7 DEF IsList
<1>. QED  BY <1>5, <1>8 DEF r

LEMMA TailIsList ==
    ASSUME NEW s, NEW l, NEW f, NEW end, IsList(s, l, f, end), s # <<>>
    PROVE  /\ IsList(Tail(s), f[l], f, end) /\ l \in Coroutines
           /\ Elems(s) = Elems(Tail(s)) \cup {l} /\ l \notin Elems(Tail(s))
<1>. DEFINE t == Tail(s)
<1>1. s \in Seq(Coroutines) /\ Len(s) \in Nat /\ Len(s) # 0 /\ l = s[1] /\ Distinct(s)
  BY ListFacts DEF IsList
<1>2. /\ Head(s) = s[1] /\ Head(s) \in Coroutines /\ t \in Seq(Coroutines)
      /\ Len(t) = Len(s) - 1 /\ \A i \in 1..Len(s) - 1 : t[i] = s[i+1]
      /\ Elems(s) = Elems(t) \cup {Head(s)} /\ Distinct(t) /\ Head(s) \notin Elems(t)
  BY <1>1, ElemsOfTail
<1>. HIDE DEF t
<1>3. f[l] = IF t = <<>> THEN end ELSE t[1]
  <2>1. t = <<>> <=> 1 = Len(s)
    BY <1>1, <1>2, ListFacts
  <2>2. 1 \in 1..Len(s) /\ (1 # Len(s) => 1 \in 1..Len(s) - 1)
    <3>1. \A n \in Nat : n # 0 => 1 \in 1..n /\ (1 # n => 1 \in 1..n - 1)
      OBVIOUS
    <3>. QED  BY <1>1, <3>1
  <2>3. t # <<>> => t[1] = s[1+1]
    BY <1>2, <2>1, <2>2
  <2>. QED  BY <1>1, <2>1, <2>2, <2>3 DEF IsList
<1>4. ASSUME NEW i \in 1..Len(t) PROVE f[t[i]] = IF i = Len(t) THEN end ELSE t[i+1]
  <2>1. /\ i \in 1..Len(s) - 1 /\ i + 1 \in 1..Len(s) /\ (i + 1 = Len(s) <=> i = Len(t))
        /\ i # Len(t) => i + 1 \in 1..Len(s) - 1
    BY <1>1, <1>2
  <2>2. f[s[i+1]] = IF i + 1 = Len(s) THEN end ELSE s[(i+1)+1]
    BY <2>1 DEF IsList
  <2>. QED  BY <1>2, <2>1, <2>2
<1>5. IsList(t, f[l], f, end)
  BY <1>2, <1>3, <1>4 DEF IsList
<1>. QED  BY <1>1, <1>2, <1>5 DEF t

\* Steps that leave the mutex alone, and constructors of Lockers that are in no list.
LEMMA ListsSame ==
    ASSUME MuTypes, NEW T \in Seq(Coroutines), NEW H \in Seq(Coroutines), Lists(T, H),
           head' = head, tail' = tail, locker' = locker,
           succ' \in [Coroutines -> Coroutines \cup {Unlocked, Locked}],
           \A c \in Coroutines :
              /\ place[c] = "parked" => succ'[c] = succ[c]
              /\ \/ place'[c] = place[c]
                 \/ /\ place[c] \notin {"parked", "critical", "exchange", "resume"}
                    /\ place'[c] \notin {"parked", "critical", "exchange", "resume"}
    PROVE  Lists(T, H)' /\ MuInv'
<1>1. \A c \in Elems(T) \cup Elems(H) : c \in Coroutines /\ place[c] = "parked"
  BY ListFacts DEF Lists
<1>2. IsList(T, tail', succ', Unlocked)
  BY <1>1, SameList DEF Lists
<1>3. IF head' = Unlocked THEN T = <<>> /\ H = <<>> ELSE IsList(H, head', succ', Locked)
  BY <1>1, SameList DEF Lists
<1>4. \A c \in Coroutines : /\ Holds(c)' <=> Holds(c)
                            /\ place'[c] = "parked" <=> place[c] = "parked"
                            /\ place'[c] = "exchange" <=> place[c] = "exchange"
                            /\ place'[c] = "resume" <=> place[c] = "resume"
  BY DEF Holds
<1>5. Lists(T, H)'
  BY <1>2, <1>3, <1>4 DEF Lists
<1>. QED  BY <1>5 DEF MuInv, MuTypes

\* The compare-and-swap that finds the mutex free, in TryLock or TryLockOrEnqueue.
LEMMA GetsLock ==
    ASSUME CoTypes, NEW T \in Seq(Coroutines), NEW H \in Seq(Coroutines), Lists(T, H),
           NEW c \in Coroutines, place[c] \in {"outside", "enqueue"},
           place' = [place EXCEPT ![c] = "critical"],
           head = Unlocked, head' = Locked, tail' = tail, locker' = locker,
           succ' \in [Coroutines -> Coroutines \cup {Unlocked, Locked}]
    PROVE  Lists(<<>>, <<>>)' /\ T = <<>> /\ H = <<>> /\ MuInv'
<1>1. T = <<>> /\ H = <<>> /\ Unlocked # Locked
  BY McAssumption DEF Lists
<1>2. tail = Unlocked
  BY <1>1 DEF Lists, IsList
<1>3. IsList(<<>>, tail', succ', Unlocked) /\ IsList(<<>>, head', succ', Locked)
  BY <1>2, EmptyIsList
<1>4. /\ place \in [Coroutines -> CoPlaces] /\ \A d \in Coroutines : ~Holds(d)
      /\ \A d \in Coroutines : place'[d] = IF d = c THEN "critical" ELSE place[d]
  BY DEF CoTypes, PlTypes, Lists
<1>5. Lists(<<>>, <<>>)'
  BY <1>1, <1>3, <1>4, EmptyList DEF Lists, Holds
<1>. QED  BY <1>1, <1>5, EmptyList DEF MuInv, MuTypes, CoTypes

\* The compare-and-swap of TryLockOrEnqueue that puts the Locker at the head.
LEMMA Parks ==
    ASSUME CoTypes, NEW T \in Seq(Coroutines), NEW H \in Seq(Coroutines), Lists(T, H),
           NEW c \in Coroutines, place[c] = "enqueue",
           place' = [place EXCEPT ![c] = "parked"],
           succ[c] # Unlocked, head = succ[c], head' = c,
           tail' = tail, locker' = locker, succ' = succ
    PROVE  Lists(T, <<c>> \o H)' /\ MuInv'
<1>1. IsList(H, head, succ, Locked) /\ c # Unlocked /\ c # Locked
  BY McAssumption DEF Lists
<1>2. c \notin Elems(T) /\ c \notin Elems(H) /\ \A d \in Coroutines : locker[d] # c
  BY DEF Lists
<1>3. IsList(<<c>> \o H, head', succ', Locked) /\ Elems(<<c>> \o H) = {c} \cup Elems(H)
  BY <1>1, <1>2, ConsIsList
<1>4. /\ place \in [Coroutines -> CoPlaces]
      /\ \A d \in Coroutines : place'[d] = IF d = c THEN "parked" ELSE place[d]
      /\ \A d \in Coroutines : Holds(d)' <=> Holds(d)
  BY DEF CoTypes, PlTypes, Holds
<1>5. Lists(T, <<c>> \o H)'
  <2>1. IsList(T, tail', succ', Unlocked)
    BY DEF Lists
  <2>2. Elems(T) \cap Elems(<<c>> \o H) = {}
    BY <1>2, <1>3 DEF Lists
  <2>3. \A d \in Coroutines : place'[d] = "parked" <=>
          d \in Elems(T) \/ d \in Elems(<<c>> \o H) \/ \E e \in Coroutines : locker'[e] = d
    BY <1>2, <1>3, <1>4 DEF Lists
  <2>4. \A d \in Coroutines :
          /\ locker'[d] \notin Elems(T) /\ locker'[d] \notin Elems(<<c>> \o H)
          /\ locker'[d] # Unlocked <=> place'[d] = "resume"
          /\ place'[d] = "exchange" => tail' = Unlocked /\ head' # Locked
    BY <1>1, <1>2, <1>3, <1>4 DEF Lists
  <2>5. (\A d, e \in Coroutines : Holds(d) /\ Holds(e) => d = e)'
    BY <1>4 DEF Lists
  <2>6. (head = Unlocked <=> \A d \in Coroutines : ~Holds(d))'
    BY <1>1, <1>4 DEF Lists
  <2>. QED  BY <1>1, <1>3, <2>1, <2>2, <2>3, <2>4, <2>5, <2>6 DEF Lists
<1>6. <<c>> \o H \in Seq(Coroutines)
  BY <1>3 DEF IsList
<1>. QED  BY <1>5, <1>6 DEF MuInv, MuTypes, CoTypes

LEMMA TakesTail ==
    ASSUME CoTypes, NEW T \in Seq(Coroutines), NEW H \in Seq(Coroutines), Lists(T, H),
           NEW c \in Coroutines, place[c] = "critical",
           place' = [place EXCEPT ![c] = "resume"],
           tail # Unlocked, tail' = succ[tail], locker' = [locker EXCEPT ![c] = tail],
           head' = head, succ' = succ
    PROVE  T # <<>> /\ Head(T) = tail /\ Lists(Tail(T), H)' /\ MuInv'
<1>1. IsList(T, tail, succ, Unlocked) /\ T # <<>> /\ head # Unlocked /\ Head(T) = tail
  <2>1. IsList(T, tail, succ, Unlocked) /\ T # <<>>
    BY DEF Lists, IsList
  <2>2. Holds(c)
    BY DEF Holds
  <2>. QED  BY <2>1, <2>2, ElemsOfTail DEF Lists, IsList
<1>2. /\ IsList(Tail(T), tail', succ', Unlocked) /\ tail \in Coroutines
      /\ Elems(T) = Elems(Tail(T)) \cup {tail} /\ tail \notin Elems(Tail(T))
  BY <1>1, TailIsList
<1>3. tail # Unlocked /\ tail \notin Elems(H)
  BY <1>2 DEF Lists
<1>4. /\ place \in [Coroutines -> CoPlaces] /\ locker \in [Coroutines -> Coroutines \cup {Unlocked}]
      /\ \A d \in Coroutines : place'[d] = IF d = c THEN "resume" ELSE place[d]
      /\ \A d \in Coroutines : locker'[d] = IF d = c THEN tail ELSE locker[d]
      /\ \A d \in Coroutines : Holds(d)' <=> Holds(d)
      /\ locker[c] = Unlocked
  BY DEF CoTypes, PlTypes, MuTypes, Holds, Lists
<1>5. Lists(Tail(T), H)'
  <2>1. IsList(H, head', succ', Locked)
    BY <1>1 DEF Lists
  <2>2. Elems(Tail(T)) \cap Elems(H) = {}
    BY <1>2 DEF Lists
  <2>3. ASSUME NEW d \in Coroutines
        PROVE  place'[d] = "parked" <=>
                 d \in Elems(Tail(T)) \/ d \in Elems(H) \/ \E e \in Coroutines : locker'[e] = d
    <3>1. place[d] = "parked" <=>
            d \in Elems(T) \/ d \in Elems(H) \/ \E e \in Coroutines : locker[e] = d
      BY DEF Lists
    <3>2. (\E e \in Coroutines : locker'[e] = d) <=>
             d = tail \/ \E e \in Coroutines : locker[e] = d
      <4>1. d # Unlocked
        BY McAssumption
      <4>. QED  BY <1>4, <4>1
    <3>3. place'[d] = "parked" <=> place[d] = "parked"
      BY <1>4
    <3>. QED  BY <1>2, <3>1, <3>2, <3>3
  <2>4. \A d \in Coroutines :
          /\ locker'[d] \notin Elems(Tail(T)) /\ locker'[d] \notin Elems(H)
          /\ locker'[d] # Unlocked <=> place'[d] = "resume"
    BY <1>2, <1>3, <1>4 DEF Lists
  <2>5. \A d \in Coroutines : place'[d] # "exchange"
    BY <1>4 DEF Lists, Holds
  <2>6. (\A d, e \in Coroutines : Holds(d) /\ Holds(e) => d = e)'
    BY <1>4 DEF Lists
  <2>7. (head = Unlocked <=> \A d \in Coroutines : ~Holds(d))'
    BY <1>4 DEF Lists
  <2>. QED  BY <1>1, <1>2, <2>1, <2>2, <2>3, <2>4, <2>5, <2>6, <2>7 DEF Lists
<1>6. Tail(T) \in Seq(Coroutines) /\ tail' \in Coroutines \cup {Unlocked}
  BY <1>2, ListEnds, McAssumption
<1>7. MuTypes'
  BY <1>2, <1>6 DEF MuTypes, CoTypes
<1>. QED  BY <1>1, <1>5, <1>6, <1>7 DEF MuInv

LEMMA Releases ==
    ASSUME CoTypes, NEW T \in Seq(Coroutines), NEW H \in Seq(Coroutines), Lists(T, H),
           NEW c \in Coroutines, place[c] = "critical",
           place' = [place EXCEPT ![c] = "outside"],
           tail = Unlocked, head = Locked, head' = Unlocked,
           tail' = tail, locker' = locker, succ' = succ
    PROVE  Lists(<<>>, <<>>)' /\ T = <<>> /\ H = <<>> /\ MuInv'
<1>1. T = <<>> /\ H = <<>>
  <2>1. IsList(T, Unlocked, succ, Unlocked) /\ IsList(H, Locked, succ, Locked)
    BY McAssumption DEF Lists
  <2>. QED  BY <2>1, ListEnds, McAssumption
<1>2. IsList(<<>>, tail', succ', Unlocked)
  BY EmptyIsList
<1>3. /\ place \in [Coroutines -> CoPlaces]
      /\ \A d \in Coroutines : place'[d] = IF d = c THEN "outside" ELSE place[d]
      /\ \A d \in Coroutines : ~Holds(d)'
  <2>1. Holds(c)
    BY DEF Holds
  <2>. QED  BY <2>1 DEF CoTypes, PlTypes, Holds, Lists
<1>4. Lists(<<>>, <<>>)'
  <2>1. \A d \in Coroutines : place'[d] # "exchange"
    BY <1>3 DEF Holds
  <2>. QED  BY <1>1, <1>2, <1>3, <2>1, EmptyList DEF Lists
<1>. QED  BY <1>1, <1>4, EmptyList DEF MuInv, MuTypes, CoTypes

LEMMA FailsToRelease ==
    ASSUME CoTypes, NEW T \in Seq(Coroutines), NEW H \in Seq(Coroutines), Lists(T, H),
           NEW c \in Coroutines, place[c] = "critical",
           place' = [place EXCEPT ![c] = "exchange"],
           tail = Unlocked, head # Locked, head' = head,
           tail' = tail, locker' = locker, succ' = succ
    PROVE  Lists(T, H)' /\ MuInv'
<1>1. /\ place \in [Coroutines -> CoPlaces]
      /\ \A d \in Coroutines : place'[d] = IF d = c THEN "exchange" ELSE place[d]
      /\ \A d \in Coroutines : Holds(d)' <=> Holds(d)
  BY DEF CoTypes, PlTypes, Holds
<1>2. Lists(T, H)'
  BY <1>1 DEF Lists
<1>. QED  BY <1>2 DEF MuInv, MuTypes, CoTypes

\* Reverse: what the exchange has taken becomes the list at tail_.
LEMMA Exchanges ==
    ASSUME CoTypes, NEW T \in Seq(Coroutines), NEW H \in Seq(Coroutines), Lists(T, H),
           NEW w, NEW c \in Coroutines, TG!Exchange(w, c)
    PROVE  /\ T = <<>> /\ H # <<>> /\ head # Unlocked
           /\ locker' = [locker EXCEPT ![c] = Head(TG!Reverse(H))]
           /\ place[c] = "exchange" /\ place' = [place EXCEPT ![c] = "resume"]
           /\ Lists(Tail(TG!Reverse(H)), <<>>)' /\ MuInv'
<1>. DEFINE R == TG!Reverse(H)
            index(n) == CHOOSE i \in DOMAIN R : R[i] = n
<1>1. place[c] = "exchange" /\ place' = [place EXCEPT ![c] = "resume"] /\ head' = Locked
  BY DEF TG!Exchange, TG!Move
<1>2. Holds(c) /\ head # Unlocked /\ tail = Unlocked /\ head # Locked
  BY <1>1 DEF Holds, Lists
<1>3. IsList(T, Unlocked, succ, Unlocked) /\ IsList(H, head, succ, Locked)
  BY <1>2 DEF Lists
<1>4. T = <<>> /\ H # <<>>
  BY <1>2, <1>3, ListEnds, McAssumption
<1>5. TG!Chain(head) = H
  BY <1>3, FollowIsList, McAssumption DEF TG!Chain
<1>6. /\ succ' = [n \in Coroutines |->
                      IF \E i \in DOMAIN R : R[i] = n
                      THEN IF index(n) = Len(R) THEN Unlocked ELSE R[index(n) + 1]
                      ELSE succ[n]]
      /\ locker' = [locker EXCEPT ![c] = R[1]] /\ tail' = succ'[R[1]]
  BY <1>5 DEF TG!Exchange, TG!Reversed, TG!EndOfList, TG!Advanced
<1>7. /\ R \in Seq(Coroutines) /\ R \in [1..Len(R) -> Coroutines] /\ Len(R) \in Nat
      /\ Distinct(R) /\ R # <<>>
  <2>1. R \in Seq(Coroutines) /\ Distinct(R) /\ Len(R) = Len(H) /\ Len(H) # 0
    BY <1>3, <1>4, ElemsOfReverse, ListFacts DEF IsList
  <2>. HIDE DEF R
  <2>. QED  BY <2>1, ListFacts
<1>. HIDE DEF R, index
<1>8. \A i \in 1..Len(R) : succ'[R[i]] = IF i = Len(R) THEN Unlocked ELSE R[i+1]
  <2>. SUFFICES ASSUME NEW i \in 1..Len(R) PROVE succ'[R[i]] = IF i = Len(R) THEN Unlocked ELSE R[i+1]
    OBVIOUS
  <2>1. R[i] \in Coroutines /\ DOMAIN R = 1..Len(R)
    BY <1>7
  <2>2. index(R[i]) = i
    BY <1>7, <2>1 DEF Distinct, index
  <2>. QED  BY <1>6, <2>1, <2>2
<1>9. IsList(R, R[1], succ', Unlocked) /\ Elems(R) = Elems(H)
  <2>1. IsList(R, R[1], succ', Unlocked)
    BY <1>7, <1>8 DEF IsList
  <2>2. Elems(R) = Elems(H)
    BY <1>3, ElemsOfReverse DEF IsList, R
  <2>. QED  BY <2>1, <2>2
<1>10. /\ IsList(Tail(R), tail', succ', Unlocked) /\ R[1] \in Coroutines /\ R[1] = Head(R)
       /\ Elems(R) = Elems(Tail(R)) \cup {R[1]} /\ R[1] \notin Elems(Tail(R))
  BY <1>6, <1>7, <1>9, TailIsList, ElemsOfTail
<1>11. succ' \in [Coroutines -> Coroutines \cup {Unlocked, Locked}]
  <2>. SUFFICES ASSUME NEW n \in Coroutines PROVE succ'[n] \in Coroutines \cup {Unlocked, Locked}
    BY <1>6
  <2>1. CASE \E i \in DOMAIN R : R[i] = n
    <3>1. PICK i \in 1..Len(R) : R[i] = n
      BY <1>7, <2>1
    <3>2. i # Len(R) => i + 1 \in 1..Len(R)
      <4>1. \A m \in Nat : \A k \in 1..m : k # m => k + 1 \in 1..m
        OBVIOUS
      <4>. QED  BY <1>7, <3>1, <4>1
    <3>. QED  BY <1>7, <1>8, <3>1, <3>2
  <2>2. CASE ~\E i \in DOMAIN R : R[i] = n
    BY <1>6, <2>2 DEF CoTypes, MuTypes
  <2>. QED  BY <2>1, <2>2
<1>12. /\ place \in [Coroutines -> CoPlaces] /\ locker \in [Coroutines -> Coroutines \cup {Unlocked}]
       /\ \A d \in Coroutines : place'[d] = IF d = c THEN "resume" ELSE place[d]
       /\ \A d \in Coroutines : locker'[d] = IF d = c THEN R[1] ELSE locker[d]
       /\ \A d \in Coroutines : Holds(d)' <=> Holds(d)
       /\ locker[c] = Unlocked
  BY <1>1, <1>6 DEF CoTypes, PlTypes, MuTypes, Holds, Lists
<1>13. Lists(Tail(R), <<>>)'
  <2>1. IsList(<<>>, head', succ', Locked) /\ head' # Unlocked
    BY <1>1, EmptyIsList, McAssumption
  <2>2. ASSUME NEW d \in Coroutines
        PROVE  place'[d] = "parked" <=> d \in Elems(Tail(R)) \/ \E e \in Coroutines : locker'[e] = d
    <3>1. place[d] = "parked" <=> d \in Elems(R) \/ \E e \in Coroutines : locker[e] = d
      BY <1>4, <1>9, EmptyList DEF Lists
    <3>2. (\E e \in Coroutines : locker'[e] = d) <=>
             d = R[1] \/ \E e \in Coroutines : locker[e] = d
      <4>1. d # Unlocked
        BY McAssumption
      <4>. QED  BY <1>12, <4>1
    <3>3. place'[d] = "parked" <=> place[d] = "parked"
      BY <1>1, <1>12
    <3>. QED  BY <1>10, <3>1, <3>2, <3>3
  <2>3. \A d \in Coroutines :
          /\ locker'[d] \notin Elems(Tail(R))
          /\ locker'[d] # Unlocked <=> place'[d] = "resume"
    <3>1. R[1] # Unlocked
      BY <1>10, McAssumption
    <3>. QED  BY <1>9, <1>10, <1>12, <3>1 DEF Lists
  <2>4. \A d \in Coroutines : place'[d] # "exchange"
    BY <1>1, <1>12 DEF Lists, Holds
  <2>5. (\A d, e \in Coroutines : Holds(d) /\ Holds(e) => d = e)'
    BY <1>12 DEF Lists
  <2>6. (head = Unlocked <=> \A d \in Coroutines : ~Holds(d))'
    BY <1>2, <1>12, <2>1 DEF Lists
  <2>. QED  BY <1>10, <2>1, <2>2, <2>3, <2>4, <2>5, <2>6, EmptyList DEF Lists
<1>14. Tail(R) \in Seq(Coroutines) /\ tail' \in Coroutines \cup {Unlocked}
  BY <1>10, ListEnds, McAssumption
<1>15. MuTypes'
  BY <1>1, <1>6, <1>10, <1>11, <1>14 DEF MuTypes, CoTypes
<1>. QED  BY <1>1, <1>2, <1>4, <1>6, <1>10, <1>13, <1>14, <1>15, EmptyList DEF MuInv, R

LEMMA Resumes ==
    ASSUME CoTypes, NEW T \in Seq(Coroutines), NEW H \in Seq(Coroutines), Lists(T, H),
           NEW w, NEW c \in Coroutines, TG!Resume(w, c)
    PROVE  Lists(T, H)' /\ MuInv'
<1>. DEFINE x == locker[c]
<1>1. /\ place[c] = "resume" /\ place' = [place EXCEPT ![c] = "outside", ![x] = "critical"]
      /\ locker' = [locker EXCEPT ![c] = Unlocked]
      /\ head' = head /\ tail' = tail /\ succ' = succ
  BY DEF TG!Resume
<1>2. x \in Coroutines /\ place[x] = "parked" /\ x # c
  BY <1>1, LockerParked
<1>3. /\ Holds(c) /\ \A d \in Coroutines : Holds(d) => d = c
      /\ locker[c] = x /\ \A d \in Coroutines \ {c} : locker[d] = Unlocked
  BY <1>1 DEF Lists, Holds
<1>4. x \notin Elems(T) /\ x \notin Elems(H) /\ Unlocked \notin Elems(T) /\ Unlocked \notin Elems(H)
  BY ListFacts, McAssumption DEF Lists
<1>5. x # Unlocked /\ Unlocked \notin Coroutines
  BY <1>2, McAssumption
<1>. HIDE DEF x
<1>6. /\ place \in [Coroutines -> CoPlaces] /\ locker \in [Coroutines -> Coroutines \cup {Unlocked}]
      /\ \A d \in Coroutines : place'[d] = IF d = x THEN "critical"
                                           ELSE IF d = c THEN "outside" ELSE place[d]
      /\ \A d \in Coroutines : locker'[d] = Unlocked
      /\ \A d \in Coroutines : Holds(d)' <=> d = x
  <2>1. place \in [Coroutines -> CoPlaces] /\ locker \in [Coroutines -> Coroutines \cup {Unlocked}]
    BY DEF CoTypes, PlTypes, MuTypes
  <2>2. \A d \in Coroutines : place'[d] = IF d = x THEN "critical"
                                          ELSE IF d = c THEN "outside" ELSE place[d]
    BY <1>1, <1>2, <2>1
  <2>. QED  BY <1>1, <1>2, <1>3, <2>1, <2>2 DEF Holds
<1>7. Lists(T, H)'
  <2>1. IsList(T, tail', succ', Unlocked)
    BY <1>1 DEF Lists
  <2>2. head' # Unlocked /\ IsList(H, head', succ', Locked)
    BY <1>1, <1>3 DEF Lists
  <2>3. ASSUME NEW d \in Coroutines
        PROVE  place'[d] = "parked" <=>
                 d \in Elems(T) \/ d \in Elems(H) \/ \E e \in Coroutines : locker'[e] = d
    <3>1. place[d] = "parked" <=> d \in Elems(T) \/ d \in Elems(H) \/ d = x
      BY <1>3, <1>5 DEF Lists
    <3>2. place'[d] = "parked" <=> place[d] = "parked" /\ d # x
      BY <1>1, <1>2, <1>6
    <3>. QED  BY <1>4, <1>5, <1>6, <3>1, <3>2
  <2>4. \A d \in Coroutines :
          /\ locker'[d] \notin Elems(T) /\ locker'[d] \notin Elems(H)
          /\ locker'[d] = Unlocked /\ place'[d] # "resume" /\ place'[d] # "exchange"
    BY <1>3, <1>4, <1>6 DEF Holds
  <2>5. Elems(T) \cap Elems(H) = {}
    BY DEF Lists
  <2>. QED  BY <1>2, <1>6, <2>1, <2>2, <2>3, <2>4, <2>5 DEF Lists
<1>8. MuTypes'
  BY <1>1, <1>6 DEF MuTypes, CoTypes
<1>. QED  BY <1>7, <1>8 DEF MuInv
LEMMA MuKeeps ==
    ASSUME CoTypes, Scheduled(stack, queue, place), TG!GroupNext, MuInv,
           NEW A, NEW B, Lined(A, B)
    PROVE  MuInv'
<1>1. PICK T \in Seq(Coroutines), H \in Seq(Coroutines) : Lists(T, H)
  BY DEF MuInv
<1>2. MuTypes /\ place \in [Coroutines -> CoPlaces]
  BY DEF CoTypes, PlTypes
<1>3. ASSUME UNCHANGED <<head, tail, succ, locker>>,
             \A d \in Coroutines :
                \/ place'[d] = place[d]
                \/ /\ place[d] \notin {"parked", "critical", "exchange", "resume"}
                   /\ place'[d] \notin {"parked", "critical", "exchange", "resume"}
      PROVE  MuInv'
  BY <1>1, <1>2, <1>3, ListsSame DEF MuTypes
<1>4. ASSUME NEW c \in Coroutines, TG!FireAndForget(c) PROVE MuInv'
  <2>1. /\ place[c] = "none" /\ place' = [place EXCEPT ![c] = "outside"]
        /\ UNCHANGED <<head, tail, succ, locker>>
    BY <1>4 DEF TG!FireAndForget, TG!Move, TG!lock
  <2>. QED  BY <1>2, <1>3, <2>1
<1>5. ASSUME \/ \E w \in TG!Threads : TG!Take(w)
             \/ TG!Close \/ TG!Discard \/ TG!Closed
             \/ \E w \in TG!Threads, c \in Coroutines : TG!TeleportTo(w, c)
      PROVE  MuInv'
  <2>1. UNCHANGED <<head, tail, succ, locker, place>>
    BY <1>5 DEF TG!Take, TG!Close, TG!Discard, TG!Closed, TG!TeleportTo, TG!lock
  <2>. QED  BY <1>3, <2>1
<1>. SUFFICES ASSUME NEW w \in TG!Threads, NEW c \in Coroutines,
                     \/ TG!End(w, c)
                     \/ TG!TryLock(w, c) \/ TG!TryLockOrEnqueue(w, c) \/ TG!TakeTail(w, c)
                     \/ TG!Release(w, c) \/ TG!Exchange(w, c) \/ TG!Resume(w, c)
                     \/ TG!CheckFire(w, c) \/ TG!Enqueue(w, c) \/ TG!Done(w, c)
                     \/ TG!Exchanged(w, c) \/ TG!ResumeAwaiter(w, c)
              PROVE  MuInv'
  BY <1>4, <1>5, TaskSteps
<1>6. CASE \/ TG!End(w, c) \/ TG!CheckFire(w, c) \/ TG!Enqueue(w, c) \/ TG!Done(w, c)
           \/ TG!Exchanged(w, c)
  <2>1. /\ UNCHANGED <<head, tail, succ, locker>>
        /\ \E to \in {"none", "outside", "await", "waiting", "fire", "firing"} :
              place' = [place EXCEPT ![c] = to]
        /\ place[c] \in {"outside", "await", "fire"}
    BY <1>6 DEF TG!End, TG!CheckFire, TG!Enqueue, TG!Done, TG!Exchanged, TG!Move, TG!lock
  <2>. QED  BY <1>2, <1>3, <2>1
<1>7. CASE TG!ResumeAwaiter(w, c)
  <2>1. /\ UNCHANGED <<head, tail, succ, locker>> /\ place[c] = "firing"
        /\ \/ place' = [place EXCEPT ![c] = "outside"]
           \/ awaiter[c] # Unlocked /\ place' = [place EXCEPT ![awaiter[c]] = "outside"]
    BY <1>7 DEF TG!ResumeAwaiter, TG!Null, TG!lock
  <2>2. awaiter[c] # Unlocked => awaiter[c] \in Coroutines /\ place[awaiter[c]] = "waiting"
    BY <2>1, AwaiterWaits
  <2>. QED  BY <1>2, <1>3, <2>1, <2>2
<1>8. CASE TG!TryLock(w, c)
  <2>1. /\ tail' = tail /\ locker' = locker /\ place[c] = "outside"
        /\ \/ /\ head = Unlocked /\ head' = Locked /\ place' = [place EXCEPT ![c] = "critical"]
              /\ succ' = [succ EXCEPT ![c] = Unlocked]
           \/ /\ head' = head /\ place' = [place EXCEPT ![c] = "enqueue"]
              /\ succ' = [succ EXCEPT ![c] = head]
    BY <1>8 DEF TG!TryLock, TG!Move
  <2>2. succ' \in [Coroutines -> Coroutines \cup {Unlocked, Locked}]
    BY <1>2, <2>1 DEF MuTypes
  <2>3. CASE head' = head /\ place' = [place EXCEPT ![c] = "enqueue"]
             /\ succ' = [succ EXCEPT ![c] = head]
    <3>1. \A d \in Coroutines :
              /\ place[d] = "parked" => succ'[d] = succ[d]
              /\ \/ place'[d] = place[d]
                 \/ /\ place[d] \notin {"parked", "critical", "exchange", "resume"}
                    /\ place'[d] \notin {"parked", "critical", "exchange", "resume"}
      BY <1>2, <2>1, <2>3 DEF MuTypes
    <3>. QED  BY <1>1, <1>2, <2>1, <2>2, <2>3, <3>1, ListsSame
  <2>4. CASE head = Unlocked /\ head' = Locked /\ place' = [place EXCEPT ![c] = "critical"]
    BY <1>1, <2>1, <2>2, <2>4, GetsLock
  <2>. QED  BY <2>1, <2>3, <2>4
<1>9. CASE TG!TryLockOrEnqueue(w, c)
  <2>1. tail' = tail /\ locker' = locker /\ place[c] = "enqueue"
    BY <1>9 DEF TG!TryLockOrEnqueue, TG!Move
  <2>2. CASE /\ head = Unlocked /\ head' = Locked /\ succ' = succ
             /\ place' = [place EXCEPT ![c] = "critical"]
    BY <1>1, <1>2, <2>1, <2>2, GetsLock DEF MuTypes
  <2>3. CASE /\ succ[c] # Unlocked /\ head = succ[c] /\ head' = c /\ succ' = succ
             /\ place' = [place EXCEPT ![c] = "parked"]
    BY <1>1, <2>1, <2>3, Parks
  <2>4. CASE head' = head /\ place' = place /\ succ' = [succ EXCEPT ![c] = head]
    <3>1. \A d \in Coroutines : place[d] = "parked" => succ'[d] = succ[d]
      BY <1>2, <2>1, <2>4 DEF MuTypes
    <3>2. succ' \in [Coroutines -> Coroutines \cup {Unlocked, Locked}]
      BY <1>2, <2>4 DEF MuTypes
    <3>. QED  BY <1>1, <1>2, <2>1, <2>4, <3>1, <3>2, ListsSame
  <2>. QED  BY <1>9, <2>2, <2>3, <2>4 DEF TG!TryLockOrEnqueue, TG!Move
<1>10. CASE TG!TakeTail(w, c)
  <2>1. /\ place[c] = "critical" /\ place' = [place EXCEPT ![c] = "resume"] /\ tail # Unlocked
        /\ locker' = [locker EXCEPT ![c] = tail] /\ head' = head /\ succ' = succ
        /\ tail' = succ[tail]
    BY <1>10 DEF TG!TakeTail, TG!HasTail, TG!Advanced, TG!Move
  <2>. QED  BY <1>1, <2>1, TakesTail
<1>11. CASE TG!Release(w, c)
  <2>1. /\ place[c] = "critical" /\ tail = Unlocked /\ tail' = tail /\ locker' = locker
        /\ succ' = succ
        /\ \/ /\ head = Locked /\ head' = Unlocked /\ place' = [place EXCEPT ![c] = "outside"]
           \/ /\ head # Locked /\ head' = head /\ place' = [place EXCEPT ![c] = "exchange"]
    BY <1>11 DEF TG!Release, TG!HasTail, TG!Move
  <2>. QED  BY <1>1, <2>1, Releases, FailsToRelease
<1>12. CASE TG!Exchange(w, c)
  BY <1>1, <1>12, Exchanges
<1>13. CASE TG!Resume(w, c)
  BY <1>1, <1>13, Resumes
<1>. QED  BY <1>6, <1>7, <1>8, <1>9, <1>10, <1>11, <1>12, <1>13

LEMMA PlKeeps ==
    ASSUME CoTypes, TG!GroupNext, NEW T, NEW H, Lists(T, H), NEW A, NEW B, Lined(A, B)
    PROVE  PlTypes'
<1>1. /\ closing \in {"no", "in", "out"} /\ fate \in [Coroutines -> {"lives", "doomed", "stuck"}]
      /\ uses \in {"mutex", "waitgroup"} /\ place \in [Coroutines -> CoPlaces]
  BY DEF CoTypes, PlTypes
<1>2. uses' = uses /\ CoPlaces' = CoPlaces
  BY TaskSteps DEF CoPlaces
<1>3. closing' \in {"no", "in", "out"} /\ fate' \in [Coroutines -> {"lives", "doomed", "stuck"}]
  BY <1>1, TaskSteps
     DEF TG!FireAndForget, TG!Take, TG!Close, TG!Discard, TG!Closed, TG!TeleportTo, TG!End,
         TG!Execute, TG!Destroyed, TG!TryLock, TG!TryLockOrEnqueue, TG!TakeTail, TG!Release,
         TG!Exchange, TG!Resume, TG!CheckFire, TG!Enqueue, TG!Done, TG!Exchanged,
         TG!ResumeAwaiter, TG!pool
<1>4. ASSUME \/ /\ uses = "mutex"
                /\ \E w \in TG!Threads, c \in Coroutines :
                      \/ TG!TryLock(w, c) \/ TG!TryLockOrEnqueue(w, c) \/ TG!TakeTail(w, c)
                      \/ TG!Release(w, c) \/ TG!Exchange(w, c)
             \/ /\ uses = "waitgroup"
                /\ \E w \in TG!Threads, c \in Coroutines :
                      \/ TG!CheckFire(w, c) \/ TG!Enqueue(w, c) \/ TG!Done(w, c)
                      \/ TG!Exchanged(w, c)
             \/ \E c \in Coroutines : TG!FireAndForget(c)
             \/ \E w \in TG!Threads, c \in Coroutines : TG!End(w, c)
      PROVE  place' \in [Coroutines -> CoPlaces]
  <2>1. \E c \in Coroutines, to \in CoPlaces : place' = place \/ place' = [place EXCEPT ![c] = to]
    BY <1>4 DEF CoPlaces, TG!FireAndForget, TG!End, TG!TryLock, TG!TryLockOrEnqueue,
         TG!TakeTail, TG!Release, TG!Exchange, TG!CheckFire, TG!Enqueue, TG!Done,
         TG!Exchanged, TG!Move
  <2>. QED  BY <1>1, <2>1
<1>5. ASSUME NEW w, NEW c \in Coroutines,
             \/ uses = "mutex" /\ TG!Resume(w, c)
             \/ uses = "waitgroup" /\ TG!ResumeAwaiter(w, c)
      PROVE  place' \in [Coroutines -> CoPlaces]
  <2>1. \E d, e : \/ place' = [place EXCEPT ![d] = "outside", ![e] = "critical"] /\ uses = "mutex"
                  \/ place' = [place EXCEPT ![d] = "outside"]
    BY <1>5 DEF TG!Resume, TG!ResumeAwaiter
  <2>2. "outside" \in CoPlaces /\ (uses = "mutex" => "critical" \in CoPlaces)
    BY DEF CoPlaces
  <2>. QED  BY <1>1, <2>1, <2>2
<1>6. ASSUME \/ \E w \in TG!Threads : TG!Take(w)
             \/ TG!Close \/ TG!Discard \/ TG!Closed
             \/ \E w \in TG!Threads, c \in Coroutines : TG!TeleportTo(w, c)
      PROVE  place' \in [Coroutines -> CoPlaces]
  BY <1>1, <1>6 DEF TG!Take, TG!Close, TG!Discard, TG!Closed, TG!TeleportTo
<1>7. place' \in [Coroutines -> CoPlaces]
  BY <1>4, <1>5, <1>6, TaskSteps
<1>. QED  BY <1>1, <1>2, <1>3, <1>7 DEF PlTypes
\* Steps that leave the lists of awaiters alone, and the next_ of those not yet enqueued.
LEMMA LinesSame ==
    ASSUME CoTypes, NEW A \in Seq(Coroutines), NEW B \in Seq(Coroutines), Lined(A, B),
           UNCHANGED <<last, awaiter, owes, count>>,
           link' \in [Coroutines -> Coroutines \cup {Unlocked, Locked}],
           \A d \in Coroutines :
              /\ place[d] = "waiting" => link'[d] = link[d]
              /\ place'[d] = "await" => link'[d] # Locked
              /\ \/ place'[d] = place[d]
                 \/ /\ place[d] \notin {"waiting", "fire", "firing"}
                    /\ place'[d] \notin {"waiting", "fire", "firing"}
    PROVE  WgInv'
<1>1. /\ \A d \in Elems(A) \cup Elems(B) : link'[d] = link[d]
      /\ \A d \in Coroutines : /\ Fires(d)' <=> Fires(d)
                               /\ place'[d] = "waiting" <=> place[d] = "waiting"
                               /\ place'[d] = "fire" <=> place[d] = "fire"
                               /\ place'[d] = "firing" <=> place[d] = "firing"
  BY ListFacts DEF Lined, Fires
<1>2. IF last' = Locked THEN A = <<>> ELSE IsList(A, last', link', Unlocked)
  BY <1>1, SameList DEF Lined
<1>3. \A d \in Coroutines : IF place'[d] = "firing" THEN IsList(B, awaiter'[d], link', Unlocked)
                            ELSE awaiter'[d] = Unlocked
  BY <1>1, SameList DEF Lined
<1>4. Lined(A, B)'
  BY <1>1, <1>2, <1>3 DEF Lined
<1>. QED  BY <1>4 DEF WgInv, WgTypes, CoTypes

\* The compare-and-swap of Enqueue.
LEMMA Waits ==
    ASSUME CoTypes, NEW A \in Seq(Coroutines), NEW B \in Seq(Coroutines), Lined(A, B),
           NEW c \in Coroutines, place[c] = "await", place' = [place EXCEPT ![c] = "waiting"],
           last = link[c], last' = c, UNCHANGED <<link, awaiter, owes, count>>
    PROVE  WgInv'
<1>1. last # Locked /\ c # Locked /\ IsList(A, last, link, Unlocked)
  BY McAssumption DEF Lined
<1>2. c \notin Elems(A) /\ c \notin Elems(B)
  BY DEF Lined
<1>3. IsList(<<c>> \o A, c, link, Unlocked) /\ Elems(<<c>> \o A) = {c} \cup Elems(A)
  BY <1>1, <1>2, ConsIsList
<1>4. /\ place \in [Coroutines -> CoPlaces]
      /\ \A d \in Coroutines : place'[d] = IF d = c THEN "waiting" ELSE place[d]
      /\ \A d \in Coroutines : Fires(d)' <=> Fires(d)
      /\ \A d \in Coroutines : place'[d] = "firing" <=> place[d] = "firing"
  BY DEF CoTypes, PlTypes, Fires
<1>. DEFINE A2 == <<c>> \o A
<1>. HIDE DEF A2
<1>5. IsList(A2, c, link', Unlocked) /\ Elems(A2) = {c} \cup Elems(A) /\ A2 \in Seq(Coroutines)
  BY <1>3 DEF A2, IsList
<1>6. Lined(A2, B)'
  <2>1. \A d \in Coroutines : IF place'[d] = "firing" THEN IsList(B, awaiter'[d], link', Unlocked)
                              ELSE awaiter'[d] = Unlocked
    BY <1>4 DEF Lined
  <2>2. B # <<>> => \E d \in Coroutines : place'[d] = "firing"
    BY <1>4 DEF Lined
  <2>3. Elems(A2) \cap Elems(B) = {}
    BY <1>2, <1>5 DEF Lined
  <2>4. \A d \in Coroutines : /\ place'[d] = "waiting" <=> d \in Elems(A2) \/ d \in Elems(B)
                              /\ place'[d] = "await" => link'[d] # Locked
    BY <1>4, <1>5 DEF Lined
  <2>5. \A d \in Coroutines : /\ Fires(d)' => owes' = {}
                              /\ place'[d] # "firing"
    BY <1>1, <1>4 DEF Lined
  <2>6. \A d, e \in Coroutines : Fires(d)' /\ Fires(e)' => d = e
    BY <1>4 DEF Lined
  <2>. QED  BY <1>1, <1>5, <2>1, <2>2, <2>3, <2>4, <2>5, <2>6 DEF Lined
<1>. QED  BY <1>5, <1>6 DEF WgInv, WgTypes, CoTypes

\* The last Done: nobody fires yet, and nobody owes one any more.
LEMMA CallsDone ==
    ASSUME CoTypes, NEW A \in Seq(Coroutines), NEW B \in Seq(Coroutines), Lined(A, B),
           NEW c \in owes, place[c] = "outside",
           place' = [place EXCEPT ![c] = IF count = 1 THEN "fire" ELSE "outside"],
           count' = count - 1, owes' = owes \ {c}, UNCHANGED <<last, link, awaiter>>
    PROVE  WgInv'
<1>1. owes \subseteq Coroutines /\ IsFiniteSet(owes) /\ count = Cardinality(owes)
  BY FS_Subset, McAssumption DEF CoTypes, WgTypes
<1>2. Cardinality(owes') = count' /\ IsFiniteSet(owes') /\ count \in Nat
  BY <1>1, FS_RemoveElement, FS_CardinalityType
<1>3. count = 1 => owes' = {}
  <2>1. count = 1 => Cardinality(owes') = 0
    BY <1>2
  <2>. QED  BY <1>2, <2>1, FS_EmptySet
<1>4. last # Locked /\ \A d \in Coroutines : ~Fires(d)
  BY DEF Lined
<1>5. /\ c \in Coroutines /\ place \in [Coroutines -> CoPlaces]
      /\ \A d \in Coroutines \ {c} : place'[d] = place[d]
      /\ place'[c] = IF count = 1 THEN "fire" ELSE "outside"
  BY <1>1 DEF CoTypes, PlTypes
<1>6. Lined(A, B)'
  <2>1. \A d \in Coroutines : place'[d] # "firing" /\ place[d] # "firing"
    BY <1>4, <1>5 DEF Fires
  <2>2. \A d \in Coroutines : Fires(d)' => d = c /\ owes' = {}
    BY <1>3, <1>4, <1>5 DEF Fires
  <2>3. \A d \in Coroutines : /\ place'[d] = "waiting" <=> place[d] = "waiting"
                              /\ place'[d] = "await" <=> place[d] = "await"
    BY <1>5
  <2>. QED  BY <1>4, <2>1, <2>2, <2>3 DEF Lined
<1>7. owes' \subseteq Coroutines
  BY <1>1
<1>. QED  BY <1>2, <1>6, <1>7 DEF WgInv, WgTypes, CoTypes

\* Fire takes the list of the event.
LEMMA TakesAwaiters ==
    ASSUME CoTypes, NEW A \in Seq(Coroutines), NEW B \in Seq(Coroutines), Lined(A, B),
           NEW c \in Coroutines, place[c] = "fire", place' = [place EXCEPT ![c] = "firing"],
           awaiter' = [awaiter EXCEPT ![c] = last], last' = Locked,
           UNCHANGED <<link, owes, count>>
    PROVE  WgInv'
<1>1. Fires(c) /\ \A d \in Coroutines : Fires(d) => d = c
  BY DEF Fires, Lined
<1>2. /\ place \in [Coroutines -> CoPlaces] /\ awaiter \in [Coroutines -> Coroutines \cup {Unlocked}]
      /\ \A d \in Coroutines : place'[d] = IF d = c THEN "firing" ELSE place[d]
      /\ \A d \in Coroutines : awaiter'[d] = IF d = c THEN last ELSE awaiter[d]
      /\ \A d \in Coroutines : Fires(d)' <=> d = c
      /\ \A d \in Coroutines : place[d] # "firing"
  BY <1>1 DEF CoTypes, PlTypes, WgTypes, Fires
<1>3. IsList(A, last, link, Unlocked) /\ B = <<>> /\ owes = {}
  BY <1>1, <1>2 DEF Lined
<1>4. last \in Coroutines \cup {Unlocked}
  BY <1>3, ListEnds, McAssumption
<1>5. Lined(<<>>, A)'
  <2>1. \A d \in Coroutines : IF place'[d] = "firing" THEN IsList(A, awaiter'[d], link', Unlocked)
                              ELSE awaiter'[d] = Unlocked
    BY <1>2, <1>3 DEF Lined
  <2>2. \E d \in Coroutines : place'[d] = "firing"
    BY <1>2
  <2>3. \A d \in Coroutines : /\ place'[d] = "waiting" <=> d \in Elems(A)
                              /\ place'[d] = "await" => link'[d] # Locked
                              /\ place'[d] # "fire"
    BY <1>1, <1>2, <1>3, EmptyList DEF Lined, Fires
  <2>. QED  BY <1>2, <1>3, <2>1, <2>2, <2>3, EmptyList DEF Lined
<1>6. WgTypes'
  BY <1>2, <1>4 DEF CoTypes, WgTypes
<1>. QED  BY <1>5, <1>6, EmptyList DEF WgInv

\* Fire resumes the first awaiter of those that are left, or returns.
LEMMA ResumesAwaiter ==
    ASSUME CoTypes, NEW A \in Seq(Coroutines), NEW B \in Seq(Coroutines), Lined(A, B),
           NEW w, NEW c \in Coroutines, TG!ResumeAwaiter(w, c)
    PROVE  WgInv'
<1>1. place[c] = "firing" /\ UNCHANGED <<last, link, owes, count>>
  BY DEF TG!ResumeAwaiter
<1>2. /\ Fires(c) /\ \A d \in Coroutines : Fires(d) => d = c
      /\ last = Locked /\ A = <<>> /\ owes = {} /\ IsList(B, awaiter[c], link, Unlocked)
  BY <1>1 DEF Fires, Lined
<1>3. /\ place \in [Coroutines -> CoPlaces] /\ awaiter \in [Coroutines -> Coroutines \cup {Unlocked}]
      /\ \A d \in Coroutines \ {c} : awaiter[d] = Unlocked /\ place[d] # "fire" /\ place[d] # "firing"
  BY <1>2 DEF CoTypes, PlTypes, WgTypes, Lined, Fires
<1>4. CASE awaiter[c] = Unlocked
  <2>1. place' = [place EXCEPT ![c] = "outside"] /\ awaiter' = awaiter
    BY <1>4 DEF TG!ResumeAwaiter, TG!Null
  <2>2. B = <<>>
    BY <1>2, <1>4, ListEnds, McAssumption
  <2>3. \A d \in Coroutines : /\ place'[d] = IF d = c THEN "outside" ELSE place[d]
                              /\ ~Fires(d)' /\ place'[d] # "firing" /\ awaiter'[d] = Unlocked
    BY <1>3, <1>4, <2>1 DEF Fires
  <2>4. Lined(A, B)'
    BY <1>1, <1>2, <2>2, <2>3 DEF Lined, Fires
  <2>. QED  BY <1>1, <2>1, <2>4 DEF WgInv, WgTypes, CoTypes
<1>5. CASE awaiter[c] # Unlocked
  <2>. DEFINE x == awaiter[c]
              B2 == Tail(B)
  <2>1. place' = [place EXCEPT ![x] = "outside"] /\ awaiter' = [awaiter EXCEPT ![c] = link[x]]
    BY <1>5 DEF TG!ResumeAwaiter, TG!Null
  <2>2. x \in Coroutines /\ place[x] = "waiting" /\ B # <<>>
    BY <1>1, <1>5, AwaiterWaits
  <2>3. /\ IsList(B2, link[x], link, Unlocked) /\ Elems(B) = Elems(B2) \cup {x} /\ x \notin Elems(B2)
    BY <1>2, <2>2, TailIsList
  <2>4. B2 \in Seq(Coroutines) /\ link[x] \in Coroutines \cup {Unlocked}
    BY <2>3, ListEnds, McAssumption
  <2>. HIDE DEF x, B2
  <2>5. \A d \in Coroutines : /\ place'[d] = IF d = x THEN "outside" ELSE place[d]
                              /\ Fires(d)' <=> d = c
                              /\ place'[d] = "firing" <=> d = c
                              /\ awaiter'[d] = IF d = c THEN link[x] ELSE Unlocked
    BY <1>1, <1>2, <1>3, <2>1, <2>2 DEF Fires
  <2>6. Lined(A, B2)'
    <3>1. \A d \in Coroutines : IF place'[d] = "firing" THEN IsList(B2, awaiter'[d], link', Unlocked)
                                ELSE awaiter'[d] = Unlocked
      BY <1>1, <2>3, <2>5
    <3>2. \A d \in Coroutines : /\ place'[d] = "waiting" <=> d \in Elems(B2)
                                /\ place'[d] = "await" => link'[d] # Locked
                                /\ place'[d] # "fire"
      BY <1>1, <1>2, <1>3, <2>2, <2>3, <2>5, EmptyList DEF Lined, Fires
    <3>. QED  BY <1>1, <1>2, <2>4, <2>5, <3>1, <3>2, EmptyList DEF Lined
  <2>7. WgTypes'
    BY <1>1, <1>3, <2>1, <2>4 DEF CoTypes, WgTypes
  <2>. QED  BY <2>4, <2>6, <2>7 DEF WgInv
<1>. QED  BY <1>4, <1>5

LEMMA WgKeeps ==
    ASSUME CoTypes, Scheduled(stack, queue, place), TG!GroupNext, WgInv,
           NEW T, NEW H, Lists(T, H)
    PROVE  WgInv'
<1>1. PICK A \in Seq(Coroutines), B \in Seq(Coroutines) : Lined(A, B)
  BY DEF WgInv
<1>2. /\ place \in [Coroutines -> CoPlaces] /\ uses \in {"mutex", "waitgroup"}
      /\ link \in [Coroutines -> Coroutines \cup {Unlocked, Locked}]
      /\ last \in Coroutines \cup {Unlocked, Locked}
  BY DEF CoTypes, PlTypes, WgTypes
<1>. DEFINE Elsewhere(p) == p \notin {"await", "waiting", "fire", "firing"}
<1>3. ASSUME UNCHANGED <<count, owes, last, link, awaiter>>,
             \A d \in Coroutines : \/ place'[d] = place[d]
                                   \/ Elsewhere(place[d]) /\ Elsewhere(place'[d])
      PROVE  WgInv'
  <2>1. \A d \in Coroutines : place'[d] = "await" => link'[d] # Locked
    BY <1>1, <1>3 DEF Lined
  <2>2. \A d \in Coroutines : \/ place'[d] = place[d]
                              \/ /\ place[d] \notin {"waiting", "fire", "firing"}
                                 /\ place'[d] \notin {"waiting", "fire", "firing"}
    BY <1>3
  <2>. QED  BY <1>1, <1>2, <1>3, <2>1, <2>2, LinesSame
<1>4. CASE UNCHANGED <<count, owes, last, link, awaiter>> /\
           \/ \E c \in Coroutines : TG!FireAndForget(c)
           \/ \E w \in TG!Threads : TG!Take(w)
           \/ TG!Close \/ TG!Discard \/ TG!Closed
           \/ \E w \in TG!Threads, c \in Coroutines :
                 \/ TG!TeleportTo(w, c) \/ TG!End(w, c)
                 \/ TG!TryLock(w, c) \/ TG!TryLockOrEnqueue(w, c) \/ TG!TakeTail(w, c)
                 \/ TG!Release(w, c) \/ TG!Exchange(w, c)
  <2>. DEFINE P == {"none", "outside", "enqueue", "parked", "critical", "exchange", "resume"}
  <2>1. \/ place' = place
        \/ \E c \in Coroutines, to \in P : place[c] \in P /\ place' = [place EXCEPT ![c] = to]
    BY <1>4 DEF TG!FireAndForget, TG!Take, TG!Close, TG!Discard, TG!Closed, TG!TeleportTo,
         TG!End, TG!TryLock, TG!TryLockOrEnqueue, TG!TakeTail, TG!Release, TG!Exchange, TG!Move
  <2>. QED  BY <1>2, <1>3, <1>4, <2>1
<1>5. ASSUME NEW w \in TG!Threads, NEW c \in Coroutines, TG!Resume(w, c),
             UNCHANGED <<count, owes, last, link, awaiter>>
      PROVE  WgInv'
  <2>1. /\ place[c] = "resume"
        /\ place' = [place EXCEPT ![c] = "outside", ![locker[c]] = "critical"]
    BY <1>5 DEF TG!Resume
  <2>2. locker[c] \in Coroutines /\ place[locker[c]] = "parked"
    BY <2>1, LockerParked
  <2>. QED  BY <1>2, <1>3, <1>5, <2>1, <2>2
<1>. SUFFICES ASSUME NEW w \in TG!Threads, NEW c \in Coroutines,
                     \/ TG!CheckFire(w, c) \/ TG!Enqueue(w, c) \/ TG!Done(w, c)
                     \/ TG!Exchanged(w, c) \/ TG!ResumeAwaiter(w, c)
              PROVE  WgInv'
  BY <1>4, <1>5, TaskSteps
<1>6. ASSUME UNCHANGED <<last, awaiter, owes, count>>, link' = [link EXCEPT ![c] = last],
             place[c] \in {"outside", "await"},
             place' = [place EXCEPT ![c] = IF last = Locked THEN "outside" ELSE "await"]
      PROVE  WgInv'
  <2>1. link' \in [Coroutines -> Coroutines \cup {Unlocked, Locked}]
    BY <1>2, <1>6
  <2>2. \A d \in Coroutines :
              /\ place[d] = "waiting" => link'[d] = link[d]
              /\ place'[d] = "await" => link'[d] # Locked
              /\ \/ place'[d] = place[d]
                 \/ /\ place[d] \notin {"waiting", "fire", "firing"}
                    /\ place'[d] \notin {"waiting", "fire", "firing"}
    BY <1>1, <1>2, <1>6 DEF Lined
  <2>. QED  BY <1>1, <1>6, <2>1, <2>2, LinesSame
<1>7. CASE TG!CheckFire(w, c)
  BY <1>6, <1>7 DEF TG!CheckFire, TG!Move, TG!HasFired, TG!Fired
<1>8. CASE TG!Enqueue(w, c)
  BY <1>1, <1>6, <1>8, Waits DEF TG!Enqueue, TG!Move, TG!HasFired, TG!Fired
<1>9. CASE TG!Done(w, c)
  BY <1>1, <1>9, CallsDone DEF TG!Done, TG!Move, TG!IsLastDone
<1>10. CASE TG!Exchanged(w, c)
  BY <1>1, <1>10, TakesAwaiters DEF TG!Exchanged, TG!AfterExchange, TG!Move, TG!Fired
<1>11. CASE TG!ResumeAwaiter(w, c)
  BY <1>1, <1>11, ResumesAwaiter
<1>. QED  BY <1>7, <1>8, <1>9, <1>10, <1>11

LEMMA GroupInitInv == TG!GroupInit => CoInv
<1>. SUFFICES ASSUME TG!GroupInit PROVE CoInv
  OBVIOUS
<1>. USE DEF TG!GroupInit, TG!Init, TG!Null
<1>1. PlTypes
  BY McAssumption DEF PlTypes, CoPlaces
<1>2. Scheduled(stack, queue, place)
  <2>1. stack \in [TG!Threads -> Seq(Coroutines)] /\ \A w \in TG!Threads : stack[w] = <<>>
    BY EmptyList
  <2>2. \A c \in Coroutines : place[c] \in Away
    BY DEF Away
  <2>. QED  BY <2>1, <2>2, EmptyList DEF Scheduled
<1>3. Unlocked # Locked
  BY McAssumption
<1>4. MuInv
  <2>1. \A c \in Coroutines : ~Holds(c) /\ place[c] = "none" /\ locker[c] = Unlocked
    BY DEF Holds
  <2>2. IsList(<<>>, tail, succ, Unlocked)
    BY EmptyIsList
  <2>3. Lists(<<>>, <<>>)
    BY <1>3, <2>1, <2>2, EmptyList, McAssumption DEF Lists
  <2>. QED  BY <2>3, EmptyList DEF MuInv, MuTypes
<1>5. WgInv
  <2>1. \A c \in Coroutines : ~Fires(c) /\ place[c] = "none" /\ awaiter[c] = Unlocked
    BY DEF Fires
  <2>2. IsList(<<>>, last, link, Unlocked) /\ last # Locked
    BY <1>3, EmptyIsList
  <2>3. Lined(<<>>, <<>>)
    BY <2>1, <2>2, EmptyList DEF Lined
  <2>4. owes \subseteq Coroutines
    OBVIOUS
  <2>5. count = Cardinality(owes)
    BY DEF TG!Cardinality, Cardinality
  <2>. QED  BY <2>3, <2>4, <2>5, EmptyList DEF WgInv, WgTypes
<1>. QED  BY <1>1, <1>2, <1>4, <1>5 DEF CoInv

LEMMA GroupNextInv == CoInv /\ [TG!GroupNext]_TG!allVars => CoInv'
<1>. SUFFICES ASSUME CoInv, [TG!GroupNext]_TG!allVars PROVE CoInv'
  OBVIOUS
<1>1. CASE UNCHANGED TG!allVars
  <2>1. UNCHANGED <<head, tail, succ, locker, stack, queue, closing, fate, place,
                    uses, count, owes, last, link, awaiter>>
    BY <1>1 DEF TG!allVars, TG!vars, TG!lock, TG!pool, TG!groupVars
  <2>2. PlTypes' /\ Scheduled(stack', queue', place')
    BY <2>1 DEF CoInv, PlTypes, CoPlaces
  <2>3. MuInv'
    BY <2>1 DEF CoInv, MuInv, MuTypes, Lists, Holds
  <2>4. WgInv'
    BY <2>1 DEF CoInv, WgInv, WgTypes, Lined, Fires
  <2>. QED  BY <2>2, <2>3, <2>4 DEF CoInv
<1>2. CASE TG!GroupNext
  <2>1. CoTypes /\ Scheduled(stack, queue, place) /\ MuInv /\ WgInv
    BY DEF CoInv, CoTypes, MuInv, WgInv
  <2>2. PICK T \in Seq(Coroutines), H \in Seq(Coroutines) : Lists(T, H)
    BY <2>1 DEF MuInv
  <2>3. PICK A \in Seq(Coroutines), B \in Seq(Coroutines) : Lined(A, B)
    BY <2>1 DEF WgInv
  <2>. QED  BY <1>2, <2>1, <2>2, <2>3, PlKeeps, ScheduledKeeps, MuKeeps, WgKeeps DEF CoInv
<1>. QED  BY <1>1, <1>2

LEMMA CoInvariance == McSpec => []CoInv
BY GroupInitInv, GroupNextInv, PTL DEF McSpec, TG!FairSpec
-----------------------------------------------------------------------------
(* From the invariant to the property that TLC checks.                     *)

\* A set of threads, or of coroutines, that has at most one element.
LEMMA Counted ==
    ASSUME NEW S, \A x, y \in S : x = y
    PROVE  TG!Cardinality(S) = IF S = {} THEN 0 ELSE 1
<1>1. Cardinality(S) = IF S = {} THEN 0 ELSE 1
  <2>1. CASE S = {}
    BY <2>1, FS_EmptySet
  <2>2. CASE S # {}
    <3>1. PICK x \in S : S = {x}
      BY <2>2
    <3>. QED  BY <2>2, <3>1, FS_Singleton
  <2>. QED  BY <2>1, <2>2
<1>. QED  BY <1>1 DEF TG!Cardinality, Cardinality

LEMMA TimesOf ==
    ASSUME NEW s \in Seq(Coroutines), Distinct(s), NEW c
    PROVE  /\ TG!Times(s, c) = IF c \in Elems(s) THEN 1 ELSE 0
           /\ TG!Contains(s, c) <=> c \in Elems(s)
<1>1. DOMAIN s = 1..Len(s)
  BY ListFacts
<1>. DEFINE S == {i \in DOMAIN s : s[i] = c}
<1>2. (\A x, y \in S : x = y) /\ (S = {} <=> c \notin Elems(s))
  BY <1>1 DEF Distinct, Elems
<1>3. TG!Cardinality(S) = IF S = {} THEN 0 ELSE 1
  BY <1>2, Counted
<1>. QED  BY <1>2, <1>3 DEF TG!Times, TG!Contains, Elems

LEMMA ElemsOfConcat ==
    ASSUME NEW s \in Seq(Coroutines), NEW t \in Seq(Coroutines)
    PROVE  /\ s \o t \in Seq(Coroutines) /\ Elems(s \o t) = Elems(s) \cup Elems(t)
           /\ Distinct(s) /\ Distinct(t) /\ Elems(s) \cap Elems(t) = {} => Distinct(s \o t)
<1>. DEFINE m == Len(s)
            n == Len(t)
            r == s \o t
<1>1. /\ r \in Seq(Coroutines) /\ Len(r) = m + n
      /\ \A i \in 1..m + n : r[i] = IF i <= m THEN s[i] ELSE t[i-m]
  BY ConcatProperties
<1>2. m \in Nat /\ n \in Nat
  BY ListFacts
<1>3. /\ \A i \in 1..m : i \in 1..m + n /\ i <= m
      /\ \A i \in 1..n : i + m \in 1..m + n /\ ~(i + m <= m) /\ (i + m) - m = i
      /\ \A i \in 1..m + n : \/ i \in 1..m /\ i <= m
                             \/ ~(i <= m) /\ i - m \in 1..n
      /\ \A i, j \in 1..m + n : i - m = j - m => i = j
  BY <1>2
<1>. HIDE DEF r, m, n
<1>4. Elems(s) = {s[i] : i \in 1..m} /\ Elems(t) = {t[i] : i \in 1..n} /\ Elems(r) = {r[i] : i \in 1..m + n}
  BY <1>1 DEF Elems, m, n
<1>5. /\ \A i \in 1..m : r[i] = s[i]
      /\ \A i \in 1..n : r[i+m] = t[i]
      /\ \A i \in 1..m + n : (i <= m /\ r[i] = s[i]) \/ (~(i <= m) /\ r[i] = t[i-m])
  BY <1>1, <1>3
<1>6. Elems(r) = Elems(s) \cup Elems(t)
  <2>1. \A x \in Elems(r) : x \in Elems(s) \cup Elems(t)
    BY <1>3, <1>4, <1>5
  <2>2. \A x \in Elems(s) \cup Elems(t) : x \in Elems(r)
    BY <1>3, <1>4, <1>5
  <2>. QED  BY <2>1, <2>2
<1>7. ASSUME Distinct(s), Distinct(t), Elems(s) \cap Elems(t) = {} PROVE Distinct(r)
  <2>. SUFFICES ASSUME NEW i \in 1..m + n, NEW j \in 1..m + n, r[i] = r[j] PROVE i = j
    BY <1>1 DEF Distinct
  <2>1. CASE i <= m /\ j <= m
    BY <1>3, <1>5, <1>7, <2>1 DEF Distinct, m
  <2>2. CASE ~(i <= m) /\ ~(j <= m)
    <3>1. i - m \in 1..n /\ j - m \in 1..n /\ t[i-m] = t[j-m]
      BY <1>3, <1>5, <2>2
    <3>. QED  BY <1>3, <1>7, <3>1 DEF Distinct, n
  <2>3. CASE i <= m /\ ~(j <= m)
    <3>1. s[i] \in Elems(s) /\ t[j-m] \in Elems(t) /\ s[i] = t[j-m]
      BY <1>3, <1>4, <1>5, <2>3
    <3>. QED  BY <1>7, <3>1
  <2>4. CASE ~(i <= m) /\ j <= m
    <3>1. s[j] \in Elems(s) /\ t[i-m] \in Elems(t) /\ s[j] = t[i-m]
      BY <1>3, <1>4, <1>5, <2>4
    <3>. QED  BY <1>7, <3>1
  <2>. QED  BY <2>1, <2>2, <2>3, <2>4
<1>. QED  BY <1>1, <1>6, <1>7 DEF r

\* The waiters are those at tail_, then those at head_, the last one first.
LEMMA WaitersAre ==
    ASSUME NEW T \in Seq(Coroutines), NEW H \in Seq(Coroutines), Lists(T, H)
    PROVE  /\ TG!Waiters = T \o TG!Reverse(H) /\ TG!Waiters \in Seq(Coroutines)
           /\ Distinct(TG!Waiters) /\ Elems(TG!Waiters) = Elems(T) \cup Elems(H)
<1>1. TG!Chain(tail) = T /\ Distinct(T)
  <2>1. IsList(T, tail, succ, Unlocked)
    BY DEF Lists
  <2>. QED  BY <2>1, FollowIsList, McAssumption DEF IsList, TG!Chain
<1>2. TG!Chain(head) = H /\ Distinct(H)
  <2>1. CASE head = Unlocked
    <3>1. H = <<>> /\ IsList(H, head, succ, Unlocked)
      BY <2>1, EmptyIsList DEF Lists
    <3>. QED  BY <3>1, FollowIsList, McAssumption DEF IsList, TG!Chain
  <2>2. CASE head # Unlocked
    <3>1. IsList(H, head, succ, Locked)
      BY <2>2 DEF Lists
    <3>. QED  BY <3>1, FollowIsList, McAssumption DEF IsList, TG!Chain
  <2>. QED  BY <2>1, <2>2
<1>3. /\ TG!Reverse(H) \in Seq(Coroutines) /\ Distinct(TG!Reverse(H))
      /\ Elems(TG!Reverse(H)) = Elems(H) /\ Elems(T) \cap Elems(H) = {}
  BY <1>2, ElemsOfReverse DEF Lists
<1>. QED  BY <1>1, <1>2, <1>3, ElemsOfConcat DEF TG!Waiters

\* On the stacks and in the queue.
LEMMA OnStacks ==
    ASSUME Scheduled(stack, queue, place), NEW c \in Coroutines
    PROVE  /\ \A w \in TG!Threads : TG!Times(stack[w], c) <= 1
           /\ TG!Contains(queue, c) <=> c \in Elems(queue)
           /\ TG!Times(queue, c) = IF c \in Elems(queue) THEN 1 ELSE 0
           /\ TG!Cardinality({w \in TG!Threads : TG!Contains(stack[w], c)})
                = IF place[c] \in Away \/ c \in Elems(queue) THEN 0 ELSE 1
<1>1. \A w \in TG!Threads : /\ TG!Times(stack[w], c) = IF c \in Elems(stack[w]) THEN 1 ELSE 0
                            /\ TG!Contains(stack[w], c) <=> c \in Elems(stack[w])
  BY TimesOf DEF Scheduled
<1>2. \A w \in TG!Threads : TG!Times(stack[w], c) <= 1
  BY <1>1
<1>3. /\ TG!Times(queue, c) = IF c \in Elems(queue) THEN 1 ELSE 0
      /\ TG!Contains(queue, c) <=> c \in Elems(queue)
  BY TimesOf DEF Scheduled
<1>. DEFINE S == {w \in TG!Threads : TG!Contains(stack[w], c)}
<1>4. S = {w \in TG!Threads : c \in Elems(stack[w])}
  BY <1>1
<1>5. (\A v, w \in S : v = w) /\ (S = {} <=> place[c] \in Away \/ c \in Elems(queue))
  BY <1>4 DEF Scheduled
<1>6. TG!Cardinality(S) = IF S = {} THEN 0 ELSE 1
  BY <1>5, Counted
<1>. QED  BY <1>2, <1>3, <1>5, <1>6

LEMMA MutexInPlace == CoInv /\ uses = "mutex" => TG!CoroutinesInPlace
<1>. SUFFICES ASSUME CoInv, uses = "mutex" PROVE TG!CoroutinesInPlace
  OBVIOUS
<1>1. CoTypes /\ Scheduled(stack, queue, place)
  BY DEF CoInv, MuInv, WgInv, CoTypes
<1>2. PICK T \in Seq(Coroutines), H \in Seq(Coroutines) : Lists(T, H)
  BY DEF CoInv, MuInv
<1>3. TG!TypeOK
  BY <1>1 DEF CoTypes, MuTypes, PlTypes, CoPlaces, Scheduled, TG!TypeOK
<1>4. ASSUME NEW c \in Coroutines PROVE TG!Places(c)
  <2>1. /\ place[c] \in Away <=> place[c] \in {"none", "parked"}
        /\ c \in Elems(queue) => place[c] \in {"outside", "critical"}
    BY <1>1 DEF CoTypes, PlTypes, CoPlaces, Scheduled, Away
  <2>2. TG!Times(TG!Waiters, c) = IF c \in Elems(T) \cup Elems(H) THEN 1 ELSE 0
    BY <1>2, WaitersAre, TimesOf
  <2>. DEFINE S == {d \in Coroutines : locker[d] = c}
  <2>3. c # Unlocked
    BY McAssumption
  <2>4. (\A d, e \in S : d = e) /\ (S # {} => c \notin Elems(T) \cup Elems(H))
    BY <1>2, <2>3 DEF Lists, Holds
  <2>5. TG!Cardinality(S) = IF S = {} THEN 0 ELSE 1
    BY <2>4, Counted
  <2>6. place[c] = "parked" <=> c \in Elems(T) \cup Elems(H) \/ S # {}
    BY <1>2 DEF Lists
  <2>7. TG!Times(TG!Waiters, c) + TG!Cardinality(S) = IF place[c] = "parked" THEN 1 ELSE 0
    BY <2>2, <2>4, <2>5, <2>6
  <2>. HIDE DEF S
  <2>8. /\ \A w \in TG!Threads : TG!Times(stack[w], c) <= 1
        /\ TG!Contains(queue, c) <=> c \in Elems(queue)
        /\ TG!Times(queue, c) = IF c \in Elems(queue) THEN 1 ELSE 0
        /\ TG!Cardinality({w \in TG!Threads : TG!Contains(stack[w], c)})
                = IF place[c] \in Away \/ c \in Elems(queue) THEN 0 ELSE 1
    BY <1>1, OnStacks
  <2>9. TG!Times(queue, c) = 0 \/ (TG!Times(queue, c) = 1 /\ place[c] \in {"outside", "critical"})
    BY <2>1, <2>8
  <2>. QED  BY <2>1, <2>7, <2>8, <2>9 DEF TG!Places, S
<1>. QED  BY <1>3, <1>4 DEF TG!CoroutinesInPlace, TG!InOnePlace

LEMMA GroupInPlace == CoInv /\ uses = "waitgroup" => TG!AwaitersInPlace
<1>. SUFFICES ASSUME CoInv, uses = "waitgroup" PROVE TG!AwaitersInPlace
  OBVIOUS
<1>1. CoTypes /\ Scheduled(stack, queue, place)
  BY DEF CoInv, MuInv, WgInv, CoTypes
<1>2. PICK A \in Seq(Coroutines), B \in Seq(Coroutines) : Lined(A, B)
  BY DEF CoInv, WgInv
<1>3. TG!Awaiters(last) = A /\ Distinct(A)
  <2>1. CASE last = Locked
    <3>1. IsList(A, last, link, Locked)
      BY <1>2, <2>1, EmptyIsList DEF Lined
    <3>. QED  BY <3>1, FollowIsList, McAssumption DEF TG!Awaiters, IsList
  <2>2. CASE last # Locked
    BY <1>2, <2>2, FollowIsList, McAssumption DEF TG!Awaiters, IsList, Lined
  <2>. QED  BY <2>1, <2>2
<1>4. \A d \in Coroutines : TG!Awaiters(awaiter[d]) = IF place[d] = "firing" THEN B ELSE <<>>
  <2>. TAKE d \in Coroutines
  <2>1. CASE place[d] = "firing"
    BY <1>2, <2>1, FollowIsList, McAssumption DEF TG!Awaiters, Lined
  <2>2. CASE place[d] # "firing"
    <3>1. IsList(<<>>, awaiter[d], link, Unlocked)
      BY <1>2, <2>2, EmptyIsList DEF Lined
    <3>. QED  BY <2>2, <3>1, FollowIsList, McAssumption DEF TG!Awaiters
  <2>. QED  BY <2>1, <2>2
<1>5. ASSUME NEW c \in Coroutines
      PROVE  /\ TG!Times(TG!Awaiters(last), c)
                  + TG!Cardinality({d \in Coroutines : TG!Contains(TG!Awaiters(awaiter[d]), c)})
                = IF place[c] = "waiting" THEN 1 ELSE 0
             /\ TG!Times(queue, c) + TG!Cardinality({w \in TG!Threads : TG!Contains(stack[w], c)})
                = IF place[c] \in {"none", "waiting"} THEN 0 ELSE 1
  <2>1. TG!Times(TG!Awaiters(last), c) = IF c \in Elems(A) THEN 1 ELSE 0
    BY <1>3, TimesOf
  <2>. DEFINE S == {d \in Coroutines : TG!Contains(TG!Awaiters(awaiter[d]), c)}
  <2>2. \A d \in Coroutines : d \in S <=> place[d] = "firing" /\ c \in Elems(B)
    <3>1. Distinct(B) \/ \A d \in Coroutines : place[d] # "firing"
      BY <1>2 DEF Lined, IsList
    <3>2. \A d \in Coroutines : place[d] # "firing" => ~TG!Contains(TG!Awaiters(awaiter[d]), c)
      BY <1>4, EmptyList, TimesOf
    <3>3. \A d \in Coroutines : place[d] = "firing" =>
             (TG!Contains(TG!Awaiters(awaiter[d]), c) <=> c \in Elems(B))
      BY <1>4, <3>1, TimesOf
    <3>. QED  BY <3>2, <3>3
  <2>3. S \subseteq Coroutines
    OBVIOUS
  <2>. HIDE DEF S
  <2>4. (\A d, e \in S : d = e) /\ (S # {} <=> c \in Elems(B))
    BY <1>2, <2>2, <2>3, EmptyList DEF Lined, Fires
  <2>5. TG!Cardinality(S) = IF S = {} THEN 0 ELSE 1
    BY <2>4, Counted
  <2>6. TG!Times(TG!Awaiters(last), c) + TG!Cardinality(S) = IF place[c] = "waiting" THEN 1 ELSE 0
    BY <1>2, <2>1, <2>4, <2>5 DEF Lined
  <2>7. /\ TG!Times(queue, c) = IF c \in Elems(queue) THEN 1 ELSE 0
        /\ TG!Cardinality({w \in TG!Threads : TG!Contains(stack[w], c)})
                = IF place[c] \in Away \/ c \in Elems(queue) THEN 0 ELSE 1
    BY <1>1, OnStacks
  <2>8. /\ place[c] \in Away <=> place[c] \in {"none", "waiting"}
        /\ c \in Elems(queue) => place[c] \notin Away
    BY <1>1 DEF CoTypes, PlTypes, CoPlaces, Scheduled, Away
  <2>9. TG!Times(queue, c) + TG!Cardinality({w \in TG!Threads : TG!Contains(stack[w], c)})
                = IF place[c] \in {"none", "waiting"} THEN 0 ELSE 1
    BY <2>7, <2>8
  <2>. QED  BY <2>6, <2>9 DEF S
<1>6. last = Locked => owes = {}
  BY <1>2 DEF Lined
<1>. QED  BY <1>5, <1>6 DEF TG!AwaitersInPlace, TG!Fired

\* Neither the task mutex nor the wait group loses a coroutine that waits, reaches the
\* frame of one that has gone on or resumes one twice: for any number of coroutines and
\* workers, also when Stop destroys coroutines: those that have the mutex, and those that
\* owe a Done.
THEOREM TasksAreInPlace == McSpec => []TasksInPlace
<1>1. CoInv => TasksInPlace
  BY MutexInPlace, GroupInPlace DEF CoInv, PlTypes, TasksInPlace, TG!TasksInPlace
<1>. QED  BY <1>1, CoInvariance, PTL
-----------------------------------------------------------------------------
(* The deadlock of Stop.                                                  *)

\* What Stop calls runs under the coroutine that it destroys, and a coroutine that is
\* stuck is called by it and does not move any more.
StopInv ==
    /\ stack[Stopper] # <<>> => closing = "in" /\ fate[Head(stack[Stopper])] = "doomed"
    /\ \A c \in Coroutines : fate[c] = "stuck" =>
          c \in Elems(stack[Stopper]) /\ place[c] \in {"outside", "critical"}

LEMMA HeadStays ==
    ASSUME NEW s \in Seq(Coroutines), s # <<>>
    PROVE  /\ Head(s) \in Elems(s)
           /\ \A x \in Coroutines : Head(Append(s, x)) = Head(s)
           /\ TG!Front(s) # <<>> => Head(TG!Front(s)) = Head(s)
<1>1. Len(s) \in Nat /\ Len(s) # 0 /\ s \in [1..Len(s) -> Coroutines] /\ Head(s) = s[1]
  BY ListFacts, HeadTailProperties
<1>2. Head(s) \in Elems(s)
  BY <1>1, ElemsOfTail
<1>3. ASSUME NEW x \in Coroutines PROVE Head(Append(s, x)) = Head(s)
  BY <1>1
<1>4. ASSUME TG!Front(s) # <<>> PROVE Head(TG!Front(s)) = Head(s)
  <2>1. Len(s) - 1 \in 0..Len(s) /\ 1 \in 1..Len(s) + 1
    BY <1>1
  <2>2. /\ SubSeq(s, 1, Len(s) - 1) \in Seq(Coroutines)
        /\ \A i \in 1..Len(SubSeq(s, 1, Len(s) - 1)) : SubSeq(s, 1, Len(s) - 1)[i] = s[1 + i - 1]
    BY <1>1, <2>1, SubSeqProperties
  <2>3. /\ TG!Front(s) \in Seq(Coroutines)
        /\ \A i \in 1..Len(TG!Front(s)) : TG!Front(s)[i] = s[1 + i - 1]
    BY <2>2 DEF TG!Front
  <2>4. Len(TG!Front(s)) \in Nat /\ Len(TG!Front(s)) # 0 /\ Head(TG!Front(s)) = TG!Front(s)[1]
    BY <1>4, <2>3, ListFacts, HeadTailProperties
  <2>5. TG!Front(s)[1] = s[1 + 1 - 1]
    BY <2>3, <2>4
  <2>. QED  BY <1>1, <2>4, <2>5
<1>. QED  BY <1>2, <1>3, <1>4

\* A step that calls, returns or does neither on one thread, and lets no coroutine be
\* destroyed or stuck anew.
LEMMA StopKeepsCalls ==
    ASSUME Scheduled(stack, queue, place), StopInv, NEW w \in TG!Threads, stack[w] # <<>>,
           fate' = fate, closing' = closing,
           \A d \in Coroutines : fate[d] = "stuck" =>
              place'[d] \in {"outside", "critical"} /\ d # TG!Last(stack[w]),
           \/ stack' = stack
           \/ stack' = [stack EXCEPT ![w] = TG!Front(@)]
           \/ \E x \in Coroutines : stack' = [stack EXCEPT ![w] = Append(@, x)]
    PROVE  StopInv'
<1>1. stack \in [TG!Threads -> Seq(Coroutines)] /\ Stopper \in TG!Threads
  BY DEF Scheduled, TG!Threads
<1>. DEFINE s == stack[Stopper]
            t == stack'[Stopper]
<1>2. \/ t = s
      \/ w = Stopper /\ t = TG!Front(s)
      \/ w = Stopper /\ \E x \in Coroutines : t = Append(s, x)
  BY <1>1
<1>3. /\ t # <<>> => s # <<>> /\ Head(t) = Head(s)
      /\ \A d \in Elems(s) : d \in Elems(t) \/ (w = Stopper /\ d = TG!Last(s))
  <2>1. s \in Seq(Coroutines) /\ (w = Stopper => s # <<>>)
    BY <1>1
  <2>. HIDE DEF s, t
  <2>2. CASE t = s
    BY <2>2
  <2>3. CASE w = Stopper /\ t = TG!Front(s)
    BY <2>1, <2>3, HeadStays, ElemsOfFront
  <2>4. CASE w = Stopper /\ \E x \in Coroutines : t = Append(s, x)
    BY <2>1, <2>4, HeadStays, ElemsOfAppend
  <2>. QED  BY <1>2, <2>2, <2>3, <2>4
<1>. HIDE DEF s, t
<1>4. /\ s # <<>> => closing = "in" /\ fate[Head(s)] = "doomed"
      /\ \A d \in Coroutines : fate[d] = "stuck" => d \in Elems(s)
  BY DEF StopInv, s
<1>5. t # <<>> => closing' = "in" /\ fate'[Head(t)] = "doomed"
  BY <1>3, <1>4
<1>6. \A d \in Coroutines : fate'[d] = "stuck" => d \in Elems(t)
  BY <1>3, <1>4 DEF s
<1>. QED  BY <1>5, <1>6 DEF StopInv, t

LEMMA StopKeeps ==
    ASSUME CoTypes, Scheduled(stack, queue, place), TG!GroupNext, StopInv,
           NEW T, NEW H, Lists(T, H), NEW A, NEW B, Lined(A, B)
    PROVE  StopInv'
<1>0. /\ place \in [Coroutines -> CoPlaces]
      /\ fate \in [Coroutines -> {"lives", "doomed", "stuck"}]
      /\ stack \in [TG!Threads -> Seq(Coroutines)] /\ queue \in Seq(Coroutines)
      /\ Stopper \in TG!Threads
  BY DEF CoTypes, PlTypes, TG!Threads, Scheduled
<1>1. ASSUME NEW c \in Coroutines, TG!FireAndForget(c) PROVE StopInv'
  <2>1. /\ place[c] = "none" /\ place' = [place EXCEPT ![c] = "outside"]
        /\ stack' = stack /\ fate' = fate /\ closing' = closing
    BY <1>1 DEF TG!FireAndForget, TG!Move, TG!Put
  <2>. QED  BY <1>0, <2>1 DEF StopInv
<1>2. ASSUME NEW w \in TG!Threads, w # Stopper, TG!Take(w) PROVE StopInv'
  BY <1>0, <1>2 DEF TG!Take, StopInv
<1>3. CASE TG!Discard
  <2>1. \A c \in Coroutines : fate[c] # "stuck"
    BY <1>3, EmptyList DEF TG!Discard, StopInv
  <2>2. Head(queue) \in Coroutines /\ Head(<<Head(queue)>>) = Head(queue)
    BY <1>0, <1>3, ElemsOfTail DEF TG!Discard
  <2>3. /\ stack'[Stopper] = <<Head(queue)>> /\ closing' = "in"
        /\ fate' = [fate EXCEPT ![Head(queue)] = "doomed"]
    BY <1>0, <1>3 DEF TG!Discard, TG!Destroyed
  <2>. QED  BY <1>0, <2>1, <2>2, <2>3 DEF StopInv
<1>4. CASE TG!Close \/ TG!Closed
  BY <1>4 DEF TG!Close, TG!Closed, StopInv
<1>. SUFFICES ASSUME NEW w \in TG!Threads, NEW c \in Coroutines,
                     \/ TG!TeleportTo(w, c) \/ TG!End(w, c)
                     \/ TG!TryLock(w, c) \/ TG!TryLockOrEnqueue(w, c) \/ TG!TakeTail(w, c)
                     \/ TG!Release(w, c) \/ TG!Exchange(w, c) \/ TG!Resume(w, c)
                     \/ TG!CheckFire(w, c) \/ TG!Enqueue(w, c) \/ TG!Done(w, c)
                     \/ TG!Exchanged(w, c) \/ TG!ResumeAwaiter(w, c)
              PROVE  StopInv'
  BY <1>1, <1>2, <1>3, <1>4, TaskSteps
<1>. USE DEF TG!Move
<1>5. TG!Runs(w, c)
  BY DEF TG!TeleportTo, TG!End, TG!TryLock, TG!TryLockOrEnqueue, TG!TakeTail, TG!Release,
         TG!Exchange, TG!Resume, TG!CheckFire, TG!Enqueue, TG!Done, TG!Exchanged,
         TG!ResumeAwaiter, TG!Lives
<1>6. /\ stack[w] # <<>> /\ TG!Last(stack[w]) = c
      /\ place[c] \notin Away /\ c \notin Elems(queue)
  BY <1>5, Running
<1>7. /\ c \in Elems(stack[w]) /\ Distinct(stack[w])
      /\ w # Stopper => c \notin Elems(stack[Stopper])
  BY <1>0, <1>6, ElemsOfFront DEF Scheduled
<1>8. stack[Stopper] # <<>> => Head(stack[Stopper]) \in Elems(stack[Stopper])
  BY <1>0, HeadStays
<1>9. CASE TG!TeleportTo(w, c)
  <2>1. place' = place /\ closing' = closing /\ fate[c] = "lives"
    BY <1>9 DEF TG!TeleportTo, TG!Lives
  <2>2. CASE TG!Put(c) /\ stack' = [stack EXCEPT ![w] = TG!Front(@)] /\ fate' = fate
    BY <1>6, <2>1, <2>2, StopKeepsCalls DEF StopInv
  <2>3. CASE closing = "out" /\ fate' = [fate EXCEPT ![c] = "doomed"] /\ stack' = stack
    BY <1>0, <2>1, <2>3 DEF StopInv
  <2>4. CASE w = Stopper /\ fate' = [fate EXCEPT ![c] = "stuck"] /\ stack' = stack
    <3>1. place[c] \in {"outside", "critical"}
      BY <1>9 DEF TG!TeleportTo
    <3>2. Head(stack[Stopper]) # c
      BY <1>6, <2>1, <2>4 DEF StopInv
    <3>. QED  BY <1>0, <1>7, <2>1, <2>4, <3>1, <3>2 DEF StopInv
  <2>. QED  BY <1>9, <2>2, <2>3, <2>4 DEF TG!TeleportTo, TG!Execute, TG!Destroyed
<1>10. CASE TG!End(w, c)
  <2>1. /\ fate[c] # "stuck" /\ place' = [place EXCEPT ![c] = "none"] /\ closing' = closing
        /\ stack' = [stack EXCEPT ![w] = TG!Front(@)]
        /\ fate' = [fate EXCEPT ![c] = "lives"]
    BY <1>10 DEF TG!End
  <2>2. \A d \in Coroutines : fate'[d] = "stuck" <=> fate[d] = "stuck"
    BY <1>0, <2>1
  <2>3. CASE w # Stopper
    <3>1. stack'[Stopper] = stack[Stopper]
      BY <1>0, <2>1, <2>3
    <3>2. stack[Stopper] # <<>> => fate'[Head(stack[Stopper])] = fate[Head(stack[Stopper])]
      BY <1>0, <1>7, <1>8, <2>1, <2>3
    <3>. QED  BY <1>0, <2>1, <2>2, <3>1, <3>2 DEF StopInv
  <2>4. CASE w = Stopper
    <3>. DEFINE t == TG!Front(stack[Stopper])
    <3>1. stack'[Stopper] = t
      BY <1>0, <2>1, <2>4
    <3>2. /\ Elems(stack[Stopper]) = Elems(t) \cup {c} /\ c \notin Elems(t)
          /\ t \in Seq(Coroutines)
          /\ t # <<>> => Head(t) = Head(stack[Stopper]) /\ Head(t) \in Elems(t)
      BY <1>0, <1>6, <1>7, <2>4, ElemsOfFront, HeadStays
    <3>. HIDE DEF t
    <3>3. \A d \in Coroutines : fate'[d] = "stuck" =>
             d \in Elems(t) /\ place'[d] \in {"outside", "critical"}
      BY <1>0, <2>1, <2>2, <3>2 DEF StopInv
    <3>4. t # <<>> => closing' = "in" /\ fate'[Head(t)] = "doomed"
      BY <1>0, <1>6, <2>1, <2>4, <3>2 DEF StopInv
    <3>. QED  BY <3>1, <3>3, <3>4 DEF StopInv
  <2>. QED  BY <2>3, <2>4
<1>11. CASE TG!Resume(w, c)
  <2>1. /\ locker[c] \in Coroutines /\ place[c] = "resume"
        /\ place' = [place EXCEPT ![c] = "outside", ![locker[c]] = "critical"]
        /\ stack' = [stack EXCEPT ![w] = Append(@, locker[c])]
        /\ fate' = fate /\ closing' = closing
    BY <1>11, LockerParked DEF TG!Resume
  <2>2. \A d \in Coroutines : fate[d] = "stuck" =>
           place'[d] \in {"outside", "critical"} /\ d # c
    BY <1>0, <2>1 DEF StopInv
  <2>. QED  BY <1>6, <2>1, <2>2, StopKeepsCalls
<1>12. CASE TG!ResumeAwaiter(w, c)
  <2>1. /\ place[c] = "firing" /\ fate' = fate /\ closing' = closing
        /\ \/ place' = [place EXCEPT ![c] = "outside"] /\ stack' = stack
           \/ /\ awaiter[c] \in Coroutines
              /\ place' = [place EXCEPT ![awaiter[c]] = "outside"]
              /\ stack' = [stack EXCEPT ![w] = Append(@, awaiter[c])]
    BY <1>12, AwaiterWaits DEF TG!ResumeAwaiter, TG!Null
  <2>2. \A d \in Coroutines : fate[d] = "stuck" =>
           place'[d] \in {"outside", "critical"} /\ d # c
    BY <1>0, <2>1 DEF StopInv
  <2>. QED  BY <1>6, <2>1, <2>2, StopKeepsCalls
<1>13. CASE \/ TG!TryLock(w, c) \/ TG!TryLockOrEnqueue(w, c) \/ TG!TakeTail(w, c)
            \/ TG!Release(w, c) \/ TG!Exchange(w, c)
            \/ TG!CheckFire(w, c) \/ TG!Enqueue(w, c) \/ TG!Done(w, c)
            \/ TG!Exchanged(w, c)
  <2>1. /\ fate' = fate /\ closing' = closing
        /\ stack' = stack \/ stack' = [stack EXCEPT ![w] = TG!Front(@)]
        /\ place' = place \/ \E to : place' = [place EXCEPT ![c] = to]
    BY <1>13 DEF TG!TryLock, TG!TryLockOrEnqueue, TG!TakeTail, TG!Release, TG!Exchange,
         TG!CheckFire, TG!Enqueue, TG!Done, TG!Exchanged, TG!pool
  <2>2. fate[c] # "stuck" \/ place[c] \notin {"outside", "critical"}
    BY <1>13 DEF TG!TryLock, TG!TryLockOrEnqueue, TG!TakeTail, TG!Release, TG!Exchange,
         TG!CheckFire, TG!Enqueue, TG!Done, TG!Exchanged, TG!Lives
  <2>3. \A d \in Coroutines : fate[d] = "stuck" =>
           place'[d] \in {"outside", "critical"} /\ d # c
    BY <1>0, <2>1, <2>2 DEF StopInv
  <2>. QED  BY <1>6, <2>1, <2>3, StopKeepsCalls
<1>. QED  BY <1>9, <1>10, <1>11, <1>12, <1>13

\* However Stop of the pool meets the mutex, it deadlocks only in what the destructor of
\* a coroutine that it has discarded calls: never in a coroutine it was given to run.
THEOREM StopDeadlocksInDestructors ==
    McSpec => [](TG!Stuck => fate[Head(stack[Stopper])] = "doomed")
<1>1. TG!GroupInit => StopInv
  BY DEF TG!GroupInit, TG!Init, StopInv, TG!Threads
<1>2. CoInv /\ StopInv /\ [TG!GroupNext]_TG!allVars => StopInv'
  <2>. SUFFICES ASSUME CoInv, StopInv, [TG!GroupNext]_TG!allVars PROVE StopInv'
    OBVIOUS
  <2>1. CASE UNCHANGED TG!allVars
    BY <2>1 DEF TG!allVars, TG!vars, TG!pool, StopInv
  <2>2. CASE TG!GroupNext
    <3>1. CoTypes /\ Scheduled(stack, queue, place)
      BY DEF CoInv, CoTypes, MuInv, WgInv
    <3>2. PICK T \in Seq(Coroutines), H \in Seq(Coroutines) : Lists(T, H)
      BY DEF CoInv, MuInv
    <3>3. PICK A \in Seq(Coroutines), B \in Seq(Coroutines) : Lined(A, B)
      BY DEF CoInv, WgInv
    <3>. QED  BY <2>2, <3>1, <3>2, <3>3, StopKeeps
  <2>. QED  BY <2>1, <2>2
<1>3. StopInv => (TG!Stuck => fate[Head(stack[Stopper])] = "doomed")
  BY EmptyList DEF StopInv, TG!Stuck
<1>. QED  BY <1>1, <1>2, <1>3, CoInvariance, PTL DEF McSpec, TG!FairSpec
-----------------------------------------------------------------------------
(* The line of AbstractFifoLock.                                           *)

\* Those who wait, in the order in which they get the mutex.
Behind(T, H) == T \o TG!Reverse(H)

LEMMA FirstInLine ==
    ASSUME NEW s \in Seq(Coroutines), NEW x \in Coroutines
    PROVE  /\ <<x>> \o s \in Seq(Coroutines) /\ <<x>> \o s # <<>>
           /\ Head(<<x>> \o s) = x /\ Tail(<<x>> \o s) = s
           /\ \A c : TG!FL!Contains(<<x>> \o s, c) <=> c = x \/ c \in Elems(s)
           /\ \A c \in Coroutines : Append(<<x>> \o s, c) = <<x>> \o Append(s, c)
<1>. DEFINE r == <<x>> \o s
<1>1. <<x>> \in Seq(Coroutines) /\ Elems(<<x>>) = {x} /\ Len(<<x>>) = 1 /\ <<x>>[1] = x
  BY OneElement
<1>2. /\ r \in Seq(Coroutines) /\ Len(r) = 1 + Len(s) /\ Elems(r) = {x} \cup Elems(s)
      /\ \A i \in 1..1 + Len(s) : r[i] = IF i <= 1 THEN <<x>>[i] ELSE s[i-1]
  <2>1. Elems(r) = Elems(<<x>>) \cup Elems(s)
    BY <1>1, ElemsOfConcat
  <2>2. /\ r \in Seq(Coroutines) /\ Len(r) = Len(<<x>>) + Len(s)
        /\ \A i \in 1..Len(<<x>>) + Len(s) :
              r[i] = IF i <= Len(<<x>>) THEN <<x>>[i] ELSE s[i - Len(<<x>>)]
    BY <1>1, ConcatProperties
  <2>. QED  BY <1>1, <2>1, <2>2
<1>3. Len(s) \in Nat
  BY ListFacts
<1>4. \A c \in Coroutines : Append(r, c) = <<x>> \o Append(s, c)
  BY <1>1, <1>2, AppendIsConcat, ConcatAssociative, OneElement
<1>. HIDE DEF r
<1>5. r # <<>> /\ r[1] = x
  <2>1. 1 + Len(s) # 0 /\ 1 \in 1..1 + Len(s) /\ 1 <= 1
    BY <1>3
  <2>. QED  BY <1>1, <1>2, <2>1, ListFacts
<1>6. /\ Head(r) = x /\ Tail(r) \in Seq(Coroutines) /\ Len(Tail(r)) = Len(s)
      /\ \A i \in 1..Len(s) : Tail(r)[i] = s[i]
  <2>1. /\ Head(r) = r[1] /\ Tail(r) \in Seq(Coroutines) /\ Len(Tail(r)) = Len(r) - 1
        /\ \A i \in 1..Len(r) - 1 : Tail(r)[i] = r[i+1]
    BY <1>2, <1>5, ElemsOfTail
  <2>2. /\ 1 + Len(s) - 1 = Len(s)
        /\ \A i \in 1..Len(s) : i + 1 \in 1..1 + Len(s) /\ ~(i + 1 <= 1) /\ (i + 1) - 1 = i
    BY <1>3
  <2>. QED  BY <1>2, <1>5, <2>1, <2>2
<1>7. Tail(r) = s
  BY <1>6, SeqEqual
<1>8. \A c : TG!FL!Contains(r, c) <=> c = x \/ c \in Elems(s)
  BY <1>2 DEF TG!FL!Contains, Elems
<1>. QED  BY <1>2, <1>4, <1>5, <1>6, <1>7, <1>8 DEF r

LEMMA ReverseOfCons ==
    ASSUME NEW s \in Seq(Coroutines), NEW c \in Coroutines
    PROVE  TG!Reverse(<<c>> \o s) = Append(TG!Reverse(s), c)
<1>. DEFINE r == <<c>> \o s
            a == TG!Reverse(r)
            b == Append(TG!Reverse(s), c)
            n == Len(s)
<1>1. /\ r \in Seq(Coroutines) /\ Len(r) = 1 + n
      /\ \A i \in 1..1 + n : r[i] = IF i <= 1 THEN <<c>>[i] ELSE s[i-1]
  BY OneElement, ConcatProperties
<1>2. n \in Nat
  BY ListFacts
<1>. HIDE DEF r
<1>3. /\ a \in Seq(Coroutines) /\ Len(a) = 1 + n
      /\ \A i \in 1..1 + n : a[i] = r[1 + n - i + 1]
  BY <1>1, ElemsOfReverse
<1>4. /\ b \in Seq(Coroutines) /\ Len(b) = n + 1
      /\ \A i \in 1..n : b[i] = s[n - i + 1]
      /\ b[n + 1] = c
  BY ElemsOfReverse, AppendProperties
<1>. HIDE DEF a, b, n
<1>5. /\ \A i \in 1..1 + n : \/ i = n + 1 /\ 1 + n - i + 1 = 1
                             \/ /\ i \in 1..n /\ 1 + n - i + 1 \in 1..1 + n
                                /\ ~(1 + n - i + 1 <= 1) /\ (1 + n - i + 1) - 1 = n - i + 1
      /\ 1 \in 1..1 + n /\ 1 <= 1 /\ 1 + n = n + 1
  BY <1>2
<1>6. \A i \in 1..1 + n : a[i] = b[i]
  <2>1. r[1] = c
    BY <1>1, <1>5
  <2>. QED  BY <1>1, <1>3, <1>4, <1>5, <2>1
<1>7. a = b
  BY <1>3, <1>4, <1>5, <1>6, SeqEqual
<1>. QED  BY <1>7 DEF a, b, r

LEMMA BehindFacts ==
    ASSUME NEW T \in Seq(Coroutines), NEW H \in Seq(Coroutines)
    PROVE  /\ Behind(T, H) \in Seq(Coroutines) /\ Elems(Behind(T, H)) = Elems(T) \cup Elems(H)
           /\ \A c \in Coroutines : Behind(T, <<c>> \o H) = Append(Behind(T, H), c)
           /\ T # <<>> => Behind(T, H) = <<Head(T)>> \o Behind(Tail(T), H)
           /\ H # <<>> => Behind(<<>>, H) = <<Head(TG!Reverse(H))>> \o Behind(Tail(TG!Reverse(H)), <<>>)
           /\ Behind(<<>>, <<>>) = <<>>
<1>. DEFINE R == TG!Reverse(H)
<1>1. R \in Seq(Coroutines) /\ Elems(R) = Elems(H) /\ Len(R) = Len(H)
  BY ElemsOfReverse
<1>2. TG!Reverse(<<>>) = <<>>
  <2>1. TG!Reverse(<<>>) \in Seq(Coroutines) /\ Len(TG!Reverse(<<>>)) = 0
    BY EmptyList, ElemsOfReverse
  <2>. QED  BY <2>1, ListFacts
<1>3. ASSUME NEW s \in Seq(Coroutines), s # <<>> PROVE s = <<Head(s)>> \o Tail(s)
  <2>1. Head(s) \in Coroutines /\ Tail(s) \in Seq(Coroutines) /\ Len(Tail(s)) = Len(s) - 1
        /\ \A i \in 1..Len(s) - 1 : Tail(s)[i] = s[i+1]
        /\ Head(s) = s[1] /\ Len(s) \in Nat /\ Len(s) # 0
    BY <1>3, ElemsOfTail, ListFacts
  <2>. DEFINE r == <<Head(s)>> \o Tail(s)
  <2>2. /\ r \in Seq(Coroutines) /\ Len(r) = 1 + (Len(s) - 1)
        /\ \A i \in 1..1 + (Len(s) - 1) : r[i] = IF i <= 1 THEN <<Head(s)>>[i] ELSE Tail(s)[i-1]
    BY <2>1, OneElement, ConcatProperties
  <2>. HIDE DEF r
  <2>3. /\ 1 + (Len(s) - 1) = Len(s)
        /\ \A i \in 1..Len(s) : \/ i = 1 /\ i <= 1
                                \/ ~(i <= 1) /\ i - 1 \in 1..Len(s) - 1 /\ (i - 1) + 1 = i
    BY <2>1
  <2>4. \A i \in 1..Len(s) : r[i] = s[i]
    BY <2>1, <2>2, <2>3
  <2>5. r = s
    BY <2>2, <2>3, <2>4, SeqEqual
  <2>. QED  BY <2>5 DEF r
<1>4. Behind(T, H) \in Seq(Coroutines) /\ Elems(Behind(T, H)) = Elems(T) \cup Elems(H)
  BY <1>1, ElemsOfConcat DEF Behind
<1>5. \A c \in Coroutines : Behind(T, <<c>> \o H) = Append(Behind(T, H), c)
  <2>. TAKE c \in Coroutines
  <2>1. Behind(T, <<c>> \o H) = T \o (R \o <<c>>)
    BY <1>1, ReverseOfCons, AppendIsConcat DEF Behind
  <2>2. T \o (R \o <<c>>) = (T \o R) \o <<c>>
    BY <1>1, OneElement, ConcatAssociative
  <2>. QED  BY <1>4, <2>1, <2>2, AppendIsConcat DEF Behind
<1>6. T # <<>> => Behind(T, H) = <<Head(T)>> \o Behind(Tail(T), H)
  <2>. SUFFICES ASSUME T # <<>> PROVE Behind(T, H) = <<Head(T)>> \o Behind(Tail(T), H)
    OBVIOUS
  <2>1. Head(T) \in Coroutines /\ Tail(T) \in Seq(Coroutines) /\ T = <<Head(T)>> \o Tail(T)
    BY <1>3, ElemsOfTail
  <2>2. (<<Head(T)>> \o Tail(T)) \o R = <<Head(T)>> \o (Tail(T) \o R)
    BY <1>1, <2>1, OneElement, ConcatAssociative
  <2>. QED  BY <2>1, <2>2 DEF Behind
<1>7. H # <<>> => Behind(<<>>, H) = <<Head(R)>> \o Behind(Tail(R), <<>>)
  <2>. SUFFICES ASSUME H # <<>> PROVE Behind(<<>>, H) = <<Head(R)>> \o Behind(Tail(R), <<>>)
    OBVIOUS
  <2>1. R # <<>>
    BY <1>1, ListFacts
  <2>2. Tail(R) \in Seq(Coroutines) /\ R = <<Head(R)>> \o Tail(R)
    <3>. HIDE DEF R
    <3>. QED  BY <1>1, <1>3, <2>1, ElemsOfTail
  <2>3. Behind(<<>>, H) = R /\ Behind(Tail(R), <<>>) = Tail(R)
    BY <1>1, <1>2, <2>2, ConcatEmptySeq, Zenon DEF Behind
  <2>. QED  BY <2>2, <2>3
<1>8. Behind(<<>>, <<>>) = <<>>
  BY <1>2, EmptyList, ConcatEmptySeq DEF Behind
<1>. QED  BY <1>4, <1>5, <1>6, <1>7, <1>8
\* TG!line in the states that the code can be in.
LineShape ==
    /\ \A T, H \in Seq(Coroutines) : Lists(T, H) =>
          \A c \in Coroutines :
             /\ place[c] \in {"critical", "exchange"} =>
                   TG!line = <<c>> \o Behind(T, H) /\ TG!entered = TRUE
             /\ place[c] = "resume" =>
                   TG!line = <<locker[c]>> \o Behind(T, H) /\ TG!entered = FALSE
    /\ (\A c \in Coroutines : ~Holds(c)) => TG!line = <<>> /\ TG!entered = FALSE

LEMMA SetsToSeqs ==
    /\ TG!SetToSeq({}) = <<>>
    /\ \A x \in Coroutines : TG!SetToSeq({x}) = <<x>>
<1>1. TG!SetToSeq({}) = <<>>
  <2>1. TG!Cardinality({}) = 0
    BY FS_EmptySet DEF TG!Cardinality, Cardinality
  <2>2. 1..0 = {} /\ [i \in {} |-> 0] \in [{} -> {}] /\ TG!IsInjective([i \in {} |-> 0])
    BY DEF TG!IsInjective
  <2>3. TG!SetToSeq({}) = CHOOSE f \in [{} -> {}] : TG!IsInjective(f)
    BY <2>1, <2>2 DEF TG!SetToSeq
  <2>4. TG!SetToSeq({}) \in [{} -> {}]
    BY <2>2, <2>3
  <2>5. \A f \in [{} -> {}] : f = <<>>
    OBVIOUS
  <2>. QED  BY <2>4, <2>5
<1>2. ASSUME NEW x \in Coroutines PROVE TG!SetToSeq({x}) = <<x>>
  <2>1. TG!Cardinality({x}) = 1
    BY FS_Singleton DEF TG!Cardinality, Cardinality
  <2>2. 1..1 = {1} /\ <<x>> \in [{1} -> {x}] /\ TG!IsInjective(<<x>>)
    BY DEF TG!IsInjective
  <2>3. TG!SetToSeq({x}) = CHOOSE f \in [{1} -> {x}] : TG!IsInjective(f)
    BY <2>1, <2>2 DEF TG!SetToSeq
  <2>4. TG!SetToSeq({x}) \in [{1} -> {x}]
    BY <2>2, <2>3
  <2>5. \A f \in [{1} -> {x}] : f = <<x>>
    OBVIOUS
  <2>. QED  BY <2>4, <2>5
<1>. QED  BY <1>1, <1>2

LEMMA LineHasShape == CoInv => LineShape
<1>. SUFFICES ASSUME CoInv PROVE LineShape
  OBVIOUS
<1>1. MuTypes /\ PlTypes
  BY DEF CoInv, MuInv
<1>2. PICK S \in Seq(Coroutines), G \in Seq(Coroutines) : Lists(S, G)
  BY DEF CoInv, MuInv
<1>3. /\ \A c, d \in Coroutines : Holds(c) /\ Holds(d) => c = d
      /\ \A d \in Coroutines : locker[d] # Unlocked <=> place[d] = "resume"
      /\ \A d \in Coroutines : locker[d] \in Coroutines \cup {Unlocked}
  BY <1>1, <1>2 DEF Lists, MuTypes
<1>4. TG!line = TG!SetToSeq(TG!Owners) \o TG!SetToSeq(TG!Heirs) \o TG!Waiters
  BY DEF TG!line
<1>5. ASSUME NEW T \in Seq(Coroutines), NEW H \in Seq(Coroutines), Lists(T, H),
             NEW c \in Coroutines, place[c] \in {"critical", "exchange"}
      PROVE  TG!line = <<c>> \o Behind(T, H) /\ TG!entered = TRUE
  <2>1. TG!Owners = {c}
    BY <1>3, <1>5 DEF TG!Owners, Holds
  <2>2. TG!Heirs = {}
    BY <1>3, <1>5 DEF TG!Heirs, Holds
  <2>3. TG!Waiters = Behind(T, H) /\ Behind(T, H) \in Seq(Coroutines)
    BY <1>5, WaitersAre, BehindFacts DEF Behind
  <2>4. TG!SetToSeq(TG!Owners) = <<c>> /\ TG!SetToSeq(TG!Heirs) = <<>>
    BY <2>1, <2>2, SetsToSeqs
  <2>5. <<c>> \o <<>> = <<c>>
    BY OneElement, ConcatEmptySeq
  <2>6. TG!entered = TRUE
    BY <2>1 DEF TG!entered
  <2>. QED  BY <1>4, <2>3, <2>4, <2>5, <2>6
<1>6. ASSUME NEW T \in Seq(Coroutines), NEW H \in Seq(Coroutines), Lists(T, H),
             NEW c \in Coroutines, place[c] = "resume"
      PROVE  TG!line = <<locker[c]>> \o Behind(T, H) /\ TG!entered = FALSE
  <2>1. TG!Owners = {}
    BY <1>3, <1>6 DEF TG!Owners, Holds
  <2>2. TG!Heirs = {locker[c]} /\ locker[c] \in Coroutines
    BY <1>3, <1>6 DEF TG!Heirs, Holds
  <2>3. TG!Waiters = Behind(T, H) /\ Behind(T, H) \in Seq(Coroutines)
    BY <1>6, WaitersAre, BehindFacts DEF Behind
  <2>4. TG!SetToSeq(TG!Owners) = <<>> /\ TG!SetToSeq(TG!Heirs) = <<locker[c]>>
    BY <2>1, <2>2, SetsToSeqs
  <2>5. <<>> \o <<locker[c]>> = <<locker[c]>>
    BY <2>2, OneElement, ConcatEmptySeq
  <2>6. TG!entered = FALSE
    BY <2>1 DEF TG!entered
  <2>. QED  BY <1>4, <2>3, <2>4, <2>5, <2>6
<1>7. ASSUME \A c \in Coroutines : ~Holds(c) PROVE TG!line = <<>> /\ TG!entered = FALSE
  <2>1. TG!Owners = {} /\ TG!Heirs = {}
    BY <1>3, <1>7 DEF TG!Owners, TG!Heirs, Holds
  <2>2. head = Unlocked /\ S = <<>> /\ G = <<>>
    BY <1>2, <1>7 DEF Lists
  <2>3. TG!Waiters = <<>>
    BY <1>2, <2>2, WaitersAre, BehindFacts, EmptyList DEF Behind
  <2>4. <<>> \o <<>> \o <<>> = <<>>
    BY EmptyList, ConcatEmptySeq
  <2>5. TG!entered = FALSE
    BY <2>1 DEF TG!entered
  <2>. QED  BY <1>4, <2>1, <2>3, <2>4, <2>5, SetsToSeqs
<1>. QED  BY <1>5, <1>6, <1>7 DEF LineShape
\* Every step is one of the abstract lock or leaves its line as it is.
LEMMA FifoStep ==
    ASSUME CoInv, LineShape, LineShape', TG!GroupNext
    PROVE  TG!FL!Next \/ UNCHANGED <<TG!line, TG!entered>>
<1>0. CoTypes /\ Scheduled(stack, queue, place) /\ MuTypes /\ place \in [Coroutines -> CoPlaces]
  BY DEF CoInv, CoTypes, MuInv, WgInv, PlTypes
<1>1. PICK T \in Seq(Coroutines), H \in Seq(Coroutines) : Lists(T, H)
  BY DEF CoInv, MuInv
<1>2. PICK A \in Seq(Coroutines), B \in Seq(Coroutines) : Lined(A, B)
  BY DEF CoInv, WgInv
<1>3. /\ \A c \in Coroutines :
            /\ place[c] \in {"critical", "exchange"} =>
                  TG!line = <<c>> \o Behind(T, H) /\ TG!entered = TRUE
            /\ place[c] = "resume" =>
                  TG!line = <<locker[c]>> \o Behind(T, H) /\ TG!entered = FALSE
      /\ (\A c \in Coroutines : ~Holds(c)) => TG!line = <<>> /\ TG!entered = FALSE
  BY <1>1 DEF LineShape
<1>4. ASSUME NEW U \in Seq(Coroutines), NEW G \in Seq(Coroutines), Lists(U, G)',
             NEW c \in Coroutines
      PROVE  /\ place'[c] \in {"critical", "exchange"} =>
                   TG!line' = <<c>> \o Behind(U, G) /\ TG!entered' = TRUE
             /\ place'[c] = "resume" =>
                   TG!line' = <<locker'[c]>> \o Behind(U, G) /\ TG!entered' = FALSE
  BY <1>4 DEF LineShape, Behind
<1>5. (\A c \in Coroutines : ~Holds(c)') => TG!line' = <<>> /\ TG!entered' = FALSE
  BY DEF LineShape
<1>6. /\ Behind(T, H) \in Seq(Coroutines) /\ Elems(Behind(T, H)) = Elems(T) \cup Elems(H)
      /\ \A c \in Coroutines : Behind(T, <<c>> \o H) = Append(Behind(T, H), c)
      /\ T # <<>> => Behind(T, H) = <<Head(T)>> \o Behind(Tail(T), H)
      /\ H # <<>> => Behind(<<>>, H) = <<Head(TG!Reverse(H))>> \o Behind(Tail(TG!Reverse(H)), <<>>)
      /\ Behind(<<>>, <<>>) = <<>>
  BY BehindFacts
\* The steps that leave the line alone.
<1>7. ASSUME UNCHANGED <<head, tail, locker>>,
             succ' \in [Coroutines -> Coroutines \cup {Unlocked, Locked}],
             \A d \in Coroutines :
                /\ place[d] = "parked" => succ'[d] = succ[d]
                /\ \/ place'[d] = place[d]
                   \/ /\ place[d] \notin {"parked", "critical", "exchange", "resume"}
                      /\ place'[d] \notin {"parked", "critical", "exchange", "resume"}
      PROVE  UNCHANGED <<TG!line, TG!entered>>
  <2>1. Lists(T, H)'
    BY <1>0, <1>1, <1>7, ListsSame
  <2>2. CASE \A d \in Coroutines : ~Holds(d)
    BY <1>3, <1>5, <1>7, <2>2 DEF Holds
  <2>3. CASE \E d \in Coroutines : Holds(d)
    <3>1. PICK d \in Coroutines : Holds(d)
      BY <2>3
    <3>2. place'[d] = place[d] /\ locker'[d] = locker[d]
      BY <1>7, <3>1 DEF Holds
    <3>3. CASE place[d] = "resume"
      <4>1. TG!line' = <<locker'[d]>> \o Behind(T, H) /\ TG!entered' = FALSE
        BY <1>4, <2>1, <3>2, <3>3
      <4>2. TG!line = <<locker[d]>> \o Behind(T, H) /\ TG!entered = FALSE
        BY <1>3, <3>3
      <4>. QED  BY <3>2, <4>1, <4>2
    <3>4. CASE place[d] \in {"critical", "exchange"}
      BY <1>3, <1>4, <2>1, <3>2, <3>4
    <3>. QED  BY <3>1, <3>3, <3>4 DEF Holds
  <2>. QED  BY <2>2, <2>3
<1>8. ASSUME UNCHANGED <<head, tail, succ, locker>>,
             \A d \in Coroutines :
                \/ place'[d] = place[d]
                \/ /\ place[d] \notin {"parked", "critical", "exchange", "resume"}
                   /\ place'[d] \notin {"parked", "critical", "exchange", "resume"}
      PROVE  UNCHANGED <<TG!line, TG!entered>>
  BY <1>0, <1>7, <1>8 DEF MuTypes
<1>9. ASSUME NEW c \in Coroutines, TG!FireAndForget(c) PROVE UNCHANGED <<TG!line, TG!entered>>
  <2>1. /\ place[c] = "none" /\ place' = [place EXCEPT ![c] = "outside"]
        /\ UNCHANGED <<head, tail, succ, locker>>
    BY <1>9 DEF TG!FireAndForget, TG!Move, TG!lock
  <2>. QED  BY <1>0, <1>8, <2>1
<1>10. ASSUME \/ \E w \in TG!Threads : TG!Take(w)
              \/ TG!Close \/ TG!Discard \/ TG!Closed
              \/ \E w \in TG!Threads, c \in Coroutines : TG!TeleportTo(w, c)
       PROVE  UNCHANGED <<TG!line, TG!entered>>
  <2>1. UNCHANGED <<head, tail, succ, locker, place>>
    BY <1>10 DEF TG!Take, TG!Close, TG!Discard, TG!Closed, TG!TeleportTo, TG!lock
  <2>. QED  BY <1>8, <2>1
<1>. SUFFICES ASSUME NEW w \in TG!Threads, NEW c \in Coroutines,
                     \/ TG!End(w, c)
                     \/ TG!TryLock(w, c) \/ TG!TryLockOrEnqueue(w, c) \/ TG!TakeTail(w, c)
                     \/ TG!Release(w, c) \/ TG!Exchange(w, c) \/ TG!Resume(w, c)
                     \/ TG!CheckFire(w, c) \/ TG!Enqueue(w, c) \/ TG!Done(w, c)
                     \/ TG!Exchanged(w, c) \/ TG!ResumeAwaiter(w, c)
              PROVE  TG!FL!Next \/ UNCHANGED <<TG!line, TG!entered>>
  BY <1>9, <1>10, TaskSteps
<1>11. CASE \/ TG!End(w, c) \/ TG!CheckFire(w, c) \/ TG!Enqueue(w, c) \/ TG!Done(w, c)
            \/ TG!Exchanged(w, c)
  <2>1. /\ UNCHANGED <<head, tail, succ, locker>>
        /\ \E to \in {"none", "outside", "await", "waiting", "fire", "firing"} :
              place' = [place EXCEPT ![c] = to]
        /\ place[c] \in {"outside", "await", "fire"}
    BY <1>11 DEF TG!End, TG!CheckFire, TG!Enqueue, TG!Done, TG!Exchanged, TG!Move, TG!lock
  <2>. QED  BY <1>0, <1>8, <2>1
<1>12. CASE TG!ResumeAwaiter(w, c)
  <2>1. /\ UNCHANGED <<head, tail, succ, locker>> /\ place[c] = "firing"
        /\ \/ place' = [place EXCEPT ![c] = "outside"]
           \/ awaiter[c] # Unlocked /\ place' = [place EXCEPT ![awaiter[c]] = "outside"]
    BY <1>12 DEF TG!ResumeAwaiter, TG!Null, TG!lock
  <2>2. awaiter[c] # Unlocked => awaiter[c] \in Coroutines /\ place[awaiter[c]] = "waiting"
    BY <1>0, <1>2, <2>1, AwaiterWaits
  <2>. QED  BY <1>0, <1>8, <2>1, <2>2
\* The steps of the abstract lock.
<1>13. ASSUME place[c] \in {"outside", "enqueue"}, place' = [place EXCEPT ![c] = "critical"],
              head = Unlocked, head' = Locked, tail' = tail, locker' = locker,
              succ' \in [Coroutines -> Coroutines \cup {Unlocked, Locked}]
       PROVE  TG!FL!Next
  <2>1. Lists(<<>>, <<>>)'
    BY <1>0, <1>1, <1>13, GetsLock
  <2>2. TG!line = <<>>
    BY <1>1, <1>3, <1>13 DEF Lists
  <2>3. place'[c] = "critical"
    BY <1>0, <1>13
  <2>4. TG!line' = <<c>> \o <<>> /\ TG!entered' = TRUE
    <3>1. TG!line' = <<c>> \o Behind(<<>>, <<>>) /\ TG!entered' = TRUE
      BY <1>4, <2>1, <2>3, EmptyList
    <3>. QED  BY <1>6, <3>1
  <2>5. <<c>> \o <<>> = <<c>>
    BY OneElement, ConcatEmptySeq
  <2>6. TG!FL!TryEnter(c)
    BY <2>2, <2>4, <2>5 DEF TG!FL!TryEnter
  <2>. QED  BY <2>6 DEF TG!FL!Next
<1>14. CASE TG!TryLock(w, c)
  <2>1. /\ tail' = tail /\ locker' = locker /\ place[c] = "outside"
        /\ \/ /\ head = Unlocked /\ head' = Locked /\ place' = [place EXCEPT ![c] = "critical"]
              /\ succ' = [succ EXCEPT ![c] = Unlocked]
           \/ /\ head' = head /\ place' = [place EXCEPT ![c] = "enqueue"]
              /\ succ' = [succ EXCEPT ![c] = head]
    BY <1>14 DEF TG!TryLock, TG!Move
  <2>2. succ' \in [Coroutines -> Coroutines \cup {Unlocked, Locked}]
    BY <1>0, <2>1 DEF MuTypes
  <2>3. CASE head' = head /\ place' = [place EXCEPT ![c] = "enqueue"]
             /\ succ' = [succ EXCEPT ![c] = head]
    <3>1. \A d \in Coroutines :
              /\ place[d] = "parked" => succ'[d] = succ[d]
              /\ \/ place'[d] = place[d]
                 \/ /\ place[d] \notin {"parked", "critical", "exchange", "resume"}
                    /\ place'[d] \notin {"parked", "critical", "exchange", "resume"}
      BY <1>0, <2>1, <2>3 DEF MuTypes
    <3>. QED  BY <1>7, <2>1, <2>2, <2>3, <3>1
  <2>. QED  BY <1>13, <2>1, <2>2, <2>3
<1>15. CASE TG!TryLockOrEnqueue(w, c)
  <2>1. tail' = tail /\ locker' = locker /\ place[c] = "enqueue"
    BY <1>15 DEF TG!TryLockOrEnqueue, TG!Move
  <2>2. CASE /\ head = Unlocked /\ head' = Locked /\ succ' = succ
             /\ place' = [place EXCEPT ![c] = "critical"]
    BY <1>0, <1>13, <2>1, <2>2 DEF MuTypes
  <2>3. CASE /\ succ[c] # Unlocked /\ head = succ[c] /\ head' = c /\ succ' = succ
             /\ place' = [place EXCEPT ![c] = "parked"]
    <3>1. Lists(T, <<c>> \o H)' /\ <<c>> \o H \in Seq(Coroutines)
      BY <1>0, <1>1, <2>1, <2>3, Parks, FirstInLine
    <3>2. PICK d \in Coroutines : Holds(d)
      BY <1>1, <2>3 DEF Lists
    <3>3. d # c /\ place'[d] = place[d] /\ locker'[d] = locker[d]
      BY <1>0, <2>1, <2>3, <3>2 DEF Holds
    <3>. DEFINE x == IF place[d] = "resume" THEN locker[d] ELSE d
    <3>4. x \in Coroutines /\ x # c
      BY <1>0, <1>1, <2>1, <3>3, LockerParked
    <3>5. c \notin Elems(Behind(T, H))
      BY <1>1, <1>6, <2>1 DEF Lists
    <3>6. TG!line = <<x>> \o Behind(T, H)
      BY <1>3, <3>2 DEF Holds
    <3>7. TG!line' = <<x>> \o Append(Behind(T, H), c) /\ TG!entered' = TG!entered
      <4>1. Behind(T, <<c>> \o H) = Append(Behind(T, H), c)
        BY <1>6
      <4>2. CASE place[d] = "resume"
        <5>1. TG!line' = <<locker'[d]>> \o Behind(T, <<c>> \o H) /\ TG!entered' = FALSE
          BY <1>4, <3>1, <3>3, <4>2
        <5>. QED  BY <1>3, <3>3, <4>1, <4>2, <5>1
      <4>3. CASE place[d] \in {"critical", "exchange"}
        <5>1. TG!line' = <<d>> \o Behind(T, <<c>> \o H) /\ TG!entered' = TRUE
          BY <1>4, <3>1, <3>3, <4>3
        <5>2. x = d
          BY <4>3
        <5>. QED  BY <1>3, <4>1, <4>3, <5>1, <5>2
      <4>. QED  BY <3>2, <4>2, <4>3 DEF Holds
    <3>. HIDE DEF x
    <3>8. TG!line' = Append(TG!line, c) /\ ~TG!FL!Contains(TG!line, c)
      <4>. DEFINE s == Behind(T, H)
      <4>0. s \in Seq(Coroutines) /\ x \in Coroutines /\ c # x /\ c \notin Elems(s)
        BY <1>6, <3>4, <3>5
      <4>. HIDE DEF s
      <4>1. /\ ~TG!FL!Contains(<<x>> \o s, c)
            /\ Append(<<x>> \o s, c) = <<x>> \o Append(s, c)
        <5>1. /\ \A y : TG!FL!Contains(<<x>> \o s, y) <=> y = x \/ y \in Elems(s)
              /\ \A y \in Coroutines : Append(<<x>> \o s, y) = <<x>> \o Append(s, y)
          BY <4>0, FirstInLine
        <5>. QED  BY <4>0, <5>1
      <4>2. TG!line = <<x>> \o s /\ TG!line' = <<x>> \o Append(s, c)
        BY <3>6, <3>7 DEF s
      <4>. QED  BY <4>1, <4>2
    <3>9. TG!FL!Join(c)
      BY <3>7, <3>8 DEF TG!FL!Join
    <3>. QED  BY <3>9 DEF TG!FL!Next
  <2>4. CASE head' = head /\ place' = place /\ succ' = [succ EXCEPT ![c] = head]
    <3>1. \A d \in Coroutines : place[d] = "parked" => succ'[d] = succ[d]
      BY <1>0, <2>1, <2>4 DEF MuTypes
    <3>2. succ' \in [Coroutines -> Coroutines \cup {Unlocked, Locked}]
      BY <1>0, <2>4 DEF MuTypes
    <3>. QED  BY <1>7, <2>1, <2>4, <3>1, <3>2
  <2>. QED  BY <1>15, <2>2, <2>3, <2>4 DEF TG!TryLockOrEnqueue, TG!Move
\* Unlock gives the mutex away: the line is then what stood behind its owner.
<1>16. ASSUME place[c] \in {"critical", "exchange"},
              TG!line' = Behind(T, H), TG!entered' = FALSE
       PROVE  TG!FL!Next
  <2>1. TG!line = <<c>> \o Behind(T, H) /\ TG!entered = TRUE
    BY <1>3, <1>16
  <2>2. Head(TG!line) = c /\ Tail(TG!line) = Behind(T, H)
    BY <1>6, <2>1, FirstInLine
  <2>3. TG!FL!Leave(c)
    BY <1>16, <2>1, <2>2 DEF TG!FL!Leave
  <2>. QED  BY <2>3 DEF TG!FL!Next
<1>17. CASE TG!TakeTail(w, c)
  <2>1. /\ place[c] = "critical" /\ place' = [place EXCEPT ![c] = "resume"] /\ tail # Unlocked
        /\ locker' = [locker EXCEPT ![c] = tail] /\ head' = head /\ succ' = succ
        /\ tail' = succ[tail]
    BY <1>17 DEF TG!TakeTail, TG!HasTail, TG!Advanced, TG!Move
  <2>2. T # <<>> /\ Head(T) = tail /\ Lists(Tail(T), H)'
    BY <1>0, <1>1, <2>1, TakesTail
  <2>3. place'[c] = "resume" /\ locker'[c] = tail /\ Tail(T) \in Seq(Coroutines)
    BY <1>0, <2>1, <2>2, ElemsOfTail DEF MuTypes
  <2>4. TG!line' = <<Head(T)>> \o Behind(Tail(T), H) /\ TG!entered' = FALSE
    BY <1>4, <2>2, <2>3
  <2>. QED  BY <1>6, <1>16, <2>1, <2>2, <2>4
<1>18. CASE TG!Release(w, c)
  <2>1. /\ place[c] = "critical" /\ tail = Unlocked /\ tail' = tail /\ locker' = locker
        /\ succ' = succ
        /\ \/ /\ head = Locked /\ head' = Unlocked /\ place' = [place EXCEPT ![c] = "outside"]
           \/ /\ head # Locked /\ head' = head /\ place' = [place EXCEPT ![c] = "exchange"]
    BY <1>18 DEF TG!Release, TG!HasTail, TG!Move
  <2>2. CASE head = Locked /\ head' = Unlocked /\ place' = [place EXCEPT ![c] = "outside"]
    <3>1. Lists(<<>>, <<>>)' /\ T = <<>> /\ H = <<>>
      BY <1>0, <1>1, <2>1, <2>2, Releases
    <3>2. \A d \in Coroutines : ~Holds(d)'
      BY <2>2, <3>1 DEF Lists
    <3>. QED  BY <1>5, <1>6, <1>16, <2>1, <3>1, <3>2
  <2>3. CASE head # Locked /\ head' = head /\ place' = [place EXCEPT ![c] = "exchange"]
    <3>1. Lists(T, H)'
      BY <1>0, <1>1, <2>1, <2>3, FailsToRelease
    <3>2. place'[c] = "exchange"
      BY <1>0, <2>3
    <3>. QED  BY <1>3, <1>4, <2>1, <3>1, <3>2
  <2>. QED  BY <2>1, <2>2, <2>3
<1>19. CASE TG!Exchange(w, c)
  <2>. DEFINE R == TG!Reverse(H)
  <2>1. /\ T = <<>> /\ H # <<>> /\ locker' = [locker EXCEPT ![c] = Head(R)]
        /\ place[c] = "exchange" /\ place' = [place EXCEPT ![c] = "resume"]
        /\ Lists(Tail(R), <<>>)'
    BY <1>0, <1>1, <1>19, Exchanges
  <2>2. Tail(R) \in Seq(Coroutines) /\ <<>> \in Seq(Coroutines)
    <3>1. R \in Seq(Coroutines) /\ R # <<>>
      BY <2>1, ElemsOfReverse, ListFacts
    <3>. QED  BY <3>1, ElemsOfTail, EmptyList
  <2>3. place'[c] = "resume" /\ locker'[c] = Head(R)
    BY <1>0, <2>1 DEF MuTypes
  <2>4. TG!line' = <<Head(R)>> \o Behind(Tail(R), <<>>) /\ TG!entered' = FALSE
    <3>. HIDE DEF R
    <3>1. TG!line' = <<locker'[c]>> \o Behind(Tail(R), <<>>) /\ TG!entered' = FALSE
      BY <1>4, <2>1, <2>2, <2>3
    <3>. QED  BY <2>3, <3>1
  <2>. QED  BY <1>6, <1>16, <2>1, <2>4
<1>20. CASE TG!Resume(w, c)
  <2>1. /\ place[c] = "resume"
        /\ place' = [place EXCEPT ![c] = "outside", ![locker[c]] = "critical"]
    BY <1>20 DEF TG!Resume
  <2>2. locker[c] \in Coroutines /\ Lists(T, H)'
    BY <1>0, <1>1, <1>20, <2>1, LockerParked, Resumes
  <2>3. place'[locker[c]] = "critical"
    BY <1>0, <2>1, <2>2
  <2>4. TG!line' = TG!line /\ TG!entered = FALSE /\ TG!entered' = TRUE
    BY <1>3, <1>4, <2>1, <2>2, <2>3
  <2>5. TG!line # <<>> /\ Head(TG!line) = locker[c]
    <3>. DEFINE x == locker[c]
    <3>1. TG!line = <<x>> \o Behind(T, H) /\ x \in Coroutines
      BY <1>3, <2>1, <2>2
    <3>. HIDE DEF x
    <3>2. <<x>> \o Behind(T, H) # <<>> /\ Head(<<x>> \o Behind(T, H)) = x
      BY <1>6, <3>1, FirstInLine
    <3>3. TG!line # <<>> /\ Head(TG!line) = x
      BY <3>1, <3>2
    <3>. QED  BY <3>3 DEF x
  <2>6. TG!FL!Enter(locker[c])
    BY <2>4, <2>5 DEF TG!FL!Enter
  <2>. QED  BY <2>2, <2>6 DEF TG!FL!Next
<1>. QED  BY <1>11, <1>12, <1>14, <1>15, <1>17, <1>18, <1>19, <1>20

\* The task mutex is exclusive and first-come first-served for any number of coroutines,
\* across its two lists and the reversal between them: it implements the lock with one
\* line, and the waiter that Unlock hands the mutex to is the first of it.
THEOREM TaskFifoRefinement == McSpec => ImplementsFifoLock
<1>1. CoInv /\ TG!GroupInit => TG!FL!Init
  <2>. SUFFICES ASSUME CoInv, TG!GroupInit PROVE TG!FL!Init
    OBVIOUS
  <2>1. \A c \in Coroutines : ~Holds(c)
    BY DEF TG!GroupInit, TG!Init, Holds
  <2>2. TG!line = <<>> /\ TG!entered = FALSE
    BY <2>1, LineHasShape DEF LineShape
  <2>. QED  BY <2>2 DEF TG!FL!Init
<1>2. CoInv /\ LineShape /\ LineShape' /\ [TG!GroupNext]_TG!allVars
        => [TG!FL!Next]_<<TG!line, TG!entered>>
  <2>. SUFFICES ASSUME CoInv, LineShape, LineShape', [TG!GroupNext]_TG!allVars
                PROVE  TG!FL!Next \/ UNCHANGED <<TG!line, TG!entered>>
    OBVIOUS
  <2>1. CASE UNCHANGED TG!allVars
    <3>1. UNCHANGED <<head, tail, succ, locker, place>>
      BY <2>1 DEF TG!allVars, TG!vars, TG!lock
    <3>. QED  BY <3>1 DEF TG!line, TG!entered, TG!Owners, TG!Heirs, TG!Waiters, TG!Chain
  <2>. QED  BY <2>1, FifoStep
<1>. QED  BY <1>1, <1>2, GroupInitInv, CoInvariance, LineHasShape, PTL
          DEF McSpec, TG!FairSpec, ImplementsFifoLock, TG!ImplementsFifoLock, TG!FL!Spec
-----------------------------------------------------------------------------
(* ManualExecutor.                                                         *)

LoopCalls == [does : {"run", "drain"}, limit : Nat, i : Nat]
TaskCalls == [does : {"task", "inline"}, task : Tasks]

\* A task of the queue runs in a loop that has not come to its limit.
Nested(s) == \A d \in 1..Len(s) :
    /\ s[d].does = "run" => s[d].i <= s[d].limit
    /\ s[d].does = "task" => /\ d - 1 \in 1..Len(s) /\ s[d-1] \in LoopCalls
                             /\ s[d-1].does = "run" => s[d-1].i < s[d-1].limit

\* a[d] is the sum of what the calls up to the d-th have counted so far.
Val(c) == IF "i" \in DOMAIN c THEN c.i ELSE 0
Adds(a, s) == /\ a \in [0..Len(s) -> Nat] /\ a[0] = 0
              /\ \A d \in 1..Len(s) : a[d] = a[d-1] + Val(s[d])

MeInv == /\ todo \in Seq(Tasks) /\ calls \in Seq(LoopCalls \cup TaskCalls)
         /\ completed \in Nat /\ reported \in Nat
         /\ Nested(calls)
         /\ \E a : Adds(a, calls) /\ completed = reported + a[Len(calls)]

LEMMA CallKinds ==
    /\ \A c \in LoopCalls : /\ c.does \in {"run", "drain"} /\ c.limit \in Nat /\ c.i \in Nat
                            /\ Val(c) = c.i
    /\ \A c \in TaskCalls : c.does \in {"task", "inline"} /\ Val(c) = 0
<1>1. ASSUME NEW c \in LoopCalls PROVE "i" \in DOMAIN c
  BY DEF LoopCalls
<1>2. ASSUME NEW c \in TaskCalls PROVE "i" \notin DOMAIN c
  BY DEF TaskCalls
<1>. QED  BY <1>1, <1>2 DEF LoopCalls, TaskCalls, Val

\* The sums are those of the model.
LEMMA PendingIsSum ==
    ASSUME MeInv, NEW a, Adds(a, calls)
    PROVE  ME!Pending = a[Len(calls)]
<1>. DEFINE n == Len(calls)
            Sums(b) == b = [d \in 0..n |-> IF d = 0 THEN 0
                               ELSE b[d-1] + (IF "i" \in DOMAIN calls[d] THEN calls[d].i ELSE 0)]
            at == CHOOSE b : Sums(b)
<1>1. n \in Nat
  BY LenProperties DEF MeInv
<1>2. ME!Pending = at[n]
  BY DEF ME!Pending
<1>3. Sums(a)
  <2>1. \A d \in 0..n : d = 0 \/ d \in 1..n
    BY <1>1
  <2>. QED  BY <2>1 DEF Adds, Val
<1>4. Sums(at)
  BY <1>3, Zenon
<1>. HIDE DEF at, n
<1>5. \A d \in 0..n : at[d] = a[d]
  <2>. DEFINE S == {d \in 0..n : at[d] # a[d]}
  <2>. SUFFICES ASSUME S # {} PROVE FALSE
    OBVIOUS
  <2>1. S \in SUBSET Nat
    BY <1>1
  <2>. HIDE DEF S
  <2>2. PICK x \in S : \A y \in S : ~(y < x)
    BY <2>1, LeastNumber
  <2>3. x \in 0..n /\ at[x] # a[x]
    BY <2>2 DEF S
  <2>4. x # 0
    BY <1>3, <1>4, <2>3
  <2>5. x - 1 \in 0..n /\ x - 1 < x
    BY <1>1, <2>3, <2>4
  <2>6. at[x-1] = a[x-1]
    BY <2>2, <2>5 DEF S
  <2>. QED  BY <1>3, <1>4, <2>3, <2>4, <2>6
<1>6. at[n] = a[n]
  BY <1>1, <1>5
<1>. QED  BY <1>2, <1>6 DEF n

LEMMA FrontOf ==
    ASSUME NEW S, NEW s \in Seq(S), s # <<>>
    PROVE  /\ Len(s) \in Nat /\ Len(s) # 0 /\ ME!Last(s) = s[Len(s)] /\ ME!Last(s) \in S
           /\ ME!Front(s) \in Seq(S) /\ Len(ME!Front(s)) = Len(s) - 1
           /\ \A d \in 1..Len(s) - 1 : ME!Front(s)[d] = s[d]
<1>1. Len(s) \in Nat /\ Len(s) # 0 /\ s \in [1..Len(s) -> S]
  BY LenProperties, EmptySeq
<1>2. /\ 1 \in 1..Len(s) + 1 /\ Len(s) - 1 \in 0..Len(s)
      /\ IF 1 > Len(s) - 1 THEN Len(s) - 1 = 0 ELSE (Len(s) - 1) - 1 + 1 = Len(s) - 1
  BY <1>1
<1>3. /\ SubSeq(s, 1, Len(s) - 1) \in Seq(S) /\ Len(SubSeq(s, 1, Len(s) - 1)) = Len(s) - 1
      /\ \A i \in 1..Len(s) - 1 : SubSeq(s, 1, Len(s) - 1)[i] = s[1 + i - 1]
  BY <1>1, <1>2, SubSeqProperties
<1>4. \A i \in 1..Len(s) - 1 : 1 + i - 1 = i
  BY <1>1
<1>. QED  BY <1>1, <1>3, <1>4 DEF ME!Front, ME!Last

\* A call that begins has counted nothing.
LEMMA Called ==
    ASSUME MeInv, NEW c \in LoopCalls \cup TaskCalls, Val(c) = 0, calls' = Append(calls, c),
           c.does = "run" => c.i <= c.limit,
           c.does = "task" => /\ calls # <<>> /\ ME!Last(calls) \in LoopCalls
                              /\ ME!Last(calls).does = "run" =>
                                    ME!Last(calls).i < ME!Last(calls).limit,
           todo' \in Seq(Tasks), completed' = completed, reported' = reported
    PROVE  MeInv'
<1>. DEFINE n == Len(calls)
<1>1. /\ n \in Nat /\ calls' \in Seq(LoopCalls \cup TaskCalls) /\ Len(calls') = n + 1
      /\ \A d \in 1..n : calls'[d] = calls[d]
      /\ calls'[n + 1] = c
  BY LenProperties, AppendProperties DEF MeInv
<1>2. calls # <<>> => n # 0 /\ ME!Last(calls) = calls[n]
  BY FrontOf DEF MeInv
<1>3. PICK a : Adds(a, calls) /\ completed = reported + a[n]
  BY DEF MeInv
<1>. DEFINE b == [d \in 0..n + 1 |-> IF d = n + 1 THEN a[n] ELSE a[d]]
<1>. HIDE DEF n
<1>4. Nested(calls')
  <2>1. \A d \in 1..n + 1 : d = n + 1 \/ d \in 1..n
    BY <1>1
  <2>2. \A d \in 1..n : d - 1 \in 1..n => d - 1 \in 1..n + 1
    BY <1>1
  <2>3. ASSUME NEW d \in 1..n
        PROVE  /\ calls'[d].does = "run" => calls'[d].i <= calls'[d].limit
               /\ calls'[d].does = "task" =>
                     /\ d - 1 \in 1..Len(calls') /\ calls'[d-1] \in LoopCalls
                     /\ calls'[d-1].does = "run" => calls'[d-1].i < calls'[d-1].limit
    BY <1>1, <2>2, <2>3 DEF MeInv, Nested, n
  <2>4. ASSUME c.does = "task"
        PROVE  /\ n \in 1..Len(calls') /\ calls'[n] \in LoopCalls
               /\ calls'[n].does = "run" => calls'[n].i < calls'[n].limit
    <3>1. n \in 1..n /\ n \in 1..n + 1
      BY <1>1, <1>2, <2>4
    <3>. QED  BY <1>1, <1>2, <2>4, <3>1
  <2>5. (n + 1) - 1 = n
    BY <1>1
  <2>. QED  BY <1>1, <2>1, <2>3, <2>4, <2>5 DEF Nested
<1>5. Adds(b, calls') /\ b[Len(calls')] = a[n]
  <2>1. a \in [0..n -> Nat] /\ a[0] = 0 /\ \A d \in 1..n : a[d] = a[d-1] + Val(calls[d])
    BY <1>3 DEF Adds, n
  <2>2. /\ n \in 0..n /\ n + 1 \in 0..n + 1 /\ 0 \in 0..n + 1 /\ 0 # n + 1 /\ (n + 1) - 1 = n
        /\ n \in 0..n + 1 /\ n # n + 1 /\ \A d \in 0..n + 1 : d = n + 1 \/ d \in 0..n
        /\ \A d \in 1..n + 1 : d = n + 1 \/ d \in 1..n
        /\ \A d \in 1..n : d \in 0..n + 1 /\ d # n + 1 /\ d - 1 \in 0..n + 1 /\ d - 1 # n + 1
    BY <1>1
  <2>3. b \in [0..n + 1 -> Nat] /\ b[0] = 0 /\ b[n + 1] = a[n]
    BY <2>1, <2>2
  <2>4. \A d \in 1..n : b[d] = b[d-1] + Val(calls'[d])
    BY <1>1, <2>1, <2>2
  <2>5. b[n + 1] = b[n] + Val(calls'[n + 1])
    <3>1. b[n] = a[n] /\ a[n] \in Nat
      BY <2>1, <2>2
    <3>. QED  BY <1>1, <2>3, <3>1
  <2>. QED  BY <1>1, <2>2, <2>3, <2>4, <2>5 DEF Adds
<1>6. completed' = reported' + b[Len(calls')]
  BY <1>3, <1>5
<1>. QED  BY <1>1, <1>4, <1>5, <1>6 DEF MeInv

\* A call that ends.
LEMMA Returned ==
    ASSUME MeInv, calls # <<>>, calls' = ME!Front(calls), todo' = todo,
           completed' = completed, reported' = reported + Val(ME!Last(calls))
    PROVE  MeInv'
<1>. DEFINE n == Len(calls)
<1>1. /\ n \in Nat /\ n # 0 /\ ME!Last(calls) = calls[n]
      /\ calls' \in Seq(LoopCalls \cup TaskCalls) /\ Len(calls') = n - 1
      /\ \A d \in 1..n - 1 : calls'[d] = calls[d]
      /\ Val(calls[n]) \in Nat
  <2>1. /\ n \in Nat /\ n # 0 /\ ME!Last(calls) = calls[n]
        /\ calls' \in Seq(LoopCalls \cup TaskCalls) /\ Len(calls') = n - 1
        /\ \A d \in 1..n - 1 : calls'[d] = calls[d]
        /\ calls[n] \in LoopCalls \cup TaskCalls
    BY FrontOf DEF MeInv
  <2>. QED  BY <2>1, CallKinds
<1>2. PICK a : Adds(a, calls) /\ completed = reported + a[n]
  BY DEF MeInv
<1>. DEFINE b == [d \in 0..n - 1 |-> a[d]]
<1>. HIDE DEF n
<1>3. /\ \A d \in 1..n - 1 : d \in 1..n /\ d \in 0..n - 1 /\ d - 1 \in 0..n - 1
                              /\ (d - 1 \in 1..n => d - 1 \in 1..n - 1)
      /\ 0..n - 1 \subseteq 0..n /\ 0 \in 0..n - 1 /\ n - 1 \in 0..n - 1 /\ n \in 1..n
  BY <1>1
<1>4. Nested(calls')
  BY <1>1, <1>3 DEF MeInv, Nested, n
<1>5. /\ a \in [0..n -> Nat] /\ a[0] = 0 /\ \A d \in 1..n : a[d] = a[d-1] + Val(calls[d])
  BY <1>2 DEF Adds, n
<1>6. Adds(b, calls') /\ b[Len(calls')] = a[n-1]
  BY <1>1, <1>3, <1>5 DEF Adds
<1>7. completed' = reported' + a[n-1]
  <2>1. a[n] = a[n-1] + Val(calls[n]) /\ a[n-1] \in Nat
    BY <1>3, <1>5
  <2>2. reported' = reported + Val(calls[n]) /\ reported \in Nat
    BY <1>1 DEF MeInv
  <2>. QED  BY <1>1, <1>2, <2>1, <2>2
<1>8. todo' \in Seq(Tasks) /\ completed' \in Nat /\ reported' \in Nat
  BY <1>1 DEF MeInv
<1>. QED  BY <1>1, <1>4, <1>6, <1>7, <1>8 DEF MeInv

\* A task of the queue that ends, and that its loop counts.
LEMMA Ended ==
    ASSUME MeInv, ME!EndTask
    PROVE  MeInv'
<1>. DEFINE n == Len(calls)
            f == ME!Front(calls)
<1>1. /\ n \in Nat /\ n # 0 /\ calls[n].does = "task"
      /\ f \in Seq(LoopCalls \cup TaskCalls) /\ Len(f) = n - 1
      /\ \A d \in 1..n - 1 : f[d] = calls[d]
      /\ calls' = [f EXCEPT ![n-1].i = @ + 1]
      /\ completed' = completed + 1 /\ reported' = reported /\ todo' = todo
  BY FrontOf DEF MeInv, ME!EndTask, ME!Counted
<1>2. PICK a : Adds(a, calls) /\ completed = reported + a[n]
  BY DEF MeInv
<1>. DEFINE b == [d \in 0..n - 1 |-> IF d = n - 1 THEN a[d] + 1 ELSE a[d]]
<1>. HIDE DEF n, f
<1>3. n \in 1..n
  BY <1>1
<1>4. /\ n - 1 \in 1..n /\ calls[n-1] \in LoopCalls
      /\ calls[n-1].does = "run" => calls[n-1].i < calls[n-1].limit
      /\ Val(calls[n]) = 0
  <2>1. calls[n] \in TaskCalls
    <3>1. calls[n] \in LoopCalls \cup TaskCalls
      BY <1>3 DEF MeInv, n
    <3>. QED  BY <1>1, <3>1, CallKinds
  <2>. QED  BY <1>1, <1>3, <2>1, CallKinds DEF MeInv, Nested, n
<1>5. /\ \A d \in 1..n - 1 : d \in 1..n /\ d \in 0..n - 1 /\ d - 1 \in 0..n - 1 /\ d - 1 # n - 1
                              /\ (d - 1 \in 1..n => d - 1 \in 1..n - 1)
      /\ 0..n - 1 \subseteq 0..n /\ 0 \in 0..n - 1 /\ n - 1 \in 0..n - 1 /\ n - 1 \in 1..n - 1
      /\ 0 # n - 1
  BY <1>1, <1>4
<1>. DEFINE c == [calls[n-1] EXCEPT !.i = @ + 1]
<1>6. /\ c \in LoopCalls /\ c.does = calls[n-1].does /\ c.limit = calls[n-1].limit
      /\ c.i = calls[n-1].i + 1
  BY <1>4 DEF LoopCalls
<1>. HIDE DEF c
<1>7. /\ calls' \in Seq(LoopCalls \cup TaskCalls) /\ Len(calls') = n - 1
      /\ calls'[n-1] = c
      /\ \A d \in 1..n - 1 : d # n - 1 => calls'[d] = calls[d]
  <2>1. calls' = [f EXCEPT ![n-1] = c]
    BY <1>1, <1>5 DEF c
  <2>2. f \in [1..n - 1 -> LoopCalls \cup TaskCalls] /\ Len(f) \in Nat
    BY <1>1, LenProperties
  <2>. QED  BY <1>1, <1>5, <1>6, <2>1, <2>2, ExceptSeq
<1>8. Nested(calls')
  <2>1. ASSUME NEW d \in 1..n - 1
        PROVE  /\ calls'[d].does = "run" => calls'[d].i <= calls'[d].limit
               /\ calls'[d].does = "task" =>
                     /\ d - 1 \in 1..n - 1 /\ calls'[d-1] \in LoopCalls
                     /\ calls'[d-1].does = "run" => calls'[d-1].i < calls'[d-1].limit
    <3>1. CASE d = n - 1
      <4>1. c.does = "run" => c.i <= c.limit
        BY <1>4, <1>6, CallKinds
      <4>2. c.does # "task"
        BY <1>6, CallKinds
      <4>. QED  BY <1>7, <3>1, <4>1, <4>2
    <3>2. CASE d # n - 1
      BY <1>5, <1>7, <3>2 DEF MeInv, Nested, n
    <3>. QED  BY <3>1, <3>2
  <2>. QED  BY <1>7, <2>1 DEF Nested
<1>9. a \in [0..n -> Nat] /\ a[0] = 0 /\ \A d \in 1..n : a[d] = a[d-1] + Val(calls[d])
  BY <1>2 DEF Adds, n
<1>10. b \in [0..n - 1 -> Nat] /\ b[0] = 0 /\ b[n-1] = a[n-1] + 1
  BY <1>5, <1>9
<1>11. ASSUME NEW d \in 1..n - 1 PROVE b[d] = b[d-1] + Val(calls'[d])
  <2>1. b[d-1] = a[d-1] /\ a[d-1] \in Nat /\ a[d] = a[d-1] + Val(calls[d])
    BY <1>5, <1>9
  <2>2. CASE d = n - 1
    <3>1. Val(calls'[d]) = Val(calls[d]) + 1 /\ Val(calls[d]) \in Nat
      BY <1>4, <1>6, <1>7, <2>2, CallKinds
    <3>2. b[d] = a[d] + 1
      BY <1>10, <2>2
    <3>. QED  BY <2>1, <3>1, <3>2
  <2>3. CASE d # n - 1
    BY <1>5, <1>7, <2>1, <2>3
  <2>. QED  BY <2>2, <2>3
<1>12. Adds(b, calls')
  BY <1>7, <1>10, <1>11 DEF Adds
<1>13. completed' = reported' + b[Len(calls')]
  <2>1. a[n] = a[n-1] + 0 /\ a[n-1] \in Nat
    BY <1>3, <1>4, <1>5, <1>9
  <2>. QED  BY <1>1, <1>2, <1>7, <1>10, <2>1 DEF MeInv
<1>14. todo' \in Seq(Tasks) /\ completed' \in Nat /\ reported' \in Nat
  BY <1>1 DEF MeInv
<1>. QED  BY <1>7, <1>8, <1>12, <1>13, <1>14 DEF MeInv

LEMMA ManualNextInv == ASSUME MeInv, ME!Next PROVE MeInv'
<1>. USE DEF ME!Call, ME!Return, ME!Runs, ME!Drains, ME!Task
<1>1. ASSUME NEW k \in Tasks, ME!Execute(k) PROVE MeInv'
  <2>1. todo' \in Seq(Tasks) /\ UNCHANGED <<calls, completed, reported>>
    BY <1>1, AppendProperties DEF MeInv, ME!Execute
  <2>. QED  BY <2>1 DEF MeInv
<1>2. ASSUME NEW k \in Tasks, ME!InlineExecute(k) PROVE MeInv'
  <2>. DEFINE c == [does |-> "inline", task |-> k]
  <2>1. c \in TaskCalls /\ c.does = "inline"
    BY DEF TaskCalls
  <2>2. calls' = Append(calls, c) /\ UNCHANGED <<todo, completed, reported>>
    BY <1>2 DEF ME!InlineExecute
  <2>. HIDE DEF c
  <2>. QED  BY <2>1, <2>2, CallKinds, Called DEF MeInv
<1>3. ASSUME NEW limit \in 1..MaxLimit, ME!RunAtMost(limit) PROVE MeInv'
  <2>. DEFINE c == [does |-> "run", limit |-> limit, i |-> 0]
  <2>1. c \in LoopCalls /\ c.does = "run" /\ c.i = 0 /\ c.i <= c.limit
    BY DEF LoopCalls
  <2>2. calls' = Append(calls, c) /\ UNCHANGED <<todo, completed, reported>>
    BY <1>3 DEF ME!RunAtMost
  <2>. HIDE DEF c
  <2>. QED  BY <2>1, <2>2, CallKinds, Called DEF MeInv
<1>4. CASE ME!Drain
  <2>. DEFINE c == [does |-> "drain", limit |-> 0, i |-> 0]
  <2>1. c \in LoopCalls /\ c.does = "drain" /\ c.i = 0
    BY DEF LoopCalls
  <2>2. calls' = Append(calls, c) /\ UNCHANGED <<todo, completed, reported>>
    BY <1>4 DEF ME!Drain
  <2>. HIDE DEF c
  <2>. QED  BY <2>1, <2>2, CallKinds, Called DEF MeInv
<1>5. CASE ME!RunFront
  <2>. DEFINE c == [does |-> "task", task |-> Head(todo)]
  <2>1. calls # <<>> /\ ME!Last(calls).does \in {"run", "drain"} /\ ~ME!Ends
        /\ todo # <<>> /\ calls' = Append(calls, c) /\ todo' = Tail(todo)
        /\ completed' = completed /\ reported' = reported
    BY <1>5 DEF ME!RunFront, ME!Loops, ME!Ends
  <2>2. Head(todo) \in Tasks /\ todo' \in Seq(Tasks)
    BY <2>1, HeadTailProperties DEF MeInv
  <2>3. c \in TaskCalls /\ c.does = "task"
    BY <2>2 DEF TaskCalls
  <2>. HIDE DEF c
  <2>4. ME!Last(calls) \in LoopCalls /\ ME!Last(calls) = calls[Len(calls)]
        /\ Len(calls) \in 1..Len(calls)
    <3>1. /\ ME!Last(calls) = calls[Len(calls)] /\ Len(calls) \in Nat /\ Len(calls) # 0
          /\ ME!Last(calls) \in LoopCalls \cup TaskCalls
      BY <2>1, FrontOf DEF MeInv
    <3>. QED  BY <2>1, <3>1, CallKinds
  <2>5. ME!Last(calls).does = "run" => ME!Last(calls).i < ME!Last(calls).limit
    <3>1. ME!Last(calls).does = "run" => /\ ME!Last(calls).i # ME!Last(calls).limit
                                         /\ ME!Last(calls).i <= ME!Last(calls).limit
      BY <2>1, <2>4 DEF ME!Ends, ME!AtLimit, MeInv, Nested
    <3>. QED  BY <2>4, <3>1, CallKinds
  <2>. QED  BY <2>1, <2>2, <2>3, <2>4, <2>5, CallKinds, Called
<1>6. CASE ME!ReturnCount
  <2>1. /\ calls # <<>> /\ ME!Last(calls).does \in {"run", "drain"}
        /\ reported' = reported + ME!Last(calls).i /\ calls' = ME!Front(calls)
        /\ UNCHANGED <<todo, completed>>
    BY <1>6 DEF ME!ReturnCount, ME!Loops
  <2>2. Val(ME!Last(calls)) = ME!Last(calls).i
    <3>1. ME!Last(calls) \in LoopCalls \cup TaskCalls
      BY <2>1, FrontOf DEF MeInv
    <3>. QED  BY <2>1, <3>1, CallKinds
  <2>. QED  BY <2>1, <2>2, Returned
<1>7. CASE ME!EndTask
  BY <1>7, Ended
<1>8. CASE ME!EndInline
  <2>1. /\ calls # <<>> /\ ME!Last(calls).does = "inline" /\ calls' = ME!Front(calls)
        /\ UNCHANGED <<todo, completed, reported>>
    BY <1>8 DEF ME!EndInline
  <2>2. Val(ME!Last(calls)) = 0
    <3>1. ME!Last(calls) \in LoopCalls \cup TaskCalls
      BY <2>1, FrontOf DEF MeInv
    <3>. QED  BY <2>1, <3>1, CallKinds
  <2>3. reported' = reported + 0
    BY <2>1 DEF MeInv
  <2>. QED  BY <2>1, <2>2, <2>3, Returned
<1>. QED  BY <1>1, <1>2, <1>3, <1>4, <1>5, <1>6, <1>7, <1>8 DEF ME!Next

\* A call leaves the stack only as the innermost one.
LEMMA ManualNextDrains ==
    ASSUME MeInv, ME!Next
    PROVE  \A d \in DOMAIN calls : calls[d].does = "drain" /\ Len(calls') < d => todo' = <<>>
<1>. USE DEF ME!Call, ME!Return
<1>1. Len(calls) \in Nat /\ DOMAIN calls = 1..Len(calls)
  BY LenProperties DEF MeInv
<1>2. CASE \/ ME!RunFront \/ ME!Drain \/ \E limit \in 1..MaxLimit : ME!RunAtMost(limit)
           \/ \E k \in Tasks : ME!Execute(k) \/ ME!InlineExecute(k)
  <2>1. calls' = calls \/ Len(calls') = Len(calls) + 1
    <3>1. calls' = calls \/ \E c : calls' = Append(calls, c)
      BY <1>2 DEF ME!RunFront, ME!Drain, ME!RunAtMost, ME!Execute, ME!InlineExecute
    <3>2. \A c : Len(Append(calls, c)) = Len(calls) + 1
      BY DEF MeInv
    <3>. QED  BY <3>1, <3>2
  <2>. QED  BY <1>1, <2>1
<1>3. CASE ME!ReturnCount \/ ME!EndTask \/ ME!EndInline
  <2>1. /\ calls # <<>> /\ Len(calls') = Len(calls) - 1
        /\ ME!Last(calls) = calls[Len(calls)] /\ todo' = todo
    <3>1. calls # <<>>
      BY <1>3 DEF ME!ReturnCount, ME!EndTask, ME!EndInline, ME!Loops
    <3>2. /\ ME!Last(calls) = calls[Len(calls)] /\ Len(ME!Front(calls)) = Len(calls) - 1
          /\ ME!Front(calls) \in Seq(LoopCalls \cup TaskCalls)
      BY <3>1, FrontOf DEF MeInv
    <3>3. CASE ME!EndTask
      <4>1. calls' = [ME!Front(calls) EXCEPT ![Len(calls) - 1].i = @ + 1]
        BY <3>3 DEF ME!EndTask, ME!Counted
      <4>2. Len(calls') = Len(ME!Front(calls))
        BY <3>2, <4>1
      <4>. QED  BY <3>1, <3>2, <3>3, <4>2 DEF ME!EndTask
    <3>4. CASE ME!ReturnCount \/ ME!EndInline
      BY <3>1, <3>2, <3>4 DEF ME!ReturnCount, ME!EndInline
    <3>. QED  BY <1>3, <3>3, <3>4
  <2>2. \A d \in 1..Len(calls) : Len(calls') < d => d = Len(calls)
    <3>1. ASSUME NEW n \in Nat, NEW m, m = n - 1 PROVE \A d \in 1..n : m < d => d = n
      BY <3>1
    <3>. QED  BY <1>1, <2>1, <3>1
  <2>3. ME!Last(calls).does = "drain" => todo = <<>>
    BY <1>3 DEF ME!ReturnCount, ME!EndTask, ME!EndInline, ME!Ends
  <2>. QED  BY <1>1, <2>1, <2>2, <2>3
<1>. QED  BY <1>2, <1>3 DEF ME!Next

\* However calls of RunAtMost, RunNext and Drain nest, every task that has run is counted
\* by exactly one of them, within its limit, and a Drain that returns leaves no task: for
\* any tasks and limits, and calls nested to any depth.
THEOREM ManualExecutorCounts == MCSpec => ManualCounts
<1>. DEFINE Drained == \A d \in DOMAIN calls : calls[d].does = "drain" /\ Len(calls') < d
                                                 => todo' = <<>>
<1>1. MCInit => MeInv
  <2>. SUFFICES ASSUME MCInit PROVE MeInv
    OBVIOUS
  <2>1. todo = <<>> /\ calls = <<>> /\ completed = 0 /\ reported = 0
    BY DEF MCInit, ME!Init
  <2>2. Adds([d \in 0..0 |-> 0], <<>>)
    BY DEF Adds
  <2>3. <<>> \in Seq(Tasks) /\ <<>> \in Seq(LoopCalls \cup TaskCalls) /\ Len(<<>>) = 0
    OBVIOUS
  <2>. QED  BY <2>1, <2>2, <2>3 DEF MeInv, Nested
<1>2. MeInv /\ [MCNext]_<<vars, lives, mVars>> => MeInv'
  <2>1. MeInv /\ UNCHANGED mVars => MeInv'
    BY DEF mVars, MeInv
  <2>. QED  BY <2>1, ManualNextInv DEF MCNext
<1>3. MeInv => ME!CountsTasks
  <2>. SUFFICES ASSUME MeInv PROVE ME!CountsTasks
    OBVIOUS
  <2>1. completed = reported + ME!Pending
    BY PendingIsSum DEF MeInv
  <2>2. DOMAIN calls = 1..Len(calls)
    BY LenProperties DEF MeInv
  <2>. QED  BY <2>1, <2>2 DEF MeInv, Nested, ME!CountsTasks
<1>4. MeInv /\ [MCNext]_<<vars, lives, mVars>> => [Drained]_ME!vars
  <2>1. UNCHANGED mVars => UNCHANGED ME!vars
    BY DEF mVars, ME!vars
  <2>. QED  BY <2>1, ManualNextDrains DEF MCNext
<1>. QED  BY <1>1, <1>2, <1>3, <1>4, PTL DEF MCSpec, ManualCounts, ME!DrainsAll
=============================================================================
