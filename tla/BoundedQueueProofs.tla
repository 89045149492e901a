------------------------ MODULE BoundedQueueProofs -------------------------
(***************************************************************************)
(* solutions::BlockingQueue (condvar/semaphore), for every finite set of   *)
(* threads and every capacity: the tokens account for the places and the   *)
(* elements of the buffer, accesses to the buffer are safe, and the queue  *)
(* implements AbstractBoundedQueue.  Everything follows from counting the  *)
(* threads that hold a token of each of the three semaphores.              *)
(***************************************************************************)
EXTENDS BoundedQueue, FiniteSetTheorems, TLAPS

Stages == {"idle", "putFree", "putGuard", "push", "putUnguard", "releaseCount",
           "takeCount", "takeGuard", "pop", "takeUnguard", "releaseFree"}

Holding  == Putting \cup Taking
Guarding == {"push", "putUnguard", "pop", "takeUnguard"}

GuardExact == tokens["guard"] + Cardinality(At(Guarding)) = 1

IInv == TypeOK /\ Accounting /\ GuardExact

\* The threads at any set of calls can be counted.
LEMMA AtFinite ==
    ASSUME NEW S
    PROVE  IsFiniteSet(At(S)) /\ Cardinality(At(S)) \in Nat
<1>1. At(S) \in SUBSET Threads
  BY DEF At
<1>. QED  BY <1>1, FS_Subset, FS_CardinalityType, ThreadsAssumption

\* A thread that goes from one call to the next is counted where it goes to, and not
\* any more where it comes from.
Moved(S, from, to) == Cardinality(At(S)') = Cardinality(At(S)) - (IF from \in S THEN 1 ELSE 0)
                                                               + (IF to \in S THEN 1 ELSE 0)

LEMMA Moves ==
    ASSUME TypeOK, NEW t \in Threads, NEW to, pc' = [pc EXCEPT ![t] = to], NEW S
    PROVE  Moved(S, pc[t], to)
<1>. DEFINE n == Cardinality(At(S))
<1>0. IsFiniteSet(At(S)) /\ n \in Nat
  BY AtFinite
<1>1. CASE pc[t] \in S /\ to \notin S
  <2>1. At(S)' = At(S) \ {t} /\ t \in At(S)
    BY <1>1 DEF At, TypeOK
  <2>2. Cardinality(At(S)') = n - 1
    BY <1>0, <2>1, FS_RemoveElement
  <2>. QED  BY <1>0, <1>1, <2>2 DEF Moved
<1>2. CASE pc[t] \notin S /\ to \in S
  <2>1. At(S)' = At(S) \cup {t} /\ t \notin At(S)
    BY <1>2 DEF At, TypeOK
  <2>2. Cardinality(At(S)') = n + 1
    BY <1>0, <2>1, FS_AddElement
  <2>. QED  BY <1>0, <1>2, <2>2 DEF Moved
<1>3. CASE pc[t] \in S <=> to \in S
  <2>1. At(S)' = At(S)
    BY <1>3 DEF At, TypeOK
  <2>. QED  BY <1>0, <1>3, <2>1 DEF Moved
<1>. QED  BY <1>1, <1>2, <1>3

\* The three sets of calls that the invariant counts.
LEMMA MovesAll ==
    ASSUME IInv, NEW t \in Threads, NEW to, pc' = [pc EXCEPT ![t] = to]
    PROVE  /\ Moved(Holding, pc[t], to) /\ Moved(Stored, pc[t], to) /\ Moved(Guarding, pc[t], to)
           /\ Cardinality(At(Holding)) \in Nat
           /\ Cardinality(At(Stored)) \in Nat
           /\ Cardinality(At(Guarding)) \in Nat
<1>1. TypeOK
  BY DEF IInv
<1>2. Moved(Holding, pc[t], to)
  BY <1>1, Moves
<1>3. Moved(Stored, pc[t], to)
  BY <1>1, Moves
<1>4. Moved(Guarding, pc[t], to)
  BY <1>1, Moves
<1>. QED  BY <1>2, <1>3, <1>4, AtFinite

\* A thread that is in one of the calls is counted.
LEMMA Counted ==
    ASSUME NEW S, NEW t \in Threads, pc[t] \in S
    PROVE  Cardinality(At(S)) \in Nat \ {0}
<1>1. At(S) # {}
  BY DEF At
<1>. QED  BY <1>1, AtFinite, FS_EmptySet

\* The tokens stay within their bounds as long as they account for the threads.
LEMMA TokensBounded ==
    ASSUME tokens' \in [Semaphores -> Nat], Accounting', GuardExact'
    PROVE  tokens' \in [Semaphores -> 0..Capacity]
<1>1. /\ Cardinality(At(Holding)') \in Nat
      /\ Cardinality(At(Guarding)') \in Nat
  <2>1. ASSUME NEW S PROVE Cardinality(At(S)') \in Nat
    <3>1. At(S)' \in SUBSET Threads
      BY DEF At
    <3>. QED  BY <3>1, FS_Subset, FS_CardinalityType, ThreadsAssumption
  <2>. QED  BY <2>1
<1>2. tokens'["free"] \in 0..Capacity /\ tokens'["count"] \in 0..Capacity
  BY <1>1, CapacityAssumption DEF Accounting, Holding, Semaphores
<1>3. tokens'["guard"] \in 0..Capacity
  BY <1>1, CapacityAssumption DEF GuardExact, Semaphores
<1>. QED  BY <1>2, <1>3 DEF Semaphores
\* At the start nobody holds a token.
LEMMA InitIInv == Init => IInv
<1>. SUFFICES ASSUME Init PROVE IInv
  OBVIOUS
<1>1. ASSUME NEW S, "idle" \notin S PROVE Cardinality(At(S)) = 0
  <2>1. At(S) = {}
    BY <1>1 DEF Init, At
  <2>. QED  BY <2>1, FS_EmptySet
<1>2. Cardinality(At(Holding)) = 0 /\ Cardinality(At(Stored)) = 0 /\ Cardinality(At(Guarding)) = 0
  BY <1>1 DEF Holding, Putting, Taking, Stored, Guarding
<1>3. TypeOK
  BY CapacityAssumption DEF Init, TypeOK, Semaphores, Room
<1>4. Accounting
  BY <1>2, CapacityAssumption DEF Init, Accounting, Holding, Semaphores, Room
<1>5. GuardExact
  BY <1>2 DEF Init, GuardExact, Semaphores
<1>. QED  BY <1>3, <1>4, <1>5 DEF IInv

\* A token that goes from a semaphore to a thread is still accounted for.
LEMMA TokenTaken ==
    ASSUME IInv, NEW s \in Semaphores, UNCHANGED buffer,
           tokens'["free"] = tokens["free"] - (IF s = "free" THEN 1 ELSE 0),
           tokens'["count"] = tokens["count"] - (IF s = "count" THEN 1 ELSE 0),
           Cardinality(At(Holding)') = Cardinality(At(Holding)) + (IF s = "guard" THEN 0 ELSE 1),
           Cardinality(At(Stored)') = Cardinality(At(Stored)) + (IF s = "count" THEN 1 ELSE 0)
    PROVE  Accounting'
<1>1. /\ tokens["free"] \in Nat /\ tokens["count"] \in Nat
      /\ Cardinality(At(Holding)) \in Nat /\ Cardinality(At(Stored)) \in Nat
  BY AtFinite, CapacityAssumption DEF IInv, TypeOK, Semaphores
<1>2. tokens["free"] + tokens["count"] + Cardinality(At(Holding)) = Capacity
  BY DEF IInv, Accounting, Holding
<1>3. tokens'["free"] + tokens'["count"] + Cardinality(At(Holding)') = Capacity
  <2>1. CASE s = "free"
    BY <1>1, <1>2, <2>1
  <2>2. CASE s = "count"
    BY <1>1, <1>2, <2>2
  <2>3. CASE s = "guard"
    BY <1>1, <1>2, <2>3
  <2>. QED  BY <2>1, <2>2, <2>3 DEF Semaphores
<1>4. Len(buffer') = tokens'["count"] + Cardinality(At(Stored)')
  <2>1. Len(buffer) = tokens["count"] + Cardinality(At(Stored))
    BY DEF IInv, Accounting
  <2>. QED  BY <1>1, <2>1
<1>. QED  BY <1>3, <1>4 DEF Accounting, Holding

\* Acquire, at each of its four calls, sleeps or moves a token from the semaphore to
\* the thread.
LEMMA AcquireSteps ==
    ASSUME IInv, NEW t \in Threads, NEW from, NEW to, Acquire(t, from, to),
           <<from, to>> \in {<<"putFree", "putGuard">>, <<"putGuard", "push">>,
                            <<"takeCount", "takeGuard">>, <<"takeGuard", "pop">>}
    PROVE  IInv' /\ UNCHANGED <<buffer, item>>
<1>. DEFINE s == Acquired[from]
<1>1. /\ from \in DOMAIN Acquired /\ to \in Stages /\ s \in Semaphores
      /\ pc[t] = from /\ t \notin asleep /\ UNCHANGED <<buffer, item>>
  BY DEF Acquire, Acquired, Stages, Semaphores
<1>2. CASE tokens[s] = 0 /\ asleep' = asleep \cup {t} /\ UNCHANGED <<tokens, pc>>
  <2>1. TypeOK'
    BY <1>1, <1>2 DEF IInv, TypeOK
  <2>2. Accounting' /\ GuardExact'
    BY <1>1, <1>2 DEF IInv, Accounting, GuardExact, At
  <2>. QED  BY <1>1, <2>1, <2>2 DEF IInv
<1>3. CASE /\ tokens[s] > 0
           /\ tokens' = [tokens EXCEPT ![s] = Spent(@)]
           /\ pc' = [pc EXCEPT ![t] = to]
           /\ UNCHANGED asleep
  <2>1. /\ tokens \in [Semaphores -> 0..Capacity]
        /\ tokens' \in [Semaphores -> Nat]
        /\ tokens'["free"] = tokens["free"] - (IF s = "free" THEN 1 ELSE 0)
        /\ tokens'["count"] = tokens["count"] - (IF s = "count" THEN 1 ELSE 0)
        /\ tokens'["guard"] = tokens["guard"] - (IF s = "guard" THEN 1 ELSE 0)
    BY <1>1, <1>3, CapacityAssumption DEF IInv, TypeOK, Spent, Semaphores
  <2>2. /\ Cardinality(At(Holding)') = Cardinality(At(Holding)) + (IF s = "guard" THEN 0 ELSE 1)
        /\ Cardinality(At(Stored)') = Cardinality(At(Stored)) + (IF s = "count" THEN 1 ELSE 0)
        /\ Cardinality(At(Guarding)') = Cardinality(At(Guarding)) + (IF s = "guard" THEN 1 ELSE 0)
    <3>1. /\ IF s = "guard" THEN from \in Holding /\ to \in Holding
                            ELSE from \notin Holding /\ to \in Holding
          /\ IF s = "count" THEN from \notin Stored /\ to \in Stored ELSE from \in Stored <=> to \in Stored
          /\ IF s = "guard" THEN from \notin Guarding /\ to \in Guarding
                            ELSE from \notin Guarding /\ to \notin Guarding
      BY DEF Acquired, Holding, Putting, Taking, Stored, Guarding
    <3>2. /\ Moved(Holding, from, to) /\ Moved(Stored, from, to) /\ Moved(Guarding, from, to)
          /\ Cardinality(At(Holding)) \in Nat
          /\ Cardinality(At(Stored)) \in Nat
          /\ Cardinality(At(Guarding)) \in Nat
      BY <1>1, <1>3, MovesAll
    <3>. HIDE DEF s
    <3>. QED  BY <3>1, <3>2 DEF Moved
  <2>3. /\ Cardinality(At(Holding)) \in Nat /\ Cardinality(At(Stored)) \in Nat
        /\ Cardinality(At(Guarding)) \in Nat /\ Len(buffer) \in Nat
    BY AtFinite DEF IInv, TypeOK
  <2>4. Accounting'
    BY <1>1, <2>1, <2>2, TokenTaken
  <2>5. GuardExact'
    BY <1>1, <2>1, <2>2, <2>3, CapacityAssumption DEF IInv, GuardExact, Semaphores
  <2>6. TypeOK'
    <3>1. tokens' \in [Semaphores -> 0..Capacity]
      BY <2>1, <2>4, <2>5, TokensBounded
    <3>. QED  BY <1>1, <1>3, <3>1 DEF IInv, TypeOK, Stages
  <2>. QED  BY <1>1, <2>4, <2>5, <2>6 DEF IInv
<1>. QED  BY <1>2, <1>3 DEF Acquire

\* Release, at each of its four calls, moves the thread's token to a semaphore.
LEMMA ReleaseSteps ==
    ASSUME IInv, NEW t \in Threads, NEW s, NEW from, NEW to, Release(t, s, from, to),
           <<s, from, to>> \in {<<"guard", "putUnguard", "releaseCount">>,
                               <<"count", "releaseCount", "idle">>,
                               <<"guard", "takeUnguard", "releaseFree">>,
                               <<"free", "releaseFree", "idle">>}
    PROVE  IInv' /\ UNCHANGED <<buffer, item>>
<1>1. /\ from \notin DOMAIN Acquired /\ to \in Stages /\ s \in Semaphores
      /\ pc[t] = from /\ pc' = [pc EXCEPT ![t] = to]
      /\ tokens' = [tokens EXCEPT ![s] = @ + 1]
      /\ asleep' \subseteq asleep /\ UNCHANGED <<buffer, item>>
  BY DEF Release, Returned, Waiting, Acquired, Stages, Semaphores
<1>2. /\ tokens \in [Semaphores -> 0..Capacity]
      /\ tokens' \in [Semaphores -> Nat]
      /\ tokens'["free"] = tokens["free"] + (IF s = "free" THEN 1 ELSE 0)
      /\ tokens'["count"] = tokens["count"] + (IF s = "count" THEN 1 ELSE 0)
      /\ tokens'["guard"] = tokens["guard"] + (IF s = "guard" THEN 1 ELSE 0)
  BY <1>1, CapacityAssumption DEF IInv, TypeOK, Semaphores
<1>3. /\ Cardinality(At(Holding)') = Cardinality(At(Holding)) - (IF s = "guard" THEN 0 ELSE 1)
      /\ Cardinality(At(Stored)') = Cardinality(At(Stored)) - (IF s = "count" THEN 1 ELSE 0)
      /\ Cardinality(At(Guarding)') = Cardinality(At(Guarding)) - (IF s = "guard" THEN 1 ELSE 0)
  <2>1. /\ IF s = "guard" THEN from \in Holding /\ to \in Holding
                          ELSE from \in Holding /\ to \notin Holding
        /\ IF s = "count" THEN from \in Stored /\ to \notin Stored ELSE from \in Stored <=> to \in Stored
        /\ IF s = "guard" THEN from \in Guarding /\ to \notin Guarding
                          ELSE from \notin Guarding /\ to \notin Guarding
    BY DEF Holding, Putting, Taking, Stored, Guarding
  <2>2. /\ Moved(Holding, from, to) /\ Moved(Stored, from, to) /\ Moved(Guarding, from, to)
        /\ Cardinality(At(Holding)) \in Nat
        /\ Cardinality(At(Stored)) \in Nat
        /\ Cardinality(At(Guarding)) \in Nat
    BY <1>1, MovesAll
  <2>. QED  BY <2>1, <2>2 DEF Moved
<1>4. /\ Cardinality(At(Holding)) \in Nat /\ Cardinality(At(Stored)) \in Nat
      /\ Cardinality(At(Guarding)) \in Nat /\ Len(buffer) \in Nat
  BY AtFinite DEF IInv, TypeOK
<1>5. Accounting'
  BY <1>1, <1>2, <1>3, <1>4, CapacityAssumption DEF IInv, Accounting, Holding, Semaphores
<1>6. GuardExact'
  BY <1>1, <1>2, <1>3, <1>4, CapacityAssumption DEF IInv, GuardExact, Semaphores
<1>7. TypeOK'
  <2>1. tokens' \in [Semaphores -> 0..Capacity]
    BY <1>2, <1>5, <1>6, TokensBounded
  <2>2. t \notin asleep
    BY <1>1 DEF IInv, TypeOK
  <2>. QED  BY <1>1, <2>1, <2>2 DEF IInv, TypeOK, Stages
<1>. QED  BY <1>1, <1>5, <1>6, <1>7 DEF IInv

\* The beginning of an operation counts for nothing.
LEMMA CallSteps ==
    ASSUME IInv, NEW t \in Threads, CallPut(t) \/ CallTake(t)
    PROVE  IInv' /\ [Q!Next]_<<buffer, item>>
<1>1. PICK to \in {"putFree", "takeCount"} :
         pc[t] = "idle" /\ pc' = [pc EXCEPT ![t] = to] /\ UNCHANGED <<tokens, buffer, asleep>>
  BY DEF CallPut, CallTake
<1>2. item' \in [Threads -> Values] /\ [Q!Next]_<<buffer, item>>
  BY DEF IInv, TypeOK, CallPut, CallTake, Q!Next, Q!Choose
<1>3. TypeOK'
  BY <1>1, <1>2 DEF IInv, TypeOK, Acquired
<1>4. /\ Cardinality(At(Holding)') = Cardinality(At(Holding))
      /\ Cardinality(At(Stored)') = Cardinality(At(Stored))
      /\ Cardinality(At(Guarding)') = Cardinality(At(Guarding))
  <2>1. /\ Moved(Holding, pc[t], to) /\ Moved(Stored, pc[t], to) /\ Moved(Guarding, pc[t], to)
        /\ Cardinality(At(Holding)) \in Nat
        /\ Cardinality(At(Stored)) \in Nat
        /\ Cardinality(At(Guarding)) \in Nat
    BY <1>1, MovesAll
  <2>2. /\ pc[t] \notin Holding /\ to \notin Holding
        /\ pc[t] \notin Stored /\ to \notin Stored
        /\ pc[t] \notin Guarding /\ to \notin Guarding
    BY <1>1 DEF Holding, Putting, Taking, Stored, Guarding
  <2>. QED  BY <2>1, <2>2 DEF Moved
<1>5. Accounting' /\ GuardExact'
  BY <1>1, <1>4 DEF IInv, Accounting, GuardExact, Holding
<1>. QED  BY <1>2, <1>3, <1>5 DEF IInv

\* push_back finds room: the thread's own token is one that no element has.
LEMMA PushSteps ==
    ASSUME IInv, NEW t \in Threads, PushBack(t)
    PROVE  IInv' /\ Q!Put(t)
<1>1. /\ pc[t] = "push" /\ pc' = [pc EXCEPT ![t] = "putUnguard"]
      /\ buffer' = Append(buffer, item[t]) /\ UNCHANGED <<tokens, item, asleep>>
      /\ buffer \in Seq(Values) /\ item[t] \in Values /\ t \notin asleep
  BY DEF IInv, TypeOK, PushBack, Acquired
<1>2. buffer' \in Seq(Values) /\ Len(buffer') = Len(buffer) + 1
  BY <1>1
<1>3. /\ Cardinality(At(Holding)') = Cardinality(At(Holding))
      /\ Cardinality(At(Stored)') = Cardinality(At(Stored)) + 1
      /\ Cardinality(At(Guarding)') = Cardinality(At(Guarding))
  <2>1. /\ Moved(Holding, pc[t], "putUnguard") /\ Moved(Stored, pc[t], "putUnguard") /\ Moved(Guarding, pc[t], "putUnguard")
        /\ Cardinality(At(Holding)) \in Nat
        /\ Cardinality(At(Stored)) \in Nat
        /\ Cardinality(At(Guarding)) \in Nat
    BY <1>1, MovesAll
  <2>2. /\ pc[t] \in Holding /\ "putUnguard" \in Holding
        /\ pc[t] \notin Stored /\ "putUnguard" \in Stored
        /\ pc[t] \in Guarding /\ "putUnguard" \in Guarding
    BY <1>1 DEF Holding, Putting, Taking, Stored, Guarding
  <2>. QED  BY <2>1, <2>2 DEF Moved
<1>4. /\ Cardinality(At(Holding)) \in Nat /\ Cardinality(At(Stored)) \in Nat
      /\ Len(buffer) \in Nat /\ tokens \in [Semaphores -> 0..Capacity]
  BY AtFinite DEF IInv, TypeOK
<1>5. Accounting' /\ GuardExact'
  BY <1>1, <1>2, <1>3, <1>4, CapacityAssumption
     DEF IInv, Accounting, GuardExact, Holding, Semaphores
<1>6. TypeOK'
  BY <1>1, <1>2 DEF IInv, TypeOK
<1>7. Len(buffer) < Capacity
  <2>1. At(Stored) \cup {t} \subseteq At(Holding) /\ t \notin At(Stored)
    BY <1>1 DEF At, Holding, Putting, Taking, Stored
  <2>2. Cardinality(At(Stored)) + 1 <= Cardinality(At(Holding))
    BY <2>1, AtFinite, FS_AddElement, FS_Subset
  <2>. QED  BY <1>4, <2>2, CapacityAssumption DEF IInv, Accounting, Holding, Semaphores
<1>. QED  BY <1>1, <1>5, <1>6, <1>7 DEF IInv, Q!Put

\* front() finds an element: the thread has taken its token.
LEMMA PopFinds == ASSUME IInv, NEW t \in Threads, pc[t] = "pop" PROVE buffer # <<>>
<1>1. Cardinality(At(Stored)) \in Nat \ {0}
  BY Counted DEF Stored
<1>2. tokens["count"] \in Nat
  BY CapacityAssumption DEF IInv, TypeOK, Semaphores
<1>3. Len(buffer) # 0
  BY <1>1, <1>2 DEF IInv, Accounting
<1>. QED  BY <1>3

\* pop_front takes the oldest element.
LEMMA PopSteps ==
    ASSUME IInv, NEW t \in Threads, PopFront(t)
    PROVE  IInv' /\ Q!Take(t)
<1>1. /\ pc[t] = "pop" /\ pc' = [pc EXCEPT ![t] = "takeUnguard"]
      /\ item' = [item EXCEPT ![t] = Head(buffer)]
      /\ buffer' = Tail(buffer) /\ UNCHANGED <<tokens, asleep>>
      /\ buffer \in Seq(Values) /\ buffer # <<>> /\ t \notin asleep
  BY PopFinds DEF IInv, TypeOK, PopFront, Acquired
<1>2. buffer' \in Seq(Values) /\ Len(buffer') = Len(buffer) - 1 /\ Head(buffer) \in Values
  BY <1>1
<1>3. /\ Cardinality(At(Holding)') = Cardinality(At(Holding))
      /\ Cardinality(At(Stored)') = Cardinality(At(Stored)) - 1
      /\ Cardinality(At(Guarding)') = Cardinality(At(Guarding))
  <2>1. /\ Moved(Holding, pc[t], "takeUnguard") /\ Moved(Stored, pc[t], "takeUnguard") /\ Moved(Guarding, pc[t], "takeUnguard")
        /\ Cardinality(At(Holding)) \in Nat
        /\ Cardinality(At(Stored)) \in Nat
        /\ Cardinality(At(Guarding)) \in Nat
    BY <1>1, MovesAll
  <2>2. /\ pc[t] \in Holding /\ "takeUnguard" \in Holding
        /\ pc[t] \in Stored /\ "takeUnguard" \notin Stored
        /\ pc[t] \in Guarding /\ "takeUnguard" \in Guarding
    BY <1>1 DEF Holding, Putting, Taking, Stored, Guarding
  <2>. QED  BY <2>1, <2>2 DEF Moved
<1>4. /\ Cardinality(At(Holding)) \in Nat /\ Cardinality(At(Stored)) \in Nat
      /\ Len(buffer) \in Nat /\ tokens \in [Semaphores -> 0..Capacity]
  BY AtFinite DEF IInv, TypeOK
<1>5. Accounting' /\ GuardExact'
  BY <1>1, <1>2, <1>3, <1>4, CapacityAssumption
     DEF IInv, Accounting, GuardExact, Holding, Semaphores
<1>6. TypeOK'
  BY <1>1, <1>2 DEF IInv, TypeOK
<1>. QED  BY <1>1, <1>5, <1>6 DEF IInv, Q!Take

\* Every step keeps the invariant and is a step of the abstract queue, or none.
LEMMA StepIInv == IInv /\ [Next]_vars => IInv' /\ [Q!Next]_<<buffer, item>>
<1>. SUFFICES ASSUME IInv, [Next]_vars PROVE IInv' /\ [Q!Next]_<<buffer, item>>
  OBVIOUS
<1>1. CASE UNCHANGED vars
  BY <1>1 DEF vars, IInv, TypeOK, Accounting, GuardExact, At
<1>2. ASSUME NEW t \in Threads, CallPut(t) \/ CallTake(t)
      PROVE  IInv' /\ [Q!Next]_<<buffer, item>>
  BY <1>2, CallSteps
<1>3. ASSUME NEW t \in Threads, Put(t)
      PROVE  IInv' /\ [Q!Next]_<<buffer, item>>
  <2>1. CASE Acquire(t, "putFree", "putGuard") \/ Acquire(t, "putGuard", "push")
    BY <2>1, AcquireSteps
  <2>2. CASE PushBack(t)
    BY <2>2, PushSteps DEF Q!Next
  <2>3. CASE \/ Release(t, "guard", "putUnguard", "releaseCount")
             \/ Release(t, "count", "releaseCount", "idle")
    BY <2>3, ReleaseSteps
  <2>. QED  BY <1>3, <2>1, <2>2, <2>3 DEF Put
<1>4. ASSUME NEW t \in Threads, Take(t)
      PROVE  IInv' /\ [Q!Next]_<<buffer, item>>
  <2>1. CASE Acquire(t, "takeCount", AfterCount) \/ Acquire(t, "takeGuard", "pop")
    BY <2>1, AcquireSteps DEF AfterCount
  <2>2. CASE PopFront(t)
    BY <2>2, PopSteps DEF Q!Next
  <2>3. CASE \/ Release(t, "guard", "takeUnguard", "releaseFree")
             \/ Release(t, "free", "releaseFree", "idle")
    BY <2>3, ReleaseSteps
  <2>. QED  BY <1>4, <2>1, <2>2, <2>3 DEF Take
<1>5. ASSUME NEW t \in Threads, SpuriousWake(t)
      PROVE  IInv' /\ UNCHANGED <<buffer, item>>
  BY <1>5 DEF SpuriousWake, IInv, TypeOK, Accounting, GuardExact, At
<1>. QED  BY <1>1, <1>2, <1>3, <1>4, <1>5 DEF Next

\* One token of guard_semaphore_ admits one thread.
LEMMA SafeAccess == IInv => BufferIsSafe
<1>. SUFFICES ASSUME IInv PROVE BufferIsSafe
  OBVIOUS
<1>1. ASSUME NEW t \in At({"push", "pop"}), NEW u \in At({"push", "pop"}) PROVE t = u
  <2>1. t \in At(Guarding) /\ u \in At(Guarding)
    BY DEF At, Guarding
  <2>2. Cardinality(At(Guarding)) <= 1
    BY AtFinite, CapacityAssumption DEF IInv, TypeOK, GuardExact, Semaphores
  <2>3. Cardinality(At(Guarding) \ {t}) = 0
    <3>1. /\ IsFiniteSet(At(Guarding) \ {t})
          /\ Cardinality(At(Guarding) \ {t}) = Cardinality(At(Guarding)) - 1
      BY <2>1, AtFinite, FS_RemoveElement
    <3>2. Cardinality(At(Guarding) \ {t}) \in Nat
      BY <3>1, FS_CardinalityType
    <3>. QED  BY <2>2, <3>1, <3>2, AtFinite
  <2>4. At(Guarding) \ {t} = {}
    BY <2>3, AtFinite, FS_RemoveElement, FS_EmptySet
  <2>. QED  BY <2>1, <2>4
<1>2. At({"pop"}) # {} => buffer # <<>>
  BY PopFinds DEF At
<1>. QED  BY <1>1, <1>2 DEF BufferIsSafe

LEMMA Invariance == Spec => []IInv
<1>1. Init => IInv
  BY InitIInv
<1>2. IInv /\ [Next]_vars => IInv'
  BY StepIInv
<1>. QED  BY <1>1, <1>2, PTL DEF Spec

\* The words of the queue keep their types: no counter of a semaphore exceeds the
\* capacity, whatever Put and Take are doing.
THEOREM TypeCorrect == Spec => []TypeOK
BY Invariance, PTL DEF IInv

\* The tokens of Put and Take account for every place and every element of the buffer.
THEOREM TokensAccount == Spec => []Accounting
BY Invariance, PTL DEF IInv

\* One thread at a time is at push_back or pop_front, and pop_front finds an element.
THEOREM BufferSafety == Spec => []BufferIsSafe
BY Invariance, SafeAccess, PTL

\* Put and Take implement the abstract queue: order, and never more than fit.
THEOREM QueueRefinement == Spec => ImplementsQueue
<1>1. Init => Q!Init
  BY DEF Init, Q!Init
<1>2. IInv /\ [Next]_vars => [Q!Next]_<<buffer, item>>
  BY StepIInv
<1>. QED  BY <1>1, <1>2, Invariance, PTL DEF Spec, ImplementsQueue, Q!Spec
=============================================================================
