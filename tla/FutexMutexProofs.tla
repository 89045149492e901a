-------------------------- MODULE FutexMutexProofs --------------------------
(***************************************************************************)
(* stdlike::Mutex, for every finite set of threads: type correctness,      *)
(* mutual exclusion, no lost wake-up, and the implementation of            *)
(* AbstractLock.  They all follow from one inductive invariant, which adds *)
(* to the properties what state_ and counter_ count.  Then the condition   *)
(* variable over the mutex: it uses the mutex as threads do, so that all   *)
(* of this holds of the mutex in a Wait, and it misses no notification.    *)
(***************************************************************************)
EXTENDS CondVar, FiniteSetTheorems, TLAPS

\* The threads counted by counter_: after the fetch_add of Lock(), before the
\* fetch_sub of Unlock().
Counted == {t \in Threads : pc[t] \in {"swap", "wait", "asleep", "cs", "sub"}}

CounterExact == counter = Cardinality(Counted)
StateExact   == state = 1 <=> \E t \in Threads : pc[t] = "cs"

IInv == /\ TypeOK
        /\ CounterExact
        /\ StateExact
        /\ MutualExclusion
        /\ NoLostWakeup

\* counter_ ranges over the cardinalities of sets of threads, and 1 means that
\* the unlocking thread is alone: nobody sleeps when it skips the wake-up.
LEMMA CountedFinite ==
    /\ IsFiniteSet(Counted)
    /\ Cardinality(Counted) \in 0..Cardinality(Threads)
<1>1. Counted \in SUBSET Threads
  BY DEF Counted
<1>2. IsFiniteSet(Counted) /\ Cardinality(Counted) <= Cardinality(Threads)
  BY <1>1, FS_Subset, ThreadsAssumption
<1>3. Cardinality(Counted) \in Nat /\ Cardinality(Threads) \in Nat
  BY <1>2, FS_CardinalityType, ThreadsAssumption
<1>. QED  BY <1>2, <1>3

\* A step that lets thread t into the counted set, or out of it, moves the
\* counter by one; a step that does neither leaves it alone.
LEMMA CounterStep ==
    ASSUME TypeOK, CounterExact, NEW t \in Threads,
           \/ t \notin Counted /\ Counted' = Counted \cup {t} /\ counter' = counter + 1
           \/ t \in Counted /\ Counted' = Counted \ {t} /\ counter' = counter - 1
           \/ Counted' = Counted /\ counter' = counter
    PROVE  CounterExact' /\ counter' \in 0..Cardinality(Threads)
<1>1. Cardinality(Counted) \in Nat /\ IsFiniteSet(Counted)
  BY CountedFinite, FS_CardinalityType
<1>2. counter' = Cardinality(Counted')
  BY <1>1, FS_AddElement, FS_RemoveElement DEF CounterExact
<1>3. Counted' \in SUBSET Threads
  BY DEF Counted
<1>4. Cardinality(Counted') <= Cardinality(Threads) /\ IsFiniteSet(Counted')
  BY <1>3, FS_Subset, ThreadsAssumption
<1>5. Cardinality(Counted') \in Nat /\ Cardinality(Threads) \in Nat
  BY <1>4, FS_CardinalityType, ThreadsAssumption
<1>. QED  BY <1>2, <1>4, <1>5 DEF CounterExact

LEMMA InitIInv == Init => IInv
<1>. SUFFICES ASSUME Init PROVE IInv
  OBVIOUS
<1>1. Counted = {} /\ Cardinality(Threads) \in Nat
  BY FS_CardinalityType, ThreadsAssumption DEF Init, Counted
<1>2. Cardinality({}) = 0
  BY FS_EmptySet
<1>. QED
  BY <1>1, <1>2 DEF Init, IInv, TypeOK, CounterExact, StateExact, MutualExclusion,
                    NoLostWakeup, Asleep

LEMMA NextIInv == IInv /\ [Next]_vars => IInv'
<1>. SUFFICES ASSUME IInv, [Next]_vars PROVE IInv'
  OBVIOUS
<1>. USE DEF IInv, TypeOK, Move, AfterWait
<1>1. ASSUME NEW t \in Threads, Enter(t) PROVE IInv'
  <2>1. t \notin Counted /\ Counted' = Counted \cup {t}
    BY <1>1 DEF Enter, Counted
  <2>2. CounterExact' /\ counter' \in 0..Cardinality(Threads)
    BY <1>1, <2>1, CounterStep DEF Enter
  <2>3. StateExact' /\ MutualExclusion'
    BY <1>1 DEF Enter, StateExact, MutualExclusion
  <2>4. NoLostWakeup'
    BY <1>1 DEF Enter, NoLostWakeup, Asleep, Awake
  <2>. QED  BY <1>1, <2>2, <2>3, <2>4 DEF Enter
<1>2. ASSUME NEW t \in Threads, Swap(t) PROVE IInv'
  <2>1. Counted' = Counted
    BY <1>2 DEF Swap, Counted, Taken
  <2>2. CounterExact' /\ counter' \in 0..Cardinality(Threads)
    BY <1>2, <2>1, CounterStep DEF Swap
  <2>3. StateExact' /\ MutualExclusion'
    BY <1>2 DEF Swap, Taken, StateExact, MutualExclusion
  <2>4. NoLostWakeup'
    BY <1>2 DEF Swap, Taken, NoLostWakeup, Asleep, Awake
  <2>. QED  BY <1>2, <2>2, <2>3, <2>4 DEF Swap
<1>3. ASSUME NEW t \in Threads, FutexWait(t) PROVE IInv'
  <2>1. Counted' = Counted
    BY <1>3 DEF FutexWait, Counted, MaySleep
  <2>2. CounterExact' /\ counter' \in 0..Cardinality(Threads)
    BY <1>3, <2>1, CounterStep DEF FutexWait
  <2>3. StateExact' /\ MutualExclusion'
    BY <1>3 DEF FutexWait, MaySleep, StateExact, MutualExclusion
  \* A thread falls asleep only while state_ = 1, that is, under a holder.
  <2>4. NoLostWakeup'
    BY <1>3, <2>3 DEF FutexWait, MaySleep, NoLostWakeup, Asleep, Awake, StateExact
  <2>. QED  BY <1>3, <2>2, <2>3, <2>4 DEF FutexWait
<1>4. ASSUME NEW t \in Threads, SpuriousWake(t) PROVE IInv'
  <2>1. Counted' = Counted
    BY <1>4 DEF SpuriousWake, Counted
  <2>2. CounterExact' /\ counter' \in 0..Cardinality(Threads)
    BY <1>4, <2>1, CounterStep DEF SpuriousWake
  <2>3. StateExact' /\ MutualExclusion'
    BY <1>4 DEF SpuriousWake, StateExact, MutualExclusion
  <2>4. NoLostWakeup'
    BY <1>4 DEF SpuriousWake, NoLostWakeup, Asleep, Awake
  <2>. QED  BY <1>4, <2>2, <2>3, <2>4 DEF SpuriousWake
<1>5. ASSUME NEW t \in Threads, Store(t) PROVE IInv'
  <2>1. Counted' = Counted
    BY <1>5 DEF Store, Counted
  <2>2. CounterExact' /\ counter' \in 0..Cardinality(Threads)
    BY <1>5, <2>1, CounterStep DEF Store
  <2>3. StateExact' /\ MutualExclusion'
    BY <1>5 DEF Store, StateExact, MutualExclusion
  <2>4. NoLostWakeup'
    BY <1>5 DEF Store, NoLostWakeup, Asleep, Awake
  <2>. QED  BY <1>5, <2>2, <2>3, <2>4 DEF Store
<1>6. ASSUME NEW t \in Threads, Subtract(t) PROVE IInv'
  <2>1. t \in Counted /\ Counted' = Counted \ {t}
    BY <1>6 DEF Subtract, Counted
  <2>2. CounterExact' /\ counter' \in 0..Cardinality(Threads)
    BY <1>6, <2>1, CounterStep DEF Subtract
  <2>3. StateExact' /\ MutualExclusion'
    BY <1>6 DEF Subtract, StateExact, MutualExclusion
  <2>4. NoLostWakeup'
    <3>1. CASE Contended(counter)
      BY <1>6, <3>1 DEF Subtract, NoLostWakeup, Asleep, Awake
    <3>2. CASE ~Contended(counter)
      <4>1. Cardinality(Counted) = 1
        BY <3>2 DEF Contended, CounterExact
      <4>2. \E x : Counted = {x}
        BY <4>1, CountedFinite, FS_Singleton
      <4>3. Asleep = {}
        BY <1>6, <2>1, <4>2 DEF Subtract, Asleep, Counted
      <4>. QED  BY <1>6, <3>2, <4>3 DEF Subtract, NoLostWakeup, Asleep
    <3>. QED  BY <3>1, <3>2
  <2>. QED  BY <1>6, <2>2, <2>3, <2>4 DEF Subtract
<1>7. ASSUME NEW t \in Threads, FutexWakeOne(t) PROVE IInv'
  <2>1. Counted' = Counted
    BY <1>7 DEF FutexWakeOne, Counted, Asleep
  <2>2. CounterExact' /\ counter' \in 0..Cardinality(Threads)
    BY <1>7, <2>1, CounterStep DEF FutexWakeOne
  <2>3. StateExact' /\ MutualExclusion'
    BY <1>7 DEF FutexWakeOne, Asleep, StateExact, MutualExclusion
  \* The waker leaves, but the thread it wakes is awake.
  <2>4. NoLostWakeup'
    BY <1>7 DEF FutexWakeOne, NoLostWakeup, Asleep, Awake
  <2>5. pc' \in [Threads -> {"idle", "swap", "wait", "asleep", "cs", "sub", "wake"}]
    BY <1>7 DEF FutexWakeOne, Asleep
  <2>. QED  BY <1>7, <2>2, <2>3, <2>4, <2>5 DEF FutexWakeOne
<1>8. CASE UNCHANGED vars
  BY <1>8 DEF vars, CounterExact, Counted, StateExact, MutualExclusion, NoLostWakeup,
              Asleep, Awake
<1>. QED
  BY <1>1, <1>2, <1>3, <1>4, <1>5, <1>6, <1>7, <1>8 DEF Next, Inside

LEMMA Inductive == Spec => []IInv
  BY InitIInv, NextIInv, PTL DEF Spec

\* The words of stdlike::Mutex stay in range; in particular counter_ is never
\* decremented below 0 nor incremented above the number of threads.
THEOREM TypeCorrect == Spec => []TypeOK
<1>1. IInv => TypeOK
  BY DEF IInv
<1>. QED  BY <1>1, Inductive, PTL

\* stdlike::Mutex excludes: two threads are never past Lock() at once.
THEOREM Exclusion == Spec => []MutualExclusion
<1>1. IInv => MutualExclusion
  BY DEF IInv
<1>. QED  BY <1>1, Inductive, PTL

\* Unlock() never forgets a sleeper: one is asleep on the futex only while a
\* holder, an unlocker or a thread on its way to the exchange is there.
THEOREM WakeupsAreNotLost == Spec => []NoLostWakeup
<1>1. IInv => NoLostWakeup
  BY DEF IInv
<1>. QED  BY <1>1, Inductive, PTL

\* Every behaviour of stdlike::Mutex is a behaviour of AbstractLock: the
\* exchange that returns 0 acquires, the store of 0 releases.
THEOREM LockRefinement == Spec => ImplementsLock
<1>. DEFINE abs == [t \in Threads |->
                      CASE pc[t] \in {"swap", "wait", "asleep"} -> "trying"
                        [] pc[t] = "cs" -> "cs"
                        [] OTHER -> "idle"]
<1>1. Init => Lock!Init
  BY DEF Init, Lock!Init
<1>2. IInv /\ [Next]_vars => [Lock!Next]_abs
  <2>. SUFFICES ASSUME IInv, [Next]_vars PROVE Lock!Next \/ UNCHANGED abs
    OBVIOUS
  <2>. USE DEF IInv, TypeOK, Move, AfterWait
  <2>1. ASSUME NEW t \in Threads, Enter(t) PROVE Lock!Request(t)
    BY <2>1 DEF Enter, Lock!Request
  <2>2. ASSUME NEW t \in Threads, Swap(t) PROVE Lock!Acquire(t) \/ UNCHANGED abs
    <3>1. CASE Taken(state)
      BY <2>2, <3>1 DEF Swap
    <3>2. CASE ~Taken(state)
      <4>1. pc[t] = "swap" /\ pc' = [pc EXCEPT ![t] = "cs"]
        BY <2>2, <3>2 DEF Swap
      <4>2. \A u \in Threads : pc[u] # "cs"
        BY <3>2 DEF Taken, StateExact
      <4>3. abs' = [abs EXCEPT ![t] = "cs"]
        BY <4>1
      <4>. QED  BY <4>1, <4>2, <4>3 DEF Lock!Acquire, Lock!Holder
    <3>. QED  BY <3>1, <3>2
  <2>3. ASSUME NEW t \in Threads, FutexWait(t) PROVE UNCHANGED abs
    BY <2>3 DEF FutexWait, MaySleep
  <2>4. ASSUME NEW t \in Threads, SpuriousWake(t) PROVE UNCHANGED abs
    BY <2>4 DEF SpuriousWake
  <2>5. ASSUME NEW t \in Threads, Store(t) PROVE Lock!Release(t)
    BY <2>5 DEF Store, Lock!Release, Lock!Holder
  <2>6. ASSUME NEW t \in Threads, Subtract(t) PROVE UNCHANGED abs
    BY <2>6 DEF Subtract
  <2>7. ASSUME NEW t \in Threads, FutexWakeOne(t) PROVE UNCHANGED abs
    BY <2>7 DEF FutexWakeOne, Asleep
  <2>8. CASE UNCHANGED vars
    BY <2>8 DEF vars
  <2>. QED
    BY <2>1, <2>2, <2>3, <2>4, <2>5, <2>6, <2>7, <2>8 DEF Next, Inside, Lock!Next
<1>. QED  BY <1>1, <1>2, Inductive, PTL DEF Spec, ImplementsLock, Lock!Spec
-----------------------------------------------------------------------------
\* Whatever Wait, NotifyOne and NotifyAll do, the mutex sees calls of its threads:
\* a Wait unlocks and locks the mutex by the mutex' own steps and no others.
THEOREM CondVarUsesMutex == CvSpec => Spec
<1>1. CvInit => Init
  BY DEF CvInit
<1>2. [CvNext]_allvars => [Next]_vars
  <2>. SUFFICES ASSUME [CvNext]_allvars PROVE Next \/ UNCHANGED vars
    OBVIOUS
  <2>1. ASSUME NEW t \in Threads,
               CvEnter(t) \/ InMutex(t) \/ Spurious(t) \/ Relock(t)
        PROVE  Next
    BY <2>1 DEF CvEnter, InMutex, Spurious, Relock, Next
  <2>2. ASSUME NEW t \in Threads,
               \/ Load(t) \/ Notify(t) \/ SpuriousUnpark(t) \/ Park(t)
               \/ WakeOne(t) \/ WakeAll(t)
        PROVE  UNCHANGED vars
    BY <2>2 DEF Load, Notify, Bump, SpuriousUnpark, Park, WakeOne, WakeAll
  <2>. QED  BY <2>1, <2>2 DEF CvNext, InCondVar, allvars
<1>. QED  BY <1>1, <1>2, PTL DEF CvSpec, Spec

\* The mutex of a condition variable loses no wake-up, and excludes, in the middle of
\* the critical sections that Wait leaves and enters again.
THEOREM CondVarKeepsMutex == CvSpec => [](MutualExclusion /\ NoLostWakeup) /\ ImplementsLock
BY CondVarUsesMutex, Exclusion, WakeupsAreNotLost, LockRefinement, PTL

\* value_ is ahead of everything that has been loaded or announced.
CvInv == /\ value \in Nat /\ told \in 0..value
         /\ seen \in [Threads -> 0..value]
         /\ at \in [Threads -> {"none", "wait", "parked", "relock", "wakeOne", "wakeAll"}]
         /\ NoMissedNotification

LEMMA NextCvInv == CvInv /\ [CvNext]_allvars => CvInv'
<1>. SUFFICES ASSUME CvInv, [CvNext]_allvars PROVE CvInv'
  OBVIOUS
<1>. USE DEF CvInv, NoMissedNotification, Parked
<1>1. ASSUME UNCHANGED cvars PROVE CvInv'
  BY <1>1 DEF cvars
<1>2. ASSUME NEW t \in Threads, Load(t) PROVE CvInv'
  BY <1>2 DEF Load
<1>3. ASSUME NEW t \in Threads, Notify(t) PROVE CvInv'
  BY <1>3 DEF Notify, Bump
<1>4. ASSUME NEW t \in Threads, SpuriousUnpark(t) \/ Relock(t) PROVE CvInv'
  BY <1>4 DEF SpuriousUnpark, Relock
\* FutexWait compares: whoever parks has loaded the present value.
<1>5. ASSUME NEW t \in Threads, Park(t) PROVE CvInv'
  BY <1>5 DEF Park, MayPark
<1>6. ASSUME NEW t \in Threads, WakeOne(t) PROVE CvInv'
  BY <1>6 DEF WakeOne, Wake
\* FutexWakeAll leaves nobody parked.
<1>7. ASSUME NEW t \in Threads, WakeAll(t) PROVE CvInv'
  BY <1>7 DEF WakeAll, Wake, Waken
<1>8. CASE UNCHANGED allvars
  BY <1>8 DEF allvars, cvars
<1>. QED
  BY <1>1, <1>2, <1>3, <1>4, <1>5, <1>6, <1>7, <1>8
     DEF CvNext, CvEnter, InMutex, Spurious, InCondVar

\* A thread that has loaded value_ before the fetch_add of a NotifyAll is not asleep
\* when that NotifyAll has returned, although it unlocks before it falls asleep.
THEOREM NotificationsAreNotMissed == CvSpec => []NoMissedNotification
<1>1. CvInit => CvInv
  BY DEF CvInit, CvInv, NoMissedNotification, Parked
<1>2. CvInv => NoMissedNotification
  BY DEF CvInv
<1>. QED  BY <1>1, <1>2, NextCvInv, PTL DEF CvSpec
=============================================================================
