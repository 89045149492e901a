---------------------------- MODULE FibersProofs ----------------------------
(***************************************************************************)
(* The code of fibers/ for every finite set of fibers and any number of    *)
(* workers.  The mutex: no fiber is lost or run twice, the handles and the *)
(* spinlock of the futex are in order, and mutex and futex together        *)
(* implement FutexMutex, whose proofs then hold of them.  Coroutines: the  *)
(* thread-local pointer is right.  The wait group: nobody uses it when it  *)
(* is destroyed.  With FiberRuntimeProofs, these are what MCFibers checks. *)
(***************************************************************************)
EXTENDS MCFibers, FiniteSetTheorems, SequenceTheorems, TLAPS

\* Where a fiber is follows from its code: in the futex's queue from its insertion to
\* its PopFront, and on a worker or in the pool's queue unless it is asleep.
Places ==
    /\ IsInjective(queue) /\ IsInjective(ready)
    /\ \A f \in Fibers : f \in ToSet(queue) <=> pc[f] \in {"suspending", "asleep"}
    /\ \A f \in Fibers : f \in running \cup ToSet(ready) <=> pc[f] # "asleep"
    /\ running \cap ToSet(ready) = {}
    /\ \A f \in ToSet(ready) : pc[f] \in {"idle", "swap", "cs"}

Handles == \A f \in Fibers : pc[f] = "asleep" => handle[f]

\* The spinlock has one owner when it is locked.
SpinOwned == /\ locked <=> SpinHolders # {}
             /\ \A f, g \in SpinHolders : f = g

\* The fibers counted by counter_: from the fetch_add of Lock() to the fetch_sub of Unlock().
Counted == {f \in Fibers : pc[f] \in {"swap", "park", "parkLocked", "suspending", "asleep",
                                      "parkUnlock", "cs", "sub"}}

CounterExact == counter = Cardinality(Counted)

IInv == TypeOK /\ Places /\ Handles /\ SpinOwned /\ CounterExact
-----------------------------------------------------------------------------
(* Queues of fibers, and the number of them *)

\* Append adds a fiber that is not there yet at the end of a queue.
LEMMA QueueAppend ==
    ASSUME NEW s \in Seq(Fibers), NEW f \in Fibers
    PROVE  /\ Append(s, f) \in Seq(Fibers)
           /\ ToSet(Append(s, f)) = ToSet(s) \cup {f}
           /\ IsInjective(s) /\ f \notin ToSet(s) => IsInjective(Append(s, f))
<1>. DEFINE r == Append(s, f)
<1>1. /\ r \in Seq(Fibers) /\ Len(s) \in Nat
      /\ DOMAIN s = 1..Len(s) /\ DOMAIN r = 1..(Len(s) + 1)
      /\ \A i \in 1..Len(s) : r[i] = s[i]
      /\ r[Len(s) + 1] = f
  BY AppendProperties, LenProperties
<1>. HIDE DEF r
<1>2. ToSet(r) = ToSet(s) \cup {f}
  BY <1>1 DEF ToSet
<1>3. IsInjective(s) /\ f \notin ToSet(s) => IsInjective(r)
  BY <1>1 DEF IsInjective, ToSet
<1>. QED  BY <1>1, <1>2, <1>3 DEF r

\* Tail takes the first fiber out of a queue that has every fiber once.
LEMMA QueueTail ==
    ASSUME NEW s \in Seq(Fibers), s # <<>>, IsInjective(s)
    PROVE  /\ Tail(s) \in Seq(Fibers) /\ IsInjective(Tail(s))
           /\ Head(s) \in Fibers /\ Head(s) \in ToSet(s)
           /\ ToSet(Tail(s)) = ToSet(s) \ {Head(s)}
<1>. DEFINE r == Tail(s)
<1>1. /\ r \in Seq(Fibers) /\ Len(r) = Len(s) - 1 /\ Len(s) \in Nat \ {0}
      /\ DOMAIN s = 1..Len(s) /\ DOMAIN r = 1..(Len(s) - 1)
      /\ \A i \in 1..Len(r) : r[i] = s[i+1]
      /\ Head(s) = s[1] /\ Head(s) \in Fibers
  BY HeadTailProperties, LenProperties, EmptySeq
<1>. HIDE DEF r
<1>2. Head(s) \in ToSet(s)
  BY <1>1 DEF ToSet
<1>3. ASSUME NEW f \in ToSet(r) PROVE f \in ToSet(s) \ {Head(s)}
  <2>1. PICK i \in 1..Len(r) : f = s[i+1]
    BY <1>1, <1>3 DEF ToSet
  <2>2. i + 1 \in 1..Len(s) /\ i + 1 # 1
    BY <1>1, <2>1
  <2>3. s[i+1] \in ToSet(s)
    BY <1>1, <2>2 DEF ToSet
  <2>4. s[i+1] # s[1]
    BY <1>1, <2>2 DEF IsInjective
  <2>. QED  BY <1>1, <2>1, <2>3, <2>4
<1>4. ASSUME NEW f \in ToSet(s) \ {Head(s)} PROVE f \in ToSet(r)
  <2>1. PICK i \in 1..Len(s) : f = s[i]
    BY <1>1, <1>4 DEF ToSet
  <2>2. i - 1 \in 1..Len(r) /\ r[i-1] = f
    BY <1>1, <1>4, <2>1
  <2>. QED  BY <1>1, <2>2 DEF ToSet
<1>5. ASSUME NEW i \in DOMAIN r, NEW j \in DOMAIN r, r[i] = r[j] PROVE i = j
  <2>1. /\ i \in Nat /\ j \in Nat /\ i + 1 \in DOMAIN s /\ j + 1 \in DOMAIN s
        /\ s[i+1] = s[j+1]
    BY <1>1, <1>5
  <2>2. i + 1 = j + 1
    BY <2>1 DEF IsInjective
  <2>. QED  BY <2>1, <2>2
<1>6. IsInjective(r)
  BY <1>5 DEF IsInjective
<1>. QED  BY <1>1, <1>2, <1>3, <1>4, <1>6 DEF r

\* The length of a queue that has every fiber once is the number of its fibers.
LEMMA QueueLength ==
    ASSUME NEW s \in Seq(Fibers), IsInjective(s)
    PROVE  IsFiniteSet(ToSet(s)) /\ Cardinality(ToSet(s)) = Len(s)
<1>1. Len(s) \in Nat /\ s \in [1..Len(s) -> ToSet(s)]
  BY LenProperties DEF ToSet
<1>2. s \in Bijection(1..Len(s), ToSet(s))
  BY <1>1 DEF Bijection, Injection, Surjection, IsInjective, ToSet
<1>3. ExistsBijection(1..Len(s), ToSet(s))
  BY <1>2 DEF ExistsBijection
<1>. QED  BY <1>1, <1>3, FS_CountingElements, FS_NatBijection

\* counter_ follows the fibers that it counts.
LEMMA CounterStep ==
    ASSUME IInv, NEW f \in Fibers,
           \/ f \notin Counted /\ Counted' = Counted \cup {f} /\ counter' = counter + 1
           \/ f \in Counted /\ Counted' = Counted \ {f} /\ counter' = counter - 1
           \/ Counted' = Counted /\ counter' = counter
    PROVE  CounterExact' /\ counter' \in 0..Cardinality(Fibers)
<1>1. Counted \in SUBSET Fibers /\ Counted' \in SUBSET Fibers
  BY DEF Counted
<1>2. /\ IsFiniteSet(Counted) /\ Cardinality(Counted) \in Nat
      /\ IsFiniteSet(Counted') /\ Cardinality(Counted') \in Nat
      /\ Cardinality(Counted') <= Cardinality(Fibers) /\ Cardinality(Fibers) \in Nat
  BY <1>1, FS_Subset, FS_CardinalityType, FibersAssumption
<1>3. counter' = Cardinality(Counted')
  BY <1>2, FS_AddElement, FS_RemoveElement DEF IInv, CounterExact
<1>. QED  BY <1>2, <1>3 DEF CounterExact

\* A fiber that moves on without leaving its worker and outside of the futex's queue
\* leaves every fiber in its place.
LEMMA PlacesKept ==
    ASSUME IInv, NEW f \in Fibers, f \in running, NEW p,
           {pc[f], p} \cap {"suspending", "asleep"} = {},
           pc' = [pc EXCEPT ![f] = p], UNCHANGED <<queue, ready, running>>
    PROVE  Places'
<1>1. f \notin ToSet(ready)
  BY DEF IInv, Places
<1>2. pc' \in [Fibers -> {pc[g] : g \in Fibers} \cup {p}] /\ pc'[f] = p
      /\ \A g \in Fibers \ {f} : pc'[g] = pc[g]
  BY DEF IInv, TypeOK
<1>3. \A g \in Fibers : g \in ToSet(queue) <=> pc'[g] \in {"suspending", "asleep"}
  BY <1>2 DEF IInv, Places
<1>4. \A g \in Fibers : g \in running \cup ToSet(ready) <=> pc'[g] # "asleep"
  BY <1>2 DEF IInv, Places
<1>5. \A g \in ToSet(ready) : pc'[g] \in {"idle", "swap", "cs"}
  <2>1. ToSet(ready) \subseteq Fibers
    BY DEF IInv, TypeOK, ToSet
  <2>. QED  BY <1>1, <1>2, <2>1 DEF IInv, Places
<1>. QED  BY <1>3, <1>4, <1>5 DEF IInv, Places
-----------------------------------------------------------------------------
LEMMA InitIInv == Init => IInv
<1>. SUFFICES ASSUME Init PROVE IInv
  OBVIOUS
<1>. USE DEF Init, InitOf
<1>1. Cardinality(Fibers) \in Nat
  BY FibersAssumption, FS_CardinalityType
<1>2. /\ ready \in [1..Cardinality(Fibers) -> Fibers]
      /\ \A i, j \in 1..Cardinality(Fibers) : i # j => ready[i] # ready[j]
  BY DEF SetToSeqs
<1>3. ready \in Seq(Fibers) /\ IsInjective(ready) /\ Len(ready) = Cardinality(Fibers)
  BY <1>1, <1>2 DEF IsInjective
<1>4. ToSet(ready) = Fibers
  <2>1. IsFiniteSet(ToSet(ready)) /\ Cardinality(ToSet(ready)) = Cardinality(Fibers)
    BY <1>3, QueueLength
  <2>2. ToSet(ready) \in SUBSET Fibers
    BY <1>2 DEF ToSet
  <2>. QED  BY <2>1, <2>2, FS_Subset, FibersAssumption
<1>5. ToSet(queue) = {} /\ IsInjective(queue) /\ queue \in Seq(Fibers)
  BY DEF ToSet, IsInjective
<1>6. TypeOK
  <2>1. pc \in [Fibers -> Points] /\ handle \in [Fibers -> BOOLEAN]
    BY DEF Points
  <2>2. state = 0 /\ counter = 0 /\ locked = FALSE /\ running = {}
    OBVIOUS
  <2>. HIDE DEF Init, InitOf
  <2>3. counter \in 0..Cardinality(Fibers) /\ state \in {0, 1}
    BY <1>1, <2>2
  <2>4. locked \in BOOLEAN /\ running \subseteq Fibers
    BY <2>2
  <2>. QED  BY <1>3, <1>5, <2>1, <2>3, <2>4 DEF TypeOK
<1>7. Places
  BY <1>3, <1>4, <1>5 DEF Places
<1>8. SpinHolders = {} /\ Counted = {}
  BY DEF SpinHolders, Counted
<1>9. Handles /\ SpinOwned /\ CounterExact
  BY <1>8, FS_EmptySet DEF Handles, SpinOwned, CounterExact
<1>. QED  BY <1>6, <1>7, <1>9 DEF IInv

LEMMA NextIInv == IInv /\ [Next]_vars => IInv'
<1>. SUFFICES ASSUME IInv, [Next]_vars PROVE IInv'
  OBVIOUS
<1>. USE DEF IInv, futex, pool
<1>1. ASSUME NEW f \in Fibers, Enter(f) PROVE IInv'
  <2>1. f \notin Counted /\ Counted' = Counted \cup {f} /\ counter' = counter + 1
    BY <1>1 DEF Enter, Move, Counted, TypeOK
  <2>2. CounterExact' /\ counter' \in 0..Cardinality(Fibers)
    BY <2>1, CounterStep
  <2>3. TypeOK'
    BY <1>1, <2>2 DEF Enter, Move, TypeOK, Points
  <2>4. Places'
    BY <1>1, PlacesKept DEF Enter, Move, Contended
  <2>5. Handles' /\ SpinOwned'
    BY <1>1 DEF Enter, Move, TypeOK, Handles, SpinOwned, SpinHolders
  <2>. QED  BY <2>2, <2>3, <2>4, <2>5
<1>2. ASSUME NEW f \in Fibers, Subtract(f) PROVE IInv'
  <2>1. f \in Counted /\ Counted' = Counted \ {f} /\ counter' = counter - 1
    BY <1>2 DEF Subtract, Move, Counted, TypeOK
  <2>2. CounterExact' /\ counter' \in 0..Cardinality(Fibers)
    BY <2>1, CounterStep
  <2>3. TypeOK'
    BY <1>2, <2>2 DEF Subtract, Move, TypeOK, Points
  <2>4. Places'
    BY <1>2, PlacesKept DEF Subtract, Move, Contended
  <2>5. Handles' /\ SpinOwned'
    BY <1>2 DEF Subtract, Move, TypeOK, Handles, SpinOwned, SpinHolders
  <2>. QED  BY <2>2, <2>3, <2>4, <2>5
<1>3. ASSUME NEW f \in Fibers, Swap(f) \/ Store(f) PROVE IInv'
  <2>1. Counted' = Counted /\ counter' = counter
    BY <1>3 DEF Swap, Store, Move, Counted, TypeOK
  <2>2. CounterExact' /\ counter' \in 0..Cardinality(Fibers)
    BY <2>1, CounterStep
  <2>3. TypeOK'
    BY <1>3, <2>2 DEF Swap, Store, Move, TypeOK, Points
  <2>4. Places'
    BY <1>3, PlacesKept DEF Swap, Store, Move
  <2>5. Handles' /\ SpinOwned'
    BY <1>3 DEF Swap, Store, Move, TypeOK, Handles, SpinOwned, SpinHolders
  <2>. QED  BY <2>2, <2>3, <2>4, <2>5
<1>4. ASSUME NEW f \in Fibers, SpinLock(f) \/ SpinUnlock(f) PROVE IInv'
  <2>1. Counted' = Counted /\ counter' = counter
    BY <1>4 DEF SpinLock, SpinUnlock, AfterPark, Move, Counted, TypeOK
  <2>2. CounterExact' /\ counter' \in 0..Cardinality(Fibers)
    BY <2>1, CounterStep
  <2>3. TypeOK'
    BY <1>4, <2>2 DEF SpinLock, SpinUnlock, AfterPark, Move, TypeOK, Points
  <2>6. Places'
    BY <1>4, PlacesKept DEF SpinLock, SpinUnlock, AfterPark, Move
  <2>4. Handles'
    BY <1>4 DEF SpinLock, SpinUnlock, AfterPark, Move, TypeOK, Handles
  <2>5. SpinOwned'
    BY <1>4 DEF SpinLock, SpinUnlock, AfterPark, Move, TypeOK, SpinOwned, SpinHolders
  <2>. QED  BY <2>2, <2>3, <2>4, <2>5, <2>6
<1>5. ASSUME NEW f \in Fibers, ParkIfEqual(f) PROVE IInv'
  <2>1. Counted' = Counted /\ counter' = counter
    BY <1>5 DEF ParkIfEqual, Move, Counted, TypeOK
  <2>2. CounterExact' /\ counter' \in 0..Cardinality(Fibers)
    BY <2>1, CounterStep
  <2>3. f \notin ToSet(queue)
    BY <1>5 DEF ParkIfEqual, Move, Places
  <2>4. /\ Append(queue, f) \in Seq(Fibers) /\ IsInjective(Append(queue, f))
        /\ ToSet(Append(queue, f)) = ToSet(queue) \cup {f}
    BY <2>3, QueueAppend DEF TypeOK, Places
  <2>5. TypeOK'
    BY <1>5, <2>2, <2>4 DEF ParkIfEqual, Move, TypeOK, Points
  <2>6. Places'
    <3>1. CASE MayPark(state)
      <4>1. /\ f \in running /\ pc[f] = "parkLocked"
            /\ pc' = [pc EXCEPT ![f] = "suspending"] /\ queue' = Append(queue, f)
            /\ UNCHANGED <<ready, running>>
        BY <1>5, <3>1 DEF ParkIfEqual, Move
      <4>2. f \notin ToSet(ready)
        BY <4>1 DEF Places
      <4>3. pc'[f] = "suspending" /\ \A g \in Fibers \ {f} : pc'[g] = pc[g]
        BY <4>1 DEF TypeOK
      <4>4. ToSet(ready) \subseteq Fibers
        BY DEF TypeOK, ToSet
      <4>. QED  BY <2>4, <4>1, <4>2, <4>3, <4>4 DEF Places
    <3>2. CASE ~MayPark(state)
      BY <1>5, <3>2, PlacesKept DEF ParkIfEqual, Move
    <3>. QED  BY <3>1, <3>2
  <2>7. Handles' /\ SpinOwned'
    BY <1>5 DEF ParkIfEqual, Move, TypeOK, Handles, SpinOwned, SpinHolders
  <2>. QED  BY <2>2, <2>5, <2>6, <2>7
<1>6. ASSUME NEW f \in Fibers, AwaitSuspend(f) PROVE IInv'
  <2>1. Counted' = Counted /\ counter' = counter
    BY <1>6 DEF AwaitSuspend, Move, Counted, TypeOK
  <2>2. CounterExact' /\ counter' \in 0..Cardinality(Fibers)
    BY <2>1, CounterStep
  <2>3. TypeOK' /\ Handles'
    BY <1>6, <2>2 DEF AwaitSuspend, Off, Move, TypeOK, Points, Handles
  <2>4. Places'
    BY <1>6 DEF AwaitSuspend, Off, Move, TypeOK, Places
  <2>5. SpinOwned'
    BY <1>6 DEF AwaitSuspend, Move, TypeOK, SpinOwned, SpinHolders
  <2>. QED  BY <2>2, <2>3, <2>4, <2>5
<1>7. ASSUME NEW f \in Fibers, WakeOne(f) PROVE IInv'
  <2>1. CASE queue = <<>>
    <3>1. Counted' = Counted /\ counter' = counter
      BY <1>7, <2>1 DEF WakeOne, Move, Counted, TypeOK
    <3>2. CounterExact' /\ counter' \in 0..Cardinality(Fibers)
      BY <3>1, CounterStep
    <3>3. TypeOK'
      BY <1>7, <2>1, <3>2 DEF WakeOne, Move, TypeOK, Points
    <3>4. Places'
      BY <1>7, <2>1, PlacesKept DEF WakeOne, Move
    <3>5. Handles' /\ SpinOwned'
      BY <1>7, <2>1 DEF WakeOne, Move, TypeOK, Handles, SpinOwned, SpinHolders
    <3>. QED  BY <3>2, <3>3, <3>4, <3>5
  <2>2. CASE queue # <<>>
    <3>. DEFINE u == Head(queue)
    <3>1. /\ f \in running /\ pc[f] = "wakeLocked"
          /\ pc' = [pc EXCEPT ![f] = "wakeUnlock", ![u] = "swap"]
          /\ handle' = [handle EXCEPT ![u] = FALSE]
          /\ ready' = Append(ready, u) /\ queue' = Tail(queue)
          /\ UNCHANGED <<state, counter, locked, running>>
      BY <1>7, <2>2 DEF WakeOne, AfterPark
    <3>2. /\ queue' \in Seq(Fibers) /\ IsInjective(queue')
          /\ u \in Fibers /\ u \in ToSet(queue) /\ ToSet(queue') = ToSet(queue) \ {u}
      BY <2>2, <3>1, QueueTail DEF TypeOK, Places
    \* The spinlock keeps away whoever is still suspending.
    <3>3. pc[u] = "asleep" /\ u # f
      BY <3>1, <3>2 DEF Places, SpinOwned, SpinHolders
    <3>. HIDE DEF u
    <3>4. u \notin running /\ u \notin ToSet(ready)
      BY <3>2, <3>3 DEF Places
    <3>5. /\ ready' \in Seq(Fibers) /\ IsInjective(ready')
          /\ ToSet(ready') = ToSet(ready) \cup {u}
      BY <3>1, <3>2, <3>4, QueueAppend DEF TypeOK, Places
    <3>6. Counted' = Counted /\ counter' = counter
      BY <3>1, <3>2, <3>3 DEF Counted, TypeOK
    <3>7. CounterExact' /\ counter' \in 0..Cardinality(Fibers)
      BY <3>6, CounterStep
    <3>8. TypeOK'
      BY <3>1, <3>2, <3>5, <3>7 DEF TypeOK, Points
    <3>9. Places'
      <4>1. f \notin ToSet(ready) /\ ToSet(ready) \subseteq Fibers /\ f \notin ToSet(queue)
        BY <3>1 DEF TypeOK, Places, ToSet
      <4>2. /\ pc'[f] = "wakeUnlock" /\ pc'[u] = "swap"
            /\ \A g \in Fibers \ {f, u} : pc'[g] = pc[g]
        BY <3>1, <3>2, <3>3 DEF TypeOK
      <4>3. \A g \in Fibers : g \in ToSet(queue)' <=> pc'[g] \in {"suspending", "asleep"}
        BY <3>1, <3>2, <4>1, <4>2 DEF Places
      <4>4. \A g \in Fibers : g \in running' \cup ToSet(ready)' <=> pc'[g] # "asleep"
        BY <3>1, <3>2, <3>5, <4>1, <4>2 DEF Places
      <4>5. running' \cap ToSet(ready)' = {}
        BY <3>1, <3>4, <3>5 DEF Places
      <4>6. \A g \in ToSet(ready)' : pc'[g] \in {"idle", "swap", "cs"}
        BY <3>1, <3>5, <4>1, <4>2 DEF Places
      <4>. QED  BY <3>2, <3>5, <4>3, <4>4, <4>5, <4>6 DEF Places
    <3>10. Handles' /\ SpinOwned'
      BY <3>1, <3>2, <3>3 DEF TypeOK, Handles, SpinOwned, SpinHolders
    <3>. QED  BY <3>7, <3>8, <3>9, <3>10
  <2>. QED  BY <2>1, <2>2
<1>8. ASSUME NEW f \in Fibers, Yield(f) PROVE IInv'
  <2>1. Counted' = Counted /\ counter' = counter
    BY <1>8 DEF Yield, Counted
  <2>2. CounterExact' /\ counter' \in 0..Cardinality(Fibers)
    BY <2>1, CounterStep
  <2>3. f \notin ToSet(ready)
    BY <1>8 DEF Yield, Places
  <2>4. /\ ready' \in Seq(Fibers) /\ IsInjective(ready')
        /\ ToSet(ready') = ToSet(ready) \cup {f}
    BY <1>8, <2>3, QueueAppend DEF Yield, TypeOK, Places
  <2>5. TypeOK' /\ Places'
    BY <1>8, <2>2, <2>4 DEF Yield, Off, TypeOK, Places
  <2>6. Handles' /\ SpinOwned'
    BY <1>8 DEF Yield, Handles, SpinOwned, SpinHolders
  <2>. QED  BY <2>2, <2>5, <2>6
<1>9. ASSUME Resume PROVE IInv'
  <2>1. CounterExact'
    BY <1>9 DEF Resume, CounterExact, Counted
  <2>2. /\ ready' \in Seq(Fibers) /\ IsInjective(ready')
        /\ Head(ready) \in Fibers /\ Head(ready) \in ToSet(ready)
        /\ ToSet(ready') = ToSet(ready) \ {Head(ready)}
    BY <1>9, QueueTail DEF Resume, TypeOK, Places
  <2>3. TypeOK' /\ Places'
    BY <1>9, <2>2 DEF Resume, TypeOK, Places
  <2>4. Handles' /\ SpinOwned'
    BY <1>9 DEF Resume, Handles, SpinOwned, SpinHolders
  <2>. QED  BY <2>1, <2>3, <2>4
<1>10. CASE UNCHANGED vars
  BY <1>10 DEF vars, TypeOK, Places, Handles, SpinOwned, SpinHolders, CounterExact, Counted
<1>. QED
  BY <1>1, <1>2, <1>3, <1>4, <1>5, <1>6, <1>7, <1>8, <1>9, <1>10 DEF Next, Inside

LEMMA Inductive == Spec => []IInv
BY InitIInv, NextIInv, PTL DEF Spec
-----------------------------------------------------------------------------
(* Every fiber in its place *)

\* A set of one element or of none has that many elements.
LEMMA AtMostOne ==
    ASSUME NEW S, \A x, y \in S : x = y
    PROVE  Cardinality(S) = IF S = {} THEN 0 ELSE 1
<1>1. CASE S = {}
  BY <1>1, FS_EmptySet
<1>2. CASE S # {}
  <2>1. PICK x : x \in S
    BY <1>2
  <2>2. S = {x}
    BY <2>1
  <2>. QED  BY <1>2, <2>2, FS_Singleton
<1>. QED  BY <1>1, <1>2

LEMMA FibersInOnePlace == IInv => InOnePlace
<1>. SUFFICES ASSUME IInv PROVE InOnePlace
  OBVIOUS
<1>. DEFINE parked == {f \in ToSet(queue) : pc[f] = "asleep"}
            R == running  A == ToSet(ready)
<1>1. /\ R \subseteq Fibers /\ A \subseteq Fibers /\ parked \subseteq Fibers
      /\ ToSet(queue) \subseteq Fibers
  BY DEF IInv, TypeOK, ToSet
<1>2. \A f \in Fibers : f \in parked <=> pc[f] = "asleep"
  BY DEF IInv, Places
<1>3. R \cup A \cup parked = Fibers
  BY <1>1, <1>2 DEF IInv, Places
<1>4. R \cap A = {} /\ (R \cup A) \cap parked = {}
  BY <1>1, <1>2 DEF IInv, Places
<1>. HIDE DEF parked, R, A
<1>5. /\ IsFiniteSet(R) /\ IsFiniteSet(A) /\ IsFiniteSet(parked)
      /\ IsFiniteSet(R \cup A)
  BY <1>1, FS_Subset, FS_Union, FibersAssumption
<1>6. /\ Cardinality(R) \in Nat /\ Cardinality(A) \in Nat /\ Cardinality(parked) \in Nat
      /\ Cardinality(R \cup A) \in Nat
  BY <1>5, FS_CardinalityType
<1>7. Cardinality(R \cup A) = Cardinality(R) + Cardinality(A) - Cardinality({})
  BY <1>4, <1>5, FS_Union
<1>8. Cardinality(R \cup A \cup parked)
        = Cardinality(R \cup A) + Cardinality(parked) - Cardinality({})
  BY <1>4, <1>5, FS_Union
<1>9. Cardinality({}) = 0 /\ Cardinality(A) = Len(ready)
  BY FS_EmptySet, QueueLength DEF IInv, TypeOK, Places, A
<1>10. Cardinality(R) + Len(ready) + Cardinality(parked) = Cardinality(Fibers)
  <2>1. Cardinality(R \cup A) + Cardinality(parked) = Cardinality(Fibers)
    <3>1. Cardinality(R \cup A \cup parked) = Cardinality(Fibers)
      BY <1>3
    <3>2. Cardinality(Fibers) = Cardinality(R \cup A) + Cardinality(parked) - 0
      BY <1>8, <1>9, <3>1
    <3>. QED  BY <1>6, <3>2
  <2>. QED  BY <1>6, <1>7, <1>9, <2>1
<1>. QED  BY <1>3, <1>10 DEF InOnePlace, IInv, Places, parked, R, A

\* Nobody but the spinlock's owner is between its insertion and AwaitSuspend, so that
\* the nodes a waker finds in the queue all have their handles.
LEMMA PoppedHandleIsValid == IInv => HandlesAreValid
<1>. SUFFICES ASSUME IInv, NEW f \in Fibers, pc[f] = "wakeLocked", queue # <<>>
              PROVE  handle[Head(queue)]
  BY DEF HandlesAreValid
<1>1. Head(queue) \in Fibers /\ Head(queue) \in ToSet(queue)
  BY QueueTail DEF IInv, TypeOK, Places
<1>2. pc[Head(queue)] \in {"suspending", "asleep"}
  BY <1>1 DEF IInv, Places
<1>3. pc[Head(queue)] # "suspending"
  BY <1>1 DEF IInv, SpinOwned, SpinHolders
<1>. QED  BY <1>1, <1>2, <1>3 DEF IInv, Handles

LEMMA SpinlockHasOwner == IInv => SpinlockDiscipline
<1>. SUFFICES ASSUME IInv PROVE SpinlockDiscipline
  OBVIOUS
<1>1. Cardinality(SpinHolders) = IF locked THEN 1 ELSE 0
  BY AtMostOne DEF IInv, SpinOwned
<1>2. SpinHolders \subseteq running
  BY DEF SpinHolders, IInv, Places
<1>. QED  BY <1>1, <1>2 DEF SpinlockDiscipline

LEMMA IInvInPlace == IInv => MutexInPlace
BY FibersInOnePlace, PoppedHandleIsValid, SpinlockHasOwner DEF MutexInPlace, IInv

\* FutexLike, Mutex and Fiber: no fiber is lost or resumed by two workers, every handle
\* is in its node before WakeOne takes it, and the spinlock that a fiber suspends with
\* has one owner, who is on a worker.
THEOREM EveryFiberInPlace == Spec => []MutexInPlace
BY IInvInPlace, Inductive, PTL
-----------------------------------------------------------------------------
(* The mutex and its futex implement FutexMutex *)

\* What FutexMutex sees of a fiber at point p of its code: the name that FM gives it.
Seen(p) == CASE p \in {"park", "parkLocked"} -> "wait"
             [] p \in {"suspending", "asleep"} -> "asleep"
             [] p = "parkUnlock" -> "swap"
             [] p = "wakeLocked" -> "wake"
             [] p = "wakeUnlock" -> "idle"
             [] OTHER -> p

\* FutexLike is a futex: under its spinlock, ParkIfEqual compares and puts the fiber to
\* sleep in one step for the mutex, although the fiber leaves its worker later, and
\* WakeOne wakes a sleeper whenever there is one.
THEOREM FutexRefinement == Spec => ImplementsFutexMutex
<1>. DEFINE abs == [f \in Fibers |->
                      CASE pc[f] \in {"park", "parkLocked"} -> "wait"
                        [] pc[f] \in {"suspending", "asleep"} -> "asleep"
                        [] pc[f] = "parkUnlock" -> "swap"
                        [] pc[f] = "wakeLocked" -> "wake"
                        [] pc[f] = "wakeUnlock" -> "idle"
                        [] OTHER -> pc[f]]
            fmvars == <<state, counter, abs>>
<1>1. Init => FM!Init
  BY DEF Init, InitOf, FM!Init
<1>2. IInv /\ [Next]_vars => [FM!Next]_(FM!vars)
  <2>. SUFFICES ASSUME IInv, [Next]_vars PROVE FM!Next \/ UNCHANGED fmvars
    BY DEF FM!vars
  <2>1. ASSUME NEW f \in Fibers, NEW p, NEW q, Move(f, p, q)
        PROVE  abs[f] = Seen(p) /\ abs' = [abs EXCEPT ![f] = Seen(q)]
    BY <2>1 DEF Move, IInv, TypeOK, Seen
  <2>2. abs \in [Fibers -> {abs[f] : f \in Fibers}] /\ \A f \in Fibers : abs[f] = Seen(pc[f])
    BY DEF Seen
  <2>3. FM!Asleep = ToSet(queue)
    BY DEF FM!Asleep, IInv, TypeOK, Places, ToSet
  <2>4. ASSUME NEW f \in Fibers, Enter(f) PROVE FM!Enter(f)
    BY <2>1, <2>4 DEF Enter, FM!Enter, FM!Move, Seen
  <2>5. ASSUME NEW f \in Fibers, Swap(f) PROVE FM!Swap(f)
    BY <2>1, <2>5 DEF Swap, FM!Swap, FM!Taken, FM!Move, Seen
  <2>6. ASSUME NEW f \in Fibers, SpinLock(f) \/ SpinUnlock(f) PROVE UNCHANGED fmvars
    BY <2>6 DEF SpinLock, SpinUnlock, AfterPark, Move, IInv, TypeOK
  <2>7. ASSUME NEW f \in Fibers, ParkIfEqual(f) PROVE FM!FutexWait(f)
    BY <2>1, <2>7 DEF ParkIfEqual, MayPark, FM!FutexWait, FM!MaySleep, FM!AfterWait,
                      FM!Move, Seen
  <2>8. ASSUME NEW f \in Fibers, AwaitSuspend(f) PROVE UNCHANGED fmvars
    BY <2>8 DEF AwaitSuspend, Move, IInv, TypeOK
  <2>9. ASSUME NEW f \in Fibers, Store(f) PROVE FM!Store(f)
    BY <2>1, <2>9 DEF Store, FM!Store, FM!Move, Seen
  <2>10. ASSUME NEW f \in Fibers, Subtract(f) PROVE FM!Subtract(f)
    BY <2>1, <2>10 DEF Subtract, Contended, FM!Subtract, FM!Contended, FM!Move, Seen
  <2>11. ASSUME NEW f \in Fibers, WakeOne(f) PROVE FM!FutexWakeOne(f)
    <3>1. CASE queue = <<>>
      <4>1. ToSet(queue) = {}
        BY <3>1 DEF ToSet
      <4>2. Move(f, "wakeLocked", "wakeUnlock") /\ UNCHANGED <<state, counter>>
        BY <2>11, <3>1 DEF WakeOne
      <4>. QED  BY <2>1, <2>3, <4>1, <4>2 DEF FM!FutexWakeOne, FM!Move, Seen
    <3>2. CASE queue # <<>>
      <4>. DEFINE u == Head(queue)
      <4>1. /\ pc[f] = "wakeLocked"
            /\ pc' = [pc EXCEPT ![f] = "wakeUnlock", ![u] = "swap"]
            /\ UNCHANGED <<state, counter>>
        BY <2>11, <3>2 DEF WakeOne, AfterPark
      <4>2. u \in Fibers /\ u \in ToSet(queue)
        BY <3>2, QueueTail DEF IInv, TypeOK, Places
      <4>3. u \in FM!Asleep /\ u # f
        BY <2>3, <4>1, <4>2 DEF IInv, Places
      <4>. HIDE DEF u
      <4>4. abs[f] = "wake" /\ abs' = [abs EXCEPT ![f] = "idle", ![u] = "swap"]
        BY <4>1, <4>2, <4>3 DEF IInv, TypeOK
      <4>. QED  BY <4>1, <4>3, <4>4 DEF FM!FutexWakeOne, FM!AfterWait
    <3>. QED  BY <3>1, <3>2
  <2>12. ASSUME NEW f \in Fibers, Yield(f) PROVE UNCHANGED fmvars
    BY <2>12 DEF Yield
  <2>13. ASSUME Resume PROVE UNCHANGED fmvars
    BY <2>13 DEF Resume
  <2>14. CASE UNCHANGED vars
    BY <2>14 DEF vars
  <2>. HIDE DEF abs
  <2>. QED
    BY <2>4, <2>5, <2>6, <2>7, <2>8, <2>9, <2>10, <2>11, <2>12, <2>13, <2>14
       DEF Next, Inside, FM!Next, FM!Inside
<1>. QED  BY <1>1, <1>2, Inductive, PTL DEF Spec, ImplementsFutexMutex, FM!Spec

-----------------------------------------------------------------------------
(* FiberRuntimeProofs for the runtime of MCFibers *)

RTP == INSTANCE FiberRuntimeProofs WITH Fibers <- Few, Workers <- Pool, NoFiber <- None,
                                        running <- rtRunning, at <- rtAt

LEMMA SameInit == \A k : RT!InitAs(k) <=> RTP!InitAs(k)
BY DEF RT!InitAs, RTP!InitAs, RT!SetToSeq, RTP!SetToSeq, RT!Contains, RTP!Contains,
       RT!IsInjective, RTP!IsInjective, RT!Cardinality, RTP!Cardinality,
       RT!Resumption, RTP!Resumption

LEMMA SameThread == \A w : RT!OnThread(w) <=> RTP!OnThread(w)
BY DEF RT!OnThread, RTP!OnThread, RT!StackAllocator, RTP!StackAllocator, RT!Allocate, RTP!Allocate,
       RT!Go, RTP!Go, RT!Lock, RTP!Lock, RT!TryTakeFromPool, RTP!TryTakeFromPool,
       RT!PopBack, RTP!PopBack, RT!AllocateNewStack, RTP!AllocateNewStack,
       RT!Release, RTP!Release, RT!Schedule, RTP!Schedule, RT!Yield, RTP!Yield,
       RT!Suspend, RTP!Suspend, RT!YieldDeferred, RTP!YieldDeferred, RT!SleepFor, RTP!SleepFor,
       RT!Complete, RTP!Complete, RT!Step, RTP!Step, RT!Rethrow, RTP!Rethrow,
       RT!Delete, RTP!Delete, RT!Reschedule, RTP!Reschedule, RT!AwaitSuspend, RTP!AwaitSuspend,
       RT!Dispatch, RTP!Dispatch, RT!Reset, RTP!Reset, RT!Arm, RTP!Arm,
       RT!Move, RTP!Move, RT!Unlocked, RTP!Unlocked, RT!Defer, RTP!Defer, RT!Post, RTP!Post,
       RT!Submit, RTP!Submit, RT!Put, RTP!Put, RT!Counted, RTP!Counted, RT!Done, RTP!Done,
       RT!Resumption, RTP!Resumption, RT!Available, RTP!Available, RT!Suspended, RTP!Suspended,
       RT!Last, RTP!Last, RT!Front, RTP!Front, RT!fibers, RTP!fibers, RT!stacks, RTP!stacks,
       RT!queues, RTP!queues, RT!pool, RTP!pool, RT!threads, RTP!threads

LEMMA SameNext == [RT!Next]_rtVars <=> [RTP!Next]_RTP!vars
<1>1. UNCHANGED rtVars <=> UNCHANGED RTP!vars
  BY DEF rtVars, RTP!vars, RTP!fibers, RTP!stacks, RTP!queues, RTP!pool, RTP!threads
<1>2. RT!Stop <=> RTP!Stop
  BY DEF RT!Stop, RTP!Stop, RT!CloseImpl, RTP!CloseImpl, RT!stacks, RTP!stacks, RT!threads, RTP!threads
<1>3. \A f : RT!Expire(f) <=> RTP!Expire(f)
  BY DEF RT!Expire, RTP!Expire, RT!Resumption, RTP!Resumption, RT!fibers, RTP!fibers,
         RT!stacks, RTP!stacks, RT!pool, RTP!pool, RT!threads, RTP!threads
<1>. QED  BY <1>1, <1>2, <1>3, SameThread DEF RT!Next, RTP!Next

LEMMA SameSafe == RT!Safe <=> RTP!Safe
<1>1. RT!InOnePlace <=> RTP!InOnePlace
  BY DEF RT!InOnePlace, RTP!InOnePlace, RT!Busy, RTP!Busy, RT!Queued, RTP!Queued, RT!InCode, RTP!InCode,
         RT!Cardinality, RTP!Cardinality
<1>2. RT!StacksApart <=> RTP!StacksApart
  BY DEF RT!StacksApart, RTP!StacksApart, RT!Users, RTP!Users, RT!Cardinality, RTP!Cardinality
<1>3. RT!IdleIsOver <=> RTP!IdleIsOver
  BY DEF RT!IdleIsOver, RTP!IdleIsOver
<1>. QED  BY <1>1, <1>2, <1>3 DEF RT!Safe, RTP!Safe

-----------------------------------------------------------------------------
(* Coroutines: the locals prev of the Resumes on a thread are a list of    *)
(* the coroutines that are active on it                                    *)

CoTypeOK == /\ calls \in [Pool -> Seq(Few)]
            /\ current \in [Pool -> Few \cup {None}]
            /\ prev \in [Few -> Few \cup {None}]
            /\ coState \in [Few -> {"suspended", "running", "completed", "thrown"}]

Innermost == \A t \in Pool : current[t] = IF calls[t] = <<>> THEN None ELSE calls[t][Len(calls[t])]

Linked == \A t \in Pool : \A i \in DOMAIN calls[t] :
             prev[calls[t][i]] = IF i = 1 THEN None ELSE calls[t][i-1]

Active(c) == \E t \in Pool : \E i \in DOMAIN calls[t] : calls[t][i] = c

ActiveOnce ==
    /\ \A t, u \in Pool : \A i \in DOMAIN calls[t], j \in DOMAIN calls[u] :
          calls[t][i] = calls[u][j] => t = u /\ i = j
    /\ \A c \in Few : coState[c] = "running" <=> Active(c)

CoInv == CoTypeOK /\ Innermost /\ Linked /\ ActiveOnce

LEMMA SeqFacts ==
    ASSUME NEW S, NEW s \in Seq(S)
    PROVE  Len(s) \in Nat /\ DOMAIN s = 1..Len(s) /\ (s = <<>> <=> Len(s) = 0)
BY LenProperties, EmptySeq

LEMMA ResumeKeeps ==
    ASSUME CoInv, NEW t \in Pool, NEW c \in Few, CO!Resume(t, c)
    PROVE  CoInv'
<1>. DEFINE s == calls[t]
            n == Len(s)
<1>1. /\ s \in Seq(Few) /\ n \in Nat /\ DOMAIN s = 1..n /\ (s = <<>> <=> n = 0)
      /\ \A i \in 1..n : s[i] \in Few
  BY LenProperties, EmptySeq DEF CoInv, CoTypeOK
<1>2. PICK r : r = Append(s, c)
  OBVIOUS
<1>3. /\ r \in Seq(Few) /\ Len(r) = n + 1 /\ DOMAIN r = 1..n + 1
      /\ r[n+1] = c /\ \A i \in 1..n : r[i] = s[i]
  BY <1>1, <1>2, AppendProperties, LenProperties
<1>4. /\ calls' = [calls EXCEPT ![t] = r] /\ current' = [current EXCEPT ![t] = c]
      /\ prev' = [prev EXCEPT ![c] = current[t]] /\ coState' = [coState EXCEPT ![c] = "running"]
      /\ coState[c] = "suspended"
  BY <1>2 DEF CO!Resume
<1>5. CoTypeOK'
  BY <1>3, <1>4 DEF CoInv, CoTypeOK
<1>6. calls'[t] = r /\ \A u \in Pool : u # t => calls'[u] = calls[u]
  BY <1>4 DEF CoInv, CoTypeOK
<1>7. \A u \in Pool : \A i \in DOMAIN calls[u] : calls[u][i] \in Few \ {c}
  BY <1>4 DEF CoInv, CoTypeOK, ActiveOnce, Active
<1>8. /\ \A i \in 1..n : s[i] # c /\ s[i] \in Few
      /\ \A i \in 1..n + 1 : i \in 1..n \/ i = n + 1
      /\ \A i \in 1..n : i \in 1..n + 1 /\ (i = 1 \/ i - 1 \in 1..n)
      /\ n + 1 \in 1..n + 1 /\ (n + 1) - 1 = n /\ (n + 1 = 1 <=> n = 0) /\ (n # 0 => n \in 1..n)
  BY <1>1, <1>7
<1>9. prev'[c] = current[t] /\ \A d \in Few : d # c => prev'[d] = prev[d]
  BY <1>4 DEF CoInv, CoTypeOK
<1>10. current[t] = IF n = 0 THEN None ELSE s[n]
  BY <1>1 DEF CoInv, Innermost
<1>11. /\ current'[t] = c /\ \A u \in Pool : u # t => current'[u] = current[u]
       /\ coState'[c] = "running" /\ \A d \in Few : d # c => coState'[d] = coState[d]
  BY <1>4 DEF CoInv, CoTypeOK
<1>12. Innermost'
  <2>1. r # <<>> /\ r[Len(r)] = c
    BY <1>3, <1>1
  <2>. QED  BY <1>6, <1>11, <2>1 DEF CoInv, Innermost
<1>13. Linked'
  <2>1. \A u \in Pool : u # t => \A i \in DOMAIN calls'[u] :
           prev'[calls'[u][i]] = IF i = 1 THEN None ELSE calls'[u][i-1]
    BY <1>6, <1>7, <1>9 DEF CoInv, Linked
  <2>2. \A i \in 1..n : prev'[s[i]] = IF i = 1 THEN None ELSE s[i-1]
    BY <1>1, <1>8, <1>9 DEF CoInv, Linked
  <2>3. \A i \in 1..n : prev'[r[i]] = IF i = 1 THEN None ELSE r[i-1]
    BY <1>3, <1>8, <2>2
  <2>4. prev'[r[n+1]] = IF n + 1 = 1 THEN None ELSE r[(n+1)-1]
    BY <1>3, <1>8, <1>9, <1>10
  <2>5. \A i \in DOMAIN r : prev'[r[i]] = IF i = 1 THEN None ELSE r[i-1]
    BY <1>3, <1>8, <2>3, <2>4
  <2>. QED  BY <1>6, <2>1, <2>5 DEF Linked
<1>14. ActiveOnce'
  <2>1. \A u \in Pool : u # t => \A i \in DOMAIN r, j \in DOMAIN calls[u] : r[i] # calls[u][j]
    BY <1>1, <1>3, <1>7, <1>8 DEF CoInv, ActiveOnce
  <2>2. \A i, j \in DOMAIN r : r[i] = r[j] => i = j
    BY <1>1, <1>3, <1>8 DEF CoInv, ActiveOnce
  <2>3. \A d \in Few : Active(d)' <=> Active(d) \/ d = c
    <3>1. Active(c)'
      BY <1>3, <1>6, <1>8 DEF Active
    <3>2. \A d \in Few : Active(d) => Active(d)'
      BY <1>1, <1>3, <1>6, <1>8 DEF Active
    <3>3. \A d \in Few : Active(d)' => Active(d) \/ d = c
      BY <1>1, <1>3, <1>6, <1>8 DEF Active
    <3>. QED  BY <3>1, <3>2, <3>3
  <2>. QED  BY <1>6, <1>11, <2>1, <2>2, <2>3 DEF CoInv, ActiveOnce
<1>. QED  BY <1>5, <1>12, <1>13, <1>14 DEF CoInv

LEMMA BackKeeps ==
    ASSUME CoInv, NEW t \in Pool, NEW to \in {"suspended", "completed", "thrown"}, CO!Back(t, to)
    PROVE  CoInv'
<1>. DEFINE s == calls[t]
            n == Len(s)
<1>0. PICK c : c = s[n]
  OBVIOUS
<1>1. /\ s \in Seq(Few) /\ n \in Nat /\ n # 0 /\ DOMAIN s = 1..n
      /\ \A i \in 1..n : s[i] \in Few
  BY LenProperties, EmptySeq DEF CoInv, CoTypeOK, CO!Back
<1>2. PICK r : r = SubSeq(s, 1, n - 1)
  OBVIOUS
<1>3. /\ r \in Seq(Few) /\ Len(r) = n - 1 /\ DOMAIN r = 1..n - 1 /\ (r = <<>> <=> n = 1)
      /\ \A i \in 1..n - 1 : r[i] = s[i]
  <2>1. r \in Seq(Few) /\ Len(r) = n - 1 /\ \A i \in 1..n - 1 : r[i] = s[i]
    BY <1>1, <1>2, SubSeqProperties
  <2>2. DOMAIN r = 1..Len(r) /\ (r = <<>> <=> Len(r) = 0)
    BY <2>1, SeqFacts
  <2>. QED  BY <1>1, <2>1, <2>2
<1>4. /\ calls' = [calls EXCEPT ![t] = r] /\ current' = [current EXCEPT ![t] = prev[c]]
      /\ prev' = prev /\ coState' = [coState EXCEPT ![c] = to]
  BY <1>0, <1>2 DEF CO!Back, CO!Last, CO!Front
<1>5. /\ n \in 1..n /\ \A i \in 1..n : i \in 1..n - 1 \/ i = n
      /\ \A i \in 1..n - 1 : i \in 1..n /\ i # n /\ (i = 1 \/ i - 1 \in 1..n - 1)
      /\ n # 1 => n - 1 \in 1..n - 1
      /\ c \in Few
  <2>0. n \in Nat /\ n # 0
    BY <1>1
  <2>. HIDE DEF n
  <2>1. /\ n \in 1..n /\ \A i \in 1..n : i \in 1..n - 1 \/ i = n
        /\ n # 1 => n - 1 \in 1..n - 1
    BY <2>0
  <2>2. \A i \in 1..n - 1 : i \in 1..n /\ i # n /\ (i = 1 \/ i - 1 \in 1..n - 1)
    BY <2>0
  <2>. QED  BY <1>0, <1>1, <2>1, <2>2
<1>6. CoTypeOK'
  BY <1>3, <1>4, <1>5 DEF CoInv, CoTypeOK
<1>7. calls'[t] = r /\ \A u \in Pool : u # t => calls'[u] = calls[u]
  BY <1>4 DEF CoInv, CoTypeOK
<1>8. /\ current'[t] = prev[c] /\ \A u \in Pool : u # t => current'[u] = current[u]
      /\ coState'[c] = to /\ \A d \in Few : d # c => coState'[d] = coState[d]
  BY <1>4, <1>5 DEF CoInv, CoTypeOK
<1>9. prev[c] = IF n = 1 THEN None ELSE s[n-1]
  BY <1>0, <1>1, <1>5 DEF CoInv, Linked
<1>10. Innermost'
  <2>1. prev[c] = IF r = <<>> THEN None ELSE r[Len(r)]
    BY <1>3, <1>5, <1>9
  <2>. QED  BY <1>7, <1>8, <2>1 DEF CoInv, Innermost
<1>11. Linked'
  <2>1. \A i \in DOMAIN r : prev[r[i]] = IF i = 1 THEN None ELSE r[i-1]
    BY <1>1, <1>3, <1>5 DEF CoInv, Linked
  <2>. QED  BY <1>4, <1>7, <2>1 DEF CoInv, Linked
<1>12. ActiveOnce'
  <2>1. \A i \in DOMAIN r : i \in DOMAIN s /\ r[i] = s[i] /\ r[i] # c
    <3>1. \A i, j \in 1..n : s[i] = s[j] => i = j
      BY <1>1 DEF CoInv, ActiveOnce
    <3>. QED  BY <1>0, <1>1, <1>3, <1>5, <3>1
  <2>2. \A u \in Pool : u # t => \A j \in DOMAIN calls[u] : calls[u][j] # c
    BY <1>0, <1>1, <1>5 DEF CoInv, ActiveOnce
  <2>3. \A u, v \in Pool : \A i \in DOMAIN calls'[u], j \in DOMAIN calls'[v] :
           calls'[u][i] = calls'[v][j] => u = v /\ i = j
    BY <1>7, <2>1 DEF CoInv, ActiveOnce
  <2>4. ~Active(c)'
    BY <1>7, <2>1, <2>2 DEF Active
  <2>5. \A d \in Few : d # c => (Active(d)' <=> Active(d))
    <3>1. \A d \in Few : d # c /\ Active(d) => Active(d)'
      <4>1. \A i \in 1..n : s[i] # c => i \in DOMAIN r /\ r[i] = s[i]
        BY <1>0, <1>3, <1>5
      <4>. QED  BY <1>1, <1>7, <4>1 DEF Active
    <3>2. \A d \in Few : Active(d)' => Active(d)
      BY <1>7, <2>1 DEF Active
    <3>. QED  BY <3>1, <3>2
  <2>6. to # "running"
    OBVIOUS
  <2>7. \A d \in Few : coState'[d] = "running" <=> Active(d)'
    BY <1>8, <2>4, <2>5, <2>6 DEF CoInv, ActiveOnce
  <2>. QED  BY <2>3, <2>7 DEF ActiveOnce
<1>. QED  BY <1>6, <1>10, <1>11, <1>12 DEF CoInv

LEMMA CoroutinesKeep == CoInv /\ [CO!Next]_coVars => CoInv'
<1>. SUFFICES ASSUME CoInv, [CO!Next]_coVars PROVE CoInv'
  OBVIOUS
<1>1. CASE UNCHANGED coVars
  BY <1>1 DEF coVars, CoInv, CoTypeOK, Innermost, Linked, ActiveOnce, Active
<1>. QED  BY <1>1, ResumeKeeps, BackKeeps DEF CO!Next, CO!Suspend, CO!Run

LEMMA CoroutinesInOrder == CoInv => CO!CurrentIsInnermost
<1>. SUFFICES ASSUME CoInv PROVE CO!CurrentIsInnermost
  OBVIOUS
<1>1. \A t \in Pool : current[t] = IF calls[t] = <<>> THEN None ELSE CO!Last(calls[t])
  BY DEF CoInv, Innermost, CO!Last
<1>2. \A t \in Pool : CO!IsInjective(calls[t])
  BY DEF CoInv, ActiveOnce, CO!IsInjective
<1>3. ASSUME NEW c \in Few
      PROVE  CO!Cardinality({t \in Pool : CO!Contains(calls[t], c)})
                = IF coState[c] = "running" THEN 1 ELSE 0
  <2>. DEFINE S == {t \in Pool : CO!Contains(calls[t], c)}
  <2>1. \A t \in Pool : calls[t] \in Seq(Few) /\ DOMAIN calls[t] = 1..Len(calls[t])
    BY LenProperties DEF CoInv, CoTypeOK
  <2>2. \A t \in Pool : t \in S <=> \E i \in DOMAIN calls[t] : calls[t][i] = c
    BY <2>1 DEF CO!Contains
  <2>3. S # {} <=> coState[c] = "running"
    BY <2>2 DEF CoInv, ActiveOnce, Active
  <2>4. \A t, u \in S : t = u
    BY <2>2 DEF CoInv, ActiveOnce
  <2>. HIDE DEF S
  <2>5. Cardinality(S) = IF coState[c] = "running" THEN 1 ELSE 0
    BY <2>3, <2>4, AtMostOne
  <2>6. CO!Cardinality(S) = Cardinality(S)
    BY DEF CO!Cardinality, Cardinality
  <2>. QED  BY <2>5, <2>6 DEF S
<1>. QED  BY <1>1, <1>2, <1>3 DEF CO!CurrentIsInnermost
-----------------------------------------------------------------------------
(* The wait group *)

\* Doers that have not counted down, and those whose Done is not over.
Owing == {f \in Fibers : wgAt[f] \in {"done", "lock", "counting"}}
InDone == {f \in Fibers : wgAt[f] \in {"lock", "counting", "bump", "wakeAll", "undoing"}}

GroupTypeOK ==
    /\ DOMAIN wgAt = Fibers /\ wgAt = [f \in Fibers |-> wgAt[f]]
    /\ DOMAIN wgPc = Fibers /\ wgPc = [f \in Fibers |-> wgPc[f]]
    /\ \A f \in Doers : wgAt[f] \in {"done", "lock", "counting", "bump", "wakeAll", "undoing",
                                     "gone"}
    /\ \A f \in Waiters : wgAt[f] \in {"wait", "testing", "waiting", "parked", "leaving",
                                       "destroying", "gone", "freed"}

\* The counters are exact; who has found count_ zero is not deceived; who destroys the
\* group is the last waiter, and when it has, all others are gone.
GroupInv ==
    /\ GroupTypeOK
    /\ count = Cardinality(Owing) /\ doing = Cardinality(InDone)
    /\ \A f \in Waiters : wgAt[f] \in {"leaving", "destroying", "gone", "freed"} => Owing = {}
    /\ \A f \in Fibers : wgAt[f] \in {"destroying", "gone", "freed"} => wgPc[f] = "idle"
    /\ \A f \in Waiters : wgAt[f] \in {"destroying", "freed"} =>
          \A g \in Waiters \ {f} : wgAt[g] = "gone"
    /\ \A f \in Waiters : wgAt[f] = "freed" => \A g \in Doers : wgAt[g] = "gone"

\* What one fiber does to a set of fibers that is counted.
LEMMA CountOne ==
    ASSUME NEW S, S \subseteq Fibers, NEW f \in Fibers
    PROVE  /\ Cardinality(S) \in Nat /\ (Cardinality(S) = 0 <=> S = {})
           /\ f \in S => Cardinality(S \ {f}) = Cardinality(S) - 1
           /\ f \notin S => Cardinality(S \cup {f}) = Cardinality(S) + 1
<1>1. IsFiniteSet(S)
  BY FS_Subset, FibersAssumption
<1>. QED  BY <1>1, FS_CardinalityType, FS_EmptySet, FS_AddElement, FS_RemoveElement

LEMMA GroupInitially == WG!InitOf(Doers, Waiters) => GroupInv
<1>. SUFFICES ASSUME WG!InitOf(Doers, Waiters) PROVE GroupInv
  OBVIOUS
<1>1. /\ wgAt = [f \in Fibers |-> IF f \in Doers THEN "done"
                                  ELSE IF f \in Waiters THEN "wait" ELSE "gone"]
      /\ wgPc = [f \in Fibers |-> "idle"] /\ count = Cardinality(Doers) /\ doing = 0
  BY DEF WG!InitOf, WG!Init, WG!Cardinality, Cardinality
<1>2. /\ \A f \in Fibers : f \in Doers \/ f \in Waiters
      /\ Doers \subseteq Fibers /\ Waiters \subseteq Fibers /\ Doers \cap Waiters = {}
  BY McAssumption
<1>3. Owing = Doers /\ InDone = {}
  BY <1>1, <1>2 DEF Owing, InDone
<1>. QED  BY <1>1, <1>2, <1>3, FS_EmptySet DEF GroupInv, GroupTypeOK

\* A step of one fiber that moves it from one place to another, and the waiters that
\* are parked back to the lock.
LEMMA GroupMoves ==
    ASSUME GroupInv, NEW f \in Fibers, NEW to,
           DOMAIN wgAt' = Fibers, wgAt' = [g \in Fibers |-> wgAt'[g]],
           wgAt'[f] = to, wgAt[f] \notin {"gone", "freed", "parked"},
           \A g \in Fibers \ {f} : \/ wgAt'[g] = wgAt[g]
                                   \/ wgAt[g] = "parked" /\ wgAt'[g] = "wait",
           DOMAIN wgPc' = Fibers, wgPc' = [g \in Fibers |-> wgPc'[g]],
           \A g \in Fibers \ {f} : wgPc[g] = "idle" => wgPc'[g] = "idle",
           to \in {"destroying", "gone", "freed"} => wgPc'[f] = "idle",
           \/ wgAt[f] = "done" /\ to = "lock" /\ doing' = doing + 1 /\ count' = count
           \/ wgAt[f] = "counting" /\ to = "bump" /\ count' = count - 1 /\ doing' = doing
           \/ wgAt[f] = "undoing" /\ to = "gone" /\ doing' = doing - 1 /\ count' = count
           \/ /\ UNCHANGED <<count, doing>>
              /\ \/ to = wgAt[f]
                 \/ <<wgAt[f], to>> \in
                       {<<"lock", "counting">>, <<"bump", "wakeAll">>, <<"wakeAll", "undoing">>,
                        <<"wait", "testing">>, <<"testing", "waiting">>,
                        <<"waiting", "parked">>, <<"waiting", "wait">>}
                 \/ wgAt[f] = "testing" /\ to = "leaving" /\ ~(count > 0)
                 \/ wgAt[f] = "leaving" /\ to = "gone"
                 \/ /\ wgAt[f] = "leaving" /\ to = "destroying"
                    /\ \A g \in Waiters \ {f} : wgAt[g] = "gone"
                 \/ wgAt[f] = "destroying" /\ to = "freed" /\ doing = 0
    PROVE  GroupInv'
<1>1. /\ Doers \cup Waiters = Fibers /\ Doers \cap Waiters = {}
  BY McAssumption
<1>2. \A g \in Waiters : wgAt[g] # "freed"
  BY <1>1 DEF GroupInv
<1>3. /\ f \in Doers => wgAt[f] \in {"done", "lock", "counting", "bump", "wakeAll", "undoing"}
      /\ f \in Waiters => wgAt[f] \in {"wait", "testing", "waiting", "leaving", "destroying"}
      /\ f \in Doers <=> f \notin Waiters
  BY <1>1 DEF GroupInv, GroupTypeOK
<1>4. /\ f \in Doers => to \in {"done", "lock", "counting", "bump", "wakeAll", "undoing", "gone"}
      /\ f \in Waiters => to \in {"wait", "testing", "waiting", "parked", "leaving",
                                  "destroying", "gone", "freed"}
  BY <1>3
<1>5. GroupTypeOK'
  BY <1>1, <1>4 DEF GroupInv, GroupTypeOK
<1>6. /\ \A g \in Fibers \ {f} : g \in Owing' <=> g \in Owing
      /\ \A g \in Fibers \ {f} : g \in InDone' <=> g \in InDone
      /\ Owing \subseteq Fibers /\ InDone \subseteq Fibers
      /\ Owing' \subseteq Fibers /\ InDone' \subseteq Fibers
  BY DEF Owing, InDone
<1>7. /\ f \in Owing <=> wgAt[f] \in {"done", "lock", "counting"}
      /\ f \in Owing' <=> to \in {"done", "lock", "counting"}
      /\ f \in InDone <=> wgAt[f] \in {"lock", "counting", "bump", "wakeAll", "undoing"}
      /\ f \in InDone' <=> to \in {"lock", "counting", "bump", "wakeAll", "undoing"}
  BY DEF Owing, InDone
<1>8. count = Cardinality(Owing) /\ doing = Cardinality(InDone)
  BY DEF GroupInv
<1>9. count' = Cardinality(Owing') /\ Owing' \subseteq Owing
  <2>1. CASE wgAt[f] = "counting" /\ to = "bump" /\ count' = count - 1
    <3>1. Owing' = Owing \ {f} /\ f \in Owing
      BY <1>6, <1>7, <2>1
    <3>. QED  BY <1>6, <1>8, <2>1, <3>1, CountOne
  <2>2. CASE ~(wgAt[f] = "counting" /\ to = "bump")
    <3>1. count' = count /\ (f \in Owing' <=> f \in Owing)
      BY <1>7, <2>2
    <3>2. Owing' = Owing
      BY <1>6, <3>1
    <3>. QED  BY <1>8, <3>1, <3>2
  <2>. QED  BY <2>1, <2>2
<1>10. doing' = Cardinality(InDone')
  <2>1. CASE wgAt[f] = "done" /\ to = "lock" /\ doing' = doing + 1
    <3>1. InDone' = InDone \cup {f} /\ f \notin InDone
      BY <1>6, <1>7, <2>1
    <3>. QED  BY <1>6, <1>8, <2>1, <3>1, CountOne
  <2>2. CASE wgAt[f] = "undoing" /\ to = "gone" /\ doing' = doing - 1
    <3>1. InDone' = InDone \ {f} /\ f \in InDone
      BY <1>6, <1>7, <2>2
    <3>. QED  BY <1>6, <1>8, <2>2, <3>1, CountOne
  <2>3. CASE ~(wgAt[f] = "done" /\ to = "lock") /\ ~(wgAt[f] = "undoing" /\ to = "gone")
    <3>1. doing' = doing /\ (f \in InDone' <=> f \in InDone)
      BY <1>7, <2>3
    <3>2. InDone' = InDone
      BY <1>6, <3>1
    <3>. QED  BY <1>8, <3>1, <3>2
  <2>. QED  BY <2>1, <2>2, <2>3
<1>11. \A g \in Waiters : wgAt'[g] \in {"leaving", "destroying", "gone", "freed"} => Owing' = {}
  <2>1. wgAt[f] = "testing" /\ ~(count > 0) => Owing = {}
    <3>1. Cardinality(Owing) \in Nat /\ (Cardinality(Owing) = 0 => Owing = {})
      BY <1>6, CountOne
    <3>2. ASSUME NEW n \in Nat, ~(n > 0) PROVE n = 0
      BY <3>2
    <3>. QED  BY <1>8, <3>1, <3>2
  <2>2. ASSUME NEW g \in Waiters, wgAt'[g] \in {"leaving", "destroying", "gone", "freed"}
        PROVE  Owing = {}
    <3>1. CASE g # f
      BY <1>1, <2>2, <3>1 DEF GroupInv
    <3>2. CASE g = f
      <4>1. wgAt[f] \in {"leaving", "destroying"} \/ (wgAt[f] = "testing" /\ ~(count > 0))
        BY <1>3, <2>2, <3>2
      <4>. QED  BY <2>1, <3>2, <4>1 DEF GroupInv
    <3>. QED  BY <3>1, <3>2
  <2>. QED  BY <1>9, <2>2
<1>12. \A g \in Fibers : wgAt'[g] \in {"destroying", "gone", "freed"} => wgPc'[g] = "idle"
  BY DEF GroupInv
<1>13. \A g \in Waiters : wgAt'[g] \in {"destroying", "freed"} =>
          \A h \in Waiters \ {g} : wgAt'[h] = "gone"
  <2>. SUFFICES ASSUME NEW g \in Waiters, wgAt'[g] \in {"destroying", "freed"},
                       NEW h \in Waiters \ {g}
                PROVE  wgAt'[h] = "gone"
    OBVIOUS
  <2>1. CASE g = f
    <3>1. wgAt[h] = "gone"
      BY <2>1, <1>3 DEF GroupInv
    <3>. QED  BY <1>1, <2>1, <3>1
  <2>2. CASE g # f
    <3>1. wgAt[g] = wgAt'[g] /\ wgAt[h] = "gone"
      BY <1>1, <2>2 DEF GroupInv
    <3>2. h # f
      BY <3>1
    <3>. QED  BY <1>1, <3>1, <3>2
  <2>. QED  BY <2>1, <2>2
<1>14. \A g \in Waiters : wgAt'[g] = "freed" => \A h \in Doers : wgAt'[h] = "gone"
  <2>. SUFFICES ASSUME NEW g \in Waiters, wgAt'[g] = "freed", NEW h \in Doers
                PROVE  wgAt'[h] = "gone"
    OBVIOUS
  <2>1. g = f
    BY <1>1, <1>2
  <2>2. wgAt[f] = "destroying" /\ doing = 0
    BY <1>2, <2>1
  <2>3. Owing = {} /\ InDone = {}
    BY <1>6, <1>8, <2>1, <2>2, CountOne DEF GroupInv
  <2>4. (h # f /\ wgAt'[h] = wgAt[h]) \/ wgAt[h] = "parked"
    BY <1>1, <2>1
  <2>. QED  BY <1>1, <2>1, <2>3, <2>4 DEF GroupInv, GroupTypeOK, Owing, InDone
<1>. QED  BY <1>5, <1>9, <1>10, <1>11, <1>12, <1>13, <1>14 DEF GroupInv

LEMMA GroupKeeps == GroupInv /\ [WG!GroupNext]_wgVars => GroupInv'
<1>. SUFFICES ASSUME GroupInv, [WG!GroupNext]_wgVars PROVE GroupInv'
  OBVIOUS
<1>0. /\ DOMAIN wgAt = Fibers /\ wgAt = [f \in Fibers |-> wgAt[f]]
      /\ DOMAIN wgPc = Fibers /\ wgPc = [f \in Fibers |-> wgPc[f]]
  BY DEF GroupInv, GroupTypeOK
<1>1. CASE UNCHANGED wgVars
  BY <1>1 DEF wgVars, GroupInv, GroupTypeOK, Owing, InDone
<1>2. ASSUME NEW f \in Fibers, WG!Dispatch(f) PROVE GroupInv'
  BY <1>2 DEF WG!Dispatch, WG!vars, WG!cvars, GroupInv, GroupTypeOK, Owing, InDone
<1>. USE DEF WG!Go, WG!vars
<1>3. ASSUME NEW f \in Fibers,
             \/ WG!FirstOfDone(f) \/ WG!CountDone(f) \/ WG!Bump(f) \/ WG!LastOfDone(f)
             \/ WG!Test(f) \/ WG!ParkIfEqual(f) \/ WG!Return(f) \/ WG!Destroy(f)
      PROVE  GroupInv'
  <2>1. PICK to : /\ wgAt' = [wgAt EXCEPT ![f] = to] /\ wgPc' = wgPc
                  /\ to \in {"destroying", "gone"} => wgPc[f] = "idle"
                  /\ to = "freed" => wgAt[f] = "destroying"
                  /\ \/ wgAt[f] = "done" /\ to = "lock" /\ doing' = doing + 1 /\ count' = count
                     \/ wgAt[f] = "counting" /\ to = "bump" /\ count' = count - 1 /\ doing' = doing
                     \/ wgAt[f] = "undoing" /\ to = "gone" /\ doing' = doing - 1 /\ count' = count
                     \/ /\ UNCHANGED <<count, doing>>
                        /\ \/ <<wgAt[f], to>> \in
                                 {<<"bump", "wakeAll">>, <<"testing", "waiting">>,
                                  <<"waiting", "parked">>, <<"waiting", "wait">>}
                           \/ wgAt[f] = "testing" /\ to = "leaving" /\ ~(count > 0)
                           \/ wgAt[f] = "leaving" /\ to = "gone"
                           \/ /\ wgAt[f] = "leaving" /\ to = "destroying"
                              /\ \A g \in Waiters \ {f} : wgAt[g] = "gone"
                           \/ wgAt[f] = "destroying" /\ to = "freed" /\ doing = 0
    <3>1. CASE WG!FirstOfDone(f)
      BY <3>1 DEF WG!FirstOfDone
    <3>2. CASE WG!CountDone(f)
      BY <3>2 DEF WG!CountDone
    <3>3. CASE WG!Bump(f)
      BY <3>3 DEF WG!Bump
    <3>4. CASE WG!LastOfDone(f)
      BY <3>4 DEF WG!LastOfDone
    <3>5. CASE WG!Test(f)
      BY <3>5 DEF WG!Test
    <3>6. CASE WG!ParkIfEqual(f)
      BY <3>6 DEF WG!ParkIfEqual
    <3>7. CASE WG!Return(f)
      BY <3>7 DEF WG!Return
    <3>8. CASE WG!Destroy(f)
      BY <3>8 DEF WG!Destroy, WG!MayFree
    <3>. QED  BY <1>3, <3>1, <3>2, <3>3, <3>4, <3>5, <3>6, <3>7, <3>8
  <2>2. wgAt[f] \notin {"gone", "freed", "parked"}
    BY <2>1
  <2>3. /\ DOMAIN wgAt' = Fibers /\ wgAt' = [g \in Fibers |-> wgAt'[g]]
        /\ wgAt'[f] = to /\ \A g \in Fibers \ {f} : wgAt'[g] = wgAt[g]
    BY <1>0, <2>1
  <2>4. to \in {"destroying", "gone", "freed"} => wgPc'[f] = "idle"
    BY <2>1 DEF GroupInv
  <2>5. DOMAIN wgPc' = Fibers /\ wgPc' = [g \in Fibers |-> wgPc'[g]]
    BY <1>0, <2>1
  <2>. QED  BY <2>1, <2>2, <2>3, <2>4, <2>5, GroupMoves
<1>4. ASSUME NEW f \in Fibers, WG!WakeAll(f) PROVE GroupInv'
  <2>1. /\ wgAt[f] = "wakeAll" /\ UNCHANGED <<wgPc, count, doing>>
        /\ wgAt' = [g \in Fibers |-> IF g = f THEN "undoing"
                                     ELSE IF g \in WG!Parked THEN "wait" ELSE wgAt[g]]
    BY <1>4 DEF WG!WakeAll
  <2>2. /\ DOMAIN wgAt' = Fibers /\ wgAt' = [g \in Fibers |-> wgAt'[g]]
        /\ wgAt'[f] = "undoing"
        /\ \A g \in Fibers \ {f} : \/ wgAt'[g] = wgAt[g]
                                   \/ wgAt[g] = "parked" /\ wgAt'[g] = "wait"
    BY <2>1 DEF WG!Parked
  <2>. QED  BY <1>0, <2>1, <2>2, GroupMoves
<1>5. ASSUME NEW f \in Fibers, WG!LockMutex(f) PROVE GroupInv'
  <2>1. /\ wgAt[f] \in {"lock", "wait"} /\ UNCHANGED <<count, doing>>
        /\ wgAt' = [wgAt EXCEPT ![f] = IF @ = "lock" THEN "counting" ELSE "testing"]
        /\ wgPc' = [wgPc EXCEPT ![f] = "swap"]
    BY <1>5 DEF WG!LockMutex, WG!Enter, WG!Move
  <2>2. /\ DOMAIN wgAt' = Fibers /\ wgAt' = [g \in Fibers |-> wgAt'[g]]
        /\ wgAt'[f] = IF wgAt[f] = "lock" THEN "counting" ELSE "testing"
        /\ \A g \in Fibers \ {f} : wgAt'[g] = wgAt[g] /\ wgPc'[g] = wgPc[g]
        /\ DOMAIN wgPc' = Fibers /\ wgPc' = [g \in Fibers |-> wgPc'[g]]
    BY <1>0, <2>1
  <2>3. CASE wgAt[f] = "lock"
    BY <2>1, <2>2, <2>3, GroupMoves
  <2>4. CASE wgAt[f] = "wait"
    BY <2>1, <2>2, <2>4, GroupMoves
  <2>. QED  BY <2>1, <2>3, <2>4
<1>6. ASSUME NEW f \in Fibers, WG!InMutex(f) PROVE GroupInv'
  <2>1. UNCHANGED <<wgAt, count, doing>> /\ WG!Inside(f)
    BY <1>6 DEF WG!InMutex, WG!cvars
  <2>2. /\ wgPc[f] # "idle"
        /\ \E to : \/ wgPc' = [wgPc EXCEPT ![f] = to]
                   \/ \E u \in WG!Asleep : wgPc' = [wgPc EXCEPT ![f] = to, ![u] = "swap"]
    BY <2>1 DEF WG!Inside, WG!Swap, WG!FutexWait, WG!Store, WG!Subtract, WG!FutexWakeOne,
                WG!Move, WG!AfterWait
  <2>3. /\ DOMAIN wgPc' = Fibers /\ wgPc' = [g \in Fibers |-> wgPc'[g]]
        /\ \A g \in Fibers : wgPc[g] = "idle" => wgPc'[g] = "idle"
    BY <1>0, <2>2 DEF WG!Asleep
  <2>. QED  BY <2>1, <2>3 DEF GroupInv, GroupTypeOK, Owing, InDone
<1>. QED  BY <1>1, <1>2, <1>3, <1>4, <1>5, <1>6
          DEF WG!GroupNext, WG!Works, WG!Done, WG!Wait

\* Whoever destroys the wait group, nobody is in Done, Wait or their mutex any more, or
\* will be: for any finite sets of fibers that call Done and Wait, and any workers.
THEOREM GroupIsSafelyFreed == FairSpec => [](lives = "group" => WG!SafelyFreed)
<1>. DEFINE Inv == lives = "group" => GroupInv
<1>1. McInit => Inv
  BY GroupInitially DEF McInit
<1>2. Inv /\ [McNext]_allVars => Inv'
  <2>. SUFFICES ASSUME Inv, [McNext]_allVars PROVE Inv'
    OBVIOUS
  <2>1. lives' = lives /\ (lives = "group" => [WG!GroupNext]_wgVars)
    BY DEF McNext, OfLocks, OfRuntimes, OfGroup, Alone, Runtimes, allVars
  <2>. QED  BY <2>1, GroupKeeps
<1>3. Inv => (lives = "group" => WG!SafelyFreed)
  <2>. SUFFICES ASSUME GroupInv, NEW f \in Fibers, wgAt[f] = "freed", NEW g \in Fibers
                PROVE  wgAt[g] \in {"gone", "freed"} /\ wgPc[g] = "idle"
    BY DEF WG!SafelyFreed, WG!Freed, WG!Untouched
  <2>1. f \in Waiters /\ (g \in Doers \/ g \in Waiters)
    BY McAssumption DEF GroupInv, GroupTypeOK
  <2>. QED  BY <2>1 DEF GroupInv
<1>. QED  BY <1>1, <1>2, <1>3, PTL DEF FairSpec
-----------------------------------------------------------------------------
(* All of the fibers' code *)

LEMMA RuntimeFinite == RTP!Finite
<1>1. IsFiniteSet(Few) /\ IsFiniteSet(Pool)
  BY FS_Subset, FibersAssumption, McAssumption
<1>2. RTP!IsFiniteSet(Few) /\ RTP!IsFiniteSet(Pool)
  BY <1>1 DEF IsFiniteSet, RTP!IsFiniteSet
<1>. QED  BY <1>2, McAssumption DEF RTP!Finite

McInv == (lives = "locks" => IInv) /\ RTP!IInv /\ CoInv

LEMMA McInitially == McInit => McInv
<1>. SUFFICES ASSUME McInit PROVE McInv
  OBVIOUS
<1>1. lives = "locks" => IInv
  BY InitIInv DEF McInit, Init
<1>3. PICK k \in RTP!Kinds : RT!InitAs(k)
  BY DEF McInit, Runtimes, RTP!Kinds
<1>4. RTP!IInv
  BY <1>3, SameInit, RuntimeFinite, RTP!InitKeeps
<1>5. CoInv
  BY EmptySeq DEF McInit, CO!Init, CoInv, CoTypeOK, Innermost, Linked, ActiveOnce, Active
<1>. QED  BY <1>1, <1>4, <1>5 DEF McInv

LEMMA McKeeps == McInv /\ [McNext]_allVars => McInv'
<1>. SUFFICES ASSUME McInv, [McNext]_allVars PROVE McInv'
  OBVIOUS
<1>1. /\ lives' = lives
      /\ lives = "locks" => [Next]_vars
      /\ [RT!Next]_rtVars /\ [CO!Next]_coVars
  BY DEF McNext, OfLocks, OfRuntimes, OfGroup, Alone, Runtimes, allVars
<1>2. (lives = "locks" => IInv)'
  BY <1>1, NextIInv DEF McInv
<1>3. RTP!IInv'
  BY <1>1, SameNext, RuntimeFinite, RTP!NextKeeps DEF McInv
<1>4. CoInv'
  BY <1>1, CoroutinesKeep DEF McInv
<1>. QED  BY <1>2, <1>3, <1>4 DEF McInv

\* In the code of fibers/: no fiber, stack, handle or thread-local pointer is lost, used
\* twice or wrong when it is read, for any finite numbers of fibers and threads.
THEOREM AllFibersInPlace == FairSpec => []FibersInPlace
<1>1. RTP!IInv => RTP!Safe
  BY RuntimeFinite, RTP!IsInOnePlace, RTP!StacksAreApart, RTP!IdleMeansOver DEF RTP!Safe
<1>2. McInv => FibersInPlace
  BY <1>1, SameSafe, IInvInPlace, CoroutinesInOrder DEF McInv, FibersInPlace
<1>. QED  BY <1>2, McInitially, McKeeps, PTL DEF FairSpec
=============================================================================
