------------------------- MODULE LockFreeStackProofs ------------------------
(***************************************************************************)
(* The lock-free stack with its reference counting, for any finite sets of *)
(* threads and addresses and every bound on the stamps: the list is what   *)
(* was pushed and not popped, nobody touches a node that is free, and no   *)
(* node is forgotten.                                                      *)
(***************************************************************************)
EXTENDS LockFreeStack, FiniteSetTheorems, SequenceTheorems, WellFoundedInduction, TLAPS

\* The threads that have a reference to node n.
Holders(n) == {t \in Threads : pc[t] \in Holding /\ old[t].ptr = n}

\* The pointer of the list behind the i-th node: to the next one, or null.
Behind(i) == IF i = 0 THEN top ELSE next[stk[i]]

\* A node of the list: its stamp counts the references taken, dec_count those given back.
Listed == \A i \in 1..Len(stk) :
             /\ dec[stk[i]] \in Nat
             /\ Behind(i-1).stamp = Cardinality(Holders(stk[i])) + dec[stk[i]]

\* A node popped by t, which has all the references that were ever taken to it in its stamp.
Popped == \A t \in Threads : pc[t] = "won" =>
             /\ old[t].ptr \notin ToSet(stk)
             /\ dec[old[t].ptr] \in Nat
             /\ old[t].stamp = Cardinality(Holders(old[t].ptr)) + dec[old[t].ptr]
             /\ \A u \in Threads : pc[u] = "won" /\ old[u].ptr = old[t].ptr => u = t

\* A node that its popper has dropped: dec_count is what is left of the references.
Dropped == \A n \in live \ ToSet(stk) :
              (\A t \in Threads : pc[t] \in {"won", "push"} => old[t].ptr # n)
                 => Holders(n) # {} /\ dec[n] = -Cardinality(Holders(n))

\* A node that is not in the list yet.
Fresh == \A t \in Threads : pc[t] = "push" =>
            /\ old[t].stamp = 0 /\ dec[old[t].ptr] = 0
            /\ old[t].ptr \in live /\ old[t].ptr \notin ToSet(stk)
            /\ Holders(old[t].ptr) = {}
            /\ \A u \in Threads : pc[u] = "push" /\ old[u].ptr = old[t].ptr => u = t

\* A node somebody has a reference to is not deleted, and its next pointer is final.
Held == \A t \in Threads : /\ pc[t] \in Holding => old[t].ptr \in live
                           /\ pc[t] = "pop" => nxt[t] = next[old[t].ptr]

\* The bound on the stamps: only the first node's exceeds MaxStamp, and then the TryPop
\* that took it there is about to pop it.
StampsBounded ==
    /\ \A i \in 1..Len(stk) - 1 : next[stk[i]].stamp <= MaxStamp
    /\ stk # <<>> /\ top.stamp = MaxStamp + 1
          => \E t \in Threads : pc[t] \in {"readNext", "pop"} /\ old[t] = top

IInv == /\ TypeOK /\ ChainMatches
        /\ Listed /\ Popped /\ Dropped /\ Fresh /\ Held /\ StampsBounded
-----------------------------------------------------------------------------
(* Holders, stamps and the list *)

LEMMA HoldersAreFew ==
    \A n : /\ IsFiniteSet(Holders(n)) /\ Cardinality(Holders(n)) \in Nat
           /\ Cardinality(Holders(n)) = 0 <=> Holders(n) = {}
<1>. TAKE n
<1>1. Holders(n) \in SUBSET Threads
  BY DEF Holders
<1>2. IsFiniteSet(Holders(n))
  BY <1>1, FS_Subset, FiniteAssumption
<1>. QED  BY <1>2, FS_CardinalityType, FS_EmptySet

LEMMA HoldersAreFewNext ==
    \A n : /\ IsFiniteSet(Holders(n)') /\ Cardinality(Holders(n)') \in Nat
           /\ Cardinality(Holders(n)') = 0 <=> Holders(n)' = {}
<1>. TAKE n
<1>1. Holders(n)' \in SUBSET Threads
  BY DEF Holders
<1>2. IsFiniteSet(Holders(n)')
  BY <1>1, FS_Subset, FiniteAssumption
<1>. QED  BY <1>2, FS_CardinalityType, FS_EmptySet

\* A stamp that has not reached its bound does not wrap.
LEMMA StampBump ==
    ASSUME NEW k \in 0..MaxStamp + 1
    PROVE  /\ (k + 1) % (MaxStamp + 2) \in 0..MaxStamp + 1
           /\ k # MaxStamp + 1 => (k + 1) % (MaxStamp + 2) = k + 1
BY StampAssumption

\* The list from top_ on.
LEMMA ListFacts ==
    ASSUME TypeOK, ChainMatches
    PROVE  /\ Len(stk) \in Nat /\ DOMAIN stk = 1..Len(stk)
           /\ \A i \in 1..Len(stk) : stk[i] \in Nodes /\ stk[i] \in live /\ stk[i] \in ToSet(stk)
           /\ \A i, j \in 1..Len(stk) : stk[i] = stk[j] => i = j
           /\ \A n \in ToSet(stk) : n \in live /\ \E i \in 1..Len(stk) : n = stk[i]
           /\ stk = <<>> => Len(stk) = 0 /\ top.ptr = Null
           /\ stk # <<>> => Len(stk) > 0 /\ top.ptr = stk[1] /\ top.ptr # Null
<1>1. Len(stk) \in Nat /\ DOMAIN stk = 1..Len(stk) /\ (stk = <<>> <=> Len(stk) = 0)
  BY LenProperties, EmptySeq DEF TypeOK
<1>2. \A i \in 1..Len(stk) : stk[i] \in Nodes /\ stk[i] \in ToSet(stk) /\ stk[i] \in live
  BY <1>1 DEF TypeOK, ToSet, ChainMatches
<1>3. \A i, j \in 1..Len(stk) : stk[i] = stk[j] => i = j
  BY <1>1 DEF ChainMatches, IsInjective
<1>4. \A n \in ToSet(stk) : n \in live /\ \E i \in 1..Len(stk) : n = stk[i]
  BY <1>1 DEF ToSet, ChainMatches
<1>5. stk = <<>> => top.ptr = Null
  BY <1>1 DEF ChainMatches
<1>6. ASSUME stk # <<>> PROVE Len(stk) > 0 /\ top.ptr = stk[1] /\ top.ptr # Null
  <2>1. Len(stk) > 0 /\ 0 \in 0..Len(stk) /\ 0 # Len(stk) /\ 1 \in 1..Len(stk)
    BY <1>1, <1>6
  <2>2. top.ptr = stk[0+1]
    BY <2>1 DEF ChainMatches
  <2>. QED  BY <1>2, <2>1, <2>2, NullAssumption
<1>. QED  BY <1>1, <1>2, <1>3, <1>4, <1>5, <1>6

\* A step that changes neither the list nor who has a reference, has popped or pushes.
LEMMA CountsKept ==
    ASSUME IInv, UNCHANGED <<top, dec, live, stk>>,
           \A n : Holders(n)' = Holders(n),
           \A i \in 1..Len(stk) : next'[stk[i]] = next[stk[i]],
           \A u \in Threads : /\ pc'[u] = "won" <=> pc[u] = "won"
                              /\ pc'[u] = "push" <=> pc[u] = "push"
                              /\ pc[u] \in {"won", "push"} => old'[u] = old[u]
    PROVE  ChainMatches' /\ Listed' /\ Popped' /\ Dropped' /\ Fresh'
<1>. USE DEF IInv
<1>1. ChainMatches'
  BY ListFacts DEF ChainMatches
<1>2. \A i \in 0..Len(stk) : Behind(i)' = Behind(i)
  BY ListFacts DEF Behind
<1>3. Listed'
  <2>. SUFFICES ASSUME NEW i \in 1..Len(stk)
                PROVE  /\ dec[stk[i]] \in Nat
                       /\ Behind(i-1)' = Behind(i-1)
    BY DEF Listed
  <2>1. i - 1 \in 0..Len(stk)
    BY ListFacts
  <2>. QED  BY <1>2, <2>1 DEF Listed
<1>4. Popped'
  BY DEF Popped
<1>5. Dropped'
  BY DEF Dropped
<1>6. Fresh'
  BY DEF Fresh
<1>. QED  BY <1>1, <1>3, <1>4, <1>5, <1>6

\* A step that touches no node that is being pushed.
LEMMA FreshKept ==
    ASSUME Fresh,
           \A u \in Threads : pc'[u] = "push" =>
               /\ pc[u] = "push" /\ old'[u] = old[u] /\ dec'[old[u].ptr] = dec[old[u].ptr]
               /\ old[u].ptr \in live' /\ old[u].ptr \notin ToSet(stk)'
               /\ \A m : m = old[u].ptr => Holders(m)' = Holders(m)
    PROVE  Fresh'
<1>1. ASSUME NEW u \in Threads, pc'[u] = "push"
      PROVE  /\ old'[u].stamp = 0 /\ dec'[old'[u].ptr] = 0
             /\ old'[u].ptr \in live' /\ old'[u].ptr \notin ToSet(stk)'
  BY <1>1 DEF Fresh
<1>2. ASSUME NEW u \in Threads, pc'[u] = "push" PROVE Holders(old[u].ptr)' = {}
  <2>1. PICK m : m = old[u].ptr /\ m = old'[u].ptr
    BY <1>2
  <2>2. Holders(m) = {}
    BY <1>2, <2>1 DEF Fresh
  <2>3. Holders(m)' = {}
    BY <1>2, <2>1, <2>2
  <2>. QED  BY <2>1, <2>3
<1>3. \A u, v \in Threads : pc'[u] = "push" /\ pc'[v] = "push" /\ old'[u].ptr = old'[v].ptr
         => u = v
  BY DEF Fresh
<1>. QED  BY <1>1, <1>2, <1>3 DEF Fresh

LEMMA InitIInv == Init => IInv
<1>. SUFFICES ASSUME Init PROVE IInv
  OBVIOUS
<1>1. Len(stk) = 0 /\ ToSet(stk) = {} /\ IsInjective(stk) /\ stk \in Seq(Nodes)
  BY EmptySeq, LenProperties DEF Init, ToSet, IsInjective
<1>2. TypeOK
  <2>1. Nil \in Stamped
    BY StampAssumption DEF Nil, Stamped
  <2>2. 0 \in -MaxStamp..MaxStamp
    BY StampAssumption
  <2>. QED  BY <1>1, <2>1, <2>2 DEF Init, TypeOK
<1>3. ChainMatches
  BY <1>1 DEF Init, ChainMatches, Nil
<1>. QED
  BY <1>1, <1>2, <1>3 DEF Init, IInv, Listed, Popped, Dropped, Fresh, Held, StampsBounded, Holding
-----------------------------------------------------------------------------
(* The steps that leave the list alone *)

LEMMA LoadKeeps == ASSUME IInv, NEW t \in Threads, Load(t) PROVE IInv'
<1>1. /\ pc[t] \in {"idle", "load"} /\ pc' = [pc EXCEPT ![t] = "inc"]
      /\ old' = [old EXCEPT ![t] = top]
      /\ UNCHANGED <<top, next, dec, live, nxt, stk>>
  BY DEF Load, Move
<1>2. TypeOK'
  BY <1>1 DEF IInv, TypeOK, Holding
<1>3. /\ \A u \in Threads \ {t} : pc'[u] = pc[u] /\ old'[u] = old[u]
      /\ pc'[t] = "inc" /\ old'[t] = top
  BY <1>1 DEF IInv, TypeOK
<1>4. \A n : Holders(n)' = Holders(n)
  BY <1>1, <1>3 DEF Holders, Holding
<1>5. ChainMatches' /\ Listed' /\ Popped' /\ Dropped' /\ Fresh'
  BY <1>1, <1>3, <1>4, CountsKept
<1>6. Held' /\ StampsBounded'
  BY <1>1, <1>3 DEF IInv, Held, StampsBounded, Holding
<1>. QED  BY <1>2, <1>5, <1>6 DEF IInv

LEMMA ReadNextKeeps == ASSUME IInv, NEW t \in Threads, ReadNext(t) PROVE IInv'
<1>1. /\ pc[t] = "readNext" /\ pc' = [pc EXCEPT ![t] = "pop"]
      /\ nxt' = [nxt EXCEPT ![t] = next[old[t].ptr]]
      /\ UNCHANGED <<top, next, dec, live, old, stk>>
  BY DEF ReadNext, Move, Below
<1>2. TypeOK'
  <2>1. old[t].ptr \in Nodes
    BY <1>1 DEF IInv, Held, Holding, TypeOK
  <2>. QED  BY <1>1, <2>1 DEF IInv, TypeOK, Holding
<1>3. /\ \A u \in Threads \ {t} : pc'[u] = pc[u] /\ nxt'[u] = nxt[u]
      /\ pc'[t] = "pop" /\ nxt'[t] = next[old[t].ptr]
  BY <1>1 DEF IInv, TypeOK
<1>4. \A n : Holders(n)' = Holders(n)
  BY <1>1, <1>3 DEF Holders, Holding
<1>5. ChainMatches' /\ Listed' /\ Popped' /\ Dropped' /\ Fresh'
  BY <1>1, <1>3, <1>4, CountsKept
<1>6. Held'
  BY <1>1, <1>3 DEF IInv, Held, Holding
<1>7. StampsBounded'
  BY <1>1, <1>3 DEF IInv, StampsBounded
<1>. QED  BY <1>2, <1>5, <1>6, <1>7 DEF IInv

\* A compare-and-swap that fails: of Push, of the increment, of the pop.
LEMMA FailureKeeps ==
    ASSUME IInv, Counting, NEW t \in Threads,
           \/ /\ pc[t] = "push"
              /\ next' = [next EXCEPT ![old[t].ptr] = top]
              /\ UNCHANGED <<top, dec, live, pc, old, nxt, stk>>
           \/ /\ pc[t] = "inc"
              /\ old' = [old EXCEPT ![t] = top]
              /\ UNCHANGED <<top, next, dec, live, pc, nxt, stk>>
           \/ /\ pc[t] = "pop" /\ Room(t) /\ pc' = [pc EXCEPT ![t] = "lost"]
              /\ nxt' = [nxt EXCEPT ![t] = Nil]
              /\ UNCHANGED <<top, next, dec, live, old, stk>>
    PROVE  IInv'
<1>1. CASE /\ pc[t] = "push"
           /\ next' = [next EXCEPT ![old[t].ptr] = top]
           /\ UNCHANGED <<top, dec, live, pc, old, nxt, stk>>
  <2>. DEFINE n == old[t].ptr
  <2>1. n \in Nodes /\ n \notin ToSet(stk) /\ Holders(n) = {}
    BY <1>1 DEF IInv, Fresh, TypeOK
  <2>2. TypeOK'
    BY <1>1, <2>1 DEF IInv, TypeOK
  <2>3. \A m \in Nodes \ {n} : next'[m] = next[m]
    BY <1>1 DEF IInv, TypeOK
  <2>4. \A i \in 1..Len(stk) : next'[stk[i]] = next[stk[i]]
    BY <2>1, <2>3, ListFacts DEF IInv
  <2>5. \A m : Holders(m)' = Holders(m)
    BY <1>1 DEF Holders
  <2>6. ChainMatches' /\ Listed' /\ Popped' /\ Dropped' /\ Fresh'
    BY <1>1, <2>4, <2>5, CountsKept
  <2>7. Held'
    <3>1. \A u \in Threads : pc[u] = "pop" => old[u].ptr \in Nodes \ {n}
      BY <2>1 DEF IInv, Held, Holders, Holding, TypeOK
    <3>. QED  BY <1>1, <2>3, <3>1 DEF IInv, Held
  <2>8. StampsBounded'
    BY <1>1, <2>4, ListFacts DEF IInv, StampsBounded
  <2>. QED  BY <2>2, <2>6, <2>7, <2>8 DEF IInv
<1>2. CASE /\ pc[t] = "inc"
           /\ old' = [old EXCEPT ![t] = top]
           /\ UNCHANGED <<top, next, dec, live, pc, nxt, stk>>
  <2>1. TypeOK'
    BY <1>2 DEF IInv, TypeOK
  <2>2. old'[t] = top /\ \A u \in Threads \ {t} : old'[u] = old[u]
    BY <1>2 DEF IInv, TypeOK
  <2>3. \A m : Holders(m)' = Holders(m)
    BY <1>2, <2>2 DEF Holders, Holding
  <2>4. ChainMatches' /\ Listed' /\ Popped' /\ Dropped' /\ Fresh'
    BY <1>2, <2>2, <2>3, CountsKept
  <2>5. Held' /\ StampsBounded'
    BY <1>2, <2>2 DEF IInv, Held, StampsBounded, Holding
  <2>. QED  BY <2>1, <2>4, <2>5 DEF IInv
<1>3. CASE /\ pc[t] = "pop" /\ Room(t) /\ pc' = [pc EXCEPT ![t] = "lost"]
           /\ nxt' = [nxt EXCEPT ![t] = Nil]
           /\ UNCHANGED <<top, next, dec, live, old, stk>>
  <2>1. TypeOK'
    <3>1. Nil \in Stamped
      BY StampAssumption DEF Nil, Stamped
    <3>. QED  BY <1>3, <3>1 DEF IInv, TypeOK, Holding
  <2>2. /\ pc'[t] = "lost"
        /\ \A u \in Threads \ {t} : pc'[u] = pc[u] /\ nxt'[u] = nxt[u]
    BY <1>3 DEF IInv, TypeOK
  <2>3. \A m : Holders(m)' = Holders(m)
    BY <1>3, <2>2 DEF Holders, Holding
  <2>4. ChainMatches' /\ Listed' /\ Popped' /\ Dropped' /\ Fresh'
    BY <1>3, <2>2, <2>3, CountsKept
  <2>5. Held'
    BY <1>3, <2>2 DEF IInv, Held, Holding
  <2>6. StampsBounded'
    <3>1. old[t] = top => top.stamp # MaxStamp + 1
      BY <1>3, StampAssumption DEF Room, IInv, TypeOK, Stamped
    <3>. QED  BY <1>3, <2>2, <3>1 DEF IInv, StampsBounded
  <2>. QED  BY <2>1, <2>4, <2>5, <2>6 DEF IInv
<1>. QED  BY <1>1, <1>2, <1>3
-----------------------------------------------------------------------------
(* The steps that change the list or the references *)

LEMMA NewKeeps ==
    ASSUME IInv, NEW t \in Threads, New(t)
    PROVE  IInv'
<1>1. PICK n \in Nodes \ live :
         /\ pc[t] = "idle" /\ pc' = [pc EXCEPT ![t] = "push"]
         /\ live' = live \cup {n} /\ next' = [next EXCEPT ![n] = Nil]
         /\ dec' = [dec EXCEPT ![n] = 0]
         /\ old' = [old EXCEPT ![t] = [ptr |-> n, stamp |-> 0]]
         /\ UNCHANGED <<top, nxt, stk>>
  BY DEF New, Move
<1>2. TypeOK'
  <2>1. Nil \in Stamped /\ [ptr |-> n, stamp |-> 0] \in Stamped /\ 0 \in -MaxStamp..MaxStamp
    BY StampAssumption DEF Nil, Stamped
  <2>. QED  BY <1>1, <2>1 DEF IInv, TypeOK
<1>3. /\ \A u \in Threads \ {t} : pc'[u] = pc[u] /\ old'[u] = old[u]
      /\ pc'[t] = "push" /\ old'[t].ptr = n /\ old'[t].stamp = 0
      /\ \A m \in Nodes \ {n} : next'[m] = next[m] /\ dec'[m] = dec[m]
      /\ dec'[n] = 0
  BY <1>1 DEF IInv, TypeOK
<1>4. \A u \in Threads : pc[u] \in Holding \cup {"push"} => old[u].ptr \in live
  BY DEF IInv, Held, Fresh
<1>5. /\ \A m : Holders(m)' = Holders(m)
      /\ Holders(n) = {}
  BY <1>1, <1>3, <1>4 DEF Holders, Holding
<1>6. \A i \in 1..Len(stk) : /\ stk[i] \in Nodes \ {n}
                             /\ next'[stk[i]] = next[stk[i]] /\ dec'[stk[i]] = dec[stk[i]]
  BY <1>1, <1>3, ListFacts DEF IInv
<1>7. n \notin ToSet(stk) /\ Len(stk) \in Nat
  BY <1>1, ListFacts DEF IInv
<1>8. ChainMatches'
  BY <1>1, <1>6, <1>7 DEF IInv, ChainMatches
<1>9. Listed'
  <2>. SUFFICES ASSUME NEW i \in 1..Len(stk)
                PROVE  /\ dec'[stk[i]] = dec[stk[i]]
                       /\ Behind(i-1)' = Behind(i-1)
    BY <1>1, <1>5 DEF Listed, IInv
  <2>1. i - 1 = 0 \/ i - 1 \in 1..Len(stk)
    BY <1>7
  <2>. QED  BY <1>1, <1>6, <2>1 DEF Behind
<1>10. Popped'
  <2>1. \A u \in Threads : pc'[u] = "won" =>
           /\ u # t /\ pc[u] = "won" /\ old'[u] = old[u]
           /\ old[u].ptr \in Nodes \ {n} /\ dec'[old[u].ptr] = dec[old[u].ptr]
    BY <1>1, <1>3, <1>4 DEF Holding, IInv, TypeOK
  <2>. QED  BY <1>1, <1>5, <2>1 DEF IInv, Popped
<1>11. Dropped'
  <2>. SUFFICES ASSUME NEW m \in live' \ ToSet(stk)',
                       \A u \in Threads : pc'[u] \in {"won", "push"} => old'[u].ptr # m
                PROVE  Holders(m)' # {} /\ dec'[m] = -Cardinality(Holders(m)')
    BY DEF Dropped
  <2>1. m # n /\ m \in live /\ m \notin ToSet(stk) /\ m \in Nodes
    BY <1>1, <1>3 DEF IInv, TypeOK
  <2>2. \A u \in Threads : pc[u] \in {"won", "push"} => old[u].ptr # m
    BY <1>1, <1>3
  <2>. QED  BY <1>3, <1>5, <2>1, <2>2 DEF IInv, Dropped
<1>12. Fresh'
  <2>1. \A u \in Threads \ {t} : pc[u] = "push" =>
           old[u].ptr \in Nodes \ {n} /\ dec'[old[u].ptr] = dec[old[u].ptr]
    BY <1>1, <1>3, <1>4 DEF IInv, TypeOK
  <2>2. ASSUME NEW u \in Threads \ {t}, pc[u] = "push"
        PROVE  /\ old'[u].stamp = 0 /\ dec'[old'[u].ptr] = 0
               /\ old'[u].ptr \in live' /\ old'[u].ptr \notin ToSet(stk)'
               /\ Holders(old[u].ptr)' = {} /\ old'[u].ptr # n
    <3>1. /\ old[u].stamp = 0 /\ dec[old[u].ptr] = 0
          /\ old[u].ptr \in live /\ old[u].ptr \notin ToSet(stk)
          /\ Holders(old[u].ptr) = {}
      BY <2>2 DEF IInv, Fresh
    <3>2. old'[u] = old[u] /\ live' = live \cup {n} /\ ToSet(stk)' = ToSet(stk)
      BY <1>1, <1>3
    <3>3. Holders(old[u].ptr)' = {}
      BY <1>5, <3>1, <3>2
    <3>. QED  BY <2>1, <2>2, <3>1, <3>2, <3>3
  <2>3. \A u, v \in Threads \ {t} : pc[u] = "push" /\ pc[v] = "push" /\ old[u].ptr = old[v].ptr
           => u = v
    BY DEF IInv, Fresh
  <2>4. /\ old'[t].stamp = 0 /\ dec'[old'[t].ptr] = 0
        /\ old'[t].ptr \in live' /\ old'[t].ptr \notin ToSet(stk)'
    BY <1>1, <1>3, <1>7
  <2>5. Holders(old[t].ptr)' = {}
    BY <1>3, <1>5
  <2>6. \A u, v \in Threads : pc'[u] = "push" /\ pc'[v] = "push" /\ old'[u].ptr = old'[v].ptr
           => u = v
    BY <1>3, <2>2, <2>3
  <2>7. \A u \in Threads : pc'[u] = "push" => u = t \/ (u \in Threads \ {t} /\ pc[u] = "push")
    BY <1>3
  <2>. QED  BY <2>2, <2>4, <2>5, <2>6, <2>7 DEF Fresh
<1>13. Held'
  <2>1. \A u \in Threads : pc'[u] \in Holding =>
           /\ pc[u] = pc'[u] /\ old'[u] = old[u] /\ old[u].ptr \in Nodes \ {n}
           /\ next'[old[u].ptr] = next[old[u].ptr]
    BY <1>1, <1>3, <1>4 DEF Holding, IInv, TypeOK
  <2>. QED  BY <1>1, <2>1 DEF IInv, Held, Holding
<1>14. StampsBounded'
  <2>1. \A i \in 1..Len(stk) - 1 : next'[stk[i]] = next[stk[i]]
    BY <1>6, <1>7
  <2>. QED  BY <1>1, <1>3, <2>1 DEF IInv, StampsBounded
<1>. QED
  BY <1>2, <1>8, <1>9, <1>10, <1>11, <1>12, <1>13, <1>14 DEF IInv

\* A node in front of the list.
LEMMA Prepend ==
    ASSUME NEW s \in Seq(Nodes), NEW n \in Nodes
    PROVE  LET r == <<n>> \o s
           IN  /\ r \in Seq(Nodes) /\ Len(r) = Len(s) + 1 /\ r[1] = n
               /\ \A i \in 1..Len(s) : r[i+1] = s[i]
               /\ ToSet(r) = ToSet(s) \cup {n}
               /\ IsInjective(s) /\ n \notin ToSet(s) => IsInjective(r)
<1>. DEFINE r == <<n>> \o s
<1>1. /\ r \in Seq(Nodes) /\ Len(s) \in Nat /\ Len(r) = Len(s) + 1
      /\ DOMAIN s = 1..Len(s) /\ DOMAIN r = 1..(Len(s) + 1)
      /\ r[1] = n /\ \A i \in 1..Len(s) : r[i+1] = s[i]
  BY LenProperties
<1>. HIDE DEF r
<1>2. ASSUME NEW j \in 1..(Len(s) + 1), j # 1
      PROVE  j - 1 \in 1..Len(s) /\ r[j] = s[j-1]
  <2>1. j - 1 \in 1..Len(s) /\ (j - 1) + 1 = j
    BY <1>1, <1>2
  <2>. QED  BY <1>1, <2>1
<1>3. ToSet(r) = ToSet(s) \cup {n}
  <2>1. ASSUME NEW m \in ToSet(r) PROVE m \in ToSet(s) \cup {n}
    <3>1. PICK j \in 1..(Len(s) + 1) : m = r[j]
      BY <1>1, <2>1 DEF ToSet
    <3>2. CASE j = 1
      BY <1>1, <3>1, <3>2
    <3>3. CASE j # 1
      <4>1. j - 1 \in DOMAIN s /\ m = s[j-1]
        BY <1>1, <1>2, <3>1, <3>3
      <4>. QED  BY <4>1 DEF ToSet
    <3>. QED  BY <3>2, <3>3
  <2>2. ASSUME NEW m \in ToSet(s) PROVE m \in ToSet(r)
    <3>1. PICK i \in 1..Len(s) : m = s[i]
      BY <1>1, <2>2 DEF ToSet
    <3>2. i + 1 \in DOMAIN r /\ r[i+1] = m
      BY <1>1, <3>1
    <3>. QED  BY <3>2 DEF ToSet
  <2>3. n \in ToSet(r)
    BY <1>1 DEF ToSet
  <2>. QED  BY <2>1, <2>2, <2>3
<1>4. ASSUME IsInjective(s), n \notin ToSet(s) PROVE IsInjective(r)
  <2>. SUFFICES ASSUME NEW i \in 1..Len(s) + 1, NEW j \in 1..Len(s) + 1, r[i] = r[j]
                PROVE  i = j
    BY <1>1 DEF IsInjective
  <2>1. \A k \in 1..Len(s) : s[k] # n
    BY <1>1, <1>4 DEF ToSet
  <2>2. CASE i = 1 \/ j = 1
    BY <1>1, <1>2, <2>1, <2>2
  <2>3. CASE i # 1 /\ j # 1
    <3>1. /\ i - 1 \in DOMAIN s /\ j - 1 \in DOMAIN s
          /\ s[i-1] = s[j-1]
      BY <1>1, <1>2, <2>3
    <3>2. i - 1 = j - 1
      BY <1>4, <3>1 DEF IsInjective
    <3>. QED  BY <3>2
  <2>. QED  BY <2>2, <2>3
<1>. QED  BY <1>1, <1>3, <1>4 DEF r

\* The list without its first node.
LEMMA Rest ==
    ASSUME NEW s \in Seq(Nodes), s # <<>>, IsInjective(s)
    PROVE  /\ Tail(s) \in Seq(Nodes) /\ Len(Tail(s)) = Len(s) - 1 /\ Len(s) \in Nat \ {0}
           /\ \A i \in 1..Len(s) - 1 : Tail(s)[i] = s[i+1]
           /\ ToSet(Tail(s)) = ToSet(s) \ {s[1]} /\ s[1] \in ToSet(s)
           /\ IsInjective(Tail(s))
<1>. DEFINE r == Tail(s)
<1>1. /\ r \in Seq(Nodes) /\ Len(r) = Len(s) - 1 /\ Len(s) \in Nat \ {0}
      /\ DOMAIN s = 1..Len(s) /\ DOMAIN r = 1..(Len(s) - 1)
      /\ \A i \in 1..Len(s) - 1 : r[i] = s[i+1]
  BY HeadTailProperties, LenProperties, EmptySeq
<1>. HIDE DEF r
<1>2. s[1] \in ToSet(s)
  BY <1>1 DEF ToSet
<1>3. ASSUME NEW n \in ToSet(r) PROVE n \in ToSet(s) \ {s[1]}
  <2>1. PICK i \in 1..Len(s) - 1 : n = s[i+1]
    BY <1>1, <1>3 DEF ToSet
  <2>2. i + 1 \in 1..Len(s) /\ i + 1 # 1
    BY <1>1, <2>1
  <2>3. s[i+1] \in ToSet(s)
    BY <1>1, <2>2 DEF ToSet
  <2>4. s[i+1] # s[1]
    BY <1>1, <2>2 DEF IsInjective
  <2>. QED  BY <1>1, <2>1, <2>3, <2>4
<1>4. ASSUME NEW n \in ToSet(s) \ {s[1]} PROVE n \in ToSet(r)
  <2>1. PICK i \in 1..Len(s) : n = s[i]
    BY <1>1, <1>4 DEF ToSet
  <2>2. i - 1 \in 1..Len(s) - 1 /\ r[i-1] = n
    BY <1>1, <1>4, <2>1
  <2>. QED  BY <1>1, <2>2 DEF ToSet
<1>5. ASSUME NEW i \in DOMAIN r, NEW j \in DOMAIN r, r[i] = r[j] PROVE i = j
  <2>1. /\ i \in Nat /\ j \in Nat /\ i + 1 \in DOMAIN s /\ j + 1 \in DOMAIN s
        /\ s[i+1] = s[j+1]
    BY <1>1, <1>5
  <2>2. i + 1 = j + 1
    BY <2>1 DEF IsInjective
  <2>. QED  BY <2>1, <2>2
<1>6. IsInjective(r)
  BY <1>5 DEF IsInjective
<1>. QED  BY <1>1, <1>2, <1>3, <1>4, <1>6 DEF r

LEMMA PushKeeps ==
    ASSUME IInv, Counting, NEW t \in Threads, Alone(t),
           pc[t] = "push", pc' = [pc EXCEPT ![t] = "idle"],
           top = next[old[t].ptr], top' = old[t],
           stk' = <<old[t].ptr>> \o stk, old' = [old EXCEPT ![t] = Nil],
           UNCHANGED <<next, dec, live, nxt>>
    PROVE  IInv'
<1>. DEFINE n == old[t].ptr
<1>1. /\ n \in Nodes /\ n \in live /\ n \notin ToSet(stk) /\ Holders(n) = {}
      /\ dec[n] = 0 /\ old[t].stamp = 0
      /\ \A u \in Threads : pc[u] = "push" /\ old[u].ptr = n => u = t
  BY DEF IInv, Fresh, TypeOK
<1>2. /\ stk' \in Seq(Nodes) /\ Len(stk') = Len(stk) + 1 /\ stk'[1] = n
      /\ \A i \in 1..Len(stk) : stk'[i+1] = stk[i]
      /\ ToSet(stk)' = ToSet(stk) \cup {n}
      /\ IsInjective(stk')
  BY <1>1, Prepend DEF IInv, TypeOK, ChainMatches
<1>3. TypeOK'
  <2>1. Nil \in Stamped
    BY StampAssumption DEF Nil, Stamped
  <2>2. stk' \in Seq(Nodes)
    BY <1>2
  <2>. QED  BY <2>1, <2>2 DEF IInv, TypeOK
<1>4. /\ \A u \in Threads \ {t} : pc'[u] = pc[u] /\ old'[u] = old[u]
      /\ pc'[t] = "idle" /\ top'.ptr = n /\ top'.stamp = 0
  BY <1>1 DEF IInv, TypeOK
<1>5. \A m : Holders(m)' = Holders(m)
  BY <1>4 DEF Holders, Holding
<1>6. \A i \in 1..(Len(stk) + 1) : i = 1 \/ (i - 1 \in 1..Len(stk) /\ stk'[i] = stk[i-1])
  <2>. SUFFICES ASSUME NEW i \in 1..(Len(stk) + 1), i # 1
                PROVE  i - 1 \in 1..Len(stk) /\ stk'[i] = stk[i-1]
    OBVIOUS
  <2>1. i - 1 \in 1..Len(stk) /\ (i - 1) + 1 = i
    BY ListFacts DEF IInv
  <2>. QED  BY <1>2, <2>1
\* The pointers of the list are those of the old one, behind the new top_.
<1>7. /\ Behind(0)' = old[t]
      /\ \A i \in 1..(Len(stk) + 1) : Behind(i)' = Behind(i-1)
  <2>1. Behind(0)' = old[t]
    BY DEF Behind
  <2>2. Len(stk) \in Nat
    BY ListFacts DEF IInv
  <2>3. Behind(1)' = Behind(0)
    BY <1>2 DEF Behind
  <2>4. ASSUME NEW i \in 1..(Len(stk) + 1), i # 1 PROVE Behind(i)' = Behind(i-1)
    <3>1. stk'[i] = stk[i-1] /\ i # 0 /\ i - 1 # 0
      BY <1>6, <2>2, <2>4
    <3>. QED  BY <3>1 DEF Behind
  <2>. QED  BY <2>1, <2>3, <2>4
<1>8. ChainMatches'
  <2>1. ToSet(stk)' \subseteq live'
    BY <1>1, <1>2 DEF IInv, ChainMatches
  <2>2. \A i \in 0..Len(stk) : Behind(i).ptr = IF i = Len(stk) THEN Null ELSE stk[i+1]
    BY DEF IInv, ChainMatches, Behind
  <2>3. ASSUME NEW i \in 0..(Len(stk) + 1)
        PROVE  Behind(i)'.ptr = IF i = Len(stk) + 1 THEN Null ELSE stk'[i+1]
    <3>1. Len(stk) \in Nat
      BY ListFacts DEF IInv
    <3>2. CASE i = 0
      BY <1>2, <1>7, <3>1, <3>2
    <3>3. CASE i # 0
      <4>1. i - 1 \in 0..Len(stk) /\ Behind(i)' = Behind(i-1)
        BY <1>7, <3>1, <3>3
      <4>2. i # Len(stk) + 1 => i \in 1..Len(stk) /\ stk'[i+1] = stk[i]
        BY <1>2, <3>1, <3>3
      <4>3. (i - 1) + 1 = i /\ (i = Len(stk) + 1 <=> i - 1 = Len(stk))
        BY <3>1
      <4>. QED  BY <2>2, <4>1, <4>2, <4>3
    <3>. QED  BY <3>2, <3>3
  <2>. QED  BY <1>2, <2>1, <2>3 DEF ChainMatches, Behind
<1>9. Listed'
  <2>. SUFFICES ASSUME NEW i \in 1..(Len(stk) + 1)
                PROVE  /\ dec[stk'[i]] \in Nat
                       /\ Behind(i-1)'.stamp = Cardinality(Holders(stk'[i])) + dec[stk'[i]]
    BY <1>2, <1>5 DEF Listed
  <2>1. CASE i = 1
    <3>1. Cardinality(Holders(n)) = 0
      BY <1>1, FS_EmptySet
    <3>2. Behind(i-1)' = old[t] /\ stk'[i] = n
      BY <1>2, <1>7, <2>1
    <3>3. dec[stk'[i]] = 0 /\ Cardinality(Holders(stk'[i])) = 0 /\ Behind(i-1)'.stamp = 0
      BY <1>1, <3>1, <3>2
    <3>. QED  BY <3>3
  <2>2. CASE i # 1
    <3>1. i - 1 \in 1..Len(stk) /\ stk'[i] = stk[i-1]
      BY <1>6, <2>2
    <3>2. Behind(i-1)' = Behind((i-1)-1)
      <4>1. i - 1 \in 1..(Len(stk) + 1)
        BY <3>1, ListFacts DEF IInv
      <4>. QED  BY <1>7, <4>1
    <3>. QED  BY <3>1, <3>2 DEF IInv, Listed
  <2>. QED  BY <2>1, <2>2
<1>10. Popped'
  <2>1. \A u \in Threads : pc'[u] = "won" =>
           /\ pc[u] = "won" /\ old'[u] = old[u] /\ old[u].ptr # n
    BY <1>1, <1>4 DEF Holders, Holding
  <2>. QED  BY <1>2, <1>5, <2>1 DEF IInv, Popped
<1>11. Dropped'
  <2>. SUFFICES ASSUME NEW m \in live' \ ToSet(stk)',
                       \A u \in Threads : pc'[u] \in {"won", "push"} => old'[u].ptr # m
                PROVE  Holders(m)' # {} /\ dec'[m] = -Cardinality(Holders(m)')
    BY DEF Dropped
  <2>1. m # n /\ m \in live /\ m \notin ToSet(stk)
    BY <1>2
  <2>2. \A u \in Threads : pc[u] \in {"won", "push"} => old[u].ptr # m
    BY <1>4, <2>1
  <2>. QED  BY <1>5, <2>1, <2>2 DEF IInv, Dropped
<1>12. Fresh'
  <2>1. \A u \in Threads : pc'[u] = "push" =>
           /\ pc[u] = "push" /\ old'[u] = old[u] /\ old[u].ptr # n
           /\ old[u].ptr \in live /\ old[u].ptr \notin ToSet(stk)
    BY <1>1, <1>4 DEF IInv, Fresh
  <2>. QED  BY <1>2, <1>5, <2>1, FreshKept DEF IInv
<1>13. Held'
  <2>1. \A u \in Threads : pc'[u] \in Holding => pc[u] = pc'[u] /\ old'[u] = old[u]
    BY <1>4 DEF Holding
  <2>. QED  BY <2>1 DEF IInv, Held, Holding
<1>14. StampsBounded'
  <2>1. stk # <<>> => top.stamp <= MaxStamp
    <3>1. stk # <<>> => top.stamp # MaxStamp + 1
      BY StampAssumption DEF IInv, StampsBounded, TypeOK, Stamped, Alone
    <3>. QED  BY <3>1, StampAssumption DEF IInv, TypeOK, Stamped
  <2>2. ASSUME NEW i \in 1..Len(stk) PROVE next[stk'[i]].stamp <= MaxStamp
    <3>1. Len(stk) \in Nat
      BY ListFacts DEF IInv
    <3>2. CASE i = 1
      BY <1>2, <2>1, <3>1, <3>2, ListFacts DEF IInv
    <3>3. CASE i # 1
      <4>1. i - 1 \in 1..Len(stk) - 1 /\ stk'[i] = stk[i-1]
        BY <1>6, <3>1, <3>3
      <4>. QED  BY <4>1 DEF IInv, StampsBounded
    <3>. QED  BY <3>2, <3>3
  <2>3. top'.stamp # MaxStamp + 1 /\ Len(stk') - 1 = Len(stk)
    BY <1>2, <1>4, ListFacts, StampAssumption DEF IInv
  <2>. QED  BY <2>2, <2>3 DEF StampsBounded
<1>. QED
  BY <1>3, <1>8, <1>9, <1>10, <1>11, <1>12, <1>13, <1>14 DEF IInv

\* The increment that returns nullopt: there is no node.
LEMMA EmptyKeeps ==
    ASSUME IInv, NEW t \in Threads,
           pc[t] = "inc", pc' = [pc EXCEPT ![t] = "idle"], top.ptr = Null,
           top' = Bump(top), old' = [old EXCEPT ![t] = Nil],
           UNCHANGED <<next, dec, live, nxt, stk>>
    PROVE  IInv'
<1>1. stk = <<>> /\ Len(stk) = 0
  BY ListFacts DEF IInv
<1>2. top' \in Stamped /\ top'.ptr = Null
  BY StampBump DEF Bump, IInv, TypeOK, Stamped
<1>3. TypeOK'
  <2>1. Nil \in Stamped
    BY StampAssumption DEF Nil, Stamped
  <2>. QED  BY <1>2, <2>1 DEF IInv, TypeOK
<1>4. /\ \A u \in Threads \ {t} : pc'[u] = pc[u] /\ old'[u] = old[u]
      /\ pc'[t] = "idle"
  BY DEF IInv, TypeOK
<1>5. \A m : Holders(m)' = Holders(m)
  BY <1>4 DEF Holders, Holding
<1>6. ChainMatches' /\ Listed'
  BY <1>1, <1>2 DEF IInv, ChainMatches, Listed
<1>7. Popped' /\ Dropped'
  BY <1>4, <1>5 DEF IInv, Popped, Dropped
<1>9. Fresh'
  <2>1. \A u \in Threads : pc'[u] = "push" =>
           /\ pc[u] = "push" /\ old'[u] = old[u]
           /\ old[u].ptr \in live /\ old[u].ptr \notin ToSet(stk)
    BY <1>4 DEF IInv, Fresh
  <2>. QED  BY <1>5, <2>1, FreshKept DEF IInv
<1>8. Held' /\ StampsBounded'
  BY <1>1, <1>4 DEF IInv, Held, StampsBounded, Holding
<1>. QED  BY <1>3, <1>6, <1>7, <1>8, <1>9 DEF IInv

\* The increment takes a reference to the first node.
LEMMA IncrementKeeps ==
    ASSUME IInv, Counting, NEW t \in Threads, Alone(t),
           pc[t] = "inc", pc' = [pc EXCEPT ![t] = "readNext"], top.ptr # Null,
           top' = Bump(top), old' = [old EXCEPT ![t] = top'],
           UNCHANGED <<next, dec, live, nxt, stk>>
    PROVE  IInv'
<1>. DEFINE n == top.ptr
<1>1. stk # <<>> /\ Len(stk) \in Nat \ {0} /\ n = stk[1] /\ n \in Nodes /\ n \in live
      /\ n \in ToSet(stk)
  BY ListFacts DEF IInv
\* The bound: a stamp past MaxStamp is that of a TryPop that pops now.
<1>2. top.stamp # MaxStamp + 1
  <2>. SUFFICES ASSUME top.stamp = MaxStamp + 1 PROVE FALSE
    OBVIOUS
  <2>1. PICK u \in Threads : pc[u] \in {"readNext", "pop"} /\ old[u] = top
    BY <1>1 DEF IInv, StampsBounded
  <2>2. top.stamp <= MaxStamp
    BY <2>1 DEF Alone
  <2>. QED  BY <2>2, StampAssumption
<1>3. top' \in Stamped /\ top'.ptr = n /\ top'.stamp = top.stamp + 1
  BY <1>2, StampBump DEF Bump, IInv, TypeOK, Stamped
<1>4. TypeOK'
  BY <1>3 DEF IInv, TypeOK, Holding
<1>5. /\ \A u \in Threads \ {t} : pc'[u] = pc[u] /\ old'[u] = old[u]
      /\ pc'[t] = "readNext" /\ old'[t] = top'
  BY DEF IInv, TypeOK
<1>6. /\ \A m : m # n => Holders(m)' = Holders(m)
      /\ Holders(n)' = Holders(n) \cup {t} /\ t \notin Holders(n)
  BY <1>3, <1>5 DEF Holders, Holding
<1>7. Cardinality(Holders(n)') = Cardinality(Holders(n)) + 1
  BY <1>6, HoldersAreFew, FS_AddElement
<1>8. ChainMatches'
  BY <1>3 DEF IInv, ChainMatches
<1>9. Listed'
  <2>. SUFFICES ASSUME NEW i \in 1..Len(stk)
                PROVE  /\ dec[stk[i]] \in Nat
                       /\ Behind(i-1)'.stamp = Cardinality(Holders(stk[i])') + dec[stk[i]]
    BY DEF Listed
  <2>1. CASE i = 1
    <3>1. Behind(i-1) = top /\ Behind(i-1)' = top' /\ stk[i] = n
      BY <1>1, <2>1 DEF Behind
    <3>2. dec[n] \in Nat /\ top.stamp = Cardinality(Holders(n)) + dec[n]
      BY <3>1 DEF IInv, Listed
    <3>3. Cardinality(Holders(n)) \in Nat
      BY HoldersAreFew
    <3>. QED  BY <1>3, <1>7, <3>1, <3>2, <3>3
  <2>2. CASE i # 1
    <3>1. stk[i] # n
      BY <1>1, <2>2, ListFacts DEF IInv
    <3>2. Behind(i-1)' = Behind(i-1)
      BY <1>1, <2>2 DEF Behind
    <3>. QED  BY <1>6, <3>1, <3>2 DEF IInv, Listed
  <2>. QED  BY <2>1, <2>2
<1>10. Popped'
  <2>1. \A u \in Threads : pc'[u] = "won" =>
           pc[u] = "won" /\ old'[u] = old[u] /\ old[u].ptr # n
    BY <1>1, <1>5 DEF IInv, Popped
  <2>. QED  BY <1>6, <2>1 DEF IInv, Popped
<1>11. Dropped'
  <2>1. \A m \in live \ ToSet(stk) : Holders(m)' = Holders(m)
    BY <1>1, <1>6
  <2>. QED  BY <1>5, <2>1 DEF IInv, Dropped
<1>12. Fresh'
  <2>1. \A u \in Threads : pc'[u] = "push" =>
           pc[u] = "push" /\ old'[u] = old[u] /\ old[u].ptr # n
    BY <1>1, <1>5 DEF IInv, Fresh
  <2>. QED  BY <1>6, <2>1 DEF IInv, Fresh
<1>13. Held'
  BY <1>1, <1>3, <1>5 DEF IInv, Held, Holding
<1>14. StampsBounded'
  BY <1>5 DEF IInv, StampsBounded
<1>. QED
  BY <1>4, <1>8, <1>9, <1>10, <1>11, <1>12, <1>13, <1>14 DEF IInv

\* The pop: its stamp is that of the node, and what it installs is behind the node.
LEMMA PopKeeps ==
    ASSUME IInv, Counting, NEW t \in Threads,
           pc[t] = "pop", pc' = [pc EXCEPT ![t] = "won"], top = old[t],
           top' = nxt[t], stk' = Tail(stk), nxt' = [nxt EXCEPT ![t] = Nil],
           UNCHANGED <<next, dec, live, old>>
    PROVE  IInv'
<1>. DEFINE n == top.ptr
<1>1. n \in live /\ top' = next[n] /\ n # Null
  BY NullAssumption DEF IInv, Held, Holding, TypeOK
<1>2. stk # <<>> /\ Len(stk) \in Nat \ {0} /\ n = stk[1] /\ n \in ToSet(stk)
  BY <1>1, ListFacts DEF IInv
<1>3. /\ stk' \in Seq(Nodes) /\ Len(stk') = Len(stk) - 1
      /\ \A i \in 1..Len(stk) - 1 : stk'[i] = stk[i+1]
      /\ ToSet(stk)' = ToSet(stk) \ {n}
      /\ IsInjective(stk')
  BY <1>2, Rest DEF IInv, TypeOK, ChainMatches
<1>4. TypeOK'
  <2>1. Nil \in Stamped
    BY StampAssumption DEF Nil, Stamped
  <2>2. stk' \in Seq(Nodes)
    BY <1>3
  <2>. QED  BY <2>1, <2>2 DEF IInv, TypeOK, Holding
<1>5. /\ \A u \in Threads \ {t} : pc'[u] = pc[u] /\ nxt'[u] = nxt[u]
      /\ pc'[t] = "won"
  BY DEF IInv, TypeOK
<1>6. \A m : Holders(m)' = Holders(m)
  BY <1>5 DEF Holders, Holding
<1>7. \A i \in 0..Len(stk) - 1 : Behind(i)' = Behind(i+1)
  <2>. TAKE i \in 0..Len(stk) - 1
  <2>1. CASE i = 0
    BY <1>1, <1>2, <2>1 DEF Behind
  <2>2. CASE i # 0
    <3>1. i \in 1..Len(stk) - 1 /\ i + 1 # 0
      BY <1>2, <2>2
    <3>. QED  BY <1>3, <2>2, <3>1 DEF Behind
  <2>. QED  BY <2>1, <2>2
<1>8. ChainMatches'
  <2>1. ToSet(stk)' \subseteq live'
    BY <1>3 DEF IInv, ChainMatches
  <2>2. \A i \in 0..Len(stk) : Behind(i).ptr = IF i = Len(stk) THEN Null ELSE stk[i+1]
    BY DEF IInv, ChainMatches, Behind
  <2>3. ASSUME NEW i \in 0..Len(stk) - 1
        PROVE  Behind(i)'.ptr = IF i = Len(stk) - 1 THEN Null ELSE stk'[i+1]
    <3>1. i + 1 \in 0..Len(stk) /\ (i + 1 = Len(stk) <=> i = Len(stk) - 1)
      BY <1>2
    <3>2. i # Len(stk) - 1 => i + 1 \in 1..Len(stk) - 1
      BY <1>2
    <3>. QED  BY <1>3, <1>7, <2>2, <3>1, <3>2
  <2>. QED  BY <1>3, <2>1, <2>3 DEF ChainMatches, Behind
<1>9. Listed'
  <2>. SUFFICES ASSUME NEW i \in 1..Len(stk) - 1
                PROVE  /\ dec[stk'[i]] \in Nat
                       /\ Behind(i-1)'.stamp = Cardinality(Holders(stk'[i])) + dec[stk'[i]]
    BY <1>3, <1>6 DEF Listed
  <2>1. /\ i - 1 \in 0..Len(stk) - 1 /\ (i - 1) + 1 = (i + 1) - 1
        /\ i + 1 \in 1..Len(stk) /\ stk'[i] = stk[i+1]
    BY <1>2, <1>3
  <2>2. Behind(i-1)' = Behind((i+1)-1)
    BY <1>7, <2>1
  <2>. QED  BY <2>1, <2>2 DEF IInv, Listed
<1>10. Popped'
  <2>1. dec[n] \in Nat /\ top.stamp = Cardinality(Holders(n)) + dec[n]
    <3>1. 1 \in 1..Len(stk) /\ Behind(1-1) = top
      BY <1>2 DEF Behind
    <3>. QED  BY <1>2, <3>1 DEF IInv, Listed
  <2>2. \A u \in Threads : pc[u] = "won" => old[u].ptr # n
    BY <1>2 DEF IInv, Popped
  <2>3. \A u \in Threads : pc'[u] = "won" => u = t \/ pc[u] = "won"
    BY <1>5
  <2>. QED  BY <1>3, <1>6, <2>1, <2>2, <2>3 DEF IInv, Popped
<1>11. Dropped'
  <2>. SUFFICES ASSUME NEW m \in live' \ ToSet(stk)',
                       \A u \in Threads : pc'[u] \in {"won", "push"} => old'[u].ptr # m
                PROVE  Holders(m)' # {} /\ dec'[m] = -Cardinality(Holders(m)')
    BY DEF Dropped
  <2>1. m # n /\ m \in live /\ m \notin ToSet(stk)
    BY <1>3, <1>5
  <2>2. \A u \in Threads : pc[u] \in {"won", "push"} => old[u].ptr # m
    BY <1>5, <2>1
  <2>. QED  BY <1>6, <2>1, <2>2 DEF IInv, Dropped
<1>12. Fresh'
  <2>1. \A u \in Threads : pc'[u] = "push" => pc[u] = "push"
    BY <1>5
  <2>. QED  BY <1>3, <1>6, <2>1 DEF IInv, Fresh
<1>13. Held'
  BY <1>5 DEF IInv, Held, Holding
<1>14. StampsBounded'
  <2>1. \A i \in 1..Len(stk') - 1 : next[stk'[i]].stamp <= MaxStamp
    <3>. TAKE i \in 1..Len(stk') - 1
    <3>1. i \in 1..Len(stk) - 1 /\ i + 1 \in 1..Len(stk) - 1
      BY <1>2, <1>3
    <3>. QED  BY <1>3, <3>1 DEF IInv, StampsBounded
  <2>2. stk' # <<>> => top'.stamp <= MaxStamp
    <3>. SUFFICES ASSUME stk' # <<>> PROVE top'.stamp <= MaxStamp
      OBVIOUS
    <3>1. 1 \in 1..Len(stk) - 1
      BY <1>2, <1>3, EmptySeq
    <3>. QED  BY <1>1, <1>2, <3>1 DEF IInv, StampsBounded
  <2>3. stk' # <<>> => top'.stamp # MaxStamp + 1
    BY <2>2, StampAssumption, <1>4 DEF TypeOK, Stamped
  <2>. QED  BY <2>1, <2>3 DEF StampsBounded
<1>. QED
  BY <1>4, <1>8, <1>9, <1>10, <1>11, <1>12, <1>13, <1>14 DEF IInv

\* What the reference that t gives back leaves of dec_count of its node n, d, when C others
\* have one: of a node of the list, or one that is being popped, a positive count; else
\* minus C.
Leaves(t, n, d, C) ==
    /\ n \in Nodes /\ n \in live /\ C \in Nat /\ (C = 0 <=> Holders(n) \ {t} = {})
    /\ d \in -MaxStamp..MaxStamp
    /\ \A i \in 1..Len(stk) : stk[i] = n => d \in Nat \ {0} /\ Behind(i-1).stamp = C + d
    /\ \A u \in Threads \ {t} : pc[u] = "won" /\ old[u].ptr = n =>
          d \in Nat \ {0} /\ old[u].stamp = C + d
    /\ n \notin ToSet(stk) /\ (\A u \in Threads \ {t} : pc[u] = "won" => old[u].ptr # n)
          => d = -C

LEMMA DropCounts ==
    ASSUME IInv, NEW t \in Threads, pc[t] \in {"won", "lost"},
           NEW n, n = old[t].ptr, NEW d, d = dec[n] + Delta(t),
           NEW C, C = Cardinality(Holders(n) \ {t})
    PROVE  Leaves(t, n, d, C)
<1>. DEFINE H == Holders(n)
<1>1. t \in H /\ n \in Nodes /\ n \in live /\ dec[n] \in Int
  BY DEF Holders, Holding, IInv, Held, TypeOK
<1>2. /\ Cardinality(H) \in Nat /\ C = Cardinality(H) - 1 /\ C \in Nat
      /\ (C = 0 <=> H \ {t} = {})
  <2>1. IsFiniteSet(H) /\ Cardinality(H) \in Nat /\ IsFiniteSet(H \ {t})
    BY HoldersAreFew, FS_RemoveElement
  <2>2. C = Cardinality(H) - 1
    BY <1>1, <2>1, FS_RemoveElement
  <2>. QED  BY <2>1, <2>2, FS_CardinalityType, FS_EmptySet
<1>3. \A u \in Threads \ {t} : pc[u] \in Holding /\ old[u].ptr = n => C >= 1
  <2>. TAKE u \in Threads \ {t}
  <2>. HAVE pc[u] \in Holding /\ old[u].ptr = n
  <2>1. u \in H \ {t}
    BY DEF Holders
  <2>. QED  BY <1>2, <2>1
<1>4. \A u \in Threads : pc[u] = "push" => old[u].ptr # n
  BY <1>1 DEF IInv, Fresh
<1>5. CASE pc[t] = "won"
  <2>1. /\ n \notin ToSet(stk) /\ dec[n] \in Nat
        /\ old[t].stamp = Cardinality(H) + dec[n]
        /\ \A u \in Threads \ {t} : pc[u] = "won" => old[u].ptr # n
    BY <1>5 DEF IInv, Popped
  <2>2. d = dec[n] + (1 - old[t].stamp)
    BY <1>5 DEF Delta
  <2>3. d = -C
    BY <1>2, <2>1, <2>2
  <2>4. old[t].stamp \in 0..MaxStamp + 1
    BY DEF IInv, TypeOK, Stamped
  <2>5. d \in -MaxStamp..MaxStamp
    BY <1>2, <2>1, <2>2, <2>3, <2>4, StampAssumption
  <2>6. \A i \in 1..Len(stk) : stk[i] # n
    BY <2>1, ListFacts DEF IInv
  <2>. QED  BY <1>1, <1>2, <2>1, <2>3, <2>5, <2>6 DEF Leaves
<1>6. CASE pc[t] = "lost"
  <2>1. d = dec[n] + 1 /\ dec[n] \in -MaxStamp..MaxStamp
    BY <1>1, <1>6 DEF Delta, IInv, TypeOK
  <2>2. CASE n \in ToSet(stk)
    <3>1. PICK i \in 1..Len(stk) : n = stk[i]
      BY <2>2, ListFacts DEF IInv
    <3>2. \A j \in 1..Len(stk) : stk[j] = n => j = i
      BY <3>1, ListFacts DEF IInv
    <3>3. dec[n] \in Nat /\ Behind(i-1).stamp = Cardinality(H) + dec[n]
      BY <3>1 DEF IInv, Listed
    <3>4. d \in Nat \ {0} /\ Behind(i-1).stamp = C + d
      <4>1. dec[n] \in Nat /\ d = dec[n] + 1
        BY <2>1, <3>3
      <4>2. Cardinality(H) + dec[n] = C + d /\ d \in Nat \ {0}
        BY <1>2, <4>1
      <4>. QED  BY <3>3, <4>2
    <3>5. Behind(i-1).stamp <= MaxStamp \/ C >= 1
      <4>1. CASE i = 1
        <5>1. Behind(i-1) = top /\ stk # <<>> /\ top.ptr = n
          BY <3>1, <4>1, ListFacts DEF Behind, IInv
        <5>2. CASE top.stamp = MaxStamp + 1
          <6>1. PICK u \in Threads : pc[u] \in {"readNext", "pop"} /\ old[u] = top
            BY <5>1, <5>2 DEF IInv, StampsBounded
          <6>. QED  BY <1>3, <1>6, <5>1, <6>1 DEF Holding
        <5>3. CASE top.stamp # MaxStamp + 1
          BY <5>1, <5>3, StampAssumption DEF IInv, TypeOK, Stamped
        <5>. QED  BY <5>2, <5>3
      <4>2. CASE i # 1
        <5>1. i - 1 \in 1..Len(stk) - 1 /\ i - 1 # 0
          BY <4>2, ListFacts DEF IInv
        <5>. QED  BY <5>1 DEF Behind, IInv, StampsBounded
      <4>. QED  BY <4>1, <4>2
    <3>6. Behind(i-1).stamp <= MaxStamp + 1
      <4>1. i - 1 = 0 \/ (i - 1 # 0 /\ stk[i-1] \in Nodes)
        BY ListFacts DEF IInv
      <4>. QED  BY <4>1, StampAssumption DEF Behind, IInv, TypeOK, Stamped
    <3>7. d \in -MaxStamp..MaxStamp
      BY <1>2, <3>4, <3>5, <3>6, StampAssumption
    <3>8. \A u \in Threads : pc[u] = "won" => old[u].ptr # n
      BY <2>2 DEF IInv, Popped
    <3>. QED  BY <1>1, <1>2, <2>2, <3>1, <3>2, <3>4, <3>7, <3>8 DEF Leaves
  <2>3. CASE n \notin ToSet(stk)
    <3>1. \A i \in 1..Len(stk) : stk[i] # n
      BY <2>3, ListFacts DEF IInv
    <3>2. CASE \E u \in Threads \ {t} : pc[u] = "won" /\ old[u].ptr = n
      <4>1. PICK w \in Threads \ {t} : pc[w] = "won" /\ old[w].ptr = n
        BY <3>2
      <4>2. /\ dec[n] \in Nat /\ old[w].stamp = Cardinality(H) + dec[n]
            /\ \A u \in Threads : pc[u] = "won" /\ old[u].ptr = n => u = w
        BY <4>1 DEF IInv, Popped
      <4>3. C >= 1
        BY <1>3, <4>1 DEF Holding
      <4>4. d \in Nat \ {0} /\ old[w].stamp = C + d
        BY <1>2, <2>1, <4>2
      <4>5. old[w].stamp \in 0..MaxStamp + 1
        BY <4>1 DEF IInv, TypeOK, Stamped
      <4>6. d \in -MaxStamp..MaxStamp
        BY <1>2, <4>3, <4>4, <4>5, StampAssumption
      <4>. QED  BY <1>1, <1>2, <3>1, <4>1, <4>2, <4>4, <4>6 DEF Leaves
    <3>3. CASE \A u \in Threads \ {t} : pc[u] = "won" => old[u].ptr # n
      <4>1. \A u \in Threads : pc[u] \in {"won", "push"} => old[u].ptr # n
        BY <1>4, <1>6, <3>3
      <4>2. dec[n] = -Cardinality(H)
        BY <1>1, <2>3, <4>1 DEF IInv, Dropped
      <4>3. d = -C
        BY <1>2, <2>1, <4>2
      <4>4. d \in -MaxStamp..MaxStamp
        <5>1. dec[n] \in Int /\ -MaxStamp <= dec[n] /\ d = dec[n] + 1
          BY <2>1, StampAssumption
        <5>2. d \in Int /\ d <= 0
          <6>1. C \in Nat
            BY <1>2
          <6>2. -C \in Int /\ -C <= 0
            BY <6>1
          <6>. QED  BY <4>3, <6>2
        <5>. QED  BY <5>1, <5>2, StampAssumption
      <4>. QED  BY <1>1, <1>2, <2>3, <3>1, <3>3, <4>3, <4>4 DEF Leaves
    <3>. QED  BY <3>2, <3>3
  <2>. QED  BY <2>2, <2>3
<1>. QED  BY <1>5, <1>6

\* The node is deleted with its last reference, when it is out of the list.
LEMMA DropKeeps ==
    ASSUME IInv, Counting, NEW t \in Threads, Drop(t)
    PROVE  IInv'
<1>0. PICK n, d, C : n = old[t].ptr /\ d = dec[n] + Delta(t) /\ C = Cardinality(Holders(n) \ {t})
  OBVIOUS
<1>1. /\ pc[t] \in {"won", "lost"}
      /\ \/ pc[t] = "won" /\ pc' = [pc EXCEPT ![t] = "idle"]
         \/ pc[t] = "lost" /\ pc' = [pc EXCEPT ![t] = "load"]
      /\ dec' = [dec EXCEPT ![n] = d]
      /\ live' = IF d = 0 THEN live \ {n} ELSE live
      /\ old' = [old EXCEPT ![t] = Nil]
      /\ UNCHANGED <<top, next, nxt, stk>>
  BY <1>0 DEF Drop, Move, Deletes
<1>2. Leaves(t, n, d, C)
  BY <1>0, <1>1, DropCounts
<1>. USE DEF Leaves
<1>3. TypeOK'
  <2>1. Nil \in Stamped
    BY StampAssumption DEF Nil, Stamped
  <2>2. dec' \in [Nodes -> -MaxStamp..MaxStamp]
    BY <1>1, <1>2 DEF IInv, TypeOK
  <2>3. pc' \in [Threads -> {"idle", "push", "load", "inc"} \cup Holding]
    BY <1>1 DEF IInv, TypeOK
  <2>. QED  BY <1>1, <2>1, <2>2, <2>3 DEF IInv, TypeOK
<1>4. /\ \A u \in Threads \ {t} : pc'[u] = pc[u] /\ old'[u] = old[u]
      /\ pc'[t] \in {"idle", "load"}
      /\ dec'[n] = d /\ \A m \in Nodes \ {n} : dec'[m] = dec[m]
  BY <1>1, <1>2 DEF IInv, TypeOK
<1>5. /\ \A m : m # n => Holders(m)' = Holders(m)
      /\ Holders(n)' = Holders(n) \ {t}
      /\ Cardinality(Holders(n)') = C
  <2>2. \A m : Holders(m)' = Holders(m) \ {t}
    BY <1>4 DEF Holders, Holding
  <2>3. \A m : m # n => t \notin Holders(m)
    BY <1>0 DEF Holders
  <2>. QED  BY <1>0, <2>2, <2>3
\* The node stays as long as it is needed.
<1>6. /\ n \in ToSet(stk) => d # 0
      /\ \A u \in Threads \ {t} : pc[u] = "won" /\ old[u].ptr = n => d # 0
      /\ \A u \in Threads \ {t} : pc[u] \in Holding /\ old[u].ptr = n => d # 0
      /\ \A u \in Threads : pc[u] = "push" => old[u].ptr # n
  <2>1. n \in ToSet(stk) => d # 0
    BY <1>2, ListFacts DEF IInv
  <2>2. \A u \in Threads \ {t} : pc[u] = "won" /\ old[u].ptr = n => d # 0
    BY <1>2
  <2>3. ASSUME d = 0 PROVE Holders(n) \ {t} = {}
    <3>1. 0 = -C
      BY <1>2, <2>1, <2>2, <2>3
    <3>. QED  BY <1>2, <3>1
  <2>4. \A u \in Threads : pc[u] = "push" => old[u].ptr # n
    BY <1>0, <1>1 DEF IInv, Fresh, Holders, Holding
  <2>. QED  BY <2>1, <2>2, <2>3, <2>4 DEF Holders
<1>7. \A m \in live : m # n \/ d # 0 => m \in live'
  BY <1>1
<1>8. ChainMatches'
  <2>1. ToSet(stk) \subseteq live'
    BY <1>6, <1>7, ListFacts DEF IInv
  <2>. QED  BY <1>1, <2>1 DEF IInv, ChainMatches
<1>9. Listed'
  <2>. SUFFICES ASSUME NEW i \in 1..Len(stk)
                PROVE  /\ dec'[stk[i]] \in Nat
                       /\ Behind(i-1).stamp = Cardinality(Holders(stk[i])') + dec'[stk[i]]
    BY <1>1 DEF Listed, Behind
  <2>1. CASE stk[i] = n
    <3>1. Holders(stk[i])' = Holders(n)'
      BY <1>1, <2>1
    <3>. QED  BY <1>2, <1>4, <1>5, <2>1, <3>1
  <2>2. CASE stk[i] # n
    <3>1. Holders(stk[i])' = Holders(stk[i]) /\ dec'[stk[i]] = dec[stk[i]]
      BY <1>1, <1>4, <1>5, <2>2, ListFacts DEF IInv
    <3>. QED  BY <3>1 DEF IInv, Listed
  <2>. QED  BY <2>1, <2>2
<1>10. Popped'
  <2>1. ASSUME NEW u \in Threads, pc'[u] = "won"
        PROVE  /\ u # t /\ pc[u] = "won" /\ old'[u] = old[u] /\ old[u].ptr \in Nodes
               /\ old[u].ptr \notin ToSet(stk)
               /\ \A v \in Threads : pc[v] = "won" /\ old[v].ptr = old[u].ptr => v = u
    BY <1>4, <2>1 DEF IInv, Popped, Held, Holding, TypeOK
  <2>2. ASSUME NEW u \in Threads, pc'[u] = "won", NEW m, m = old[u].ptr
        PROVE  dec'[m] \in Nat /\ old[u].stamp = Cardinality(Holders(m)') + dec'[m]
    <3>1. CASE m = n
      BY <1>2, <1>4, <1>5, <2>1, <2>2, <3>1
    <3>2. CASE m # n
      <4>1. Holders(m)' = Holders(m) /\ dec'[m] = dec[m]
        BY <1>4, <1>5, <2>1, <2>2, <3>2
      <4>. QED  BY <2>1, <2>2, <4>1 DEF IInv, Popped
    <3>. QED  BY <3>1, <3>2
  <2>3. ASSUME NEW u \in Threads, pc'[u] = "won"
        PROVE  /\ dec'[old'[u].ptr] \in Nat
               /\ old'[u].stamp = Cardinality(Holders(old[u].ptr)') + dec'[old'[u].ptr]
    <3>1. PICK m : m = old[u].ptr /\ m = old'[u].ptr
      BY <2>1, <2>3
    <3>2. Holders(m)' = Holders(old[u].ptr)'
      BY <3>1
    <3>. QED  BY <2>1, <2>2, <2>3, <3>1, <3>2
  <2>. QED  BY <1>1, <2>1, <2>3 DEF Popped
<1>11. Dropped'
  <2>. SUFFICES ASSUME NEW m \in live' \ ToSet(stk),
                       \A u \in Threads : pc'[u] \in {"won", "push"} => old'[u].ptr # m
                PROVE  Holders(m)' # {} /\ dec'[m] = -Cardinality(Holders(m)')
    BY <1>1 DEF Dropped
  <2>1. \A u \in Threads \ {t} : pc[u] \in {"won", "push"} => old[u].ptr # m
    BY <1>4
  <2>2. CASE m = n
    <3>1. d = -C /\ d # 0
      BY <1>1, <1>2, <2>1, <2>2
    <3>2. C # 0
      BY <3>1
    <3>. QED  BY <1>2, <1>4, <1>5, <2>2, <3>1, <3>2
  <2>3. CASE m # n
    <3>1. m \in live /\ m \in Nodes /\ Holders(m)' = Holders(m) /\ dec'[m] = dec[m]
      BY <1>1, <1>4, <1>5, <2>3 DEF IInv, TypeOK
    <3>2. \A u \in Threads : pc[u] \in {"won", "push"} => old[u].ptr # m
      BY <1>0, <2>1, <2>3
    <3>. QED  BY <3>1, <3>2 DEF IInv, Dropped
  <2>. QED  BY <2>2, <2>3
<1>12. Fresh'
  <2>1. \A u \in Threads : pc'[u] = "push" =>
           /\ pc[u] = "push" /\ old'[u] = old[u] /\ old[u].ptr \in Nodes /\ old[u].ptr # n
           /\ old[u].ptr \in live /\ old[u].ptr \notin ToSet(stk)
    BY <1>4, <1>6 DEF IInv, Fresh, TypeOK
  <2>. QED  BY <1>1, <1>4, <1>5, <1>7, <2>1, FreshKept DEF IInv
<1>13. Held'
  <2>1. ASSUME NEW u \in Threads, pc'[u] \in Holding
        PROVE  pc[u] = pc'[u] /\ old'[u] = old[u] /\ old[u].ptr \in live'
    BY <1>4, <1>6, <1>7, <2>1 DEF IInv, Held, Holding
  <2>. QED  BY <1>1, <2>1 DEF IInv, Held, Holding
<1>14. StampsBounded'
  BY <1>1, <1>4 DEF IInv, StampsBounded
<1>. QED
  BY <1>3, <1>8, <1>9, <1>10, <1>11, <1>12, <1>13, <1>14 DEF IInv
-----------------------------------------------------------------------------
(* The destructor *)

\* A set of natural numbers with an element has a least one.
LEMMA LeastNumber ==
    ASSUME NEW S \in SUBSET Nat, S # {}
    PROVE  \E x \in S : \A y \in S : ~(y < x)
<1>. DEFINE R == {p \in Nat \X Nat : p[1] < p[2]}
<1>1. IsWellFoundedOn(R, Nat)
  BY NatLessThanWellFounded DEF OpToRel
<1>2. \E x \in S : \A y \in S : ~(<<y, x>> \in R)
  BY <1>1, WFMin, ZenonT(20)
<1>. QED  BY <1>2

\* There are no more nodes in the list than addresses.
LEMMA ListIsShort ==
    ASSUME TypeOK, ChainMatches
    PROVE  Cardinality(Nodes) \in Nat /\ Len(stk) <= Cardinality(Nodes)
<1>1. ToSet(stk) \in SUBSET Nodes /\ Len(stk) \in Nat
  BY ListFacts DEF TypeOK
<1>2. stk \in Bijection(1..Len(stk), ToSet(stk))
  <2>1. stk \in [1..Len(stk) -> ToSet(stk)]
    BY ListFacts DEF TypeOK
  <2>. QED  BY <2>1, ListFacts DEF Bijection, Injection, Surjection, IsInjective, ToSet
<1>3. ExistsBijection(1..Len(stk), ToSet(stk))
  BY <1>2 DEF ExistsBijection
<1>4. Cardinality(ToSet(stk)) = Len(stk)
  BY <1>1, <1>3, FS_CountingElements, FS_NatBijection
<1>. QED  BY <1>1, <1>4, FS_Subset, FS_CardinalityType, FiniteAssumption

\* The destructor's walk from top_ passes every node of the list: at every step it is
\* where the list is, by the least step at which it would not.
LEMMA WalkFindsAll ==
    ASSUME TypeOK, ChainMatches
    PROVE  ToSet(stk) \subseteq Walk(Cardinality(Nodes))
<1>. DEFINE k == Cardinality(Nodes)
            Follows(f) == f = [i \in 0..k |-> IF i = 0 THEN top.ptr
                                 ELSE IF f[i-1] = Null THEN Null ELSE next[f[i-1]].ptr]
            g == [i \in 0..k |-> IF i < Len(stk) THEN stk[i+1] ELSE Null]
            at == CHOOSE f : Follows(f)
<1>1. k \in Nat /\ Len(stk) \in Nat /\ Len(stk) <= k
  BY ListIsShort, ListFacts
<1>2. Walk(k) = {at[i] : i \in 0..k} \ {Null}
  BY DEF Walk
<1>. HIDE DEF k
<1>3. Follows(g)
  <2>. SUFFICES ASSUME NEW i \in 0..k
                PROVE  g[i] = IF i = 0 THEN top.ptr
                              ELSE IF g[i-1] = Null THEN Null ELSE next[g[i-1]].ptr
    OBVIOUS
  <2>1. CASE i = 0
    BY <1>1, <2>1, ListFacts
  <2>2. CASE i # 0
    <3>1. i - 1 \in 0..k /\ (i - 1) + 1 = i
      BY <1>1, <2>2
    <3>2. CASE i - 1 < Len(stk)
      <4>1. i \in 1..Len(stk) /\ g[i-1] = stk[i] /\ stk[i] # Null
        BY <1>1, <2>2, <3>1, <3>2, ListFacts, NullAssumption
      <4>2. next[stk[i]].ptr = IF i = Len(stk) THEN Null ELSE stk[i+1]
        BY <1>1, <2>2, <4>1 DEF ChainMatches
      <4>3. i < Len(stk) <=> i # Len(stk)
        BY <1>1, <4>1
      <4>. QED  BY <2>2, <4>1, <4>2, <4>3
    <3>3. CASE ~(i - 1 < Len(stk))
      <4>1. g[i-1] = Null /\ ~(i < Len(stk))
        BY <1>1, <3>1, <3>3
      <4>. QED  BY <2>2, <4>1
    <3>. QED  BY <3>2, <3>3
  <2>. QED  BY <2>1, <2>2
<1>. HIDE DEF g
<1>4. Follows(at)
  BY <1>3
<1>. HIDE DEF at
<1>5. \A i \in 0..k : at[i] = g[i]
  <2>. DEFINE S == {i \in 0..k : at[i] # g[i]}
  <2>. SUFFICES ASSUME S # {} PROVE FALSE
    OBVIOUS
  <2>1. S \in SUBSET Nat
    BY <1>1
  <2>. HIDE DEF S
  <2>2. PICK x \in S : \A y \in S : ~(y < x)
    BY <2>1, LeastNumber
  <2>3. x \in 0..k /\ at[x] # g[x]
    BY <2>2 DEF S
  <2>4. CASE x = 0
    <3>1. at[x] = top.ptr /\ g[x] = top.ptr
      BY <1>3, <1>4, <2>3, <2>4
    <3>. QED  BY <2>3, <3>1
  <2>5. CASE x # 0
    <3>1. x - 1 \in 0..k /\ x - 1 < x
      BY <1>1, <2>3, <2>5
    <3>2. at[x-1] = g[x-1]
      BY <2>2, <3>1 DEF S
    <3>3. /\ at[x] = IF at[x-1] = Null THEN Null ELSE next[at[x-1]].ptr
          /\ g[x] = IF g[x-1] = Null THEN Null ELSE next[g[x-1]].ptr
      BY <1>3, <1>4, <2>3, <2>5
    <3>. QED  BY <2>3, <3>2, <3>3
  <2>. QED  BY <2>4, <2>5
<1>6. ASSUME NEW n \in ToSet(stk) PROVE n \in Walk(k)
  <2>1. PICK i \in 1..Len(stk) : n = stk[i]
    BY <1>6, ListFacts
  <2>2. i - 1 \in 0..k /\ i - 1 < Len(stk) /\ (i - 1) + 1 = i
    BY <1>1, <2>1
  <2>3. g[i-1] = n
    BY <2>1, <2>2 DEF g
  <2>4. n # Null
    BY <2>1, ListFacts, NullAssumption
  <2>. QED  BY <1>2, <1>5, <2>2, <2>3, <2>4
<1>. QED  BY <1>6 DEF k

LEMMA DestroyKeeps ==
    ASSUME IInv, Destroy
    PROVE  IInv'
<1>1. /\ \A t \in Threads : pc[t] = "idle" /\ pc'[t] = "idle"
      /\ live' = live \ Walk(Cardinality(Nodes)) /\ top' = Nil /\ stk' = <<>>
      /\ UNCHANGED <<next, dec, pc, old, nxt>>
  BY DEF Destroy
<1>2. Len(stk') = 0 /\ ToSet(stk)' = {} /\ IsInjective(stk') /\ stk' \in Seq(Nodes)
  BY <1>1, EmptySeq, LenProperties DEF ToSet, IsInjective
<1>3. TypeOK'
  <2>1. Nil \in Stamped
    BY StampAssumption DEF Nil, Stamped
  <2>. QED  BY <1>1, <1>2, <2>1 DEF IInv, TypeOK
<1>4. live' = {}
  <2>1. ASSUME NEW n \in live, n \notin ToSet(stk) PROVE FALSE
    <3>1. Holders(n) = {}
      BY <1>1 DEF Holders, Holding
    <3>. QED  BY <1>1, <2>1, <3>1 DEF IInv, Dropped
  <2>2. ToSet(stk) \subseteq Walk(Cardinality(Nodes))
    BY WalkFindsAll DEF IInv
  <2>. QED  BY <1>1, <2>1, <2>2
<1>5. ChainMatches'
  BY <1>1, <1>2 DEF ChainMatches, Nil
<1>6. Listed' /\ StampsBounded'
  BY <1>1, <1>2 DEF Listed, StampsBounded
<1>7. Popped' /\ Dropped' /\ Fresh' /\ Held'
  BY <1>1, <1>4 DEF Popped, Dropped, Fresh, Held, Holding
<1>. QED  BY <1>3, <1>5, <1>6, <1>7 DEF IInv
-----------------------------------------------------------------------------
LEMMA NextIInv == Counting /\ IInv /\ [Next]_vars => IInv'
<1>. SUFFICES ASSUME Counting, IInv, [Next]_vars PROVE IInv'
  OBVIOUS
<1>1. ASSUME NEW t \in Threads, Alone(t), PushCas(t) PROVE IInv'
  <2>1. CASE pc' = pc
    BY <1>1, <2>1, FailureKeeps DEF PushCas, Move, IInv, TypeOK
  <2>2. CASE pc' # pc
    BY <1>1, <2>2, PushKeeps DEF PushCas, Move
  <2>. QED  BY <2>1, <2>2
<1>2. ASSUME NEW t \in Threads, Alone(t), Increment(t) PROVE IInv'
  <2>1. \/ /\ Move(t, "inc", "idle") /\ top = old[t] /\ top.ptr = Null
           /\ top' = Bump(top) /\ old' = [old EXCEPT ![t] = Nil]
        \/ /\ Move(t, "inc", "readNext") /\ top = old[t] /\ top.ptr # Null
           /\ top' = Bump(top) /\ old' = [old EXCEPT ![t] = top']
        \/ /\ pc[t] = "inc" /\ old' = [old EXCEPT ![t] = top]
           /\ UNCHANGED <<top, pc>>
    BY <1>2 DEF Increment
  <2>2. UNCHANGED <<next, dec, live, nxt, stk>>
    BY <1>2 DEF Increment
  <2>. QED  BY <1>2, <2>1, <2>2, EmptyKeeps, IncrementKeeps, FailureKeeps DEF Move
<1>3. ASSUME NEW t \in Threads, Alone(t), PopCas(t) PROVE IInv'
  <2>1. CASE /\ Move(t, "pop", "won") /\ top = old[t] /\ top' = nxt[t] /\ stk' = Tail(stk)
    BY <1>3, <2>1, PopKeeps DEF PopCas, Move
  <2>2. CASE /\ Room(t) /\ Move(t, "pop", "lost") /\ UNCHANGED <<top, stk>>
    BY <1>3, <2>2, FailureKeeps DEF PopCas, Move
  <2>. QED  BY <1>3, <2>1, <2>2 DEF PopCas, Matches
<1>4. CASE UNCHANGED vars
  <2>1. ChainMatches' /\ Listed' /\ Popped' /\ Dropped' /\ Fresh'
    BY <1>4, CountsKept DEF vars, Holders
  <2>2. TypeOK' /\ Held' /\ StampsBounded'
    BY <1>4 DEF vars, IInv, TypeOK, Held, StampsBounded
  <2>. QED  BY <2>1, <2>2 DEF IInv
<1>. QED
  BY <1>1, <1>2, <1>3, <1>4, NewKeeps, LoadKeeps, ReadNextKeeps, DropKeeps, DestroyKeeps DEF Next

LEMMA Inductive == Counting /\ Spec => []IInv
<1>. SUFFICES ASSUME Counting PROVE Spec => []IInv
  OBVIOUS
<1>1. IInv /\ [Next]_vars => IInv'
  BY NextIInv
<1>. QED  BY <1>1, InitIInv, PTL DEF Spec

\* The list that top_ and the next pointers spell is what has been pushed and not popped,
\* last in first out, although addresses are reused: a pop never installs a next pointer
\* that is out of date.
THEOREM ListStaysIntact == Counting /\ Spec => []ListIsIntact
<1>1. IInv => ListIsIntact
  BY DEF IInv, ListIsIntact
<1>. QED  BY <1>1, Inductive, PTL

\* The split count, half in the stamp and half in dec_count, frees no node that a TryPop
\* still reads or that a Push has yet to publish.
THEOREM NodesAreReadAlive == Counting /\ Spec => []NoUseAfterFree
<1>1. IInv => NoUseAfterFree
  BY DEF IInv, NoUseAfterFree, Held, Fresh
<1>. QED  BY <1>1, Inductive, PTL

\* Nor does it forget one: a node out of the list has a popper, or a reader whose
\* reference is still in dec_count, who will delete it.
THEOREM NodesAreFreed == Counting /\ Spec => []NoLeak
<1>1. IInv => NoLeak
  <2>. SUFFICES ASSUME IInv, NEW n \in live \ ToSet(stk)
                PROVE  \E t \in Threads : old[t].ptr = n /\ pc[t] \in Holding \cup {"push"}
    BY DEF NoLeak
  <2>1. CASE \E t \in Threads : pc[t] \in {"won", "push"} /\ old[t].ptr = n
    BY <2>1 DEF Holding
  <2>2. CASE \A t \in Threads : pc[t] \in {"won", "push"} => old[t].ptr # n
    <3>1. Holders(n) # {}
      BY <2>2 DEF IInv, Dropped
    <3>. QED  BY <3>1 DEF Holders
  <2>. QED  BY <2>1, <2>2
<1>. QED  BY <1>1, Inductive, PTL
=============================================================================
