---------------------------- MODULE LocksProofs -----------------------------
(***************************************************************************)
(* The locks of mutex/ and the barrier of condvar/ for all numbers of      *)
(* threads.  QueueSpinLock: no store goes into a guard that is gone or not *)
(* waiting for it; it implements AbstractFifoLock, and so does TicketLock, *)
(* whose line is read from the tickets.  The flags exclude, operations on  *)
(* a Mutexed object are atomic, forks guard the plates.  CyclicBarrier     *)
(* implements AbstractBarrier.                                             *)
(***************************************************************************)
EXTENDS QueueSpinLock, MCLocks, FiniteSetTheorems, SequenceTheorems, TLAPS
-----------------------------------------------------------------------------
(* QueueSpinLock.  Everything follows from what the guards look like along *)
(* the line: which next_ are set, which owner_, and where their threads    *)
(* are.                                                                    *)

\* The line is the threads that are not idle, each once, and tail_ is its end.
LineExact == /\ IsInjective(line)
             /\ \A t \in Threads : pc[t] # "idle" <=> Contains(line, t)
             /\ tail = IF line = <<>> THEN Null ELSE line[Len(line)]

\* A guard points to the one behind it once the thread of that one has linked it.
LinksExact == \A i \in 1..Len(line) :
    next[line[i]] = IF i < Len(line) /\ pc[line[i+1]] = "spin" THEN line[i+1] ELSE Null

\* Behind the first, threads link their guards and spin on a flag that is down.
WaitersWait == \A i \in 2..Len(line) :
    /\ pc[line[i]] \in {"link", "spin"} /\ ~owner[line[i]]
    /\ pc[line[i]] = "link" => prev[line[i]] = line[i-1]

\* The first has the lock, or the flag that gives it; it passes it to a spinning thread.
FirstOwns == line # <<>> =>
    /\ pc[line[1]] \in {"own", "spin", "cs", "waitNext", "pass"}
    /\ pc[line[1]] = "spin" => owner[line[1]]
    /\ pc[line[1]] = "pass" => Len(line) > 1 /\ pc[line[2]] = "spin"

IInv == TypeOK /\ LineExact /\ LinksExact /\ WaitersWait /\ FirstOwns

LEMMA InitIInv == Init => IInv
BY NullAssumption DEF Init, IInv, TypeOK, LineExact, LinksExact, WaitersWait, FirstOwns,
                      IsInjective, Contains

\* A thread that stands in the line, but is not where those behind the first are,
\* is the first; and one whose guard is tail_ is the last.
LEMMA FirstOfLine ==
    ASSUME IInv, NEW t \in Threads, pc[t] # "idle",
           pc[t] \notin {"link", "spin"} \/ (pc[t] = "spin" /\ owner[t])
    PROVE  line # <<>> /\ line[1] = t /\ Head(line) = t
<1>1. PICK i \in 1..Len(line) : line[i] = t
  BY DEF IInv, LineExact, Contains
<1>2. Len(line) \in Nat
  BY DEF IInv, TypeOK
<1>3. i = 1
  BY <1>1, <1>2 DEF IInv, WaitersWait
<1>. QED  BY <1>1, <1>2, <1>3 DEF IInv, TypeOK

\* What is left of the line when its first thread leaves.
LEMMA FirstLeaves ==
    ASSUME TypeOK, line # <<>>, line' = Tail(line)
    PROVE  /\ Len(line) \in Nat \ {0}
           /\ line' \in Seq(Threads) /\ Len(line') = Len(line) - 1
           /\ \A i \in 1..Len(line') : line'[i] = line[i+1]
BY HeadTailProperties, EmptySeq DEF TypeOK

LEMMA NextIInv == IInv /\ [Next]_vars => IInv'
<1>. SUFFICES ASSUME IInv, [Next]_vars PROVE IInv'
  OBVIOUS
<1>. USE NullAssumption DEF IInv, Move
<1>0. /\ TypeOK
      /\ Len(line) \in Nat /\ DOMAIN line = 1..Len(line)
      /\ \A i \in 1..Len(line) : line[i] \in Threads
  BY DEF TypeOK
<1>1. ASSUME NEW t \in Threads, Exchange(t) PROVE IInv'
  <2>1. /\ line' \in Seq(Threads) /\ Len(line') = Len(line) + 1
        /\ DOMAIN line' = 1..Len(line')
        /\ \A i \in 1..Len(line) : line'[i] = line[i]
        /\ line'[Len(line')] = t
    BY <1>0, <1>1, AppendProperties, LenProperties DEF Exchange, TypeOK
  <2>2. \A i \in 1..Len(line) : line[i] # t
    BY <1>1 DEF Exchange, LineExact, Contains
  <2>3. IF line = <<>> THEN pc' = [pc EXCEPT ![t] = "own"] ELSE pc' = [pc EXCEPT ![t] = "link"]
    <3>1. line # <<>> => line[Len(line)] \in Threads
      BY <1>0 DEF TypeOK
    <3>. QED  BY <1>1, <3>1 DEF Exchange, LineExact, AfterPredecessor
  <2>4. TypeOK'
    BY <1>0, <1>1, <2>1, <2>2, <2>3 DEF TypeOK, Exchange, FreshOwner, LineExact
  <2>5. LineExact'
    BY <1>0, <1>1, <2>1, <2>2, <2>3 DEF TypeOK, Exchange, LineExact, IsInjective, Contains
  <2>6. LinksExact'
    BY <1>0, <1>1, <2>1, <2>2, <2>3 DEF TypeOK, Exchange, LinksExact
  <2>7. WaitersWait'
    BY <1>0, <1>1, <2>1, <2>2, <2>3 DEF TypeOK, Exchange, WaitersWait, LineExact, FreshOwner
  <2>8. FirstOwns'
    BY <1>0, <1>1, <2>1, <2>2, <2>3 DEF TypeOK, Exchange, FirstOwns
  <2>. QED  BY <2>4, <2>5, <2>6, <2>7, <2>8
<1>2. ASSUME NEW t \in Threads, Own(t) PROVE IInv'
  <2>1. line # <<>> /\ line[1] = t
    BY <1>2, FirstOfLine DEF Own
  <2>2. \A i \in 2..Len(line) : line[i] # t
    BY <1>0, <2>1 DEF LineExact, IsInjective
  <2>3. TypeOK' /\ LineExact' /\ LinksExact'
    BY <1>0, <1>2, <2>1, <2>2 DEF TypeOK, Own, LineExact, IsInjective, Contains, LinksExact
  <2>4. WaitersWait' /\ FirstOwns'
    BY <1>0, <1>2, <2>1, <2>2 DEF TypeOK, Own, WaitersWait, FirstOwns
  <2>. QED  BY <2>3, <2>4
<1>3. ASSUME NEW t \in Threads, Link(t) PROVE IInv'
  <2>1. PICK i \in 1..Len(line) : line[i] = t
    BY <1>3 DEF Link, LineExact, Contains
  <2>2. i > 1 /\ prev[t] = line[i-1] /\ i - 1 \in 1..Len(line)
    BY <1>0, <1>3, <2>1 DEF Link, FirstOwns, WaitersWait
  <2>3. \A j \in 1..Len(line) : j # i => line[j] # t
    BY <1>0, <2>1 DEF LineExact, IsInjective
  <2>4. \A j \in 1..Len(line) : j # i - 1 => line[j] # prev[t]
    BY <1>0, <2>2 DEF LineExact, IsInjective
  <2>5. TypeOK' /\ LineExact'
    BY <1>0, <1>3, <2>2 DEF TypeOK, Link, LineExact, IsInjective, Contains
  <2>6. LinksExact'
    BY <1>0, <1>3, <2>1, <2>2, <2>3, <2>4 DEF TypeOK, Link, LinksExact
  <2>7. WaitersWait' /\ FirstOwns'
    BY <1>0, <1>3, <2>1, <2>2, <2>3 DEF TypeOK, Link, WaitersWait, FirstOwns
  <2>. QED  BY <2>5, <2>6, <2>7
<1>4. ASSUME NEW t \in Threads, WaitAcquire(t) PROVE IInv'
  <2>1. line # <<>> /\ line[1] = t
    BY <1>4, FirstOfLine DEF WaitAcquire
  <2>2. \A i \in 2..Len(line) : line[i] # t
    BY <1>0, <2>1 DEF LineExact, IsInjective
  <2>3. TypeOK' /\ LineExact' /\ LinksExact'
    BY <1>0, <1>4, <2>1, <2>2 DEF TypeOK, WaitAcquire, LineExact, IsInjective, Contains, LinksExact
  <2>4. WaitersWait' /\ FirstOwns'
    BY <1>0, <1>4, <2>1, <2>2 DEF TypeOK, WaitAcquire, WaitersWait, FirstOwns
  <2>. QED  BY <2>3, <2>4
<1>5. ASSUME NEW t \in Threads, Release(t) PROVE IInv'
  <2>1. line # <<>> /\ line[1] = t
    BY <1>5, FirstOfLine DEF Release
  <2>2. \A i \in 2..Len(line) : line[i] # t
    BY <1>0, <2>1 DEF LineExact, IsInjective
  <2>3. CASE tail = t
    <3>1. Len(line) = 1
      BY <1>0, <2>1, <2>2, <2>3 DEF LineExact
    <3>2. line' = <<>> /\ tail' = Null /\ pc' = [pc EXCEPT ![t] = "idle"]
      BY <1>0, <1>5, <2>1, <2>3, <3>1 DEF Release, TailAfter, TypeOK
    <3>3. \A u \in Threads : pc[u] # "idle" => u = t
      BY <1>0, <2>1, <3>1 DEF LineExact, Contains
    <3>. QED
      BY <1>0, <1>5, <3>2, <3>3 DEF Release, TypeOK, LineExact, IsInjective, Contains,
                                    LinksExact, WaitersWait, FirstOwns
  <2>4. CASE tail # t
    <3>0. pc[t] = "cs"
      BY <1>5 DEF Release
    <3>1. pc' = [pc EXCEPT ![t] = "waitNext"] /\ UNCHANGED <<tail, next, owner, prev, line>>
      BY <1>5, <2>4 DEF Release, AfterFailedCas
    <3>2. TypeOK' /\ LineExact' /\ LinksExact'
      BY <1>0, <2>1, <2>2, <3>1, <3>0 DEF TypeOK, LineExact, IsInjective, Contains, LinksExact
    <3>3. WaitersWait' /\ FirstOwns'
      BY <1>0, <2>1, <2>2, <3>1, <3>0 DEF TypeOK, WaitersWait, FirstOwns
    <3>. QED  BY <3>2, <3>3
  <2>. QED  BY <2>3, <2>4
<1>6. ASSUME NEW t \in Threads, WaitRelease(t) PROVE IInv'
  <2>1. line # <<>> /\ line[1] = t
    BY <1>6, FirstOfLine DEF WaitRelease
  <2>2. \A i \in 2..Len(line) : line[i] # t
    BY <1>0, <2>1 DEF LineExact, IsInjective
  <2>3. Len(line) > 1 /\ pc[line[2]] = "spin"
    BY <1>0, <1>6, <2>1 DEF WaitRelease, HasSuccessor, LinksExact, TypeOK
  <2>4. TypeOK' /\ LineExact' /\ LinksExact'
    BY <1>0, <1>6, <2>1, <2>2 DEF WaitRelease, TypeOK, LineExact, IsInjective, Contains, LinksExact
  <2>5. WaitersWait' /\ FirstOwns'
    BY <1>0, <1>6, <2>1, <2>2, <2>3 DEF WaitRelease, TypeOK, WaitersWait, FirstOwns
  <2>. QED  BY <2>4, <2>5
<1>7. ASSUME NEW t \in Threads, Pass(t) PROVE IInv'
  <2>1. line # <<>> /\ line[1] = t
    BY <1>7, FirstOfLine DEF Pass
  <2>2. \A i \in 2..Len(line) : line[i] # t
    BY <1>0, <2>1 DEF LineExact, IsInjective
  <2>3. Len(line) > 1 /\ pc[line[2]] = "spin" /\ next[t] = line[2] /\ line[2] # t
    BY <1>0, <1>7, <2>1, <2>2 DEF Pass, FirstOwns, LinksExact
  <2>4. /\ line' \in Seq(Threads) /\ Len(line') = Len(line) - 1
        /\ DOMAIN line' = 1..Len(line')
        /\ \A i \in 1..Len(line') : line'[i] = line[i+1]
    BY <1>0, <1>7, <2>1, FirstLeaves DEF Pass, TypeOK
  <2>5. TypeOK'
    BY <1>0, <1>7, <2>3, <2>4 DEF Pass, TypeOK
  <2>6. LineExact'
    <3>1. IsInjective(line') /\ tail' = line'[Len(line')] /\ line' # <<>>
      BY <1>0, <1>7, <2>1, <2>3, <2>4 DEF Pass, LineExact, IsInjective
    <3>2. \A u \in Threads : Contains(line', u) <=> Contains(line, u) /\ u # t
      <4>1. ASSUME NEW u \in Threads, Contains(line', u) PROVE Contains(line, u) /\ u # t
        <5>1. PICK i \in 1..Len(line') : line'[i] = u
          BY <4>1 DEF Contains
        <5>2. i + 1 \in 2..Len(line) /\ line[i+1] = u
          BY <1>0, <2>4, <5>1
        <5>. QED  BY <1>0, <2>2, <5>2 DEF Contains
      <4>2. ASSUME NEW u \in Threads, Contains(line, u), u # t PROVE Contains(line', u)
        <5>1. PICK i \in 1..Len(line) : line[i] = u
          BY <4>2 DEF Contains
        <5>2. i - 1 \in 1..Len(line') /\ line'[i-1] = u
          BY <1>0, <2>1, <2>4, <4>2, <5>1
        <5>. QED  BY <5>2 DEF Contains
      <4>. QED  BY <4>1, <4>2
    <3>. QED  BY <1>0, <1>7, <3>1, <3>2 DEF Pass, LineExact, TypeOK
  <2>7. LinksExact'
    BY <1>0, <1>7, <2>1, <2>2, <2>4 DEF Pass, LinksExact, TypeOK
  <2>8. WaitersWait'
    <3>1. \A i \in 3..Len(line) : line[i] # line[2]
      BY <1>0 DEF LineExact, IsInjective
    <3>. QED  BY <1>0, <1>7, <2>2, <2>3, <2>4, <3>1 DEF Pass, WaitersWait, TypeOK
  <2>9. FirstOwns'
    BY <1>0, <1>7, <2>3, <2>4 DEF Pass, FirstOwns, TypeOK
  <2>. QED  BY <2>5, <2>6, <2>7, <2>8, <2>9
<1>8. CASE UNCHANGED vars
  BY <1>8 DEF vars, TypeOK, LineExact, LinksExact, WaitersWait, FirstOwns
<1>. QED
  BY <1>1, <1>2, <1>3, <1>4, <1>5, <1>6, <1>7, <1>8 DEF Next, Inside

LEMMA Inductive == Spec => []IInv
BY InitIInv, NextIInv, PTL DEF Spec

LEMMA ImpliesSafeGuards == IInv => SafeGuards
<1>. SUFFICES ASSUME IInv PROVE NoDanglingGuard
  BY DEF SafeGuards, IInv
<1>0. /\ Len(line) \in Nat
      /\ \A i \in 1..Len(line) : line[i] \in Threads
  BY DEF IInv, TypeOK
<1>1. ASSUME NEW t \in Threads, pc[t] = "link"
      PROVE  \E i \in 2..Len(line) : line[i] = t /\ line[i-1] = prev[t] /\ next[prev[t]] = Null
  <2>1. PICK i \in 1..Len(line) : line[i] = t
    BY <1>1 DEF IInv, LineExact, Contains
  <2>2. i \in 2..Len(line) /\ i - 1 \in 1..Len(line) /\ prev[t] = line[i-1]
    BY <1>0, <1>1, <2>1 DEF IInv, FirstOwns, WaitersWait
  <2>3. next[line[i-1]] = Null
    BY <1>0, <1>1, <2>1, <2>2 DEF IInv, LinksExact
  <2>. QED  BY <2>1, <2>2, <2>3
<1>2. ASSUME NEW t \in Threads, pc[t] = "pass"
      PROVE  /\ Len(line) > 1 /\ line[1] = t /\ line[2] = next[t]
             /\ pc[next[t]] = "spin" /\ ~owner[next[t]]
  <2>1. line # <<>> /\ line[1] = t
    BY <1>2, FirstOfLine
  <2>2. Len(line) > 1 /\ pc[line[2]] = "spin"
    BY <1>2, <2>1 DEF IInv, FirstOwns
  <2>3. next[t] = line[2] /\ ~owner[line[2]]
    BY <1>0, <2>1, <2>2 DEF IInv, LinksExact, WaitersWait
  <2>. QED  BY <2>1, <2>2, <2>3
<1>. QED  BY <1>1, <1>2 DEF NoDanglingGuard

\* A guard is on the stack of another thread: whoever stores into it finds its thread
\* waiting for that very store.
THEOREM GuardsAreSafe == Spec => []SafeGuards
BY Inductive, ImpliesSafeGuards, PTL

\* Whoever has the lock, until the store that passes it on, is the first of the line.
LEMMA HolderIsFirst ==
    ASSUME IInv, NEW t \in Threads, pc[t] \in {"cs", "waitNext", "pass"}
    PROVE  /\ line # <<>> /\ Head(line) = t
           /\ \A u \in Threads \ {t} : pc[u] \notin {"cs", "waitNext", "pass"}
<1>1. line # <<>> /\ line[1] = t /\ Head(line) = t
  BY FirstOfLine
<1>2. ASSUME NEW u \in Threads, pc[u] \in {"cs", "waitNext", "pass"} PROVE u = t
  BY <1>1, <1>2, FirstOfLine
<1>. QED  BY <1>1, <1>2

\* Every behaviour of the lock is one of AbstractFifoLock: the exchange of tail_ joins
\* the line, the flag that is seen enters, and the last store of the release leaves.
THEOREM FifoRefinement == Spec => ImplementsFifoLock
<1>. DEFINE inside == \E t \in Threads : pc[t] \in {"cs", "waitNext", "pass"}
<1>1. Init => FL!Init
  BY DEF Init, FL!Init
<1>2. IInv /\ [Next]_vars => [FL!Next]_<<line, inside>>
  <2>. SUFFICES ASSUME IInv, [Next]_vars PROVE FL!Next \/ UNCHANGED <<line, inside>>
    OBVIOUS
  <2>0. pc \in [Threads -> {"idle", "own", "link", "spin", "cs", "waitNext", "pass"}]
    BY DEF IInv, TypeOK
  <2>1. ASSUME NEW t \in Threads, Exchange(t) PROVE FL!Join(t)
    <3>1. ~Contains(line, t) /\ line' = Append(line, t)
      BY <2>1 DEF Exchange, Move, IInv, LineExact
    <3>2. UNCHANGED inside
      BY <2>0, <2>1 DEF Exchange, Move, AfterPredecessor
    <3>. QED  BY <3>1, <3>2 DEF FL!Join, FL!Contains, Contains
  <2>2. ASSUME NEW t \in Threads, Own(t) \/ Link(t) \/ WaitRelease(t)
        PROVE  UNCHANGED <<line, inside>>
    BY <2>0, <2>2 DEF Own, Link, WaitRelease, Move
  <2>3. ASSUME NEW t \in Threads, WaitAcquire(t) PROVE FL!Enter(t)
    <3>1. line # <<>> /\ Head(line) = t
      BY <2>3, FirstOfLine DEF WaitAcquire, Move
    <3>2. ~inside
      BY <2>3, <3>1, HolderIsFirst DEF WaitAcquire, Move
    <3>3. inside' /\ UNCHANGED line
      BY <2>0, <2>3 DEF WaitAcquire, Move
    <3>. QED  BY <3>1, <3>2, <3>3 DEF FL!Enter
  <2>4. ASSUME NEW t \in Threads, Release(t) PROVE FL!Leave(t) \/ UNCHANGED <<line, inside>>
    <3>1. CASE tail = t
      <4>1. inside /\ Head(line) = t
        BY <2>4, HolderIsFirst DEF Release, Move
      <4>2. line' = Tail(line) /\ ~inside'
        BY <2>0, <2>4, <3>1, HolderIsFirst DEF Release, Move
      <4>. QED  BY <4>1, <4>2 DEF FL!Leave
    <3>2. CASE tail # t
      BY <2>0, <2>4, <3>2 DEF Release, Move, AfterFailedCas
    <3>. QED  BY <3>1, <3>2
  <2>5. ASSUME NEW t \in Threads, Pass(t) PROVE FL!Leave(t)
    <3>1. inside /\ Head(line) = t
      BY <2>5, HolderIsFirst DEF Pass, Move
    <3>2. line' = Tail(line) /\ ~inside'
      BY <2>0, <2>5, HolderIsFirst DEF Pass, Move
    <3>. QED  BY <3>1, <3>2 DEF FL!Leave
  <2>6. CASE UNCHANGED vars
    BY <2>6 DEF vars
  <2>. QED
    BY <2>1, <2>2, <2>3, <2>4, <2>5, <2>6 DEF Next, Inside, FL!Next
<1>. QED  BY <1>1, <1>2, Inductive, PTL DEF Spec, ImplementsFifoLock, FL!Spec
-----------------------------------------------------------------------------
(* TicketLock.  The tickets from the owner's to the last one drawn are in  *)
(* the hands of one thread each, which is in Lock or in its critical       *)
(* section; a ticket that TryLock compares is never ahead of the owner's.  *)

Waiting == {"spin", "cs"}

\* n tickets are drawn, o is the owner's, f[t] is the ticket and p[t] the place of t.
Tickets(n, o, f, p) ==
    /\ n \in Nat /\ o \in 0..n
    /\ f \in [Users -> Nat] /\ p \in [Users -> {"idle", "cas"} \cup Waiting]
    /\ \A t \in Users : p[t] \in Waiting => f[t] \in o..(n-1)
    /\ \A t \in Users : p[t] = "cs" => f[t] = o
    /\ \A t \in Users : p[t] = "cas" => f[t] <= o
    /\ \A t, u \in Users : p[t] \in Waiting /\ p[u] \in Waiting /\ f[t] = f[u] => t = u
    /\ \A k \in o..(n-1) : \E t \in Users : p[t] \in Waiting /\ f[t] = k

LineOf(n, o, f, p) ==
    [i \in 1..(n - o) |-> CHOOSE t \in Users : p[t] \in {"spin", "cs"} /\ f[t] = o + i - 1]

TkInv == Tickets(next_free, tkOwner, ticket, tkPc)

LEMMA TicketsInit == TK!Init => TkInv
<1>. SUFFICES ASSUME TK!Init PROVE TkInv
  OBVIOUS
<1>1. 0..(0-1) = {}
  OBVIOUS
<1>. QED  BY <1>1 DEF TK!Init, TkInv, Tickets, Waiting

LEMMA TicketsKeep == TkInv /\ [TK!Next]_TK!vars => TkInv'
<1>. SUFFICES ASSUME TkInv, [TK!Next]_TK!vars PROVE TkInv'
  OBVIOUS
<1>. USE DEF TkInv, Tickets, Waiting, TK!Move
<1>1. ASSUME NEW t \in Users, TK!Draw(t) PROVE TkInv'
  <2>1. /\ tkPc[t] = "idle" /\ tkPc' = [tkPc EXCEPT ![t] = "spin"]
        /\ ticket' = [ticket EXCEPT ![t] = next_free]
        /\ next_free' = next_free + 1 /\ tkOwner' = tkOwner
    BY <1>1 DEF TK!Draw
  <2>2. \A k \in tkOwner..next_free : k = next_free \/ k \in tkOwner..(next_free-1)
    OBVIOUS
  <2>3. \A k \in tkOwner'..(next_free'-1) : \E u \in Users : tkPc'[u] \in Waiting /\ ticket'[u] = k
    BY <2>1, <2>2
  <2>. QED  BY <2>1, <2>3
<1>2. ASSUME NEW t \in Users, TK!Spin(t) PROVE TkInv'
  BY <1>2 DEF TK!Spin, TK!MyTurn
<1>3. ASSUME NEW t \in Users, TK!TryLoad(t) PROVE TkInv'
  BY <1>3 DEF TK!TryLoad, TK!Seen
<1>4. ASSUME NEW t \in Users, TK!TryCas(t) PROVE TkInv'
  <2>1. CASE next_free = ticket[t] /\ next_free' = ticket[t] + 1
    <3>1. /\ tkPc[t] = "cas" /\ tkPc' = [tkPc EXCEPT ![t] = "cs"]
          /\ ticket' = ticket /\ tkOwner' = tkOwner /\ next_free = tkOwner
          /\ next_free' = tkOwner + 1
      BY <1>4, <2>1 DEF TK!TryCas
    <3>2. \A u \in Users : tkPc[u] \notin Waiting
      BY <3>1
    <3>3. tkOwner'..(next_free'-1) = {tkOwner}
      BY <3>1
    <3>4. \A k \in tkOwner'..(next_free'-1) : \E u \in Users : tkPc'[u] \in Waiting /\ ticket'[u] = k
      BY <2>1, <3>1, <3>3
    <3>5. \A u \in Users : tkPc'[u] \in Waiting => u = t
      BY <3>1, <3>2
    <3>. QED  BY <2>1, <3>1, <3>4, <3>5
  <2>2. CASE UNCHANGED next_free
    <3>1. /\ tkPc[t] = "cas" /\ tkPc' = [tkPc EXCEPT ![t] = "idle"]
          /\ UNCHANGED <<ticket, tkOwner, next_free>>
      BY <1>4, <2>2 DEF TK!TryCas
    <3>. QED  BY <3>1
  <2>. QED  BY <1>4, <2>1, <2>2 DEF TK!TryCas
<1>5. ASSUME NEW t \in Users, TK!Unlock(t) PROVE TkInv'
  <2>1. /\ tkPc[t] = "cs" /\ tkPc' = [tkPc EXCEPT ![t] = "idle"]
        /\ ticket[t] = tkOwner /\ ticket' = ticket
        /\ tkOwner' = tkOwner + 1 /\ next_free' = next_free
    BY <1>5 DEF TK!Unlock
  <2>2. \A u \in Users : u # t /\ tkPc[u] \in Waiting => ticket[u] # tkOwner
    BY <2>1
  <2>3. \A k \in tkOwner'..(next_free'-1) : k \in tkOwner..(next_free-1) /\ k # tkOwner
    BY <2>1
  <2>4. \A k \in tkOwner'..(next_free'-1) : \E u \in Users : tkPc'[u] \in Waiting /\ ticket'[u] = k
    BY <2>1, <2>3
  <2>. QED  BY <2>1, <2>2, <2>4
<1>6. ASSUME TK!Renew PROVE TkInv'
  <2>1. 0..(0-1) = {}
    OBVIOUS
  <2>. QED  BY <1>6, <2>1 DEF TK!Renew
<1>7. CASE UNCHANGED TK!vars
  BY <1>7 DEF TK!vars
<1>. QED
  BY <1>1, <1>2, <1>3, <1>4, <1>5, <1>6, <1>7 DEF TK!Next, TK!Inside

\* The line is the threads with those tickets, in the order of the tickets.
LEMMA LineOfTickets ==
    ASSUME NEW n, NEW o, NEW f, NEW p, Tickets(n, o, f, p)
    PROVE  /\ LineOf(n, o, f, p) \in Seq(Users)
           /\ Len(LineOf(n, o, f, p)) = n - o
           /\ \A i \in 1..(n - o) : /\ p[LineOf(n, o, f, p)[i]] \in Waiting
                                    /\ f[LineOf(n, o, f, p)[i]] = o + i - 1
           /\ \A t \in Users : p[t] \in Waiting => /\ f[t] - o + 1 \in 1..(n - o)
                                                   /\ LineOf(n, o, f, p)[f[t] - o + 1] = t
<1>. DEFINE l == LineOf(n, o, f, p)
<1>1. n \in Nat /\ o \in Nat /\ n - o \in Nat
  BY DEF Tickets
<1>2. ASSUME NEW i \in 1..(n - o)
      PROVE  l[i] \in Users /\ p[l[i]] \in Waiting /\ f[l[i]] = o + i - 1
  <2>1. o + i - 1 \in o..(n-1)
    BY <1>1
  <2>2. \E t \in Users : p[t] \in {"spin", "cs"} /\ f[t] = o + i - 1
    BY <2>1 DEF Tickets, Waiting
  <2>. QED  BY <2>2 DEF LineOf, Waiting
<1>3. l \in [1..(n - o) -> Users]
  BY <1>2 DEF LineOf
<1>4. l \in Seq(Users) /\ Len(l) = n - o
  BY <1>1, <1>3, SeqDef, LenProperties
<1>. HIDE DEF l
<1>5. ASSUME NEW t \in Users, p[t] \in Waiting
      PROVE  f[t] - o + 1 \in 1..(n - o) /\ l[f[t] - o + 1] = t
  <2>1. f[t] \in o..(n-1)
    BY <1>5 DEF Tickets
  <2>2. f[t] - o + 1 \in 1..(n - o) /\ o + (f[t] - o + 1) - 1 = f[t]
    BY <1>1, <2>1
  <2>. QED  BY <1>2, <1>5, <2>2 DEF Tickets
<1>. QED  BY <1>2, <1>4, <1>5 DEF l

\* Every behaviour of the lock is one of AbstractFifoLock: whoever draws a ticket joins
\* the line, and TryLock, whatever it has read before, enters a free lock nobody waits for.
THEOREM TicketRefinement == TK!Spec => TicketsServeInOrder
<1>. DEFINE now    == \E t \in Users : tkPc[t] = "cs"
            before == TK!line
<1>1. TK!Init => TK!FL!Init
  <2>. SUFFICES ASSUME TK!Init PROVE TK!line = <<>> /\ ~now
    BY DEF TK!FL!Init
  <2>1. 1..(next_free - tkOwner) = {}
    BY DEF TK!Init
  <2>. QED  BY <2>1 DEF TK!Init, TK!line
<1>2. TkInv /\ TkInv' /\ [TK!Next]_TK!vars => [TK!FL!Next]_<<TK!line, now>>
  <2>. SUFFICES ASSUME TkInv, TkInv', [TK!Next]_TK!vars
                PROVE  TK!FL!Next \/ UNCHANGED <<TK!line, now>>
    OBVIOUS
  <2>1. PICK l : l = TK!line
    OBVIOUS
  <2>2. PICK m : m = TK!line'
    OBVIOUS
  <2>3. l = LineOf(next_free, tkOwner, ticket, tkPc) /\ m = LineOf(next_free', tkOwner', ticket', tkPc')
    BY <2>1, <2>2 DEF TK!line, LineOf
  <2>4. /\ l \in Seq(Users) /\ Len(l) = next_free - tkOwner
        /\ \A i \in 1..Len(l) : tkPc[l[i]] \in Waiting /\ ticket[l[i]] = tkOwner + i - 1
        /\ \A t \in Users : tkPc[t] \in Waiting => /\ ticket[t] - tkOwner + 1 \in 1..Len(l)
                                                   /\ l[ticket[t] - tkOwner + 1] = t
    BY <2>3, LineOfTickets DEF TkInv
  <2>5. /\ m \in Seq(Users) /\ Len(m) = next_free' - tkOwner'
        /\ \A i \in 1..Len(m) : tkPc'[m[i]] \in Waiting /\ ticket'[m[i]] = tkOwner' + i - 1
        /\ \A t \in Users : tkPc'[t] \in Waiting => /\ ticket'[t] - tkOwner' + 1 \in 1..Len(m)
                                                    /\ m[ticket'[t] - tkOwner' + 1] = t
    BY <2>3, LineOfTickets DEF TkInv
  <2>6. /\ tkPc \in [Users -> {"idle", "cas"} \cup Waiting] /\ ticket \in [Users -> Nat]
        /\ next_free \in Nat /\ tkOwner \in 0..next_free
        /\ next_free' \in Nat /\ tkOwner' \in 0..next_free' /\ ticket' \in [Users -> Nat]
        /\ Len(l) \in Nat /\ Len(m) \in Nat
        /\ \A i \in 1..Len(l) : l[i] \in Users
        /\ \A t \in Users : tkPc[t] = "cs" => tkPc[t] \in Waiting /\ ticket[t] = tkOwner
        /\ \A t \in Users : tkPc[t] = "cas" => ticket[t] <= tkOwner
    <3>1. Len(l) \in Nat /\ Len(m) \in Nat /\ \A i \in 1..Len(l) : l[i] \in Users
      BY <2>4, <2>5
    <3>. QED  BY <3>1 DEF TkInv, Tickets, Waiting
  <2>. DEFINE StandsAt(u, i) == tkPc'[u] \in Waiting /\ ticket'[u] = tkOwner' + i - 1
  <2>at. \A i \in 1..Len(m), u \in Users : StandsAt(u, i) => m[i] = u
    BY <2>5, <2>6
  <2>7. \A t, u \in Users : tkPc[t] = "cs" /\ tkPc[u] = "cs" => t = u
    BY <2>6 DEF TkInv, Tickets
  <2>8. ASSUME NEW t \in Users, tkPc[t] = "cs" PROVE l # <<>> /\ Head(l) = t
    <3>1. ticket[t] - tkOwner + 1 = 1
      BY <2>6, <2>8
    <3>2. 1 \in 1..Len(l) /\ l[1] = t
      BY <2>4, <2>6, <2>8, <3>1
    <3>. QED  BY <2>4, <3>2
  <2>9. ASSUME NEW t \in Users, TK!Draw(t) PROVE TK!FL!Join(t)
    <3>1. /\ tkPc[t] = "idle" /\ tkPc' = [tkPc EXCEPT ![t] = "spin"]
          /\ ticket' = [ticket EXCEPT ![t] = next_free]
          /\ next_free' = next_free + 1 /\ tkOwner' = tkOwner
      BY <2>9 DEF TK!Draw, TK!Move
    <3>2. \A i \in 1..Len(l) : l[i] \in Users /\ l[i] # t
      BY <2>4, <3>1 DEF Waiting
    <3>3. Len(m) = Len(l) + 1 /\ m[Len(l) + 1] = t
      BY <2>4, <2>5, <2>6, <3>1 DEF Waiting
    <3>4. ASSUME NEW i \in 1..Len(l) PROVE m[i] = l[i]
      <4>1. tkPc'[l[i]] \in Waiting /\ ticket'[l[i]] = tkOwner + i - 1
        BY <2>4, <2>6, <3>1, <3>2
      <4>. QED  BY <2>at, <3>1, <3>2, <3>3, <4>1, <2>6
    <3>5. m = Append(l, t)
      <4>1. /\ Append(l, t) \in Seq(Users) /\ Len(Append(l, t)) = Len(l) + 1
            /\ \A i \in 1..Len(l) : Append(l, t)[i] = l[i]
            /\ Append(l, t)[Len(l) + 1] = t
        BY <2>4, AppendProperties
      <4>2. \A i \in 1..Len(m) : i \in 1..Len(l) \/ i = Len(l) + 1
        BY <2>6, <3>3
      <4>3. \A i \in 1..Len(m) : m[i] = Append(l, t)[i]
        BY <3>3, <3>4, <4>1, <4>2
      <4>. QED  BY <2>5, <3>3, <4>1, <4>3, SeqEqual
    <3>6. UNCHANGED now
      BY <2>6, <3>1
    <3>. QED  BY <2>1, <2>2, <3>2, <3>5, <3>6 DEF TK!FL!Join, TK!FL!Contains
  <2>10. ASSUME NEW t \in Users, TK!Spin(t) PROVE TK!FL!Enter(t)
    <3>1. /\ tkPc[t] = "spin" /\ tkPc' = [tkPc EXCEPT ![t] = "cs"] /\ ticket[t] = tkOwner
          /\ UNCHANGED <<next_free, tkOwner, ticket>>
      BY <2>10 DEF TK!Spin, TK!MyTurn, TK!Move
    <3>2. l # <<>> /\ Head(l) = t
      BY <2>4, <2>6, <3>1 DEF Waiting
    <3>3. ~now /\ now'
      BY <2>6, <2>8, <3>1, <3>2
    <3>4. m = l
      <4>1. ASSUME NEW i \in 1..Len(l) PROVE m[i] = l[i]
        <5>1. l[i] \in Users /\ tkPc'[l[i]] \in Waiting /\ ticket'[l[i]] = tkOwner + i - 1
          BY <2>4, <2>6, <3>1 DEF Waiting
        <5>. QED  BY <2>4, <2>5, <2>at, <2>6, <3>1, <5>1
      <4>. QED  BY <2>4, <2>5, <3>1, <4>1, SeqEqual
    <3>. QED  BY <2>1, <2>2, <3>2, <3>3, <3>4 DEF TK!FL!Enter
  <2>11. ASSUME NEW t \in Users, TK!TryLoad(t) PROVE UNCHANGED <<TK!line, now>>
    <3>1. /\ tkPc[t] = "idle" /\ tkPc' = [tkPc EXCEPT ![t] = "cas"]
          /\ ticket' = [ticket EXCEPT ![t] = tkOwner] /\ UNCHANGED <<next_free, tkOwner>>
      BY <2>11 DEF TK!TryLoad, TK!Seen, TK!Move
    <3>2. UNCHANGED now
      BY <2>6, <3>1
    <3>3. m = l
      <4>1. ASSUME NEW i \in 1..Len(l) PROVE m[i] = l[i]
        <5>1. l[i] \in Users /\ tkPc'[l[i]] \in Waiting /\ ticket'[l[i]] = tkOwner + i - 1
          BY <2>4, <2>6, <3>1 DEF Waiting
        <5>. QED  BY <2>4, <2>5, <2>at, <2>6, <3>1, <5>1
      <4>. QED  BY <2>4, <2>5, <3>1, <4>1, SeqEqual
    <3>. QED  BY <2>1, <2>2, <3>2, <3>3
  <2>12. ASSUME NEW t \in Users, TK!TryCas(t), next_free = ticket[t] PROVE TK!FL!TryEnter(t)
    <3>1. /\ tkPc[t] = "cas" /\ tkPc' = [tkPc EXCEPT ![t] = "cs"] /\ tkOwner' = tkOwner
          /\ ticket' = ticket /\ next_free = tkOwner /\ next_free' = tkOwner + 1
      BY <2>6, <2>12 DEF TK!TryCas, TK!Move
    <3>2. l = <<>>
      <4>1. Len(l) = 0
        BY <2>4, <2>6, <3>1
      <4>. QED  BY <2>4, <4>1, EmptySeq
    <3>3. Len(m) = 1 /\ m[1] = t
      BY <2>5, <2>6, <2>12, <3>1 DEF Waiting
    <3>4. m = <<t>>
      <4>1. <<t>> \in Seq(Users) /\ Len(<<t>>) = 1 /\ <<t>>[1] = t
        OBVIOUS
      <4>2. \A i \in 1..Len(m) : m[i] = <<t>>[i]
        BY <3>3, <4>1
      <4>. QED  BY <2>5, <3>3, <4>1, <4>2, SeqEqual
    <3>5. now'
      BY <2>6, <3>1
    <3>. QED  BY <2>1, <2>2, <3>2, <3>4, <3>5 DEF TK!FL!TryEnter
  <2>13. ASSUME NEW t \in Users, TK!TryCas(t), next_free # ticket[t]
         PROVE  UNCHANGED <<TK!line, now>>
    <3>1. /\ tkPc[t] = "cas" /\ tkPc' = [tkPc EXCEPT ![t] = "idle"]
          /\ UNCHANGED <<ticket, next_free, tkOwner>>
      BY <2>13 DEF TK!TryCas, TK!Move
    <3>2. UNCHANGED now
      BY <2>6, <3>1
    <3>3. m = l
      <4>1. ASSUME NEW i \in 1..Len(l) PROVE m[i] = l[i]
        <5>1. l[i] \in Users /\ tkPc'[l[i]] \in Waiting /\ ticket'[l[i]] = tkOwner + i - 1
          BY <2>4, <2>6, <3>1 DEF Waiting
        <5>. QED  BY <2>4, <2>5, <2>at, <2>6, <3>1, <5>1
      <4>. QED  BY <2>4, <2>5, <3>1, <4>1, SeqEqual
    <3>. QED  BY <2>1, <2>2, <3>2, <3>3
  <2>14. ASSUME NEW t \in Users, TK!Unlock(t) PROVE TK!FL!Leave(t)
    <3>1. /\ tkPc[t] = "cs" /\ tkPc' = [tkPc EXCEPT ![t] = "idle"] /\ ticket' = ticket
          /\ tkOwner' = tkOwner + 1 /\ next_free' = next_free
      BY <2>14 DEF TK!Unlock, TK!Move
    <3>2. l # <<>> /\ Head(l) = t /\ now
      BY <2>8, <3>1
    <3>3. ~now'
      BY <2>6, <2>7, <3>1
    <3>4. /\ Tail(l) \in Seq(Users) /\ Len(Tail(l)) = Len(l) - 1 /\ Len(m) = Len(l) - 1
          /\ \A i \in 1..Len(m) : Tail(l)[i] = l[i+1] /\ i + 1 \in 1..Len(l)
      BY <2>4, <2>5, <2>6, <3>1, <3>2, HeadTailProperties
    <3>5. ASSUME NEW i \in 1..Len(m) PROVE m[i] = Tail(l)[i]
      <4>1. l[i+1] \in Users /\ tkPc[l[i+1]] \in Waiting /\ ticket[l[i+1]] = tkOwner + i
        <5>1. i + 1 \in 1..Len(l) /\ tkOwner + (i + 1) - 1 = tkOwner + i
          BY <2>6, <3>4
        <5>. QED  BY <2>4, <2>6, <5>1
      <4>2. l[i+1] # t
        BY <2>6, <3>1, <4>1
      <4>3. tkPc'[l[i+1]] \in Waiting /\ ticket'[l[i+1]] = tkOwner + i
        BY <2>6, <3>1, <4>1, <4>2
      <4>4. (tkOwner + i) - (tkOwner + 1) + 1 = i
        BY <2>6
      <4>. QED  BY <2>5, <3>1, <3>4, <4>1, <4>3, <4>4
    <3>6. m = Tail(l)
      BY <2>5, <3>4, <3>5, SeqEqual
    <3>. QED  BY <2>1, <2>2, <3>2, <3>3, <3>6 DEF TK!FL!Leave
  \* A new lock replaces one that nobody has or wants.
  <2>15. ASSUME TK!Renew PROVE UNCHANGED <<TK!line, now>>
    <3>1. /\ \A t \in Users : tkPc[t] = "idle"
          /\ next_free' = 0 /\ tkOwner' = 0 /\ tkPc' = tkPc
      BY <2>15 DEF TK!Renew
    <3>2. l = <<>>
      <4>1. Len(l) = 0
        <5>1. 1 \notin 1..Len(l)
          BY <2>4, <2>6, <3>1 DEF Waiting
        <5>. QED  BY <2>6, <5>1
      <4>. QED  BY <2>4, <4>1, EmptySeq
    <3>3. m = <<>>
      BY <2>5, <3>1, EmptySeq
    <3>. QED  BY <2>1, <2>2, <3>1, <3>2, <3>3
  <2>16. CASE UNCHANGED TK!vars
    BY <2>16 DEF TK!vars, TK!line
  <2>. QED
    BY <2>9, <2>10, <2>11, <2>12, <2>13, <2>14, <2>15, <2>16
       DEF TK!Next, TK!Inside, TK!FL!Next
<1>. QED  BY <1>1, <1>2, TicketsInit, TicketsKeep, PTL DEF TK!Spec, TicketsServeInOrder, TK!ServesInOrder, TK!FL!Spec
-----------------------------------------------------------------------------
(* The flags, the Mutexed object and the forks, in every behaviour of      *)
(* MCLocks: what each needs besides what it promises.                      *)

\* Whoever is inside left the flag up.
SpinInv == /\ locked \in {0, 1} /\ spPc \in [Users -> {"idle", "exchange", "look", "cs"}]
           /\ \A t \in Users : spPc[t] = "cs" => locked = 1
           /\ TAS!Excludes

\* A reference that is complete holds the mutex, and it alone.
MxInv == /\ object \in Nat /\ updates = object
         /\ mxPc \in [Users -> {"none", "constructed", "ref", "operates"}]
         /\ seen \in [Users -> Nat]
         /\ \A t \in Users : mxPc[t] \in {"ref", "operates"} => mutex = {t}
         /\ \A t \in Users : mxPc[t] = "operates" => seen[t] = object

\* The philosophers that hold their left fork, their right fork.
HasLeft(s)  == dnPc[s] \in {"own plate", "next plate", "put left"}
                  \cup (IF DN!LeftFirst(s) THEN {"second"} ELSE {})
HasRight(s) == dnPc[s] \in {"own plate", "next plate", "put left", "put right"}
                  \cup (IF DN!LeftFirst(s) THEN {} ELSE {"second"})

\* Forks that philosophers are to put back are theirs.
DnInv == /\ holder \in [DN!Seat -> DN!Seat \cup {DN!Nobody}]
         /\ dnPc \in [DN!Seat -> {"think", "first", "second", "own plate", "next plate",
                                  "put left", "put right"}]
         /\ \A s \in DN!Seat : HasLeft(s) => holder[DN!LeftFork(s)] = s
         /\ \A s \in DN!Seat : HasRight(s) => holder[DN!RightFork(s)] = s

SmallInv == SpinInv /\ MxInv /\ DnInv

LEMMA SmallInit == TAS!Init /\ MX!Init /\ DN!Init => SmallInv
<1> SUFFICES ASSUME TAS!Init, MX!Init, DN!Init PROVE SmallInv
  OBVIOUS
<1>1. SpinInv
  BY DEF TAS!Init, SpinInv, TAS!Excludes
<1>2. MxInv
  BY DEF MX!Init, MxInv
<1>3. DnInv
  BY DEF DN!Init, DnInv, HasLeft, HasRight, DN!Seat, DN!Nobody
<1> QED BY <1>1, <1>2, <1>3 DEF SmallInv

\* The flag's accesses, whether or not the lock looks before it exchanges.
LEMMA FlagsKeep == SpinInv /\ (TAS!Next \/ TTS!Next) => SpinInv'
<1> SUFFICES ASSUME SpinInv, TAS!Next \/ TTS!Next PROVE SpinInv'
  OBVIOUS
<1>1. PICK t \in Users :
        \/ TAS!Lock(t) \/ TTS!Lock(t) \/ TTS!Look(t) \/ TAS!Look(t)
        \/ TAS!Exchange(t) \/ TTS!Exchange(t) \/ TAS!TryLock(t) \/ TTS!TryLock(t)
        \/ TAS!Unlock(t) \/ TTS!Unlock(t)
  BY DEF TAS!Next, TTS!Next, TAS!Inside, TTS!Inside
<1>2. CASE TAS!Lock(t) \/ TTS!Lock(t) \/ TTS!Look(t) \/ TAS!Look(t)
  <2>1. /\ locked' = locked
        /\ spPc' = [spPc EXCEPT ![t] = "exchange"]
    BY <1>2 DEF TAS!Lock, TTS!Lock, TAS!Look, TTS!Look, TAS!Move, TTS!Move
  <2> QED BY <2>1 DEF SpinInv, TAS!Excludes
<1>3. CASE TAS!Exchange(t) \/ TTS!Exchange(t) \/ TAS!TryLock(t) \/ TTS!TryLock(t)
  <2>1. /\ locked' = 1
        /\ \E to \in {"idle", "exchange", "look", "cs"} :
             spPc' = [spPc EXCEPT ![t] = to] /\ (to = "cs" => locked # 1)
    BY <1>3 DEF TAS!Exchange, TTS!Exchange, TAS!TryLock, TTS!TryLock, TAS!Move, TTS!Move,
                TAS!Again, TTS!Again
  <2> QED BY <2>1 DEF SpinInv, TAS!Excludes
<1>4. CASE TAS!Unlock(t) \/ TTS!Unlock(t)
  <2>1. spPc[t] = "cs" /\ locked' = 0 /\ spPc' = [spPc EXCEPT ![t] = "idle"]
    BY <1>4 DEF TAS!Unlock, TTS!Unlock, TAS!Move, TTS!Move, TAS!Clear, TTS!Clear
  <2> QED BY <2>1 DEF SpinInv, TAS!Excludes
<1> QED BY <1>1, <1>2, <1>3, <1>4

LEMMA ObjectKeeps == MxInv /\ MX!Next => MxInv'
<1> SUFFICES ASSUME MxInv, MX!Next PROVE MxInv'
  OBVIOUS
<1>1. PICK t \in Users : MX!Locked(t) \/ MX!Guard(t) \/ MX!Read(t) \/ MX!Write(t) \/ MX!Unlock(t)
  BY DEF MX!Next, MX!Lock, MX!Operate
<1>2. CASE MX!Locked(t)
  BY <1>2 DEF MX!Locked, MX!Move, MX!AfterBind, MxInv
<1>3. CASE MX!Guard(t)
  BY <1>3 DEF MX!Guard, MX!Move, MxInv
<1>4. CASE MX!Read(t)
  BY <1>4 DEF MX!Read, MX!Move, MxInv
<1>5. CASE MX!Write(t)
  <2>1. mutex = {t} /\ seen[t] = object
    BY <1>5 DEF MX!Write, MX!Move, MxInv
  <2>2. \A u \in Users \ {t} : mxPc[u] \notin {"ref", "operates"}
    BY <2>1 DEF MxInv
  <2> QED BY <1>5, <2>1, <2>2 DEF MX!Write, MX!Move, MxInv
<1>6. CASE MX!Unlock(t)
  <2>1. \A u \in Users \ {t} : mxPc[u] \notin {"ref", "operates"}
    BY <1>6 DEF MX!Unlock, MX!Move, MxInv
  <2> QED BY <1>6, <2>1 DEF MX!Unlock, MX!Move, MxInv
<1> QED BY <1>1, <1>2, <1>3, <1>4, <1>5, <1>6

\* The forks of a seat are two, and a fork lies to one seat's right only.
LEMMA Forks ==
  ASSUME NEW s \in DN!Seat
  PROVE  /\ DN!LeftFork(s) \in DN!Seat /\ DN!RightFork(s) \in DN!Seat
         /\ DN!RightFork(s) # DN!LeftFork(s)
         /\ s # DN!Nobody
BY McAssumption DEF DN!Seat, DN!LeftFork, DN!RightFork, DN!ToRight, DN!Nobody

LEMMA ForksKeep == DnInv /\ DN!Next => DnInv'
<1> SUFFICES ASSUME DnInv, DN!Next PROVE DnInv'
  OBVIOUS
<1>1. PICK s \in DN!Seat : \/ DN!Hungry(s) \/ DN!TakeFirst(s) \/ DN!TakeSecond(s)
                           \/ DN!EatOwn(s) \/ DN!EatNext(s) \/ DN!PutLeft(s) \/ DN!PutRight(s)
  BY DEF DN!Next, DN!Eat
<1> USE DEF DN!Move, DN!Take, DN!Put
<1>f. \A r \in DN!Seat : /\ DN!LeftFork(r) \in DN!Seat /\ DN!RightFork(r) \in DN!Seat
                         /\ DN!RightFork(r) # DN!LeftFork(r) /\ r # DN!Nobody
  BY Forks
<1>2. CASE DN!Hungry(s) \/ DN!EatOwn(s) \/ DN!EatNext(s)
  BY <1>1, <1>2 DEF DN!Hungry, DN!EatOwn, DN!EatNext, DnInv, HasLeft, HasRight
<1>3. CASE DN!TakeFirst(s)
  BY <1>1, <1>3, <1>f DEF DN!TakeFirst, DN!FirstFork, DnInv, HasLeft, HasRight
<1>4. CASE DN!TakeSecond(s)
  BY <1>1, <1>4, <1>f DEF DN!TakeSecond, DN!SecondFork, DnInv, HasLeft, HasRight
<1>5. CASE DN!PutLeft(s)
  BY <1>1, <1>5, <1>f DEF DN!PutLeft, DnInv, HasLeft, HasRight
<1>6. CASE DN!PutRight(s)
  BY <1>1, <1>6, <1>f DEF DN!PutRight, DnInv, HasLeft, HasRight
<1> QED BY <1>1, <1>2, <1>3, <1>4, <1>5, <1>6

\* Two who eat from one plate would both hold the fork between their own plates.
LEMMA ForksGuardPlates == DnInv => DN!NoPlateRace
<1> SUFFICES ASSUME DnInv, NEW s \in DN!Seat, NEW r \in DN!Seat, s # r
             PROVE  DN!Accesses(s) \cap DN!Accesses(r) = {}
  BY DEF DN!NoPlateRace
<1>1. \A q \in DN!Seat : dnPc[q] \in {"own plate", "next plate"}
                            => holder[q] = q /\ holder[DN!ToRight(q)] = q
  BY DEF DnInv, HasLeft, HasRight, DN!LeftFork, DN!RightFork
<1>2. DN!ToRight(s) = DN!ToRight(r) => s = r
  BY McAssumption DEF DN!ToRight, DN!Seat
<1> QED BY <1>1, <1>2 DEF DN!Accesses

\* MCLocks, LocksAreSafe: threads exclude each other from what a flag guards, no
\* operation on a Mutexed object is lost, and philosophers share no plate.
THEOREM SmallLocksAreSafe == McSpec => []LocksAreSafe
<1>1. McInit => SmallInv
  BY SmallInit DEF McInit
<1>2. SmallInv /\ [McNext]_allVars => SmallInv'
  <2> SUFFICES ASSUME SmallInv, [McNext]_allVars PROVE SmallInv'
    OBVIOUS
  <2> USE DEF SmallInv
  <2>s. UNCHANGED spVars => SpinInv'
    BY DEF spVars, SpinInv, TAS!Excludes
  <2>m. UNCHANGED mxVars => MxInv'
    BY DEF mxVars, MxInv
  <2>d. UNCHANGED dnVars => DnInv'
    BY DEF dnVars, DnInv, HasLeft, HasRight
  <2>1. CASE SpinStep
    BY <2>1, <2>m, <2>d, FlagsKeep DEF SpinStep
  <2>2. CASE ObjectStep
    BY <2>2, <2>s, <2>d, ObjectKeeps DEF ObjectStep
  <2>3. CASE DiningStep
    BY <2>3, <2>s, <2>m, ForksKeep DEF DiningStep
  <2>4. CASE TicketStep \/ BarrierStep \/ SimStep \/ UNCHANGED allVars
    <3>1. UNCHANGED spVars /\ UNCHANGED mxVars /\ UNCHANGED dnVars
      BY <2>4 DEF TicketStep, BarrierStep, SimStep, allVars
    <3> QED BY <3>1, <2>s, <2>m, <2>d
  <2> QED BY <2>1, <2>2, <2>3, <2>4 DEF McNext
<1>3. SmallInv => LocksAreSafe
  BY ForksGuardPlates DEF SmallInv, SpinInv, MxInv, LocksAreSafe, MX!UpdatesAreAtomic
<1> QED BY <1>1, <1>2, <1>3, PTL DEF McSpec
-----------------------------------------------------------------------------
(* The barrier: its invariants are inductive together.  Each step is shown *)
(* to keep them and, with them, to be a step of AbstractBarrier or to      *)
(* leave its state alone.                                                  *)

BarrierInv == CB!TypeOK /\ CB!CountersHold /\ CB!NotForgotten

\* CyclicBarrier counts as this module does.
LEMMA BarrierCount == \A S : CB!Cardinality(S) = Cardinality(S)
BY DEF CB!Cardinality, Cardinality

\* Sets of threads are counted by numbers up to thread_count, which only the set of
\* all of them reaches.
LEMMA ParticipantsCounted ==
    ASSUME NEW S \in SUBSET Participants
    PROVE  /\ IsFiniteSet(S)
           /\ Cardinality(S) \in 0..CB!thread_count
           /\ Cardinality(S) = CB!thread_count <=> S = Participants
<1>1. IsFiniteSet(S) /\ Cardinality(S) <= CB!thread_count /\ (CB!thread_count = Cardinality(S) => Participants = S)
  BY FS_Subset, BarrierCount, McAssumption DEF CB!thread_count
<1>2. Cardinality(S) \in Nat /\ CB!thread_count \in Nat
  BY <1>1, FS_CardinalityType, BarrierCount, McAssumption DEF CB!thread_count
<1>. QED  BY <1>1, <1>2, BarrierCount DEF CB!thread_count

LEMMA CountIsPositive == CB!thread_count \in Nat \ {0}
<1>1. CB!thread_count \in Nat
  BY FS_CardinalityType, BarrierCount, McAssumption DEF CB!thread_count
<1>2. CB!thread_count # 0
  BY FS_EmptySet, BarrierCount, McAssumption DEF CB!thread_count
<1>. QED  BY <1>1, <1>2

LEMMA BarrierInit ==
    ASSUME CB!Init PROVE BarrierInv /\ CB!AB!Init
<1>1. CB!Gathered = {} /\ CB!Leaving = {}
  BY DEF CB!Init, CB!Inside, CB!Gathered, CB!Leaving
<1>2. CB!TypeOK
  BY CountIsPositive DEF CB!Init, CB!TypeOK
<1>3. CB!CountersHold
  BY <1>1, FS_EmptySet, BarrierCount, McAssumption DEF CB!Init, CB!CountersHold
<1>. QED  BY <1>1, <1>2, <1>3 DEF BarrierInv, CB!NotForgotten, CB!AB!Init

\* The last thread to arrive begins the next round: it finds nobody leaving, turns
\* all the others into leavers, and wakes those that sleep.
LEMMA LastArrives ==
    ASSUME BarrierInv, NEW t \in Participants, CB!Arrive(t), CB!Gathered \cup {t} = Participants
    PROVE  BarrierInv' /\ CB!AB!Complete(t)
<1>. DEFINE s == barrier_state
            counts == [waiting_counts EXCEPT ![s] = @ + 1]
<1>1. /\ s \in 0..1 /\ cbPc[t] = "out" /\ t \notin CB!Gathered /\ t \notin CB!Leaving
      /\ CB!Gathered \in SUBSET Participants /\ CB!Leaving = {}
  BY DEF BarrierInv, CB!TypeOK, CB!Arrive, CB!Inside, CB!Gathered, CB!Leaving
<1>2. counts[s] = CB!thread_count
  <2>1. Cardinality(CB!Gathered \cup {t}) = Cardinality(CB!Gathered) + 1
    BY <1>1, ParticipantsCounted, FS_AddElement
  <2>. QED  BY <1>1, <2>1, BarrierCount DEF BarrierInv, CB!CountersHold, CB!TypeOK, CB!thread_count
<1>3. CB!Return(t, s, counts) /\ CB!Flips(t, s)
  BY <1>2 DEF CB!Arrive, CB!Check, CB!Flips
<1>4. /\ barrier_state' = 1 - s
      /\ waiting_counts' = [counts EXCEPT ![1 - s] = 0]
      /\ current_state' = [current_state EXCEPT ![t] = s]
      /\ cbPc' = [u \in Participants |-> IF u = t THEN "out"
                                  ELSE IF cbPc[u] = "wait" THEN "woken" ELSE cbPc[u]]
  BY <1>3 DEF CB!Return, CB!Reset, CB!Notified, CB!Arrive
<1>5. CB!Gathered' = {} /\ CB!Leaving' = CB!Gathered
  BY <1>1, <1>4 DEF BarrierInv, CB!TypeOK, CB!Inside, CB!Gathered, CB!Leaving
<1>6. CB!TypeOK'
  BY <1>1, <1>2, <1>4, CountIsPositive DEF BarrierInv, CB!TypeOK
<1>7. CB!CountersHold'
  <2>1. waiting_counts'[1 - s] = 0 /\ waiting_counts'[s] = CB!thread_count
    BY <1>1, <1>2, <1>4 DEF BarrierInv, CB!TypeOK
  <2>. QED  BY <1>1, <1>4, <1>5, <2>1, FS_EmptySet, BarrierCount, McAssumption DEF CB!CountersHold
<1>8. CB!NotForgotten'
  BY <1>1, <1>4, <1>5 DEF BarrierInv, CB!TypeOK, CB!NotForgotten, CB!Gathered, CB!Inside
<1>. QED  BY <1>1, <1>5, <1>6, <1>7, <1>8 DEF BarrierInv, CB!AB!Complete

\* Any other thread that arrives is counted, and sleeps.
LEMMA OtherArrives ==
    ASSUME BarrierInv, NEW t \in Participants, CB!Arrive(t), CB!Gathered \cup {t} # Participants
    PROVE  BarrierInv' /\ CB!AB!Arrive(t)
<1>. DEFINE s == barrier_state
            counts == [waiting_counts EXCEPT ![s] = @ + 1]
<1>1. /\ s \in 0..1 /\ cbPc[t] = "out" /\ t \notin CB!Gathered /\ t \notin CB!Leaving
      /\ CB!Gathered \in SUBSET Participants
  BY DEF BarrierInv, CB!TypeOK, CB!Arrive, CB!Inside, CB!Gathered, CB!Leaving
<1>2. /\ Cardinality(CB!Gathered \cup {t}) = Cardinality(CB!Gathered) + 1
      /\ Cardinality(CB!Gathered \cup {t}) # CB!thread_count
      /\ Cardinality(CB!Gathered \cup {t}) \in 0..CB!thread_count
  BY <1>1, ParticipantsCounted, FS_AddElement
<1>3. counts[s] = Cardinality(CB!Gathered \cup {t})
  BY <1>1, <1>2, BarrierCount DEF BarrierInv, CB!CountersHold, CB!TypeOK
<1>4. /\ waiting_counts' = counts
      /\ cbPc' = [cbPc EXCEPT ![t] = "wait"]
      /\ current_state' = [current_state EXCEPT ![t] = s]
      /\ barrier_state' = s
  BY <1>2, <1>3 DEF CB!Arrive, CB!Check, CB!Sleep
<1>5. CB!Gathered' = CB!Gathered \cup {t} /\ CB!Leaving' = CB!Leaving
  BY <1>1, <1>4 DEF BarrierInv, CB!TypeOK, CB!Inside, CB!Gathered, CB!Leaving
<1>6. CB!TypeOK'
  BY <1>1, <1>2, <1>3, <1>4 DEF BarrierInv, CB!TypeOK
<1>7. CB!CountersHold'
  BY <1>1, <1>3, <1>4, <1>5, BarrierCount DEF BarrierInv, CB!TypeOK, CB!CountersHold
<1>8. CB!NotForgotten'
  BY <1>1, <1>4, <1>5 DEF BarrierInv, CB!TypeOK, CB!NotForgotten, CB!Leaving, CB!Inside
<1>. QED  BY <1>1, <1>5, <1>6, <1>7, <1>8 DEF BarrierInv, CB!AB!Arrive

\* A woken thread passes if its round is over, and sleeps again if it is not.
LEMMA WokenSteps ==
    ASSUME BarrierInv, NEW t \in Participants, CB!Woken(t)
    PROVE  BarrierInv' /\ (CB!AB!Pass(t) \/ UNCHANGED <<CB!Gathered, CB!Leaving>>)
<1>. DEFINE s == current_state[t]
<1>1. /\ s \in 0..1 /\ barrier_state \in 0..1 /\ cbPc[t] = "woken" /\ t \in CB!Inside
      /\ current_state' = current_state
  BY DEF BarrierInv, CB!TypeOK, CB!Woken, CB!Inside
<1>2. CASE t \in CB!Leaving
  <2>1. s = 1 - barrier_state /\ waiting_counts[s] = CB!thread_count
    BY <1>1, <1>2 DEF BarrierInv, CB!CountersHold, CB!Leaving, CB!Gathered
  <2>2. CB!Return(t, s, waiting_counts) /\ ~CB!Flips(t, s)
    BY <1>1, <2>1 DEF CB!Woken, CB!Check, CB!Flips
  <2>3. UNCHANGED <<waiting_counts, barrier_state>> /\ cbPc' = [cbPc EXCEPT ![t] = "out"]
    BY <2>2 DEF CB!Return
  <2>4. CB!Gathered' = CB!Gathered /\ CB!Leaving' = CB!Leaving \ {t}
    BY <1>1, <1>2, <2>3 DEF BarrierInv, CB!TypeOK, CB!Inside, CB!Gathered, CB!Leaving
  <2>5. CB!TypeOK'
    BY <1>1, <2>3 DEF BarrierInv, CB!TypeOK
  <2>6. CB!CountersHold'
    BY <2>3, <2>4 DEF BarrierInv, CB!CountersHold
  <2>7. CB!NotForgotten'
    BY <2>3, <2>4 DEF BarrierInv, CB!TypeOK, CB!NotForgotten, CB!Leaving, CB!Inside
  <2>. QED  BY <1>2, <2>4, <2>5, <2>6, <2>7 DEF BarrierInv, CB!AB!Pass
<1>3. CASE t \in CB!Gathered
  <2>1. s = barrier_state /\ waiting_counts[s] # CB!thread_count
    <3>1. CB!Gathered \in SUBSET Participants
      BY DEF CB!Gathered, CB!Inside
    <3>2. Cardinality(CB!Gathered) # CB!thread_count
      BY <3>1, ParticipantsCounted, BarrierCount DEF BarrierInv, CB!CountersHold
    <3>. QED  BY <1>3, <3>2, BarrierCount DEF BarrierInv, CB!CountersHold, CB!Gathered
  <2>2. UNCHANGED <<waiting_counts, barrier_state>> /\ cbPc' = [cbPc EXCEPT ![t] = "wait"]
    BY <2>1 DEF CB!Woken, CB!Check, CB!Sleep
  <2>3. CB!Gathered' = CB!Gathered /\ CB!Leaving' = CB!Leaving /\ t \notin CB!Leaving
    BY <1>1, <1>3, <2>2 DEF BarrierInv, CB!TypeOK, CB!Inside, CB!Gathered, CB!Leaving
  <2>4. CB!TypeOK'
    BY <1>1, <2>2 DEF BarrierInv, CB!TypeOK
  <2>5. CB!CountersHold'
    BY <2>2, <2>3 DEF BarrierInv, CB!CountersHold
  <2>6. CB!NotForgotten'
    BY <2>2, <2>3 DEF BarrierInv, CB!TypeOK, CB!NotForgotten, CB!Leaving, CB!Inside
  <2>. QED  BY <2>3, <2>4, <2>5, <2>6 DEF BarrierInv
<1>. QED  BY <1>1, <1>2, <1>3 DEF CB!Leaving

LEMMA SpuriousSteps ==
    ASSUME BarrierInv, NEW t \in Participants, CB!SpuriousWake(t)
    PROVE  BarrierInv' /\ UNCHANGED <<CB!Gathered, CB!Leaving>>
<1>1. UNCHANGED <<CB!Gathered, CB!Leaving>>
  BY DEF BarrierInv, CB!TypeOK, CB!SpuriousWake, CB!Inside, CB!Gathered, CB!Leaving
<1>2. CB!TypeOK'
  BY DEF BarrierInv, CB!TypeOK, CB!SpuriousWake
<1>3. CB!CountersHold'
  BY <1>1 DEF BarrierInv, CB!CountersHold, CB!SpuriousWake
<1>4. CB!NotForgotten'
  BY <1>1 DEF BarrierInv, CB!TypeOK, CB!NotForgotten, CB!SpuriousWake, CB!Leaving, CB!Inside
<1>. QED  BY <1>1, <1>2, <1>3, <1>4 DEF BarrierInv

LEMMA BarrierKeeps ==
    ASSUME BarrierInv, [CB!Next]_CB!vars
    PROVE  BarrierInv' /\ [CB!AB!Next]_<<CB!Gathered, CB!Leaving>>
<1>1. CASE UNCHANGED CB!vars
  BY <1>1 DEF CB!vars, BarrierInv, CB!TypeOK, CB!CountersHold, CB!NotForgotten, CB!Gathered, CB!Leaving, CB!Inside
<1>2. ASSUME NEW t \in Participants, CB!Arrive(t)
      PROVE  BarrierInv' /\ CB!AB!Next
  BY <1>2, LastArrives, OtherArrives DEF CB!AB!Next
<1>3. ASSUME NEW t \in Participants, CB!Woken(t)
      PROVE  BarrierInv' /\ [CB!AB!Next]_<<CB!Gathered, CB!Leaving>>
  BY <1>3, WokenSteps DEF CB!AB!Next
<1>4. ASSUME NEW t \in Participants, CB!SpuriousWake(t)
      PROVE  BarrierInv' /\ UNCHANGED <<CB!Gathered, CB!Leaving>>
  BY <1>4, SpuriousSteps
<1>. QED  BY <1>1, <1>2, <1>3, <1>4 DEF CB!Next

LEMMA BarrierInvariance == CB!Spec => []BarrierInv
<1>1. CB!Init => BarrierInv
  BY BarrierInit
<1>2. BarrierInv /\ [CB!Next]_CB!vars => BarrierInv'
  BY BarrierKeeps
<1>. QED  BY <1>1, <1>2, PTL DEF CB!Spec

\* The words of the barrier keep their types; in particular a counter never exceeds
\* thread_count, which the test for equality in Arrive relies on.
THEOREM BarrierTypeCorrect == CB!Spec => []CB!TypeOK
BY BarrierInvariance, PTL DEF BarrierInv

\* Each of the two counters of Arrive is right for the threads that look at it.
THEOREM CountersAreRight == CB!Spec => []CountersHold
BY BarrierInvariance, PTL DEF BarrierInv, CountersHold

\* notify_all of the last thread in Arrive reaches whoever its round has made wait.
THEOREM NobodyIsForgotten == CB!Spec => []CB!NotForgotten
BY BarrierInvariance, PTL DEF BarrierInv

\* Arrive lets nobody pass before all participants have arrived in the same round,
\* and the rounds of one barrier do not mix.
THEOREM BarrierRefinement == CB!Spec => ImplementsBarrier
<1>1. CB!Init => CB!AB!Init
  BY BarrierInit
<1>2. BarrierInv /\ [CB!Next]_CB!vars => [CB!AB!Next]_<<CB!Gathered, CB!Leaving>>
  BY BarrierKeeps
<1>. QED  BY <1>1, <1>2, BarrierInvariance, PTL DEF CB!Spec, ImplementsBarrier, CB!ImplementsBarrier, CB!AB!Spec
=============================================================================
