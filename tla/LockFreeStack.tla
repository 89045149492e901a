---------------------------- MODULE LockFreeStack ---------------------------
(***************************************************************************)
(* LockFreeStack of lockfree/stack/lock_free_stack.hpp on the stamped      *)
(* pointers of atomic_stamped_ptr.hpp.  The stamp of a pointer to a node   *)
(* counts the TryPops that have taken a reference to the node through it;  *)
(* dec_count counts the references given back.  Nodes are addresses, which *)
(* the allocator hands out again once they are free.                       *)
(***************************************************************************)
EXTENDS Integers, Sequences, SequencesExt, FiniteSets

CONSTANTS Threads, Nodes, Null,
          MaxStamp,  \* bound: see Alone; stamps are taken modulo MaxStamp + 2
          Spurious,  \* whether compare_exchange_weak may fail spuriously
          Counting   \* FALSE: dec_count is left alone, no node is ever freed

ASSUME NullAssumption  == Null \notin Nodes
ASSUME FiniteAssumption == IsFiniteSet(Threads) /\ IsFiniteSet(Nodes)
ASSUME StampAssumption == MaxStamp \in Nat \ {0}
ASSUME FlagAssumption  == Spurious \in BOOLEAN /\ Counting \in BOOLEAN

VARIABLES top,   \* top_, a stamped pointer
          next,  \* next[n]: next of the node at n
          dec,   \* dec[n]: dec_count of the node at n
          live,  \* the addresses that hold a node
          pc,    \* pc[t]: the access that thread t performs next
          old,   \* old[t]: old_head of TryPop, new_head of Push
          nxt,   \* nxt[t]: head->next, as TryPop has read it
          stk    \* history: the nodes pushed and not popped, the last first

vars == <<top, next, dec, live, pc, old, nxt, stk>>

Nil == [ptr |-> Null, stamp |-> 0]

Init == /\ top = Nil
        /\ next = [n \in Nodes |-> Nil]
        /\ dec = [n \in Nodes |-> 0]
        /\ live = {}
        /\ pc = [t \in Threads |-> "idle"]
        /\ old = [t \in Threads |-> Nil]
        /\ nxt = [t \in Threads |-> Nil]
        /\ stk = <<>>

Move(t, from, to) == /\ pc[t] = from
                     /\ pc' = [pc EXCEPT ![t] = to]

\* The thread that popped a node, or failed to, and has yet to drop its reference.
Holding == {"readNext", "pop", "won", "lost"}

\* Mutations: a pop that loses the stamp of the node below; a stamp that is not part
\* of the comparison; a destructor that frees only the first node.
LoseStamp(p)     == [p EXCEPT !.stamp = 0]
PointerOnly(p)   == top.ptr = p.ptr
FirstOnly(k)     == {top.ptr} \ {Null}

\* delta of TryPop; whether the node is deleted when dec_count has become d; what
\* a pop installs when it read p in head->next; when its compare-and-swap succeeds.
Delta(t)       == IF pc[t] = "won" THEN 1 - old[t].stamp ELSE 1
Deletes(t, d)  == d = 0
Below(p)       == p
Matches(p)     == top = p

\* IncrementStamp, as Pack stores it.
Bump(p) == [p EXCEPT !.stamp = (@ + 1) % (MaxStamp + 2)]

\* A compare-and-swap whose expected value is p may fail.
MayFail(p) == Spurious \/ top # p

\* The nodes the destructor's walk finds within k steps from top_.
Walk(k) == LET at[i \in 0..k] == IF i = 0 THEN top.ptr
                                 ELSE IF at[i-1] = Null THEN Null ELSE next[at[i-1]].ptr
           IN {at[i] : i \in 0..k} \ {Null}
-----------------------------------------------------------------------------
(* Push *)

New(t) == /\ Move(t, "idle", "push")
          /\ \E n \in Nodes \ live :
                /\ live' = live \cup {n}
                /\ next' = [next EXCEPT ![n] = Nil]
                /\ dec' = [dec EXCEPT ![n] = 0]
                /\ old' = [old EXCEPT ![t] = [ptr |-> n, stamp |-> 0]]
          /\ UNCHANGED <<top, nxt, stk>>

PushCas(t) == LET n == old[t].ptr IN
    /\ \/ /\ Move(t, "push", "idle")
          /\ top = next[n]
          /\ top' = old[t]
          /\ stk' = <<n>> \o stk
          /\ old' = [old EXCEPT ![t] = Nil]
          /\ UNCHANGED next
       \/ /\ pc[t] = "push" /\ MayFail(next[n])
          /\ next' = [next EXCEPT ![n] = top]
          /\ UNCHANGED <<top, pc, old, stk>>
    /\ UNCHANGED <<dec, live, nxt>>

(* TryPop *)

Load(t) == /\ pc[t] \in {"idle", "load"}
           /\ Move(t, pc[t], "inc")
           /\ old' = [old EXCEPT ![t] = top]
           /\ UNCHANGED <<top, next, dec, live, nxt, stk>>

Increment(t) ==
    /\ \/ /\ Move(t, "inc", "idle")              \* returns nullopt
          /\ top = old[t] /\ top.ptr = Null
          /\ top' = Bump(top)
          /\ old' = [old EXCEPT ![t] = Nil]
       \/ /\ Move(t, "inc", "readNext")
          /\ top = old[t] /\ top.ptr # Null
          /\ top' = Bump(top)
          /\ old' = [old EXCEPT ![t] = top']
       \/ /\ pc[t] = "inc" /\ MayFail(old[t])
          /\ old' = [old EXCEPT ![t] = top]
          /\ UNCHANGED <<top, pc>>
    /\ UNCHANGED <<next, dec, live, nxt, stk>>

ReadNext(t) == /\ Move(t, "readNext", "pop")
               /\ nxt' = [nxt EXCEPT ![t] = Below(next[old[t].ptr])]
               /\ UNCHANGED <<top, next, dec, live, old, stk>>

\* Room: bound, see Alone.
Room(t) == Counting => old[t].stamp <= MaxStamp

PopCas(t) ==
    /\ \/ /\ Move(t, "pop", "won")
          /\ Matches(old[t])
          /\ top' = nxt[t] /\ stk' = Tail(stk)
       \/ /\ MayFail(old[t]) /\ Room(t)
          /\ Move(t, "pop", "lost")
          /\ UNCHANGED <<top, stk>>
    /\ nxt' = [nxt EXCEPT ![t] = Nil]
    /\ UNCHANGED <<next, dec, live, old>>

Drop(t) == LET n == old[t].ptr  d == dec[n] + Delta(t) IN
    /\ \/ Move(t, "won", "idle")
       \/ Move(t, "lost", "load")
    /\ IF Counting
         THEN /\ dec' = [dec EXCEPT ![n] = d]
              /\ live' = IF Deletes(t, d) THEN live \ {n} ELSE live
         ELSE UNCHANGED <<dec, live>>
    /\ old' = [old EXCEPT ![t] = Nil]
    /\ UNCHANGED <<top, next, nxt, stk>>

\* The destructor, when nobody uses the stack; a new one takes its place.
Destroy == /\ \A t \in Threads : pc[t] = "idle"
           /\ stk # <<>>
           /\ live' = live \ Walk(Cardinality(Nodes))
           /\ top' = Nil /\ stk' = <<>>
           /\ UNCHANGED <<next, dec, pc, old, nxt>>

\* Bound: the TryPop that takes the stamp of a node past MaxStamp performs its
\* compare-and-swap at once, so that no stamp goes further and none wraps.
Alone(t) == Counting => \A u \in Threads \ {t} :
                pc[u] \in {"readNext", "pop"} => old[u].stamp <= MaxStamp

Inside(t) == \/ PushCas(t) \/ Increment(t) \/ ReadNext(t)
             \/ PopCas(t) \/ Drop(t) \/ (pc[t] = "load" /\ Load(t))

Next == \/ \E t \in Threads : Alone(t) /\ (New(t) \/ Load(t) \/ PushCas(t)
              \/ Increment(t) \/ ReadNext(t) \/ PopCas(t) \/ Drop(t))
        \/ Destroy

Spec == Init /\ [][Next]_vars

\* Every thread that is inside an operation is scheduled.
FairSpec == Spec /\ \A t \in Threads : WF_vars(Alone(t) /\ Inside(t))
-----------------------------------------------------------------------------
Stamped == [ptr : Nodes \cup {Null}, stamp : 0..MaxStamp + 1]

TypeOK == /\ top \in Stamped
          /\ next \in [Nodes -> Stamped]
          /\ dec \in [Nodes -> -MaxStamp..MaxStamp]
          /\ live \subseteq Nodes
          /\ pc \in [Threads -> {"idle", "push", "load", "inc"} \cup Holding]
          /\ old \in [Threads -> Stamped]
          /\ nxt \in [Threads -> Stamped]
          /\ stk \in Seq(Nodes)

\* The node of a TryPop that has its reference, and the node of a Push, is not
\* deleted: head->next, the value and dec_count are read from live memory.
NoUseAfterFree == \A t \in Threads :
    pc[t] \in Holding \cup {"push"} => old[t].ptr \in live

\* top_ and the next pointers spell the nodes pushed and not yet popped, in last-
\* in first-out order and all of them live, although addresses are reused (ABA):
\* a pop never installs a next pointer that is out of date.
ChainMatches ==
    /\ IsInjective(stk) /\ ToSet(stk) \subseteq live
    /\ \A i \in 0..Len(stk) : (IF i = 0 THEN top ELSE next[stk[i]]).ptr =
                              (IF i = Len(stk) THEN Null ELSE stk[i+1])

\* The chain, and the range of the stamps and counts it is built from.
ListIsIntact == TypeOK /\ ChainMatches

\* A node that has been popped is held by somebody who will delete it: no node is
\* forgotten once the last of its readers has given its reference back.
NoLeak == \A n \in live \ ToSet(stk) :
    \E t \in Threads : old[t].ptr = n /\ pc[t] \in Holding \cup {"push"}

\* "Treiber unbounded lock-free stack" (lock_free_stack.hpp:9): when every thread
\* is inside an operation, some operation completes.
LockFree == (\A t \in Threads : pc[t] # "idle") ~> (\E t \in Threads : pc[t] = "idle")
=============================================================================
