---------------------------- MODULE Simulations -----------------------------
(***************************************************************************)
(* The tests of mutex/deadlock/simulation.cpp and of                       *)
(* mutex/livelock/simulation.cpp, which mean to break their world.  The    *)
(* tinyfibers library is external: one fiber runs at a time, the first of  *)
(* a run queue that Yield and WakeOne append to; a fiber that cannot lock  *)
(* a mutex is parked in the mutex's queue and tries again when woken; the  *)
(* deadlock handler is called when fibers are left and none can run.       *)
(***************************************************************************)
EXTENDS Naturals, Sequences

CONSTANT Iterations  \* kIterations

VARIABLES test,     \* the test that runs
          stage,    \* how many groups of fibers the test has spawned
          ready,    \* the scheduler's run queue
          pc,       \* pc[f]: the next instruction of fiber f of the group
          held,     \* the mutexes that are locked
          waiting,  \* waiting[m]: the fibers parked in mutex m
          count,    \* thread_count of TrickyLock
          entered,  \* cs_count
          outcome   \* "running", "deadlock" (the handler), "panic", or "done"

vars == <<test, stage, ready, pc, held, waiting, count, entered, outcome>>

\* Mutation: the second fiber takes the mutexes in the order of the first.
SameOrder == << <<"lock","a">>, <<"yield">>, <<"lock","b">>, <<"unlock","a">>, <<"unlock","b">> >>

Locker == << <<"lock","a">>, <<"lock","a">> >>
First  == << <<"lock","a">>, <<"yield">>, <<"lock","b">>, <<"unlock","a">>, <<"unlock","b">> >>
Second == << <<"lock","b">>, <<"yield">>, <<"lock","a">>, <<"unlock","b">>, <<"unlock","a">> >>

\* One attempt of TrickyLock, taking it back, and leaving after the section.
Contender == [i \in 1..(3 * Iterations) |->
                CASE i % 3 = 1 -> <<"try">> [] i % 3 = 2 -> <<"back">> [] OTHER -> <<"leave">>]

\* The groups of fibers that a test spawns, each joined before the next.
Groups == CASE test = "OneFiber"  -> << <<Locker>> >>
            [] test = "TwoFibers" -> << <<First>>, <<First>>, <<Second>>, <<Second>>, <<First, Second>> >>
            [] test = "LiveLock"  -> << <<Contender, Contender>> >>

Init == /\ test \in {"OneFiber", "TwoFibers", "LiveLock"}
        /\ stage = 0 /\ ready = <<>> /\ pc = <<>>
        /\ held = {} /\ waiting = [m \in {"a", "b"} |-> <<>>]
        /\ count = 0 /\ entered = 0
        /\ outcome = "running"
-----------------------------------------------------------------------------
Fiber   == Head(ready)
Code(f) == Groups[stage][f]
Joined  == \A f \in DOMAIN pc : pc[f] > Len(Code(f))
Does(i) == /\ outcome = "running" /\ ready # <<>>
           /\ pc[Fiber] <= Len(Code(Fiber)) /\ Code(Fiber)[pc[Fiber]] = i
GoTo(k) == pc' = [pc EXCEPT ![Fiber] = k]
Step    == GoTo(pc[Fiber] + 1)
Rotate  == ready' = Append(Tail(ready), Fiber)

Spawn == /\ outcome = "running" /\ ready = <<>> /\ Joined /\ stage < Len(Groups)
         /\ stage' = stage + 1
         /\ pc' = [f \in DOMAIN Groups[stage + 1] |-> 1]
         /\ ready' = [f \in DOMAIN Groups[stage + 1] |-> f]
         /\ UNCHANGED <<test, held, waiting, count, entered, outcome>>

Lock(m) == /\ Does(<<"lock", m>>)
           /\ \/ /\ m \notin held /\ held' = held \cup {m}
                 /\ Step /\ UNCHANGED <<ready, waiting>>
              \/ /\ m \in held /\ ready' = Tail(ready)
                 /\ waiting' = [waiting EXCEPT ![m] = Append(@, Fiber)]
                 /\ UNCHANGED <<held, pc>>
           /\ UNCHANGED <<test, stage, count, entered, outcome>>

Unlock(m) == /\ Does(<<"unlock", m>>)
             /\ held' = held \ {m}
             /\ IF waiting[m] = <<>> THEN UNCHANGED <<ready, waiting>>
                ELSE /\ ready' = Append(ready, Head(waiting[m]))
                     /\ waiting' = [waiting EXCEPT ![m] = Tail(@)]
             /\ Step /\ UNCHANGED <<test, stage, count, entered, outcome>>

Yield == /\ Does(<<"yield">>) /\ Rotate /\ Step
         /\ UNCHANGED <<test, stage, held, waiting, count, entered, outcome>>

(* TrickyLock of the livelock: each step ends with a Yield, or goes on *)

Try == /\ Does(<<"try">>)
       /\ count' = count + 1
       /\ \/ count > 0 /\ Step /\ UNCHANGED entered
          \/ count = 0 /\ GoTo(pc[Fiber] + 2) /\ entered' = entered + 1
       /\ Rotate
       /\ UNCHANGED <<test, stage, held, waiting, outcome>>

Back == /\ Does(<<"back">>) /\ count' = count - 1 /\ GoTo(pc[Fiber] - 1)
        /\ UNCHANGED <<test, stage, ready, held, waiting, entered, outcome>>

Leave == /\ Does(<<"leave">>) /\ count' = count - 1 /\ Step
         /\ UNCHANGED <<test, stage, ready, held, waiting, entered, outcome>>

(* The end of a fiber, and of the test *)

Exit == /\ outcome = "running" /\ ready # <<>> /\ pc[Fiber] > Len(Code(Fiber))
        /\ ready' = Tail(ready)
        /\ UNCHANGED <<test, stage, pc, held, waiting, count, entered, outcome>>

End == /\ outcome = "running" /\ ready = <<>> /\ (Joined => stage = Len(Groups))
       /\ outcome' = CASE ~Joined -> "deadlock"
                       [] Joined /\ test = "LiveLock" -> "done"
                       [] OTHER -> "panic"
       /\ UNCHANGED <<test, stage, ready, pc, held, waiting, count, entered>>

Next == \/ Spawn \/ Yield \/ Try \/ Back \/ Leave \/ Exit \/ End
        \/ \E m \in {"a", "b"} : Lock(m) \/ Unlock(m)


Spec == Init /\ [][Next]_vars
-----------------------------------------------------------------------------
\* Run alone, the routines leave the mutexes unlocked; run together they end in
\* the deadlock handler, and the line after is not reached.
Deadlocks == /\ [](ready # <<>> /\ (\A f \in DOMAIN pc : pc[f] = 1) => held = {})
             /\ (test # "LiveLock") ~> (outcome = "deadlock")

\* The contenders go round for ever with fewer than three critical sections.
LivesLocked == []((test = "LiveLock") => outcome = "running" /\ entered < 3)
=============================================================================
