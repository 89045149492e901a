----------------------------- MODULE ThreadPool -----------------------------
(***************************************************************************)
(* The pool of futures/executors/exe/executors/tp/compute: ThreadPool with *)
(* its UnboundedBlockingQueue and its WaitGroup.  Clients call Execute and *)
(* WaitIdle, one of them Stop; a running task may call Execute too.  What  *)
(* the code does under one of the two mutexes is one step; notifications   *)
(* are sent after the unlock, in a step of their own.  The mutexes and the *)
(* condition variables are those of the standard library.                  *)
(***************************************************************************)
EXTENDS Integers, Sequences, SequencesExt, FiniteSets

CONSTANTS Clients, Workers, Tasks, None,
          Stopper    \* the client that owns the pool and may call Stop, or None

ASSUME ThreadsAssumption == /\ Clients \cap Workers = {} /\ IsFiniteSet(Clients \cup Workers)
                            /\ None \notin Clients \cup Workers \cup Tasks
                            /\ Stopper \in Clients \cup {None}
ASSUME TasksAssumption   == IsFiniteSet(Tasks)

Threads == Clients \cup Workers

VARIABLES buffer,     \* buffer_ of the queue
          open,       \* is_open_
          count,      \* count_ of the wait group
          pc,         \* pc[t]: where thread t is
          sub,        \* sub[t]: the task that thread t is submitting
          job,        \* job[w]: the task that worker w has taken
          ran,        \* history: the tasks whose Run has ended
          discarded   \* history: the tasks that were discarded

vars == <<buffer, open, count, pc, sub, job, ran, discarded>>

Init == /\ buffer = <<>> /\ open = TRUE /\ count = 0
        /\ pc = [t \in Threads |-> IF t \in Workers THEN "take" ELSE "idle"]
        /\ sub = [t \in Threads |-> None]
        /\ job = [w \in Workers |-> None]
        /\ ran = {} /\ discarded = {}

Outstanding == ToSet(buffer) \cup (({sub[t] : t \in Threads} \cup {job[w] : w \in Workers}) \ {None})
Fresh       == Tasks \ (Outstanding \cup ran \cup discarded)

\* The threads that sleep on not_empty_ and on has_waiting_.
TakeSleepers == {w \in Workers : pc[w] = "sleepTake"}
WaitSleepers == {c \in Clients : pc[c] = "sleepWait"}

\* The sleepers that notify_one may wake, of those in S.
OneOf(S) == IF S = {} THEN {{}} ELSE {{s} : s \in S}

Move(t, from, to) == /\ pc[t] = from
                     /\ pc' = [pc EXCEPT ![t] = to]

\* Thread t goes on at "to", and the threads of S from their wait.
Wake(t, from, to, S) ==
    /\ pc[t] = from
    /\ pc' = [u \in Threads |-> IF u = t THEN to
                                ELSE IF u \notin S THEN pc[u]
                                ELSE IF u \in Workers THEN "take" ELSE "wait"]

\* Where Execute returns to.
Caller(t) == IF t \in Workers THEN "run" ELSE "idle"

\* Mutations: Execute does not Add once the pool is stopped; Put notifies nobody;
\* Done notifies at the wrong count; Wait ignores the last task.
AddedIfOpen     == IF open THEN count + 1 ELSE count
NotifyNobody    == {{}}
OneEarly        == count - 1 = 1
BusyBeyondOne   == count > 1

\* count_ after Add; whether Put accepts; whom it wakes; what CloseImpl leaves in
\* buffer_; whether Done notifies; whether Wait goes on waiting.
Added           == count + 1
Accepts         == open
PutWakes        == OneOf(TakeSleepers)
Left            == <<>>
LastDone        == count - 1 = 0
Busy            == count > 0
-----------------------------------------------------------------------------
(* ThreadPool::Execute *)

Add(t) == /\ Move(t, Caller(t), "put")
          /\ \E k \in Fresh : sub' = [sub EXCEPT ![t] = k]
          /\ count' = Added
          /\ UNCHANGED <<buffer, open, job, ran, discarded>>

Put(t) == /\ \/ /\ Accepts
                /\ Move(t, "put", "notify")
                /\ buffer' = Append(buffer, sub[t])
                /\ UNCHANGED discarded
             \/ /\ ~Accepts
                /\ Move(t, "put", Caller(t))
                /\ discarded' = discarded \cup {sub[t]}
                /\ UNCHANGED buffer
          /\ sub' = [sub EXCEPT ![t] = None]
          /\ UNCHANGED <<open, count, job, ran>>

NotifyOne(t) == /\ \E S \in PutWakes : Wake(t, "notify", Caller(t), S)
                /\ UNCHANGED <<buffer, open, count, sub, job, ran, discarded>>

(* ThreadPool::WorkerRoutine *)

Take(w) == /\ \/ /\ buffer # <<>>
                 /\ Move(w, "take", "run")
                 /\ job' = [job EXCEPT ![w] = Head(buffer)]
                 /\ buffer' = Tail(buffer)
              \/ /\ buffer = <<>>
                 /\ Move(w, "take", IF open THEN "sleepTake" ELSE "exit")
                 /\ UNCHANGED <<job, buffer>>
           /\ UNCHANGED <<open, count, sub, ran, discarded>>

\* Run is noexcept: a task catches what its function throws.
Run(w) == /\ Move(w, "run", "done")
          /\ ran' = ran \cup {job[w]}
          /\ UNCHANGED <<buffer, open, count, sub, job, discarded>>

Done(w) == /\ Move(w, "done", IF LastDone THEN "notifyAll" ELSE "take")
           /\ count' = count - 1
           /\ job' = [job EXCEPT ![w] = None]
           /\ UNCHANGED <<buffer, open, sub, ran, discarded>>

NotifyAll(w) == /\ Wake(w, "notifyAll", "take", WaitSleepers)
                /\ UNCHANGED <<buffer, open, count, sub, job, ran, discarded>>

(* ThreadPool::WaitIdle *)

WaitIdle(c) == /\ Move(c, "idle", "wait")
               /\ UNCHANGED <<buffer, open, count, sub, job, ran, discarded>>

Wait(c) == /\ Move(c, "wait", IF Busy THEN "sleepWait" ELSE "idle")
           /\ UNCHANGED <<buffer, open, count, sub, job, ran, discarded>>

\* The condition variables may wake a thread that nobody has notified.
SpuriousWake(t) == /\ \/ t \in Workers /\ Move(t, "sleepTake", "take")
                      \/ t \in Clients /\ Move(t, "sleepWait", "wait")
                   /\ UNCHANGED <<buffer, open, count, sub, job, ran, discarded>>

(* ThreadPool::Stop *)

Cancel(c) == /\ c = Stopper /\ open
             /\ Move(c, "idle", "closed")
             /\ open' = FALSE
             /\ buffer' = Left
             /\ discarded' = discarded \cup (ToSet(buffer) \ ToSet(buffer'))
             /\ UNCHANGED <<count, sub, job, ran>>

Closed(c) == /\ Wake(c, "closed", "join", TakeSleepers)
             /\ UNCHANGED <<buffer, open, count, sub, job, ran, discarded>>

Join(c) == /\ \A w \in Workers : pc[w] = "exit"
           /\ Move(c, "join", "stopped")
           /\ UNCHANGED <<buffer, open, count, sub, job, ran, discarded>>

Step(t) == \/ Put(t) \/ NotifyOne(t)
           \/ t \in Workers /\ (Take(t) \/ Run(t) \/ Done(t) \/ NotifyAll(t))
           \/ t \in Clients /\ (Wait(t) \/ Closed(t) \/ Join(t))

Next == \E t \in Threads : \/ Add(t) \/ SpuriousWake(t) \/ Step(t)
                           \/ t \in Clients /\ (WaitIdle(t) \/ Cancel(t))

Spec == Init /\ [][Next]_vars

\* Threads are scheduled and tasks end; nothing obliges a client to submit a task,
\* to wait or to stop the pool, nor a condition variable to wake a thread unasked.
FairSpec == Spec /\ \A t \in Threads : WF_vars(Step(t))
-----------------------------------------------------------------------------
TypeOK == /\ buffer \in Seq(Tasks) /\ open \in BOOLEAN
          /\ count \in 0..Cardinality(Tasks)
          /\ pc \in [Threads -> {"idle", "put", "notify", "wait", "sleepWait", "closed",
                                 "join", "stopped", "take", "sleepTake", "run", "done",
                                 "notifyAll", "exit"}]
          /\ sub \in [Threads -> Tasks \cup {None}]
          /\ job \in [Workers -> Tasks \cup {None}]
          /\ ran \subseteq Tasks /\ discarded \subseteq Tasks

\* count_ is the number of tasks submitted and not yet ended, plus one for every
\* discarded task: neither Execute nor CloseImpl calls Done for those.
CountExact == count = Cardinality(Outstanding) + Cardinality(discarded)

\* A task is in one place: in the queue once, or with one thread, and nobody runs
\* or discards it again.
InOnePlace ==
    /\ IsInjective(buffer)
    /\ ToSet(buffer) \cap (ran \cup discarded) = {}
    /\ ran \cap discarded = {}
    /\ \A w \in Workers : job[w] # None =>
          /\ job[w] \notin ToSet(buffer) \cup discarded
          /\ \A v \in Workers \ {w} : job[v] # job[w]

\* No wakeup is lost between Put's unlock and its notify_one, although a worker
\* that was not asleep may take the task meanwhile: for every task in the queue
\* that no worker is on its way to take, a notification is still to be sent,
\* unless all the workers are awake already.
NoLostWakeup ==
    LET notifiers == {t \in Threads : pc[t] = "notify"}
        takers    == {w \in Workers : pc[w] = "take"}
    IN \/ Cardinality(takers \cup notifiers) >= Len(buffer)
       \/ TakeSleepers = {}

\* When WaitIdle returns, no task is queued, running or being submitted, whoever
\* submitted it, and none was discarded: a running task that submits others is
\* itself counted until they are.
IdleIsIdle(c) == pc[c] = "wait" /\ pc'[c] = "idle" => Outstanding = {} /\ discarded = {}

\* "Pending tasks will be discarded" (thread_pool.hpp:35): once Stop has cleared
\* the queue no worker begins a task, even one whose Execute had begun before.
NoStartAfterStop(w) == job'[w] # job[w] /\ job'[w] # None => open

\* What a return from WaitIdle and a stopped pool mean, in the middle of calls of
\* others.
PoolPromises == [][/\ \A c \in Clients : IdleIsIdle(c)
                   /\ \A w \in Workers : NoStartAfterStop(w)]_vars

\* When Stop has returned, the pool is quiet for ever: no worker touches it, and
\* every task ended, was discarded, or is in the hands of a client to be discarded.
StopIsFinal == Stopper # None /\ pc[Stopper] = "stopped" =>
                  /\ buffer = <<>>
                  /\ \A w \in Workers : pc[w] = "exit" /\ job[w] = None

\* The invariants of tasks and workers together: the count is exact, tasks have
\* one place, workers are not left asleep beside tasks, and Stop ends both.
PoolInvariant == TypeOK /\ CountExact /\ InOnePlace /\ NoLostWakeup /\ StopIsFinal

\* Every task submitted ends or is discarded.
TasksEnd == \A k \in Tasks : k \in Outstanding ~> k \in ran \cup discarded

\* "Waits until outstanding work count has reached zero" (thread_pool.hpp:31): a
\* WaitIdle returns once no task is outstanding.
WaitReturnsAlways == \A c \in Clients : pc[c] = "wait" ~> pc[c] = "idle"

\* Stop returns, because all workers see the closed queue and end; and as long as
\* it does not discard a task, every WaitIdle returns.
CallsReturn == \A c \in Clients :
                   /\ pc[c] \in {"closed", "join"} ~> pc[c] = "stopped"
                   /\ pc[c] = "wait" ~> pc[c] = "idle" \/ discarded # {}
=============================================================================
