------------------------------- MODULE Strand -------------------------------
(***************************************************************************)
(* exe::executors::Strand (futures/executors/exe/executors/strand.cpp) on  *)
(* its intrusive LockFreeStack.  Clients, and the tasks of the strand      *)
(* themselves, call Execute; Workers are the threads of the underlying     *)
(* executor, which runs every job that Schedule gives it, on any thread.   *)
(* A task is its address: Run deletes it, and a later task may reuse it.   *)
(***************************************************************************)
EXTENDS Naturals, Sequences, SequencesExt, FiniteSets

CONSTANTS Clients, Workers, Tasks, None

ASSUME ThreadsAssumption == Clients \cap Workers = {}
ASSUME TasksAssumption   == IsFiniteSet(Tasks) /\ None \notin Tasks

Threads == Clients \cup Workers

VARIABLES top,        \* top_ of stack_
          next,       \* next[k]: next_ of task k
          scheduled,  \* scheduled_
          jobs,       \* the jobs of the strand in the underlying executor
          pc,         \* pc[t]: the access that thread t performs next
          node,       \* node[t]: the task that thread t is submitting
          tasks,      \* tasks[w]: the local deque of a job
          running,    \* running[w]: the task that worker w runs
          line        \* history: the tasks pushed and not begun, the oldest first

vars == <<top, next, scheduled, jobs, pc, node, tasks, running, line>>

Init == /\ top = None
        /\ next = [k \in Tasks |-> None]
        /\ scheduled = FALSE
        /\ jobs = 0
        /\ pc = [t \in Threads |-> "idle"]
        /\ node = [t \in Threads |-> None]
        /\ tasks = [w \in Workers |-> <<>>]
        /\ running = [w \in Workers |-> None]
        /\ line = <<>>

Live == ToSet(line) \cup (({node[t] : t \in Threads} \cup {running[w] : w \in Workers}) \ {None})

Move(t, from, to) == /\ pc[t] = from
                     /\ pc' = [pc EXCEPT ![t] = to]

\* Where Execute and Schedule return to: a task that runs, or nothing.
Caller(t) == IF t \in Workers /\ running[t] # None THEN "run" ELSE "idle"

\* The chain of next_ pointers from top_, the last pushed first.
Chain == LET at[i \in 0..Cardinality(Tasks)] ==
                 IF i = 0 THEN top ELSE IF at[i-1] = None THEN None ELSE next[at[i-1]]
             length == Cardinality({i \in 0..Cardinality(Tasks) : at[i] # None})
         IN [i \in 1..length |-> at[i-1]]

\* Mutations: a batch in the order of the stack; scheduled_ cleared and nothing
\* looked at afterwards; the flag tested with a load where it is exchanged; a
\* compare-and-swap that publishes over a newer top_.
AsStacked        == Chain
NoSecondLook     == "idle"
AlwaysSchedule(t) == "schedule"
BlindCas(t)      == TRUE

\* What PopAll returns; where a job goes on when it has cleared scheduled_; where
\* a thread goes on when the exchange returned TRUE; when a push succeeds.
Popped           == Reverse(Chain)
AfterClear       == "isEmpty"
Relinquish(t)    == Caller(t)
Unchanged(t)     == top = next[node[t]]
-----------------------------------------------------------------------------
(* Strand::Execute *)

Execute(t) == /\ Move(t, Caller(t), "push")
              /\ \E k \in Tasks \ Live :
                    /\ node' = [node EXCEPT ![t] = k]
                    /\ next' = [next EXCEPT ![k] = top]
              /\ UNCHANGED <<top, scheduled, jobs, tasks, running, line>>

Push(t) == /\ \/ /\ Move(t, "push", "exchange")
                 /\ Unchanged(t)
                 /\ top' = node[t]
                 /\ line' = Append(line, node[t])
                 /\ node' = [node EXCEPT ![t] = None]
                 /\ UNCHANGED next
              \/ /\ pc[t] = "push" /\ top # next[node[t]]
                 /\ next' = [next EXCEPT ![node[t]] = top]
                 /\ UNCHANGED <<top, pc, node, line>>
           /\ UNCHANGED <<scheduled, jobs, tasks, running>>

\* scheduled_.exchange(true), in Execute and at the end of a job.
Exchange(t) == /\ Move(t, "exchange", IF scheduled THEN Relinquish(t) ELSE "schedule")
               /\ scheduled' = TRUE
               /\ UNCHANGED <<top, next, jobs, node, tasks, running, line>>

Schedule(t) == /\ Move(t, "schedule", Caller(t))
               /\ jobs' = jobs + 1
               /\ UNCHANGED <<top, next, scheduled, node, tasks, running, line>>

(* The job that Schedule submits *)

Start(w) == /\ jobs > 0
            /\ Move(w, "idle", "popAll")
            /\ jobs' = jobs - 1
            /\ UNCHANGED <<top, next, scheduled, node, tasks, running, line>>

PopAll(w) == /\ Move(w, "popAll", "next")
             /\ tasks' = [tasks EXCEPT ![w] = Popped]
             /\ top' = None
             /\ UNCHANGED <<next, scheduled, jobs, node, running, line>>

Begin(w) == /\ tasks[w] # <<>>
            /\ Move(w, "next", "run")
            /\ running' = [running EXCEPT ![w] = Head(tasks[w])]
            /\ tasks' = [tasks EXCEPT ![w] = Tail(@)]
            /\ line' = RemoveFirst(line, Head(tasks[w]))
            /\ UNCHANGED <<top, next, scheduled, jobs, node>>

End(w) == /\ Move(w, "run", "next")
          /\ running' = [running EXCEPT ![w] = None]
          /\ UNCHANGED <<top, next, scheduled, jobs, node, tasks, line>>

Clear(w) == /\ tasks[w] = <<>>
            /\ Move(w, "next", AfterClear)
            /\ scheduled' = FALSE
            /\ UNCHANGED <<top, next, jobs, node, tasks, running, line>>

IsEmpty(w) == /\ Move(w, "isEmpty", IF top = None THEN "idle" ELSE "exchange")
              /\ UNCHANGED <<top, next, scheduled, jobs, node, tasks, running, line>>

Job(w) == Start(w) \/ PopAll(w) \/ Begin(w) \/ End(w) \/ Clear(w) \/ IsEmpty(w)

Step(t) == Push(t) \/ Exchange(t) \/ Schedule(t) \/ (t \in Workers /\ Job(t))

Next == \E t \in Threads : Execute(t) \/ Step(t)

Spec == Init /\ [][Next]_vars

\* Threads are scheduled, the underlying executor runs its jobs, and a task ends,
\* however often it submits others before; nobody has to submit a task.
Fairness == /\ \A t \in Threads : WF_vars(Push(t) \/ Exchange(t) \/ Schedule(t))
            /\ \A w \in Workers : WF_vars(Job(w) /\ pc[w] # "run") /\ SF_vars(End(w))
-----------------------------------------------------------------------------
\* The job of the strand exists once: queued in the underlying executor, about to
\* be scheduled, or running; and scheduled_ is set as long as it does.
InJob(w) == running[w] # None \/ pc[w] \in {"popAll", "next", "run"}
Holders  == {t \in Threads : pc[t] = "schedule" \/ (t \in Workers /\ InJob(t))}
OneJob == /\ \A t, u \in Holders : t = u
          /\ jobs > 0 => jobs = 1 /\ Holders = {}
          /\ ~scheduled => jobs = 0 /\ Holders = {}

\* Tasks of a strand run one at a time.
Serial == \A v, w \in Workers : running[v] # None /\ running[w] # None => v = w

\* No task is stranded in the stack: while it is not empty the job exists, or a
\* thread is about to look at scheduled_, or at the stack once more.
NoStrandedTask == top # None => \/ scheduled
                                \/ \E t \in Threads : pc[t] \in {"exchange", "isEmpty"}

AS == INSTANCE AbstractStrand
          WITH current <- IF \A w \in Workers : running[w] = None THEN None
                          ELSE running[CHOOSE w \in Workers : running[w] # None]

\* "Executes (via underlying executor) tasks non-concurrently and in FIFO order"
\* (strand.hpp:14): in the order of their pushes, addresses reused or not.
ImplementsStrand == AS!Spec

\* A task that has been pushed is executed, whatever the others submit.
EveryTaskRuns == AS!EveryTaskRuns
=============================================================================
