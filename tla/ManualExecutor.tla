--------------------------- MODULE ManualExecutor ---------------------------
(***************************************************************************)
(* ManualExecutor and InlineExecutor of futures/executors/exe/executors,   *)
(* on one thread: tasks are queued by Execute and run inside of RunAtMost, *)
(* RunNext or Drain.  A task that runs may queue others, run the queue     *)
(* again from inside, or give a task to the inline executor, so that the   *)
(* calls nest.  A task is its address, deleted when it has run.            *)
(***************************************************************************)
EXTENDS Naturals, Sequences, SequencesExt

\* MaxDepth and MaxRun bound the model: calls that nest, and tasks that are run.
CONSTANTS Tasks, MaxLimit, MaxDepth, MaxRun

VARIABLES queue,      \* tasks_
          calls,      \* the calls on the stack, the innermost last
          completed,  \* history: how many tasks of the queue have ended
          reported    \* history: the sum of what calls have returned to callers

vars == <<queue, calls, completed, reported>>

Init == queue = <<>> /\ calls = <<>> /\ completed = 0 /\ reported = 0

\* A call of RunAtMost(limit), with its i, or of Drain, with its count; a task
\* run from the queue or inline.
Runs(limit) == [does |-> "run", limit |-> limit, i |-> 0]
Drains      == [does |-> "drain", limit |-> 0, i |-> 0]
Task(k, by) == [does |-> by, task |-> k]

Running  == {calls[d].task : d \in {e \in DOMAIN calls : "task" \in DOMAIN calls[e]}}
InTask   == calls # <<>> => Last(calls).does \in {"task", "inline"}
Call(c)  == Len(calls) < MaxDepth /\ calls' = Append(calls, c)
Return   == calls' = Front(calls)

\* Mutation: the limit is passed by one.
LimitPassed(c) == c.i > c.limit

\* What the end of a task adds to i and count; the end of the loop of RunAtMost.
Counted    == 1
AtLimit(c) == c.i = c.limit
-----------------------------------------------------------------------------
Execute(k) == /\ InTask /\ k \notin ToSet(queue) \cup Running
              /\ queue' = Append(queue, k)
              /\ UNCHANGED <<calls, completed, reported>>

InlineExecute(k) == /\ InTask /\ k \notin ToSet(queue) \cup Running
                    /\ Call(Task(k, "inline"))
                    /\ UNCHANGED <<queue, completed, reported>>

RunAtMost(limit) == /\ InTask /\ Call(Runs(limit))
                    /\ UNCHANGED <<queue, completed, reported>>

Drain == /\ InTask /\ Call(Drains)
         /\ UNCHANGED <<queue, completed, reported>>

\* The loop of either: the next task, or the return.
Loops == calls # <<>> /\ Last(calls).does \in {"run", "drain"}

Ends == queue = <<>> \/ (Last(calls).does = "run" /\ AtLimit(Last(calls)))

RunFront == /\ completed < MaxRun /\ Loops /\ ~Ends
            /\ Call(Task(Head(queue), "task"))
            /\ queue' = Tail(queue)
            /\ UNCHANGED <<completed, reported>>

ReturnCount == /\ Loops /\ Ends
               /\ reported' = reported + Last(calls).i
               /\ Return
               /\ UNCHANGED <<queue, completed>>

EndTask == /\ calls # <<>> /\ Last(calls).does = "task"
           /\ calls' = [Front(calls) EXCEPT ![Len(calls) - 1].i = @ + Counted]
           /\ completed' = completed + 1
           /\ UNCHANGED <<queue, reported>>

EndInline == /\ calls # <<>> /\ Last(calls).does = "inline"
             /\ Return
             /\ UNCHANGED <<queue, completed, reported>>

Next == \/ RunFront \/ ReturnCount \/ EndTask \/ EndInline \/ Drain
        \/ \E limit \in 1..MaxLimit : RunAtMost(limit)
        \/ \E k \in Tasks : Execute(k) \/ InlineExecute(k)

Spec == Init /\ [][Next]_vars
-----------------------------------------------------------------------------
\* "Returns number of completed tasks": however calls nest, every task is counted
\* by one of them, and no call takes more than its limit; a Drain that returns
\* leaves no task, even when tasks have queued others.
Pending == LET i[d \in 0..Len(calls)] ==
                   IF d = 0 THEN 0
                   ELSE i[d-1] + (IF "i" \in DOMAIN calls[d] THEN calls[d].i ELSE 0)
           IN i[Len(calls)]

CountsTasks == /\ completed = reported + Pending
               /\ \A d \in DOMAIN calls : calls[d].does = "run" => calls[d].i <= calls[d].limit

DrainsAll == [][\A d \in DOMAIN calls : calls[d].does = "drain" /\ Len(calls') < d
                                            => queue' = <<>>]_vars
=============================================================================
