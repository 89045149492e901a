------------------------------ MODULE TaskPool ------------------------------
(***************************************************************************)
(* The pool of condvar/thread-pool/tp and its copies in fibers/*/exe/tp,   *)
(* by what they do otherwise than the compute pool of ThreadPool: every    *)
(* notification is notify_all, Done notifies at any count, a task may      *)
(* throw, and a task that Put refuses is dropped with its function.  The   *)
(* first of them notifies under the mutex, the copies after the unlock.    *)
(***************************************************************************)
EXTENDS ThreadPool

VARIABLE kind  \* which of the pools: "compute", "condvar" or "fibers"

\* Where the worker goes on after an exception of the task.
AfterThrow == "done"
-----------------------------------------------------------------------------
(* Put and CloseImpl under the mutex, with the notification *)

PutAndNotify(t) == /\ kind = "condvar" /\ Accepts
                   /\ Wake(t, "put", Caller(t), TakeSleepers)
                   /\ buffer' = Append(buffer, sub[t])
                   /\ sub' = [sub EXCEPT ![t] = None]
                   /\ UNCHANGED <<open, count, job, ran, discarded>>

CancelAndNotify(c) == /\ kind = "condvar" /\ c = Stopper /\ open
                      /\ Wake(c, "idle", "join", TakeSleepers)
                      /\ open' = FALSE /\ buffer' = Left
                      /\ discarded' = discarded \cup (ToSet(buffer) \ ToSet(buffer'))
                      /\ UNCHANGED <<count, sub, job, ran>>

(* Put after the unlock *)

NotifyTakers(t) == /\ kind = "fibers"
                   /\ Wake(t, "notify", Caller(t), TakeSleepers)
                   /\ UNCHANGED <<buffer, open, count, sub, job, ran, discarded>>

(* WorkerRoutine and WaitGroup::Done *)

Throw(w) == /\ kind # "compute"
            /\ Move(w, "run", AfterThrow)
            /\ ran' = ran \cup {job[w]}
            /\ UNCHANGED <<buffer, open, count, sub, job, discarded>>

DoneAndNotify(w) == /\ kind # "compute"
                    /\ Move(w, "done", "notifyAll")
                    /\ count' = count - 1
                    /\ job' = [job EXCEPT ![w] = None]
                    /\ UNCHANGED <<buffer, open, sub, ran, discarded>>

\* The steps that the pools share, and those of one or two of them.
Common(t) == \/ t \in Workers /\ (Take(t) \/ Run(t) \/ NotifyAll(t))
             \/ t \in Clients /\ (Wait(t) \/ Closed(t) \/ Join(t))

PoolStep(t) ==
    \/ Common(t) \/ PutAndNotify(t) \/ NotifyTakers(t)
    \/ (kind = "condvar" => ~Accepts) /\ Put(t)
    \/ kind = "compute" /\ NotifyOne(t)
    \/ t \in Workers /\ (Throw(t) \/ DoneAndNotify(t))
    \/ kind = "compute" /\ t \in Workers /\ Done(t)

PoolCall(t) == \/ Add(t) \/ SpuriousWake(t) \/ CancelAndNotify(t)
               \/ t \in Clients /\ WaitIdle(t)
               \/ kind # "condvar" /\ t \in Clients /\ Cancel(t)

PoolInit == Init /\ kind \in {"compute", "condvar", "fibers"}

PoolNext == UNCHANGED kind /\ \E t \in Threads : PoolCall(t) \/ PoolStep(t)

\* As in ThreadPool.
PoolSpec == /\ PoolInit /\ [][PoolNext]_<<vars, kind>>
            /\ \A t \in Threads : WF_vars(PoolStep(t))
=============================================================================
