----------------------------- MODULE Coroutine ------------------------------
(***************************************************************************)
(* exe::coroutine::Coroutine (coroutine/standalone.cpp, the same in the    *)
(* three copies of fibers/): Resume switches to the coroutine and, through *)
(* the thread-local pointer current, Suspend finds the one to switch from. *)
(* A coroutine may resume others, on any thread; it may be resumed on one  *)
(* thread and later on another.  A caller resumes only a coroutine that    *)
(* has suspended or not started, and none that has completed.              *)
(***************************************************************************)
EXTENDS Naturals, Sequences, SequencesExt, FiniteSets

CONSTANTS Coroutines, Threads, Nobody

VARIABLES calls,   \* calls[t]: the coroutines whose contexts are active on t, nested
          current, \* current[t]: the thread-local pointer
          prev,    \* prev[c]: the local of the Resume that c has been resumed by
          state    \* state[c]: not running, running, completed, or completed by an exception

vars == <<calls, current, prev, state>>

Init == /\ calls = [t \in Threads |-> <<>>]
        /\ current = [t \in Threads |-> Nobody]
        /\ prev = [c \in Coroutines |-> Nobody]
        /\ state = [c \in Coroutines |-> "suspended"]

\* current.Exchange(this), and SwitchTo.
Resume(t, c) == /\ state[c] = "suspended"
                /\ prev' = [prev EXCEPT ![c] = current[t]]
                /\ current' = [current EXCEPT ![t] = c]
                /\ calls' = [calls EXCEPT ![t] = Append(@, c)]
                /\ state' = [state EXCEPT ![c] = "running"]

\* The coroutine that runs switches back, and its resumer rolls current back, also
\* when Resume rethrows what the routine has thrown.
Back(t, to) == LET c == Last(calls[t])
               IN /\ calls[t] # <<>>
                  /\ calls' = [calls EXCEPT ![t] = Front(@)]
                  /\ current' = [current EXCEPT ![t] = prev[c]]
                  /\ state' = [state EXCEPT ![c] = to]
                  /\ UNCHANGED prev

\* The static Suspend: of the coroutine that current names.
Suspend(t) == /\ calls[t] # <<>> /\ current[t] = Last(calls[t])
              /\ Back(t, "suspended")

Run(t) == Back(t, "completed") \/ Back(t, "thrown")

Next == \E t \in Threads : \/ \E c \in Coroutines : Resume(t, c)
                           \/ Suspend(t) \/ Run(t)
-----------------------------------------------------------------------------
\* On every thread current names the innermost coroutine, and nobody outside of all: so
\* a coroutine that has resumed another one can still suspend itself, and Suspend
\* outside of a coroutine is seen to be that.  No coroutine runs twice.
CurrentIsInnermost ==
    /\ \A t \in Threads : current[t] = IF calls[t] = <<>> THEN Nobody ELSE Last(calls[t])
    /\ \A t \in Threads : IsInjective(calls[t])
    /\ \A c \in Coroutines : Cardinality({t \in Threads : Contains(calls[t], c)})
                                = IF state[c] = "running" THEN 1 ELSE 0
=============================================================================
