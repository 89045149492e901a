---------------------------- MODULE MCExecutors -----------------------------
(***************************************************************************)
(* The executors that are built on others or run by hand: a behaviour is   *)
(* one of Strand or of ManualExecutor; lives says which.                   *)
(***************************************************************************)
EXTENDS Strand

CONSTANTS MaxLimit, MaxDepth, MaxRun

VARIABLES lives, todo, calls, completed, reported

mVars == <<todo, calls, completed, reported>>

ME == INSTANCE ManualExecutor WITH queue <- todo

MCInit == lives \in {"strand", "manual"} /\ Init /\ ME!Init

MCNext == /\ UNCHANGED lives
          /\ \/ lives = "strand" /\ Next /\ UNCHANGED mVars
             \/ lives = "manual" /\ ME!Next /\ UNCHANGED vars

\* The fairness of Strand; nothing of the manual executor has to happen.
MCSpec == MCInit /\ [][MCNext]_<<vars, lives, mVars>> /\ Fairness

\* Calls of the manual executor count what they run, and Drain drains.
ManualCounts == [](lives = "manual" => ME!CountsTasks) /\ ME!DrainsAll
=============================================================================
