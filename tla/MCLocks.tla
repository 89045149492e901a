------------------------------- MODULE MCLocks ------------------------------
(***************************************************************************)
(* The small components of mutex/, and the barrier of condvar/: a          *)
(* behaviour is one of TicketLock, either SpinLock, Mutexed, the           *)
(* philosophers, the simulations or CyclicBarrier, each on variables of    *)
(* its own; lives says which.                                              *)
(***************************************************************************)
EXTENDS Naturals, FiniteSets

CONSTANTS Users,         \* the threads of the locks
          Participants,  \* the threads of the barrier
          MaxTicket, MaxUpdates, Seats, Iterations

ASSUME McAssumption == /\ {MaxTicket, MaxUpdates} \subseteq Nat
                       /\ Seats \in Nat \ {0, 1} /\ Iterations \in Nat \ {0}
                       /\ IsFiniteSet(Participants) /\ Participants # {}

VARIABLES lives, next_free, tkOwner, ticket, tkPc, locked, spPc, holder, dnPc,
          object, mutex, mxPc, seen, updates,
          waiting_counts, barrier_state, current_state, cbPc,
          test, stage, ready, smPc, held, waiting, count, entered, outcome

tkVars == <<next_free, tkOwner, ticket, tkPc>>
spVars == <<locked, spPc>>
mxVars == <<object, mutex, mxPc, seen, updates>>
dnVars == <<holder, dnPc>>
cbVars == <<waiting_counts, barrier_state, current_state, cbPc>>
smVars == <<test, stage, ready, smPc, held, waiting, count, entered, outcome>>
allVars == <<lives, tkVars, spVars, mxVars, dnVars, cbVars, smVars>>

TK  == INSTANCE TicketLock WITH Threads <- Users, owner <- tkOwner, pc <- tkPc
TAS == INSTANCE SpinLock WITH Threads <- Users, TestFirst <- FALSE, pc <- spPc
TTS == INSTANCE SpinLock WITH Threads <- Users, TestFirst <- TRUE, pc <- spPc
MX  == INSTANCE Mutexed WITH Threads <- Users, pc <- mxPc
DN  == INSTANCE Dining WITH pc <- dnPc
CB  == INSTANCE CyclicBarrier WITH Threads <- Participants, pc <- cbPc
SM  == INSTANCE Simulations WITH pc <- smPc

McInit == /\ lives \in {"ticket", "tas", "ttas", "mutexed", "dining", "barrier", "simulation"}
          /\ TK!Init /\ TAS!Init /\ MX!Init /\ DN!Init /\ CB!Init /\ SM!Init
          /\ lives # "simulation" => test = "OneFiber"

TicketStep  == /\ lives = "ticket" /\ TK!Next
               /\ UNCHANGED <<spVars, mxVars, dnVars, cbVars, smVars>>
SpinStep    == /\ \/ lives = "tas" /\ TAS!Next
                  \/ lives = "ttas" /\ TTS!Next
               /\ UNCHANGED <<tkVars, mxVars, dnVars, cbVars, smVars>>
ObjectStep  == /\ lives = "mutexed" /\ MX!Next
               /\ UNCHANGED <<tkVars, spVars, dnVars, cbVars, smVars>>
DiningStep  == /\ lives = "dining" /\ DN!Next
               /\ UNCHANGED <<tkVars, spVars, mxVars, cbVars, smVars>>
BarrierStep == /\ lives = "barrier" /\ CB!Next
               /\ UNCHANGED <<tkVars, spVars, mxVars, dnVars, smVars>>
SimStep     == /\ lives = "simulation" /\ SM!Next
               /\ UNCHANGED <<tkVars, spVars, mxVars, dnVars, cbVars>>

McNext == /\ UNCHANGED lives
          /\ \/ TicketStep \/ SpinStep \/ ObjectStep \/ DiningStep
             \/ BarrierStep \/ SimStep

\* The fairness of each component says nothing of one that does not run, whose
\* fair steps are disabled; only the simulation could start, and the spinlocks
\* share their variables.
SpinInside(t) == \/ lives = "tas" /\ TAS!Inside(t)
                 \/ lives = "ttas" /\ TTS!Inside(t)

McSpec == /\ McInit /\ [][McNext]_allVars
          /\ TK!Fairness /\ DN!Fairness /\ CB!Fairness
          /\ \A t \in Users : WF_spVars(SpinInside(t))
          /\ WF_smVars(lives = "simulation" /\ SM!Next)

\* The flag excludes, with and without the test first; operations on a Mutexed object
\* are atomic; forks guard the plates.  See SpinLock, Mutexed and Dining.
LocksAreSafe == TAS!Excludes /\ MX!UpdatesAreAtomic /\ DN!NoPlateRace

\* The tickets' lock serves in order, TryLock included: see TicketLock.
TicketsServeInOrder == TK!ServesInOrder

\* Everybody who draws a ticket gets the lock, a flag keeps being acquired, and the
\* order of the forks has no cycle.
LocksProgress == TK!NoStarvation /\ TAS!Progress /\ DN!SomebodyEats

\* The barrier's counters are right in overlapping rounds, nobody passes early, and
\* everybody passes: see CyclicBarrier.
CountersHold      == CB!CountersHold
ImplementsBarrier == CB!ImplementsBarrier
EverybodyPasses   == CB!EverybodyPasses

\* See Simulations: two end in the deadlock, the other never ends.
SimulationsBreak == (lives = "simulation") => SM!Deadlocks /\ SM!LivesLocked
=============================================================================
