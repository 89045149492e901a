------------------------------- MODULE Dining -------------------------------
(***************************************************************************)
(* dining::Philosopher of mutex/dining/philosopher.cpp.  The table (forks  *)
(* are standard mutexes, plates) is not in the repository: seat s sits     *)
(* between forks s and s + 1, and its right neighbour's plate lies beyond  *)
(* its right fork, which both of them need.                                *)
(***************************************************************************)
EXTENDS Naturals, FiniteSets

CONSTANT Seats  \* at the table

VARIABLES holder,  \* holder[f]: the philosopher with fork f, or Nobody
          pc       \* pc[s]: what the philosopher at seat s does next

vars == <<holder, pc>>

Seat   == 0..(Seats - 1)
Nobody == Seats

ToRight(s)   == (s + 1) % Seats
LeftFork(s)  == s
RightFork(s) == ToRight(s)

Init == holder = [f \in Seat |-> Nobody] /\ pc = [s \in Seat |-> "think"]

\* Mutation: everybody takes the left fork first.
AllLeft(s) == TRUE

\* The order in AcquireForks.
LeftFirst(s)  == s % 2 = 0
FirstFork(s)  == IF LeftFirst(s) THEN LeftFork(s) ELSE RightFork(s)
SecondFork(s) == IF LeftFirst(s) THEN RightFork(s) ELSE LeftFork(s)
-----------------------------------------------------------------------------
Move(s, from, to) == pc[s] = from /\ pc' = [pc EXCEPT ![s] = to]

Take(s, f) == holder[f] = Nobody /\ holder' = [holder EXCEPT ![f] = s]
Put(f)     == holder' = [holder EXCEPT ![f] = Nobody]

Hungry(s) == Move(s, "think", "first") /\ UNCHANGED holder

TakeFirst(s)  == Take(s, FirstFork(s)) /\ Move(s, "first", "second")
TakeSecond(s) == Take(s, SecondFork(s)) /\ Move(s, "second", "own plate")

EatOwn(s)   == Move(s, "own plate", "next plate") /\ UNCHANGED holder
EatNext(s)  == Move(s, "next plate", "put left") /\ UNCHANGED holder

PutLeft(s)  == Put(LeftFork(s)) /\ Move(s, "put left", "put right")
PutRight(s) == Put(RightFork(s)) /\ Move(s, "put right", "think")

Eat(s) == \/ TakeFirst(s) \/ TakeSecond(s) \/ EatOwn(s) \/ EatNext(s)
          \/ PutLeft(s) \/ PutRight(s)

Next == \E s \in Seat : Hungry(s) \/ Eat(s)

\* A philosopher goes on unless it waits for a fork.  Mutexes are not fair.
Fairness == \A s \in Seat : WF_vars(Eat(s))

Spec == Init /\ [][Next]_vars /\ Fairness
-----------------------------------------------------------------------------
\* The plates that a philosopher accesses.
Accesses(s) == CASE pc[s] = "own plate" -> {s}
                 [] pc[s] = "next plate" -> {ToRight(s)}
                 [] OTHER -> {}

\* No plate is accessed by two philosophers, although each eats from two.
NoPlateRace == \A s, r \in Seat : s # r => Accesses(s) \cap Accesses(r) = {}

\* No ring of philosophers waits in a circle: while somebody is hungry, somebody
\* gets to eat.
SomebodyEats == (\E s \in Seat : pc[s] = "first") ~> (\E s \in Seat : pc[s] = "own plate")
=============================================================================
