---------------------------- MODULE Philosophers ----------------------------
(***************************************************************************)
(* pthreads/laboratory_work_#9: dining philosophers who take the fork with *)
(* the smaller number first, and eat until the dishes run out.  Forks are  *)
(* mutexes; foodlock is only held over steps of one thread.                *)
(***************************************************************************)
EXTENDS Naturals, FiniteSets

CONSTANTS PHILO,   \* philosophers, and forks
          FOOD     \* what the counter of dishes starts from

(* A single philosopher would lock one mutex twice.                        *)
ASSUME PhiloAssumption == PHILO \in Nat /\ PHILO >= 2
ASSUME FoodAssumption == FOOD \in Nat \ {0}

Philos == 0 .. PHILO - 1
Forks == Philos
Nobody == PHILO

VARIABLES food,   \* food_on_table's static counter
          forks,  \* of each fork: who has it
          f,      \* of each philosopher: the dish in hand, 0 for none
          meals,  \* dishes eaten so far
          pc

vars == <<food, forks, f, meals, pc>>

Init == /\ food = FOOD
        /\ forks = [k \in Forks |-> Nobody]
        /\ f = [p \in Philos |-> 0]
        /\ meals = 0
        /\ pc = [p \in Philos |-> "table"]

Goto(p, there) == pc' = [pc EXCEPT ![p] = there]

right_fork(p) == p
left_fork(p) == IF p + 1 = PHILO THEN 0 ELSE p + 1

\* Mutant: the right fork is always first.
RightFirst(p) == <<right_fork(p), left_fork(p)>>

\* min and max: the order in which a philosopher takes the forks.
ForkOrder(p) == IF right_fork(p) < left_fork(p) THEN <<right_fork(p), left_fork(p)>>
                                                ELSE <<left_fork(p), right_fork(p)>>
MinFork(p) == ForkOrder(p)[1]
MaxFork(p) == ForkOrder(p)[2]

-----------------------------------------------------------------------------
\* Mutants: the counter is returned before it is decremented; a philosopher
\* who finds no food asks again.
ServeLast(p) == /\ pc[p] = "table"
                /\ food' = IF food > 0 THEN food - 1 ELSE food
                /\ f' = [f EXCEPT ![p] = food]
                /\ Goto(p, IF food = 0 THEN "done" ELSE "min")
                /\ UNCHANGED <<forks, meals>>
AskAgain(p) == /\ pc[p] = "table"
               /\ food' = IF food > 0 THEN food - 1 ELSE food
               /\ f' = [f EXCEPT ![p] = food']
               /\ Goto(p, IF food' = 0 THEN "table" ELSE "min")
               /\ UNCHANGED <<forks, meals>>

\* What is left after this dish is its number, so the last dish is number 0
\* and counts as no food.
food_on_table(p) == /\ pc[p] = "table"
                    /\ food' = IF food > 0 THEN food - 1 ELSE food
                    /\ f' = [f EXCEPT ![p] = food']
                    /\ Goto(p, IF food' = 0 THEN "done" ELSE "min")
                    /\ UNCHANGED <<forks, meals>>

\* Mutant: a fork is taken from whoever has it.
Snatch(p, k) == forks' = [forks EXCEPT ![k] = p]

get_fork(p, k) == forks[k] = Nobody /\ forks' = [forks EXCEPT ![k] = p]

GetMin(p) == /\ pc[p] = "min"
             /\ get_fork(p, MinFork(p))
             /\ Goto(p, "max")
             /\ UNCHANGED <<food, f, meals>>

GetMax(p) == /\ pc[p] = "max"
             /\ get_fork(p, MaxFork(p))
             /\ Goto(p, "eat")
             /\ UNCHANGED <<food, f, meals>>

Eat(p) == /\ pc[p] = "eat"
          /\ meals' = meals + 1
          /\ f' = [f EXCEPT ![p] = 0]
          /\ Goto(p, "down")
          /\ UNCHANGED <<food, forks>>

\* down_forks(max, min): two unlocks.
DownMax(p) == /\ pc[p] = "down"
              /\ forks' = [forks EXCEPT ![MaxFork(p)] = Nobody]
              /\ Goto(p, "down_min")
              /\ UNCHANGED <<food, f, meals>>

DownMin(p) == /\ pc[p] = "down_min"
              /\ forks' = [forks EXCEPT ![MinFork(p)] = Nobody]
              /\ Goto(p, "table")
              /\ UNCHANGED <<food, f, meals>>

philosopher(p) == \/ food_on_table(p) \/ GetMin(p) \/ GetMax(p) \/ Eat(p)
                  \/ DownMax(p) \/ DownMin(p)

\* main has joined everybody.
Terminated == /\ \A p \in Philos : pc[p] = "done"
              /\ UNCHANGED vars

Next == (\E p \in Philos : philosopher(p)) \/ Terminated

Spec == Init /\ [][Next]_vars /\ \A p \in Philos : WF_vars(philosopher(p))

-----------------------------------------------------------------------------
\* A fork is with a philosopher or nobody; counters are numbers.
TypeOK == /\ food \in 0 .. FOOD
          /\ forks \in [Forks -> Philos \cup {Nobody}]
          /\ f \in [Philos -> 0 .. FOOD - 1]
          /\ meals \in Nat
          /\ pc \in [Philos -> {"table", "min", "max", "eat", "down", "down_min", "done"}]

\* No two philosophers who share a fork eat at the same time.
NeighboursTakeTurns ==
    \A p, q \in Philos :
        /\ p # q
        /\ {MinFork(p), MaxFork(p)} \cap {MinFork(q), MaxFork(q)} # {}
        => ~(pc[p] = "eat" /\ pc[q] = "eat")

\* There is no circle of philosophers each waiting for a fork of the next.
Blocked(p) == \/ pc[p] = "min" /\ forks[MinFork(p)] # Nobody
              \/ pc[p] = "max" /\ forks[MaxFork(p)] # Nobody

NoCircularWait == \/ \A p \in Philos : pc[p] = "done"
                  \/ \E p \in Philos : pc[p] # "done" /\ ~Blocked(p)

\* The dinner ends: nobody waits for a fork for ever, and no dish is lost or
\* eaten twice, whoever asks for the last ones at the same time.  (The dish with
\* the number 0 is nobody's.)
AllEnd == <>((\A p \in Philos : pc[p] = "done") /\ meals = FOOD - 1)
=============================================================================
