-------------------------- MODULE MutexesProofs -----------------------------
(***************************************************************************)
(* For any number of philosophers and dishes: neighbours take turns, and   *)
(* there is no deadlock.  The invariant says that a fork is with exactly   *)
(* the philosopher whose place in the program says so; deadlock freedom    *)
(* follows from it because forks are taken in ascending order, so a        *)
(* blocked philosopher who has a fork waits for a greater one.             *)
(*                                                                         *)
(* For any number of lines: the two threads of #10 print in turns.  The    *)
(* invariant counts the mutexes each of them has walked past: the child is *)
(* one or two ahead, and a third step would need the mutex the parent has. *)
(***************************************************************************)
EXTENDS MCMutexes, FiniteSetTheorems, WellFoundedInduction, TLAPS

Holds(p, k) == \/ pc[p] \in {"max", "down_min"} /\ k = MinFork(p)
               \/ pc[p] \in {"eat", "down"} /\ k \in {MinFork(p), MaxFork(p)}

ForksHeld == \A k \in Forks, p \in Philos : forks[k] = p <=> Holds(p, k)

\* A philosopher has a dish from the table until it is eaten.
DishInHand == \A p \in Philos : f[p] > 0 <=> pc[p] \in {"min", "max", "eat"}

IInv == TypeOK /\ ForksHeld /\ DishInHand

-----------------------------------------------------------------------------
\* Everybody takes two different forks, the smaller one first.
LEMMA ForkOrderAscends ==
    ASSUME NEW p \in Philos
    PROVE  MinFork(p) \in Forks /\ MaxFork(p) \in Forks /\ MinFork(p) < MaxFork(p)
BY PhiloAssumption, SMT
   DEF MinFork, MaxFork, ForkOrder, right_fork, left_fork, Philos, Forks

\* A set of forks that is not empty has a greatest one.
LEMMA GreatestFork ==
    ASSUME NEW S \in SUBSET Forks, S # {}
    PROVE  \E k \in S : \A j \in S : j <= k
<1> DEFINE M == {PHILO - k : k \in S}
<1>1. M \subseteq Nat /\ M # {}
  <2>1. \A k \in S : PHILO - k \in Nat
    BY PhiloAssumption, SMT DEF Forks, Philos
  <2> QED
    BY <2>1
<1>2. PICK d \in M : \A n \in M : ~(<<n, d>> \in OpToRel(<, Nat))
  BY <1>1, NatLessThanWellFounded, WFMin, Zenon
<1>3. \A n \in M : d <= n
  <2> SUFFICES ASSUME NEW n \in M PROVE d <= n
    OBVIOUS
  <2>1. d \in Nat /\ n \in Nat
    BY <1>1
  <2>2. <<n, d>> \in Nat \X Nat /\ <<n, d>>[1] = n /\ <<n, d>>[2] = d
    BY <2>1
  <2>3. ~(n < d)
    BY <1>2, <2>2, Zenon DEF OpToRel
  <2> QED
    BY <2>1, <2>3, SMT
<1>4. PICK k \in S : d = PHILO - k
  BY <1>2
<1>5. \A j \in S : j <= k
  <2> SUFFICES ASSUME NEW j \in S PROVE j <= k
    OBVIOUS
  <2>1. d <= PHILO - j
    BY <1>3
  <2> QED
    BY <1>4, <2>1, PhiloAssumption, SMT DEF Forks, Philos
<1> QED
  BY <1>5

-----------------------------------------------------------------------------
\* At the start nobody holds a fork or a dish, so the invariant holds.
LEMMA InitIInv == Init => IInv
BY PhiloAssumption, FoodAssumption, SMT
   DEF Init, IInv, TypeOK, ForksHeld, DishInHand, Holds, Philos, Forks, Nobody

\* Every step keeps the types: forks name philosophers or nobody, and dishes
\* are numbers up to FOOD.
LEMMA NextTypeOK == IInv /\ [Next]_vars => TypeOK'
<1> SUFFICES ASSUME IInv, [Next]_vars PROVE TypeOK'
  OBVIOUS
<1> USE PhiloAssumption, FoodAssumption DEF IInv, TypeOK, Goto
<1>1. ASSUME NEW p \in Philos, food_on_table(p) PROVE TypeOK'
  BY <1>1, SMT DEF food_on_table
<1>2. ASSUME NEW p \in Philos, GetMin(p) PROVE TypeOK'
  BY <1>2, ForkOrderAscends, SMT DEF GetMin, get_fork
<1>3. ASSUME NEW p \in Philos, GetMax(p) PROVE TypeOK'
  BY <1>3, ForkOrderAscends, SMT DEF GetMax, get_fork
<1>4. ASSUME NEW p \in Philos, Eat(p) PROVE TypeOK'
  BY <1>4, SMT DEF Eat
<1>5. ASSUME NEW p \in Philos, DownMax(p) PROVE TypeOK'
  BY <1>5, ForkOrderAscends, SMT DEF DownMax
<1>6. ASSUME NEW p \in Philos, DownMin(p) PROVE TypeOK'
  BY <1>6, ForkOrderAscends, SMT DEF DownMin
<1>7. CASE UNCHANGED vars
  BY <1>7 DEF vars
<1> QED
  BY <1>1, <1>2, <1>3, <1>4, <1>5, <1>6, <1>7 DEF Next, philosopher, Terminated

\* A step of p changes the forks p holds as its place in the program changes,
\* and takes a fork only when nobody holds it.
LEMMA NextForksHeld == IInv /\ [Next]_vars => ForksHeld'
<1> SUFFICES ASSUME IInv, [Next]_vars,
                    NEW k \in Forks, NEW q \in Philos
             PROVE  (forks[k] = q <=> Holds(q, k))'
  BY DEF ForksHeld
<1>0. /\ pc \in [Philos -> {"table", "min", "max", "eat", "down", "down_min", "done"}]
      /\ forks \in [Forks -> Philos \cup {Nobody}]
      /\ Nobody \notin Philos
      /\ forks[k] = q <=> Holds(q, k)
  BY PhiloAssumption, SMT DEF IInv, TypeOK, ForksHeld, Nobody, Philos
<1>a. /\ MinFork(q) \in Forks /\ MaxFork(q) \in Forks
      /\ MinFork(q) # MaxFork(q)
  BY ForkOrderAscends, PhiloAssumption, SMT DEF Forks, Philos
<1>b. MinFork(q)' = MinFork(q) /\ MaxFork(q)' = MaxFork(q)
  BY DEF MinFork, MaxFork, ForkOrder, right_fork, left_fork
<1> USE <1>0, <1>a, <1>b DEF Holds, Goto
<1>1. ASSUME NEW p \in Philos, food_on_table(p) PROVE (forks[k] = q <=> Holds(q, k))'
  BY <1>1 DEF food_on_table
<1>2. ASSUME NEW p \in Philos, GetMin(p) PROVE (forks[k] = q <=> Holds(q, k))'
  BY <1>2 DEF GetMin, get_fork
<1>3. ASSUME NEW p \in Philos, GetMax(p) PROVE (forks[k] = q <=> Holds(q, k))'
  BY <1>3 DEF GetMax, get_fork
<1>4. ASSUME NEW p \in Philos, Eat(p) PROVE (forks[k] = q <=> Holds(q, k))'
  BY <1>4 DEF Eat
<1>5. ASSUME NEW p \in Philos, DownMax(p) PROVE (forks[k] = q <=> Holds(q, k))'
  <2>1. forks[MaxFork(p)] = p
    BY <1>5, ForkOrderAscends DEF DownMax, IInv, ForksHeld
  <2> QED
    BY <1>5, <2>1 DEF DownMax
<1>6. ASSUME NEW p \in Philos, DownMin(p) PROVE (forks[k] = q <=> Holds(q, k))'
  <2>1. forks[MinFork(p)] = p
    BY <1>6, ForkOrderAscends DEF DownMin, IInv, ForksHeld
  <2> QED
    BY <1>6, <2>1 DEF DownMin
<1>7. CASE UNCHANGED vars
  BY <1>7 DEF vars
<1> QED
  BY <1>1, <1>2, <1>3, <1>4, <1>5, <1>6, <1>7 DEF Next, philosopher, Terminated

\* A philosopher that goes for the forks has a dish, and keeps it until it has
\* eaten: the dish is asked for only at the top of the loop.
LEMMA NextDishInHand == IInv /\ [Next]_vars => DishInHand'
<1> SUFFICES ASSUME IInv, [Next]_vars, NEW q \in Philos
             PROVE  (f[q] > 0 <=> pc[q] \in {"min", "max", "eat"})'
  BY DEF DishInHand
<1> USE FoodAssumption DEF IInv, TypeOK, DishInHand, Goto
<1>1. ASSUME NEW p \in Philos, food_on_table(p)
      PROVE (f[q] > 0 <=> pc[q] \in {"min", "max", "eat"})'
  BY <1>1, SMT DEF food_on_table
<1>2. ASSUME NEW p \in Philos, GetMin(p) \/ GetMax(p) \/ DownMax(p) \/ DownMin(p)
      PROVE (f[q] > 0 <=> pc[q] \in {"min", "max", "eat"})'
  BY <1>2, SMT DEF GetMin, GetMax, DownMax, DownMin
<1>3. ASSUME NEW p \in Philos, Eat(p)
      PROVE (f[q] > 0 <=> pc[q] \in {"min", "max", "eat"})'
  BY <1>3, SMT DEF Eat
<1>4. CASE UNCHANGED vars
  BY <1>4 DEF vars
<1> QED
  BY <1>1, <1>2, <1>3, <1>4 DEF Next, philosopher, Terminated

\* The inductive invariant holds of every behaviour.
THEOREM PhilosophersInvariant == Spec => []IInv
<1>1. IInv /\ [Next]_vars => IInv'
  BY NextTypeOK, NextForksHeld, NextDishInHand DEF IInv
<1> QED
  BY InitIInv, <1>1, PTL DEF Spec

\* Philosophers who share a fork never eat at the same time, at any table:
\* the shared fork would be held by both.
THEOREM MutualExclusion == Spec => []NeighboursTakeTurns
<1>1. IInv => NeighboursTakeTurns
  <2> SUFFICES ASSUME IInv, NEW p \in Philos, NEW q \in Philos, p # q,
                      pc[p] = "eat", pc[q] = "eat",
                      NEW k \in {MinFork(p), MaxFork(p)},
                      k \in {MinFork(q), MaxFork(q)}
               PROVE  FALSE
    BY DEF NeighboursTakeTurns
  <2>1. k \in Forks
    BY ForkOrderAscends
  <2>2. forks[k] = p /\ forks[k] = q
    BY <2>1 DEF IInv, ForksHeld, Holds
  <2> QED
    BY <2>2
<1> QED
  BY PhilosophersInvariant, <1>1, PTL

-----------------------------------------------------------------------------
\* If everybody who has not ended is blocked, some fork is held.
LEMMA BlockedHeld ==
    ASSUME IInv, ~NoCircularWait
    PROVE  \E k \in Forks : forks[k] \in Philos
<1>1. PICK p \in Philos : pc[p] # "done" /\ Blocked(p)
  BY DEF NoCircularWait
<1>2. PICK k \in Forks : forks[k] # Nobody
  BY <1>1, ForkOrderAscends DEF Blocked
<1> QED
  BY <1>2 DEF IInv, TypeOK

\* ... and its holder waits for a greater one, which is held, too.
LEMMA HolderWaitsForGreater ==
    ASSUME IInv, ~NoCircularWait, NEW k \in Forks, forks[k] \in Philos
    PROVE  \E j \in Forks : k < j /\ forks[j] \in Philos
<1> DEFINE p == forks[k]
<1>1. Holds(p, k)
  BY DEF IInv, ForksHeld
<1>2. pc[p] # "done" /\ Blocked(p)
  BY <1>1 DEF NoCircularWait, Holds
<1>3. pc[p] = "max" /\ k = MinFork(p) /\ forks[MaxFork(p)] # Nobody
  BY <1>1, <1>2 DEF Holds, Blocked
<1>4. MaxFork(p) \in Forks /\ k < MaxFork(p)
  BY <1>3, ForkOrderAscends
<1> QED
  BY <1>3, <1>4 DEF IInv, TypeOK

\* There is no deadlock, for any number of philosophers: the greatest fork
\* that is held would be held by somebody who waits for a greater one.
THEOREM DeadlockFree == Spec => []NoCircularWait
<1>1. IInv => NoCircularWait
  <2> SUFFICES ASSUME IInv, ~NoCircularWait PROVE FALSE
    OBVIOUS
  <2> DEFINE S == {k \in Forks : forks[k] \in Philos}
  <2>1. S # {} /\ S \in SUBSET Forks
    BY BlockedHeld
  <2>2. PICK k \in S : \A j \in S : j <= k
    BY <2>1, GreatestFork
  <2>3. PICK j \in S : k < j
    BY HolderWaitsForGreater
  <2>4. j <= k /\ j \in Nat /\ k \in Nat
    BY <2>2, PhiloAssumption, SMT DEF Forks, Philos
  <2> QED
    BY <2>3, <2>4, SMT
<1> QED
  BY PhilosophersInvariant, <1>1, PTL

-----------------------------------------------------------------------------
\* The mutexes a thread has walked past, since its first one.
Walked(t) == walker[t].i + (IF walker[t].at \in {"print", "next"} THEN 1 ELSE 0)

\* The mutex a thread has; 3 for none.  Between the unlock and the next lock
\* it is the one behind k, in the loop the one before it.
Place(t) == CASE walker[t].at \in {"wait", "start"} -> IF t = "parent" THEN 0 ELSE 3
              [] walker[t].at = "loop" -> (CASE walker[t].k = 0 -> 1
                                             [] walker[t].k = 1 -> 2
                                             [] walker[t].k = 2 -> 0)
              [] walker[t].at \in {"print", "next"} -> (CASE walker[t].k = 0 -> 2
                                                         [] walker[t].k = 1 -> 0
                                                         [] walker[t].k = 2 -> 1)
              [] walker[t].at = "done" -> 3

\* The counters of a thread agree with what it has printed.
InStep(t) ==
    /\ walker[t].at \in {"wait", "start"} =>
          walker[t].i = 0 /\ walker[t].k = 1 /\ printed[t] = 0
    /\ walker[t].at = "loop" =>
          \/ walker[t].k = 1 /\ walker[t].i = 3 * printed[t]
          \/ walker[t].k = 0 /\ walker[t].i = 3 * printed[t] - 2
          \/ walker[t].k = 2 /\ walker[t].i = 3 * printed[t] - 1
    /\ walker[t].at = "print" =>
          walker[t].k = 2 /\ walker[t].i = 3 * printed[t]
    /\ walker[t].at = "next" =>
          \/ walker[t].k = 2 /\ walker[t].i = 3 * printed[t] - 3
          \/ walker[t].k = 1 /\ walker[t].i = 3 * printed[t] - 2
          \/ walker[t].k = 0 /\ walker[t].i = 3 * printed[t] - 1
    /\ walker[t].at \in {"print", "next"} => walker[t].i < 3 * ITERATIONS
    /\ walker[t].at = "done" =>
          walker[t].i = 3 * printed[t] /\ printed[t] = ITERATIONS

\* A mutex is with the thread whose place it is.
MutexesHeld ==
    \A j \in Turns!Mutexes :
        m[j] = IF Place("child") = j THEN "child"
               ELSE IF Place("parent") = j THEN "parent" ELSE Turns!Nobody

\* The child is ahead of the parent by one mutex or two, until it is done; and
\* by one or none of its own when the parent still has the first.
ChildAhead ==
    /\ walker["child"].at # "wait"
    /\ walker["child"].at = "start" => walker["parent"].at = "wait"
    /\ walker["parent"].at = "start" => flag
    /\ flag => printed["child"] >= 1
    /\ walker["parent"].at \in {"wait", "start"} => Walked("child") \in {0, 1}
    /\ walker["parent"].at \notin {"wait", "start"} =>
          /\ walker["child"].at # "done" => Walked("child") - Walked("parent") \in {1, 2}
          /\ walker["child"].at = "done" => Walked("child") - Walked("parent") \in {0, 1, 2}

TurnsInv == /\ Turns!TypeOK
            /\ \A t \in Turns!Walkers : InStep(t)
            /\ MutexesHeld
            /\ ChildAhead

-----------------------------------------------------------------------------
\* At the start the parent has the first mutex, and nothing is printed.
LEMMA InitTurns == Turns!Init => TurnsInv
<1> SUFFICES ASSUME Turns!Init PROVE TurnsInv
  OBVIOUS
<1> USE IterationsAssumption
        DEF Turns!Init, Turns!Walkers, Turns!Mutexes, Turns!MUTEX_COUNT, Turns!Nobody
<1>0. 0 \in 0 .. ITERATIONS * 3 /\ 0 \in 0 .. ITERATIONS
  BY SMT
<1>1. Turns!TypeOK
  <2>1. m \in [0 .. 3 - 1 -> {"child", "parent", "nobody"}]
    BY SMT
  <2>2. walker \in [{"child", "parent"} ->
                       [at : {"wait", "start", "loop", "print", "next", "done"},
                        i : 0 .. ITERATIONS * 3, k : 0 .. 3 - 1]]
    BY <1>0, SMT
  <2>3. printed \in [{"child", "parent"} -> 0 .. ITERATIONS]
    BY <1>0, SMT
  <2> QED
    BY <2>1, <2>2, <2>3, Zenon DEF Turns!TypeOK
<1>2. /\ walker["child"] = [at |-> "start", i |-> 0, k |-> 1]
      /\ walker["parent"] = [at |-> "wait", i |-> 0, k |-> 1]
      /\ printed["child"] = 0 /\ printed["parent"] = 0
  BY SMT
<1>3. \A t \in Turns!Walkers : InStep(t)
  BY <1>2, SMT DEF InStep
<1>4. Place("child") = 3 /\ Place("parent") = 0 /\ Walked("child") = 0
  BY <1>2, SMT DEF Place, Walked
<1>5. MutexesHeld
  BY <1>4, SMT DEF MutexesHeld
<1>6. ChildAhead
  BY <1>2, <1>4, SMT DEF ChildAhead
<1> QED
  BY <1>1, <1>3, <1>5, <1>6 DEF TurnsInv

\* The walk round the three mutexes, in numbers.
LEMMA RoundOfThree == (0 + 1) % 3 = 1 /\ (1 + 1) % 3 = 2 /\ (2 + 1) % 3 = 0
BY SMT

\* A step of one thread moves that thread only.
LEMMA OtherThreadStays ==
    ASSUME TurnsInv, NEW t \in Turns!Walkers, Turns!print_message(t),
           NEW o \in Turns!Walkers, o # t
    PROVE  /\ walker'[o] = walker[o] /\ printed'[o] = printed[o]
           /\ Place(o)' = Place(o) /\ Walked(o)' = Walked(o)
           /\ InStep(o)'
<1>1. walker'[o] = walker[o] /\ printed'[o] = printed[o]
  BY SMT DEF TurnsInv, Turns!TypeOK, Turns!print_message, Turns!Start, Turns!Walk, Turns!Printf,
             Turns!Advance, Turns!End, Turns!Goto
<1>2. Place(o)' = Place(o)
  BY <1>1 DEF Place
<1>3. Walked(o)' = Walked(o)
  BY <1>1 DEF Walked
<1>4. InStep(o)'
  BY <1>1 DEF TurnsInv, InStep
<1> QED
  BY <1>1, <1>2, <1>3, <1>4

\* Every step of a thread keeps the types.
LEMMA TurnsTypes ==
    ASSUME TurnsInv, NEW t \in Turns!Walkers, Turns!print_message(t)
    PROVE  Turns!TypeOK'
<1> USE IterationsAssumption, RoundOfThree
        DEF Turns!Walkers, Turns!Mutexes, Turns!MUTEX_COUNT, Turns!Nobody, Turns!At, Turns!Goto
<1>1. CASE Turns!Start(t)
  BY <1>1, SMTT(60) DEF Turns!Start, TurnsInv, Turns!TypeOK, InStep
<1>2. CASE Turns!Walk(t)
  BY <1>2, SMTT(60) DEF Turns!Walk, TurnsInv, Turns!TypeOK, InStep
<1>3. CASE Turns!Printf(t)
  BY <1>3, SMTT(60) DEF Turns!Printf, TurnsInv, Turns!TypeOK, InStep
<1>4. CASE Turns!Advance(t)
  BY <1>4, SMTT(60) DEF Turns!Advance, TurnsInv, Turns!TypeOK, InStep
<1>5. CASE Turns!End(t)
  BY <1>5, SMTT(60) DEF Turns!End, TurnsInv, Turns!TypeOK, InStep
<1> QED
  BY <1>1, <1>2, <1>3, <1>4, <1>5 DEF Turns!print_message

\* Every step of a thread keeps its counters in step with what it has printed.
LEMMA TurnsInStep ==
    ASSUME TurnsInv, NEW t \in Turns!Walkers, Turns!print_message(t)
    PROVE  InStep(t)'
<1> USE IterationsAssumption, RoundOfThree
        DEF Turns!Walkers, Turns!Mutexes, Turns!MUTEX_COUNT, Turns!Nobody, Turns!At, Turns!Goto
<1>1. CASE Turns!Start(t)
  BY <1>1, SMTT(60) DEF Turns!Start, TurnsInv, Turns!TypeOK, InStep
<1>2. CASE Turns!Walk(t)
  BY <1>2, SMTT(60) DEF Turns!Walk, TurnsInv, Turns!TypeOK, InStep
<1>3. CASE Turns!Printf(t)
  BY <1>3, SMTT(60) DEF Turns!Printf, TurnsInv, Turns!TypeOK, InStep
<1>4. CASE Turns!Advance(t)
  BY <1>4, SMTT(60) DEF Turns!Advance, TurnsInv, Turns!TypeOK, InStep
<1>5. CASE Turns!End(t)
  BY <1>5, SMTT(60) DEF Turns!End, TurnsInv, Turns!TypeOK, InStep
<1> QED
  BY <1>1, <1>2, <1>3, <1>4, <1>5 DEF Turns!print_message

\* What the lock before the loop does to the place of a thread ...
LEMMA StartPlace ==
    ASSUME TurnsInv, NEW t \in Turns!Walkers, Turns!Start(t)
    PROVE  /\ walker'[t].at = "loop" /\ printed'[t] = 0 /\ m[2] = "nobody"
           /\ Place(t)' = 2 /\ Walked(t)' = 0
<1> USE IterationsAssumption, RoundOfThree
        DEF Turns!Walkers, Turns!Mutexes, Turns!MUTEX_COUNT, Turns!Nobody, Turns!At, Turns!Goto
<1>0. InStep(t)
  BY DEF TurnsInv
<1>1. /\ walker'[t].at = "loop" /\ walker'[t].k = 1 /\ walker'[t].i = 0 /\ printed'[t] = 0
      /\ m[2] = Turns!Nobody
  BY <1>0, SMT DEF Turns!Start, TurnsInv, Turns!TypeOK, InStep
<1>2. Place(t)' = 2
  BY <1>1, SMT DEF Place
<1>3. Walked(t)' = 0
  BY <1>1, SMT DEF Walked
<1> QED
  BY <1>1, <1>2, <1>3

\* ... the lock and the unlock of a turn, which want the next place free ...
LEMMA WalkPlace ==
    ASSUME TurnsInv, NEW t \in Turns!Walkers, Turns!Walk(t)
    PROVE  /\ walker'[t].at \in {"print", "next"} /\ printed'[t] = printed[t]
           /\ m[walker[t].k] = "nobody" /\ walker[t].k \in 0 .. 2
           /\ Place(t)' = walker[t].k /\ Walked(t)' = Walked(t) + 1
           /\ Place(t) = (walker[t].k + 1) % 3
<1> USE IterationsAssumption, RoundOfThree
        DEF Turns!Walkers, Turns!Mutexes, Turns!MUTEX_COUNT, Turns!Nobody, Turns!At, Turns!Goto
<1>0. InStep(t)
  BY DEF TurnsInv
<1>1. /\ walker[t].at = "loop" /\ walker[t].k \in Turns!Mutexes /\ walker[t].i \in Nat
      /\ walker'[t].at \in {"print", "next"}
      /\ walker'[t].k = (walker[t].k + 1) % 3
      /\ walker'[t].i = walker[t].i /\ printed'[t] = printed[t]
      /\ m[walker[t].k] = Turns!Nobody
  BY SMT DEF Turns!Walk, TurnsInv, Turns!TypeOK
<1>2. Place(t) = (walker[t].k + 1) % 3
  BY <1>1, SMT DEF Place
<1>3. Place(t)' = walker[t].k
  BY <1>1, SMT DEF Place
<1>4. Walked(t)' = Walked(t) + 1
  BY <1>1, SMT DEF Walked
<1> QED
  BY <1>1, <1>2, <1>3, <1>4

\* ... a print ...
LEMMA PrintfPlace ==
    ASSUME TurnsInv, NEW t \in Turns!Walkers, Turns!Printf(t)
    PROVE  /\ walker'[t].at = "next" /\ printed'[t] = printed[t] + 1
           /\ Place(t)' = Place(t) /\ Walked(t)' = Walked(t)
<1> USE IterationsAssumption, RoundOfThree
        DEF Turns!Walkers, Turns!Mutexes, Turns!MUTEX_COUNT, Turns!Nobody, Turns!At, Turns!Goto
<1>0. InStep(t)
  BY DEF TurnsInv
<1>1. /\ walker[t].at = "print" /\ walker'[t].at = "next"
      /\ walker'[t].k = walker[t].k /\ walker'[t].i = walker[t].i
      /\ printed'[t] = printed[t] + 1
  BY SMT DEF Turns!Printf, TurnsInv, Turns!TypeOK
<1>2. Place(t)' = Place(t)
  <2>1. walker[t].k = 2
    BY <1>0, <1>1, SMT DEF InStep
  <2> QED
    BY <1>1, <2>1, SMT DEF Place
<1>3. Walked(t)' = Walked(t)
  BY <1>1, SMT DEF Walked
<1> QED
  BY <1>1, <1>2, <1>3

\* ... the counters, which change no place ...
LEMMA AdvancePlace ==
    ASSUME TurnsInv, NEW t \in Turns!Walkers, Turns!Advance(t)
    PROVE  /\ walker'[t].at = "loop" /\ printed'[t] = printed[t]
           /\ Place(t)' = Place(t) /\ Walked(t)' = Walked(t)
<1> USE IterationsAssumption, RoundOfThree
        DEF Turns!Walkers, Turns!Mutexes, Turns!MUTEX_COUNT, Turns!Nobody, Turns!At, Turns!Goto
<1>0. InStep(t)
  BY DEF TurnsInv
<1>1. /\ walker[t].at = "next" /\ walker[t].k \in Turns!Mutexes /\ walker[t].i \in Nat
      /\ walker'[t].at = "loop" /\ walker'[t].k = (walker[t].k + 1) % 3
      /\ walker'[t].i = walker[t].i + 1 /\ printed'[t] = printed[t]
  BY SMT DEF Turns!Advance, TurnsInv, Turns!TypeOK
<1>2. Place(t)' = Place(t)
  <2>1. CASE walker[t].k = 0
    BY <1>1, <2>1, SMT DEF Place
  <2>2. CASE walker[t].k = 1
    BY <1>1, <2>2, SMT DEF Place
  <2>3. CASE walker[t].k = 2
    BY <1>1, <2>3, SMT DEF Place
  <2> QED
    BY <1>1, <2>1, <2>2, <2>3, SMT
<1>3. Walked(t)' = Walked(t)
  BY <1>1, SMT DEF Walked
<1> QED
  BY <1>1, <1>2, <1>3

\* ... and the last unlock.
LEMMA EndPlace ==
    ASSUME TurnsInv, NEW t \in Turns!Walkers, Turns!End(t)
    PROVE  /\ walker'[t].at = "done" /\ printed'[t] = printed[t]
           /\ Place(t) = 2 /\ Place(t)' = 3 /\ Walked(t)' = Walked(t)
<1> USE IterationsAssumption, RoundOfThree
        DEF Turns!Walkers, Turns!Mutexes, Turns!MUTEX_COUNT, Turns!Nobody, Turns!At, Turns!Goto
<1>0. InStep(t)
  BY DEF TurnsInv
<1>1. /\ walker[t].at = "loop" /\ walker[t].i = 3 * ITERATIONS
      /\ walker[t].k \in Turns!Mutexes /\ printed[t] \in Nat
      /\ walker'[t].at = "done" /\ walker'[t].i = walker[t].i
      /\ printed'[t] = printed[t]
  BY SMT DEF Turns!End, TurnsInv, Turns!TypeOK
<1>2. walker[t].k = 1
  BY <1>0, <1>1, SMT DEF InStep
<1>3. Place(t) = 2
  BY <1>1, <1>2, SMT DEF Place
<1>4. Place(t)' = 3
  BY <1>1, SMT DEF Place
<1>5. Walked(t)' = Walked(t)
  BY <1>1, SMT DEF Walked
<1> QED
  BY <1>1, <1>3, <1>4, <1>5

\* The place of a thread follows from the number of its walks.
LEMMA PlaceOfWalk ==
    ASSUME TurnsInv, NEW t \in Turns!Walkers,
           walker[t].at \in {"loop", "print", "next"}
    PROVE  /\ Walked(t) \in Nat /\ Place(t) \in 0 .. 2
           /\ \E n \in Int : Walked(t) + Place(t) = 3 * n + 2
<1>0. /\ walker[t].i \in Nat /\ walker[t].k \in 0 .. 2 /\ printed[t] \in Nat
      /\ InStep(t)
  BY IterationsAssumption, SMT
     DEF TurnsInv, Turns!TypeOK, Turns!Mutexes, Turns!MUTEX_COUNT
<1>1. CASE walker[t].at = "loop"
  <2>1. Walked(t) = walker[t].i
    BY <1>0, <1>1, SMT DEF Walked
  <2>2. CASE walker[t].k = 1
    <3>1. Place(t) = 2 /\ walker[t].i = 3 * printed[t]
      BY <1>0, <1>1, <2>2, SMT DEF Place, InStep
    <3> QED
      BY <1>0, <2>1, <3>1, SMT
  <2>3. CASE walker[t].k = 0
    <3>1. Place(t) = 1 /\ walker[t].i = 3 * printed[t] - 2
      BY <1>0, <1>1, <2>3, SMT DEF Place, InStep
    <3>2. Walked(t) + Place(t) = 3 * (printed[t] - 1) + 2 /\ printed[t] - 1 \in Int
      BY <1>0, <2>1, <3>1, SMT
    <3> QED
      BY <1>0, <2>1, <3>1, <3>2, SMT
  <2>4. CASE walker[t].k = 2
    <3>1. Place(t) = 0 /\ walker[t].i = 3 * printed[t] - 1
      BY <1>0, <1>1, <2>4, SMT DEF Place, InStep
    <3>2. Walked(t) + Place(t) = 3 * (printed[t] - 1) + 2 /\ printed[t] - 1 \in Int
      BY <1>0, <2>1, <3>1, SMT
    <3> QED
      BY <1>0, <2>1, <3>1, <3>2, SMT
  <2> QED
    BY <1>0, <2>2, <2>3, <2>4, SMT
<1>2. CASE walker[t].at = "print"
  <2>1. Walked(t) = walker[t].i + 1 /\ Place(t) = 1 /\ walker[t].i = 3 * printed[t]
    BY <1>0, <1>2, SMT DEF Walked, Place, InStep
  <2> QED
    BY <1>0, <2>1, SMT
<1>3. CASE walker[t].at = "next"
  <2>1. Walked(t) = walker[t].i + 1
    BY <1>0, <1>3, SMT DEF Walked
  <2>2. CASE walker[t].k = 2
    <3>1. Place(t) = 1 /\ walker[t].i = 3 * printed[t] - 3
      BY <1>0, <1>3, <2>2, SMT DEF Place, InStep
    <3>2. Walked(t) + Place(t) = 3 * (printed[t] - 1) + 2 /\ printed[t] - 1 \in Int
      BY <1>0, <2>1, <3>1, SMT
    <3> QED
      BY <1>0, <2>1, <3>1, <3>2, SMT
  <2>3. CASE walker[t].k = 1
    <3>1. Place(t) = 0 /\ walker[t].i = 3 * printed[t] - 2
      BY <1>0, <1>3, <2>3, SMT DEF Place, InStep
    <3>2. Walked(t) + Place(t) = 3 * (printed[t] - 1) + 2 /\ printed[t] - 1 \in Int
      BY <1>0, <2>1, <3>1, SMT
    <3> QED
      BY <1>0, <2>1, <3>1, <3>2, SMT
  <2>4. CASE walker[t].k = 0
    <3>1. Place(t) = 2 /\ walker[t].i = 3 * printed[t] - 1
      BY <1>0, <1>3, <2>4, SMT DEF Place, InStep
    <3> QED
      BY <1>0, <2>1, <3>1, SMT
  <2> QED
    BY <1>0, <2>2, <2>3, <2>4, SMT
<1> QED
  BY <1>1, <1>2, <1>3

\* The types of what the invariant speaks of.
LEMMA TurnsNumbers ==
    ASSUME TurnsInv, NEW t \in Turns!Walkers
    PROVE  /\ Walked(t) \in Nat /\ printed[t] \in Nat /\ walker[t].i \in Nat
           /\ walker[t].at \in {"wait", "start", "loop", "print", "next", "done"}
           /\ walker[t].at = "done" => Place(t) = 3 /\ Walked(t) = 3 * ITERATIONS
           /\ walker[t].at = "done" => Walked(t) = 3 * printed[t]
           /\ walker[t].at \in {"wait", "start"} =>
                 Place(t) = (IF t = "parent" THEN 0 ELSE 3) /\ printed[t] = 0
           /\ Walked(t) >= 2 => printed[t] >= 1
<1>1. /\ walker[t].i \in Nat /\ printed[t] \in Nat /\ InStep(t)
      /\ walker[t].at \in {"wait", "start", "loop", "print", "next", "done"}
  BY IterationsAssumption, SMT DEF TurnsInv, Turns!TypeOK
<1>2. Walked(t) \in Nat
  BY <1>1, SMT DEF Walked
<1>3. walker[t].at = "done" => /\ Place(t) = 3 /\ Walked(t) = 3 * ITERATIONS
                               /\ Walked(t) = 3 * printed[t]
  BY <1>1, IterationsAssumption, SMT DEF Place, Walked, InStep
<1>4. walker[t].at \in {"wait", "start"} =>
         Place(t) = (IF t = "parent" THEN 0 ELSE 3) /\ printed[t] = 0
  BY <1>1, SMT DEF Place, InStep
<1>5. Walked(t) >= 2 => printed[t] >= 1
  BY <1>1, SMT DEF Walked, InStep
<1> QED
  BY <1>1, <1>2, <1>3, <1>4, <1>5

\* No two threads have the same place.
LEMMA PlacesDiffer ==
    ASSUME TurnsInv
    PROVE  Place("child") = 3 \/ Place("child") # Place("parent")
<1> USE DEF Turns!Walkers
<1>1. ChildAhead /\ Walked("child") \in Nat /\ Walked("parent") \in Nat
  BY TurnsNumbers DEF TurnsInv
<1>2. CASE walker["child"].at \in {"wait", "start", "done"}
  BY <1>2, TurnsNumbers, SMT
<1>3. CASE /\ walker["child"].at \in {"loop", "print", "next"}
           /\ walker["parent"].at \in {"wait", "start"}
  <2>1. Place("parent") = 0 /\ Walked("child") \in {0, 1}
    BY <1>1, <1>3, TurnsNumbers, SMT DEF ChildAhead
  <2>2. PICK n \in Int : Walked("child") + Place("child") = 3 * n + 2
    BY <1>3, PlaceOfWalk
  <2> QED
    BY <2>1, <2>2, SMT
<1>4. CASE /\ walker["child"].at \in {"loop", "print", "next"}
           /\ walker["parent"].at \in {"loop", "print", "next"}
  <2>1. Walked("child") - Walked("parent") \in {1, 2}
    BY <1>1, <1>4, SMT DEF ChildAhead
  <2>2. PICK n \in Int : Walked("child") + Place("child") = 3 * n + 2
    BY <1>4, PlaceOfWalk
  <2>3. PICK l \in Int : Walked("parent") + Place("parent") = 3 * l + 2
    BY <1>4, PlaceOfWalk
  <2>4. Place("child") \in 0 .. 2 /\ Place("parent") \in 0 .. 2
    BY <1>4, PlaceOfWalk
  <2> QED
    BY <1>1, <2>1, <2>2, <2>3, <2>4, SMT
<1>5. CASE /\ walker["child"].at \in {"loop", "print", "next"}
           /\ walker["parent"].at = "done"
  <2>1. Place("parent") = 3 /\ Place("child") \in 0 .. 2
    BY <1>5, TurnsNumbers, PlaceOfWalk
  <2> QED
    BY <2>1, SMT
<1> QED
  BY <1>2, <1>3, <1>4, <1>5, TurnsNumbers

\* A mutex that is taken is nobody's place, and one that is given up was the
\* place of the thread that does so.
LEMMA TurnsMutexes ==
    ASSUME TurnsInv, NEW t \in Turns!Walkers, Turns!print_message(t)
    PROVE  MutexesHeld'
<1> SUFFICES ASSUME NEW j \in Turns!Mutexes
             PROVE  (m[j] = IF Place("child") = j THEN "child"
                            ELSE IF Place("parent") = j THEN "parent" ELSE Turns!Nobody)'
  BY DEF MutexesHeld, Turns!Mutexes, Turns!MUTEX_COUNT
<1> USE DEF Turns!Walkers, Turns!Mutexes, Turns!MUTEX_COUNT, Turns!Nobody
<1>0. /\ \A k \in 0 .. 2 : m[k] = IF Place("child") = k THEN "child"
                                  ELSE IF Place("parent") = k THEN "parent" ELSE "nobody"
      /\ m \in [0 .. 2 -> {"child", "parent", "nobody"}]
      /\ j \in 0 .. 2
  BY SMT DEF TurnsInv, MutexesHeld, Turns!TypeOK
<1>a. PICK o \in Turns!Walkers : {o, t} = {"child", "parent"} /\ o # t
  BY SMT
<1>b. Place(o)' = Place(o)
  BY <1>a, OtherThreadStays
<1>1. CASE Turns!Start(t)
  <2>1. Place(t)' = 2 /\ m[2] = "nobody"
    BY <1>1, StartPlace
  <2>2. CASE t = "child"
    <3>1. walker["child"].at = "start" /\ printed["child"] = 0
      BY <1>1, <2>2, TurnsNumbers DEF Turns!Start, Turns!At
    <3>2. ~flag
      BY <3>1, SMT DEF TurnsInv, ChildAhead
    <3>3. Place("child") = 3
      BY <3>1, TurnsNumbers
    <3>4. \A k \in 0 .. 2 : m'[k] = IF k = 2 THEN "child" ELSE m[k]
      BY <1>1, <1>0, <2>2, <3>2, SMT DEF Turns!Start
    <3> QED
      BY <1>0, <1>a, <1>b, <2>1, <2>2, <3>3, <3>4, SMT
  <2>3. CASE t = "parent"
    <3>1. walker["parent"].at = "start" /\ Place("parent") = 0
      BY <1>1, <2>3, TurnsNumbers DEF Turns!Start, Turns!At
    <3>2. flag
      BY <3>1, SMT DEF TurnsInv, ChildAhead
    <3>3. m' = [m EXCEPT ![2] = "parent", ![0] = "nobody"]
      BY <1>1, <2>3, <3>2, SMT DEF Turns!Start
    <3>4. Place("child") # 0 /\ Place("child") # 2
      BY <1>0, <2>1, <3>1, PlacesDiffer, SMT
    <3> QED
      BY <1>0, <1>a, <1>b, <2>1, <2>3, <3>1, <3>3, <3>4, SMT
  <2> QED
    BY <2>2, <2>3
<1>2. CASE Turns!Walk(t)
  <2> DEFINE k == walker[t].k
             b == (walker[t].k + 1) % 3
  <2>1. /\ Place(t)' = k /\ m[k] = "nobody" /\ k \in 0 .. 2
        /\ Place(t) = b /\ b \in 0 .. 2
    BY <1>2, WalkPlace, SMT
  <2>2. m' = [m EXCEPT ![k] = t, ![b] = "nobody"]
    BY <1>2 DEF Turns!Walk
  <2>3. Place(o) # k /\ Place(o) # b
    BY <1>0, <1>a, <2>1, PlacesDiffer, SMT
  <2>4. k # b
    BY <1>0, <1>a, <2>1, SMT
  <2> HIDE DEF k, b
  <2> QED
    BY <1>0, <1>a, <1>b, <2>1, <2>2, <2>3, <2>4, SMT
<1>3. CASE Turns!Printf(t)
  <2>1. Place(t)' = Place(t) /\ m' = m
    BY <1>3, PrintfPlace DEF Turns!Printf
  <2> QED
    BY <1>0, <1>a, <1>b, <2>1, SMT
<1>4. CASE Turns!Advance(t)
  <2>1. Place(t)' = Place(t) /\ m' = m
    BY <1>4, AdvancePlace DEF Turns!Advance
  <2> QED
    BY <1>0, <1>a, <1>b, <2>1, SMT
<1>5. CASE Turns!End(t)
  <2>1. Place(t) = 2 /\ Place(t)' = 3 /\ m' = [m EXCEPT ![2] = "nobody"]
    BY <1>5, EndPlace DEF Turns!End
  <2>2. Place(o) # 2
    BY <1>a, <2>1, PlacesDiffer, SMT
  <2> QED
    BY <1>0, <1>a, <1>b, <2>1, <2>2, SMT
<1> QED
  BY <1>1, <1>2, <1>3, <1>4, <1>5 DEF Turns!print_message

\* The child does not get three mutexes ahead, and the parent does not catch up
\* with it before it is done.
LEMMA TurnsAhead ==
    ASSUME TurnsInv, NEW t \in Turns!Walkers, Turns!print_message(t)
    PROVE  ChildAhead'
<1> USE DEF Turns!Walkers
<1> DEFINE c == walker["child"].at
           d == walker["parent"].at
           Before == {"wait", "start"}
           Within == {"loop", "print", "next"}
<1>0. /\ ChildAhead /\ flag \in BOOLEAN /\ ITERATIONS \in Nat
      /\ \A k \in 0 .. 2 : m[k] = IF Place("child") = k THEN "child"
                                  ELSE IF Place("parent") = k THEN "parent" ELSE "nobody"
  BY IterationsAssumption, SMT
     DEF TurnsInv, MutexesHeld, Turns!TypeOK, Turns!Mutexes, Turns!MUTEX_COUNT, Turns!Nobody
<1>a. PICK o \in Turns!Walkers : {o, t} = {"child", "parent"} /\ o # t
  BY SMT
<1>b. walker'[o] = walker[o] /\ printed'[o] = printed[o] /\ Walked(o)' = Walked(o)
  BY <1>a, OtherThreadStays
<1>n. /\ Walked("child") \in Nat /\ Walked("parent") \in Nat
      /\ printed["child"] \in Nat /\ printed["parent"] \in Nat
      /\ c \in {"wait", "start", "loop", "print", "next", "done"}
      /\ d \in {"wait", "start", "loop", "print", "next", "done"}
      /\ c = "done" => Walked("child") = 3 * ITERATIONS /\ Walked("child") = 3 * printed["child"]
      /\ Walked("child") >= 2 => printed["child"] >= 1
  BY TurnsNumbers
<1>1. CASE Turns!Start(t)
  <2>1. /\ walker[t].at = "start" /\ walker'[t].at = "loop" /\ m[2] = "nobody"
        /\ Walked(t)' = 0 /\ flag' = flag
        /\ printed'[t] = 0 /\ printed[t] = 0
    BY <1>1, StartPlace, TurnsNumbers DEF Turns!Start, Turns!At
  <2>2. CASE t = "child"
    <3>1. /\ c = "start" /\ d = "wait" /\ ~flag
          /\ c' = "loop" /\ d' = "wait" /\ Walked("child")' = 0
          /\ ~flag'
      BY <1>0, <1>a, <1>b, <2>1, <2>2, SMT DEF ChildAhead
    <3> QED
      BY <3>1, SMT DEF ChildAhead
  <2>3. CASE t = "parent"
    <3>1. /\ d = "start" /\ d' = "loop" /\ c' = c /\ c \notin {"wait", "start"}
          /\ Walked("parent")' = 0 /\ Walked("child")' = Walked("child")
          /\ printed'["child"] = printed["child"] /\ printed["child"] >= 1
          /\ Walked("child") \in {0, 1}
      BY <1>0, <1>a, <1>b, <2>1, <2>3, SMT DEF ChildAhead
    <3>2. c \in Within
      BY <1>n, <3>1, SMT
    <3>3. Walked("child") # 0
      <4>1. PICK n \in Int : Walked("child") + Place("child") = 3 * n + 2
        BY <3>2, PlaceOfWalk
      <4>2. Place("child") \in 0 .. 2 /\ Place("child") # 2
        BY <1>0, <2>1, <3>2, PlaceOfWalk, SMT
      <4> QED
        BY <4>1, <4>2, SMT
    <3> QED
      BY <3>1, <3>2, <3>3, SMT DEF ChildAhead
  <2> QED
    BY <2>2, <2>3
<1>2. CASE Turns!Walk(t)
  <2> DEFINE k == walker[t].k
  <2>1. /\ walker[t].at = "loop" /\ walker[t].i < 3 * ITERATIONS /\ walker[t].i \in Nat
        /\ walker'[t].at \in {"print", "next"} /\ printed'[t] = printed[t]
        /\ flag' = flag /\ Walked(t)' = Walked(t) + 1
        /\ k \in 0 .. 2 /\ Place("child") # k /\ Place("parent") # k
        /\ Place(t) = (k + 1) % 3
    <3>1. /\ walker'[t].at \in {"print", "next"} /\ printed'[t] = printed[t]
          /\ m[k] = "nobody" /\ k \in 0 .. 2 /\ Walked(t)' = Walked(t) + 1
          /\ Place(t) = (k + 1) % 3
      BY <1>2, WalkPlace
    <3>2. walker[t].i \in Nat
      BY TurnsNumbers
    <3>3. walker[t].at = "loop" /\ walker[t].i < 3 * ITERATIONS /\ flag' = flag
      BY <1>0, <1>2, <3>2, SMT DEF Turns!Walk, Turns!At, Turns!MUTEX_COUNT
    <3> HIDE DEF k
    <3>4. Place("child") # k /\ Place("parent") # k
      BY <1>0, <3>1, SMT
    <3> QED
      BY <3>1, <3>2, <3>3, <3>4
  <2>2. Walked(t) = walker[t].i
    BY <2>1, SMT DEF Walked
  <2>3. PICK n \in Int : Walked(t) + 1 + k = 3 * n + 2
    <3>1. PICK l \in Int : Walked(t) + Place(t) = 3 * l + 2
      BY <2>1, PlaceOfWalk
    <3>2. Place(t) = k + 1 \/ (Place(t) = 0 /\ k = 2)
      BY <2>1, RoundOfThree, SMT
    <3>3. l + 1 \in Int /\ Walked(t) \in Nat
      BY TurnsNumbers, SMT
    <3>4. Walked(t) + 1 + k = 3 * l + 2 \/ Walked(t) + 1 + k = 3 * (l + 1) + 2
      BY <2>1, <3>1, <3>2, <3>3, SMT
    <3> QED
      BY <3>3, <3>4
  <2> HIDE DEF k
  <2>4. CASE t = "child"
    <3>1. /\ c = "loop" /\ c' \in {"print", "next"} /\ d' = d
          /\ Walked("child")' = Walked("child") + 1 /\ Walked("parent")' = Walked("parent")
          /\ printed'["child"] = printed["child"]
      BY <1>a, <1>b, <2>1, <2>4, SMT
    <3>2. CASE d \in Before
      <4>1. Place("parent") = 0
        BY <3>2, TurnsNumbers
      <4>2. Walked("child") \in {0, 1}
        BY <1>0, <3>2, SMT DEF ChildAhead
      <4>3. Walked("child") = 0
        BY <2>1, <2>3, <2>4, <4>1, <4>2, SMT
      <4> QED
        BY <1>0, <2>1, <3>1, <3>2, <4>3, SMT DEF ChildAhead
    <3>3. CASE d \in Within
      <4>1. Walked("child") - Walked("parent") \in {1, 2}
        BY <1>0, <3>1, <3>3, SMT DEF ChildAhead
      <4>2. PICK l \in Int : Walked("parent") + Place("parent") = 3 * l + 2
        BY <3>3, PlaceOfWalk
      <4>3. Place("parent") \in 0 .. 2
        BY <3>3, PlaceOfWalk
      <4>4. Walked("child") - Walked("parent") = 1
        BY <1>n, <2>1, <2>3, <2>4, <4>1, <4>2, <4>3, SMT
      <4> QED
        BY <1>0, <1>n, <2>1, <3>1, <3>3, <4>4, SMT DEF ChildAhead
    <3>4. CASE d = "done"
      <4>1. Walked("parent") = 3 * ITERATIONS
        BY <3>4, TurnsNumbers
      <4>2. Walked("child") - Walked("parent") \in {1, 2}
        BY <1>0, <3>1, <3>4, SMT DEF ChildAhead
      <4> QED
        BY <1>0, <1>n, <2>1, <2>2, <2>4, <4>1, <4>2, SMT
    <3> QED
      BY <1>n, <3>2, <3>3, <3>4, SMT
  <2>5. CASE t = "parent"
    <3>1. /\ d = "loop" /\ d' \in {"print", "next"} /\ c' = c
          /\ Walked("parent")' = Walked("parent") + 1 /\ Walked("child")' = Walked("child")
          /\ printed'["child"] = printed["child"]
      BY <1>a, <1>b, <2>1, <2>5, SMT
    <3>2. c \notin {"wait", "start"}
      BY <1>0, <3>1, SMT DEF ChildAhead
    <3>3. CASE c \in Within
      <4>1. Walked("child") - Walked("parent") \in {1, 2}
        BY <1>0, <3>1, <3>3, SMT DEF ChildAhead
      <4>2. PICK l \in Int : Walked("child") + Place("child") = 3 * l + 2
        BY <3>3, PlaceOfWalk
      <4>3. Place("child") \in 0 .. 2
        BY <3>3, PlaceOfWalk
      <4>4. Walked("child") - Walked("parent") = 2
        BY <1>n, <2>1, <2>3, <2>5, <4>1, <4>2, <4>3, SMT
      <4> QED
        BY <1>0, <1>n, <2>1, <3>1, <3>3, <4>4, SMT DEF ChildAhead
    <3>4. CASE c = "done"
      <4>1. Walked("child") - Walked("parent") \in {0, 1, 2}
        BY <1>0, <3>1, <3>4, SMT DEF ChildAhead
      <4>2. Walked("child") = 3 * ITERATIONS /\ Walked("parent") < 3 * ITERATIONS
        BY <1>n, <2>1, <2>2, <2>5, <3>4, SMT
      <4> QED
        BY <1>0, <1>n, <2>1, <3>1, <3>4, <4>1, <4>2, SMT DEF ChildAhead
    <3> QED
      BY <1>n, <3>2, <3>3, <3>4, SMT
  <2> QED
    BY <2>4, <2>5
<1>3. CASE Turns!Printf(t)
  <2>1. /\ walker[t].at = "print" /\ walker'[t].at = "next"
        /\ printed'[t] = printed[t] + 1 /\ Walked(t)' = Walked(t) /\ flag' = TRUE
        /\ Walked(t) >= 1
    <3>1. /\ walker[t].at = "print" /\ walker'[t].at = "next" /\ flag' = TRUE
          /\ printed'[t] = printed[t] + 1 /\ Walked(t)' = Walked(t)
      BY <1>3, PrintfPlace DEF Turns!Printf, Turns!At
    <3>2. Walked(t) = walker[t].i + 1 /\ walker[t].i \in Nat
      BY <3>1, TurnsNumbers, SMT DEF Walked
    <3> QED
      BY <3>1, <3>2, SMT
  <2>2. CASE t = "child"
    <3>1. /\ c = "print" /\ c' = "next" /\ d' = d /\ printed'["child"] >= 1
          /\ Walked("parent")' = Walked("parent") /\ Walked("child")' = Walked("child")
      BY <1>a, <1>b, <1>n, <2>1, <2>2, SMT
    <3> QED
      BY <1>0, <2>1, <3>1, SMT DEF ChildAhead
  <2>3. CASE t = "parent"
    <3>1. /\ d = "print" /\ d' = "next" /\ c' = c /\ printed'["child"] = printed["child"]
          /\ Walked("parent")' = Walked("parent") /\ Walked("child")' = Walked("child")
      BY <1>a, <1>b, <2>1, <2>3, SMT
    <3>2. printed["child"] >= 1
      <4>1. CASE c = "done"
        BY <1>0, <1>n, <2>1, <2>3, <3>1, <4>1, SMT DEF ChildAhead
      <4>2. CASE c # "done"
        BY <1>0, <1>n, <2>1, <2>3, <3>1, <4>2, SMT DEF ChildAhead
      <4> QED
        BY <4>1, <4>2
    <3> QED
      BY <1>0, <2>1, <3>1, <3>2, SMT DEF ChildAhead
  <2> QED
    BY <2>2, <2>3
<1>4. CASE Turns!Advance(t)
  <2>1. /\ walker[t].at = "next" /\ walker'[t].at = "loop"
        /\ printed'[t] = printed[t] /\ Walked(t)' = Walked(t) /\ flag' = flag
    BY <1>4, AdvancePlace DEF Turns!Advance, Turns!At
  <2>2. CASE t = "child"
    <3>1. /\ c = "next" /\ c' = "loop" /\ d' = d /\ printed'["child"] = printed["child"]
          /\ Walked("parent")' = Walked("parent") /\ Walked("child")' = Walked("child")
      BY <1>a, <1>b, <2>1, <2>2, SMT
    <3> QED
      BY <1>0, <2>1, <3>1, SMT DEF ChildAhead
  <2>3. CASE t = "parent"
    <3>1. /\ d = "next" /\ d' = "loop" /\ c' = c /\ printed'["child"] = printed["child"]
          /\ Walked("parent")' = Walked("parent") /\ Walked("child")' = Walked("child")
      BY <1>a, <1>b, <2>1, <2>3, SMT
    <3> QED
      BY <1>0, <2>1, <3>1, SMT DEF ChildAhead
  <2> QED
    BY <2>2, <2>3
<1>5. CASE Turns!End(t)
  <2>1. /\ walker[t].at = "loop" /\ walker'[t].at = "done"
        /\ printed'[t] = printed[t] /\ Walked(t)' = Walked(t) /\ flag' = flag
    BY <1>5, EndPlace DEF Turns!End, Turns!At
  <2>2. CASE t = "child"
    <3>1. /\ c = "loop" /\ c' = "done" /\ d' = d /\ printed'["child"] = printed["child"]
          /\ Walked("parent")' = Walked("parent") /\ Walked("child")' = Walked("child")
      BY <1>a, <1>b, <2>1, <2>2, SMT
    <3> QED
      BY <1>0, <2>1, <3>1, SMT DEF ChildAhead
  <2>3. CASE t = "parent"
    <3>1. /\ d = "loop" /\ d' = "done" /\ c' = c /\ printed'["child"] = printed["child"]
          /\ Walked("parent")' = Walked("parent") /\ Walked("child")' = Walked("child")
      BY <1>a, <1>b, <2>1, <2>3, SMT
    <3> QED
      BY <1>0, <2>1, <3>1, SMT DEF ChildAhead
  <2> QED
    BY <2>2, <2>3
<1> QED
  BY <1>1, <1>2, <1>3, <1>4, <1>5 DEF Turns!print_message

\* The parent sees the flag: it has been set, so the child has printed.
LEMMA SeesFlagKeeps == TurnsInv /\ Turns!SeesFlag => TurnsInv'
<1> SUFFICES ASSUME TurnsInv, Turns!SeesFlag PROVE TurnsInv'
  OBVIOUS
<1> USE DEF Turns!Walkers
<1>0. Turns!TypeOK /\ ChildAhead /\ MutexesHeld /\ InStep("child") /\ InStep("parent")
  BY DEF TurnsInv
<1>1. /\ walker["parent"].at = "wait" /\ flag
      /\ walker' = [walker EXCEPT !["parent"].at = "start"]
      /\ m' = m /\ flag' = flag /\ printed' = printed
  BY DEF Turns!SeesFlag, Turns!At, Turns!Goto
<1>2. Turns!TypeOK'
  BY <1>0, <1>1, SMT DEF Turns!TypeOK
<1>3. /\ walker'["child"] = walker["child"]
      /\ walker'["parent"].at = "start" /\ walker'["parent"].i = walker["parent"].i
      /\ walker'["parent"].k = walker["parent"].k
  BY <1>0, <1>1, SMT DEF Turns!TypeOK
<1>4. InStep("child")' /\ InStep("parent")'
  BY <1>0, <1>1, <1>3, SMT DEF InStep
<1>5. Walked("child")' = Walked("child") /\ Place("child")' = Place("child")
  BY <1>3 DEF Walked, Place
<1>6. Place("parent")' = Place("parent")
  BY <1>1, <1>3, SMT DEF Place
<1>7. MutexesHeld'
  BY <1>0, <1>1, <1>5, <1>6 DEF MutexesHeld, Turns!Mutexes, Turns!MUTEX_COUNT
<1>8. ChildAhead'
  <2>1. printed["child"] >= 1 /\ printed["child"] \in Nat
    BY <1>0, <1>1, TurnsNumbers DEF ChildAhead
  <2>2. walker["child"].at # "start"
    BY <2>1, TurnsNumbers, SMT
  <2> QED
    BY <1>0, <1>1, <1>3, <1>5, <2>2, SMT DEF ChildAhead
<1> QED
  BY <1>2, <1>4, <1>7, <1>8, Zenon DEF TurnsInv

\* Every step of the two threads keeps the invariant.
LEMMA NextTurns == TurnsInv /\ [Turns!Next]_turnVars => TurnsInv'
<1>1. ASSUME TurnsInv, NEW t \in Turns!Walkers, Turns!print_message(t)
      PROVE  TurnsInv'
  <2>1. Turns!TypeOK' /\ MutexesHeld' /\ ChildAhead'
    BY <1>1, TurnsTypes, TurnsMutexes, TurnsAhead
  <2>2. \A u \in Turns!Walkers : InStep(u)'
    BY <1>1, TurnsInStep, OtherThreadStays
  <2> QED
    BY <2>1, <2>2 DEF TurnsInv, Turns!Walkers
<1>2. ASSUME TurnsInv, UNCHANGED turnVars PROVE TurnsInv'
  <2>1. m' = m /\ flag' = flag /\ walker' = walker /\ printed' = printed
    BY <1>2 DEF turnVars
  <2>2. /\ Place("child")' = Place("child") /\ Place("parent")' = Place("parent")
        /\ \A t \in Turns!Walkers : Walked(t)' = Walked(t)
    BY <2>1 DEF Place, Walked
  <2>3. Turns!TypeOK' /\ \A t \in Turns!Walkers : InStep(t)'
    BY <1>2, <2>1, Zenon DEF TurnsInv, Turns!TypeOK, InStep
  <2>4. MutexesHeld'
    BY <1>2, <2>1, <2>2, Zenon DEF TurnsInv, MutexesHeld
  <2>5. ChildAhead'
    BY <1>2, <2>1, <2>2, Zenon DEF TurnsInv, ChildAhead, Turns!Walkers
  <2> QED
    BY <2>3, <2>4, <2>5 DEF TurnsInv
<1> QED
  BY <1>1, <1>2, SeesFlagKeeps DEF Turns!Next, Turns!Destroyed, Turns!turnVars, turnVars

\* What is inductive for the two programs, of which one runs.
MutexesInv == IInv /\ TurnsInv

\* The inductive invariants hold in every behaviour of the run.
THEOREM MutexesInvariant == MCSpec => []MutexesInv
<1>1. MCInit => MutexesInv
  BY InitIInv, InitTurns DEF MCInit, MutexesInv
<1>2. MutexesInv /\ [MCNext]_allVars => MutexesInv'
  <2>1. [MCNext]_allVars => [Next]_vars /\ [Turns!Next]_turnVars
    BY DEF MCNext, allVars, Dine, Talk
  <2>2. IInv /\ [Next]_vars => IInv'
    BY NextTypeOK, NextForksHeld, NextDishInHand DEF IInv
  <2> QED
    BY <2>1, <2>2, NextTurns DEF MutexesInv
<1> QED
  BY <1>1, <1>2, PTL DEF MCSpec

\* Forks and mutexes have owners and the threads are at a line of their programs.
THEOREM MutexesTypeCorrect == MCSpec => []MutexesTypeOK
<1>1. MutexesInv => MutexesTypeOK
  BY DEF MutexesInv, MutexesTypeOK, IInv, TurnsInv
<1> QED
  BY MutexesInvariant, <1>1, PTL

\* The threads of #10 print in turns, the child first, however many lines they
\* print, and end with every mutex free: the parent prints a line only past the
\* mutex that the child passed after its own.
THEOREM TurnsAreKept == MCSpec => []PrintInTurns
<1>1. TurnsInv => PrintInTurns
  <2> SUFFICES ASSUME TurnsInv PROVE PrintInTurns
    OBVIOUS
  <2> USE DEF Turns!Walkers
  <2>0. /\ InStep("child") /\ InStep("parent") /\ ChildAhead
        /\ walker["child"].i \in Nat /\ walker["parent"].i \in Nat
        /\ printed["child"] \in Nat /\ printed["parent"] \in Nat
        /\ walker["child"].at \in {"wait", "start", "loop", "print", "next", "done"}
        /\ walker["parent"].at \in {"wait", "start", "loop", "print", "next", "done"}
    BY TurnsNumbers DEF TurnsInv
  <2>1. printed["child"] - printed["parent"] \in {0, 1}
    <3>1. \A t \in Turns!Walkers :
             3 * printed[t] - 2 <= Walked(t) /\ Walked(t) <= 3 * printed[t] + 1
      <4> SUFFICES ASSUME NEW t \in Turns!Walkers
                   PROVE  3 * printed[t] - 2 <= Walked(t) /\ Walked(t) <= 3 * printed[t] + 1
        OBVIOUS
      <4>0. /\ InStep(t) /\ walker[t].i \in Nat /\ printed[t] \in Nat
            /\ walker[t].at \in {"wait", "start", "loop", "print", "next", "done"}
        BY TurnsNumbers DEF TurnsInv
      <4>1. CASE walker[t].at \in {"print", "next"}
        <5>1. Walked(t) = walker[t].i + 1
          BY <4>1 DEF Walked
        <5> QED
          BY <4>0, <4>1, <5>1, SMT DEF InStep
      <4>2. CASE walker[t].at \notin {"print", "next"}
        <5>1. Walked(t) = walker[t].i
          BY <4>0, <4>2, SMT DEF Walked
        <5> QED
          BY <4>0, <4>2, <5>1, SMT DEF InStep
      <4> QED
        BY <4>1, <4>2
    <3>2. Walked("child") \in Nat /\ Walked("parent") \in Nat
      BY TurnsNumbers
    <3>3. CASE walker["parent"].at \in {"wait", "start"}
      <4>1. Walked("child") \in {0, 1} /\ printed["parent"] = 0
        BY <2>0, <3>3, TurnsNumbers DEF ChildAhead
      <4> QED
        BY <2>0, <3>1, <4>1, SMT
    <3>4. CASE walker["parent"].at \notin {"wait", "start"}
      <4>1. Walked("child") - Walked("parent") \in {1, 2}
            \/ (/\ Walked("child") - Walked("parent") \in {0, 1, 2}
                /\ Walked("child") = 3 * printed["child"])
        BY <2>0, <3>4, TurnsNumbers DEF ChildAhead
      <4> QED
        BY <2>0, <3>1, <3>2, <4>1, SMT
    <3> QED
      BY <3>3, <3>4
  <2>2. ASSUME \A t \in Turns!Walkers : Turns!At(t, "done")
        PROVE  /\ printed["child"] = ITERATIONS /\ printed["parent"] = ITERATIONS
               /\ \A k \in Turns!Mutexes : m[k] = Turns!Nobody
    <3>1. walker["child"].at = "done" /\ walker["parent"].at = "done"
      BY <2>2 DEF Turns!At
    <3>2. Place("child") = 3 /\ Place("parent") = 3
      BY <3>1, TurnsNumbers
    <3>3. printed["child"] = ITERATIONS /\ printed["parent"] = ITERATIONS
      BY <2>0, <3>1, SMT DEF InStep
    <3>4. \A k \in Turns!Mutexes : m[k] = Turns!Nobody
      BY <3>2, SMT DEF TurnsInv, MutexesHeld, Turns!Mutexes, Turns!MUTEX_COUNT, Turns!Nobody
    <3> QED
      BY <3>3, <3>4
  <2> QED
    BY <2>1, <2>2 DEF PrintInTurns, Turns!PrintInTurns
<1> QED
  BY MutexesInvariant, <1>1, PTL DEF MutexesInv
=============================================================================
