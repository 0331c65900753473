------------------------------ MODULE PingPong ------------------------------
(***************************************************************************)
(* pthreads/laboratory_work_#10: two threads print in turns.  Each walks   *)
(* round the three mutexes of m, taking the next one before it gives up    *)
(* the one behind, and prints when that was m[2]; so it follows the other. *)
(***************************************************************************)
EXTENDS Integers

CONSTANT ITERATIONS

MUTEX_COUNT == 3
Mutexes == 0 .. MUTEX_COUNT - 1
Nobody == "nobody"
Walkers == {"child", "parent"}

VARIABLES m,         \* of each mutex: who has it
          flag,
          walker,    \* of each thread: where it is, its i and k
          printed    \* of each thread: how often it has printed

turnVars == <<m, flag, walker, printed>>

\* main has taken m[0] and created the child; it waits for the flag.
Init == /\ m = [k \in Mutexes |-> IF k = 0 THEN "parent" ELSE Nobody]
        /\ flag = FALSE
        /\ walker = [t \in Walkers |-> [at |-> IF t = "child" THEN "start" ELSE "wait",
                                        i |-> 0, k |-> 1]]
        /\ printed = [t \in Walkers |-> 0]

At(t, there) == walker[t].at = there
Goto(t, there) == walker' = [walker EXCEPT ![t].at = there]

SeesFlag == /\ At("parent", "wait") /\ flag
            /\ Goto("parent", "start")
            /\ UNCHANGED <<m, flag, printed>>

\* The parent lets m[0] go when it has m[2].
Start(t) == /\ At(t, "start")
            /\ m[2] = Nobody
            /\ m' = [m EXCEPT ![2] = t, ![0] = IF flag THEN Nobody ELSE @]
            /\ Goto(t, "loop")
            /\ UNCHANGED <<flag, printed>>

\* Mutant: the mutex is given up although the next one is not there.
WalkAhead(t) == LET k == (walker[t].k + 1) % 3
                IN  /\ At(t, "loop") /\ walker[t].i < ITERATIONS * MUTEX_COUNT
                    /\ m' = [m EXCEPT ![walker[t].k] = t, ![k] = Nobody]
                    /\ walker' = [walker EXCEPT ![t].k = k,
                                                ![t].at = IF k = 2 THEN "print" ELSE "next"]
                    /\ UNCHANGED <<flag, printed>>

\* One turn of the loop: the lock and the unlock ...
Walk(t) == LET k == (walker[t].k + 1) % 3
           IN  /\ At(t, "loop") /\ walker[t].i < ITERATIONS * MUTEX_COUNT
               /\ m[walker[t].k] = Nobody
               /\ m' = [m EXCEPT ![walker[t].k] = t, ![k] = Nobody]
               /\ walker' = [walker EXCEPT ![t].k = k,
                                           ![t].at = IF k = 2 THEN "print" ELSE "next"]
               /\ UNCHANGED <<flag, printed>>

\* ... what is printed after the unlock, and the flag ...
Printf(t) == /\ At(t, "print")
             /\ printed' = [printed EXCEPT ![t] = @ + 1]
             /\ flag' = TRUE
             /\ Goto(t, "next")
             /\ UNCHANGED m

\* ... and the counters.
Advance(t) == /\ At(t, "next")
              /\ walker' = [walker EXCEPT ![t].at = "loop", ![t].i = @ + 1,
                                          ![t].k = (@ + 1) % 3]
              /\ UNCHANGED <<m, flag, printed>>

End(t) == /\ At(t, "loop") /\ walker[t].i = ITERATIONS * MUTEX_COUNT
          /\ m' = [m EXCEPT ![2] = Nobody]
          /\ Goto(t, "done")
          /\ UNCHANGED <<flag, printed>>

print_message(t) == Start(t) \/ Walk(t) \/ Printf(t) \/ Advance(t) \/ End(t)

\* pthread_join has returned, and the mutexes are destroyed.
Destroyed == /\ \A t \in Walkers : At(t, "done")
             /\ UNCHANGED turnVars

Next == SeesFlag \/ (\E t \in Walkers : print_message(t)) \/ Destroyed

-----------------------------------------------------------------------------
\* Mutexes have owners, and the threads are in their loop.
TypeOK == /\ m \in [Mutexes -> Walkers \cup {Nobody}]
          /\ flag \in BOOLEAN
          /\ walker \in [Walkers -> [at : {"wait", "start", "loop", "print", "next", "done"},
                                     i : 0 .. ITERATIONS * MUTEX_COUNT, k : Mutexes]]
          /\ printed \in [Walkers -> 0 .. ITERATIONS]

\* The threads print in turns, the child first, although each prints after the
\* unlock the other waits for; and no mutex is destroyed while it is held.
PrintInTurns ==
    /\ printed["child"] - printed["parent"] \in {0, 1}
    /\ (\A t \in Walkers : At(t, "done")) =>
           /\ printed["child"] = ITERATIONS /\ printed["parent"] = ITERATIONS
           /\ \A k \in Mutexes : m[k] = Nobody

\* Where the program may stay: neither thread waits for the other for ever.
Settled == \A t \in Walkers : At(t, "done")
=============================================================================
