------------------------------ MODULE PiSignal ------------------------------
(***************************************************************************)
(* pthreads/laboratory_work_#8/main.c.  threads_num threads sum the series *)
(* for pi block by block until SIGINT.  They share global_iter_counter,    *)
(* the highest block some thread passed before the signal, so that no      *)
(* thread stops before the others have caught up with it.  What is summed  *)
(* is abstracted to how many blocks of it a thread has added.              *)
(***************************************************************************)
EXTENDS Naturals

CONSTANTS threads_num,   \* the program's argument
          MaxBlock       \* bound: the signal comes before a thread would
                         \* start a block above this one

(* main rejects a negative argument.                                       *)
ASSUME ThreadsNumAssumption == threads_num \in Nat
ASSUME MaxBlockAssumption == MaxBlock \in Nat

Threads == 0..(threads_num - 1)

VARIABLES stop_computations, global_iter_counter,
          local_iter_counter,   \* of each thread
          blocks,               \* blocks each thread has added to its sum
          pc,                   \* of each thread
          main,                 \* what main is doing
          i                     \* main's loop variable

vars == <<stop_computations, global_iter_counter, local_iter_counter,
          blocks, pc, main, i>>

Init == /\ stop_computations = FALSE
        /\ global_iter_counter = 0
        /\ local_iter_counter = [t \in Threads |-> 0]
        /\ blocks = [t \in Threads |-> 0]
        /\ pc = [t \in Threads |-> "not_started"]
        /\ main = "create"
        /\ i = 0

\* The handler is installed before the first thread is created.
sig_act == /\ stop_computations' = TRUE
           /\ UNCHANGED <<global_iter_counter, local_iter_counter, blocks, pc, main, i>>

\* Mutant: one thread more is created.
CreateOneMore == /\ main = "create"
                 /\ IF i <= threads_num
                    THEN /\ pc' = [pc EXCEPT ![i] = "compute"]
                         /\ i' = i + 1
                         /\ UNCHANGED main
                    ELSE /\ main' = "join"
                         /\ i' = 0
                         /\ UNCHANGED pc
                 /\ UNCHANGED <<stop_computations, global_iter_counter,
                                local_iter_counter, blocks>>

Create == /\ main = "create"
          /\ IF i < threads_num
             THEN /\ pc' = [pc EXCEPT ![i] = "compute"]
                  /\ i' = i + 1
                  /\ UNCHANGED main
             ELSE /\ main' = "join"
                  /\ i' = 0
                  /\ UNCHANGED pc
          /\ UNCHANGED <<stop_computations, global_iter_counter,
                         local_iter_counter, blocks>>

\* pthread_join returns when the thread has ended; then the sum is added.
Join == /\ main = "join"
        /\ IF i < threads_num
           THEN /\ pc[i] = "done"
                /\ i' = i + 1
                /\ UNCHANGED main
           ELSE /\ main' = "printed"
                /\ UNCHANGED i
        /\ UNCHANGED <<stop_computations, global_iter_counter,
                       local_iter_counter, blocks, pc>>

\* The inner for loop: this thread's share of block local_iter_counter.
Compute(t) == /\ pc[t] = "compute"
              /\ blocks' = [blocks EXCEPT ![t] = @ + 1]
              /\ pc' = [pc EXCEPT ![t] = "check"]
              /\ UNCHANGED <<stop_computations, global_iter_counter,
                             local_iter_counter, main, i>>

\* Mutant: a thread stops only when it is ahead of the others.
StopAhead(t) == /\ stop_computations
                /\ global_iter_counter < local_iter_counter[t]
                /\ pc' = [pc EXCEPT ![t] = "done"]
                /\ UNCHANGED <<global_iter_counter, local_iter_counter>>

\* The signal has come and t has caught up: it ends.
Stop(t) == /\ stop_computations
           /\ global_iter_counter <= local_iter_counter[t]
           /\ pc' = [pc EXCEPT ![t] = "done"]
           /\ UNCHANGED <<global_iter_counter, local_iter_counter>>

NextBlock(t) == /\ local_iter_counter' = [local_iter_counter EXCEPT ![t] = @ + 1]
                /\ pc' = [pc EXCEPT ![t] = "compute"]

\* The signal has come and another thread has passed a higher block.
CatchUp(t) == /\ stop_computations
              /\ global_iter_counter > local_iter_counter[t]
              /\ NextBlock(t)
              /\ UNCHANGED global_iter_counter

\* Mutant: passing a block is not recorded.
AdvanceUnrecorded(t) == /\ ~stop_computations
                        /\ local_iter_counter[t] < MaxBlock
                        /\ NextBlock(t)
                        /\ UNCHANGED global_iter_counter

\* No signal yet: record the block and go on with the next.
Advance(t) == /\ ~stop_computations
              /\ local_iter_counter[t] < MaxBlock
              /\ IF global_iter_counter < local_iter_counter[t]
                 THEN global_iter_counter' = local_iter_counter[t]
                 ELSE UNCHANGED global_iter_counter
              /\ NextBlock(t)

\* The critical section: nothing in it blocks, so it is one step.
Check(t) == /\ pc[t] = "check"
            /\ Stop(t) \/ CatchUp(t) \/ Advance(t)
            /\ UNCHANGED <<stop_computations, blocks, main, i>>

Next == \/ sig_act
        \/ Create
        \/ Join
        \/ \E t \in Threads : Compute(t) \/ Check(t)

\* main and the threads are scheduled by the kernel; the signal may never come.
Spec == /\ Init /\ [][Next]_vars
        /\ WF_vars(Create) /\ WF_vars(Join)
        /\ \A t \in Threads : WF_vars(Compute(t) \/ Check(t))

-----------------------------------------------------------------------------
\* Counters count, and main's loop variable stays within the array of threads.
TypeOK == /\ stop_computations \in BOOLEAN
          /\ global_iter_counter \in Nat
          /\ local_iter_counter \in [Threads -> Nat]
          /\ blocks \in [Threads -> Nat]
          /\ pc \in [Threads -> {"not_started", "compute", "check", "done"}]
          /\ main \in {"create", "join", "printed"}
          /\ i \in 0 .. threads_num

\* The sum main prints is a prefix of the series plus at most one block: some
\* number of whole blocks was summed by every thread, and a thread added at
\* most one block more.
PrintedSumIsPrefix ==
    main = "printed" =>
        /\ \A t \in Threads : pc[t] = "done"
        /\ \E n \in 1..(MaxBlock + 1) : \A t \in Threads : blocks[t] \in {n, n + 1}

\* Threads that have ended differ by one block at most, and none ended before
\* the block the others had already passed.
SpreadAtMostOne ==
    \A t, u \in Threads :
        pc[t] = "done" /\ pc[u] = "done" => blocks[t] <= blocks[u] + 1

\* Where the program may stay: after SIGINT the threads agree on where to stop,
\* and main prints the sum.
Settled == stop_computations => main = "printed"
=============================================================================
