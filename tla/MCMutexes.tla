------------------------------ MODULE MCMutexes -----------------------------
(***************************************************************************)
(* Two exercises in the order of mutexes, of which one runs: the dining    *)
(* philosophers (#9) and the threads that print in turns (#10).            *)
(***************************************************************************)
EXTENDS Philosophers

CONSTANT ITERATIONS

ASSUME IterationsAssumption == ITERATIONS \in Nat

VARIABLES m, flag, walker, printed, program

Turns == INSTANCE PingPong

turnVars == <<m, flag, walker, printed>>
allVars == <<vars, turnVars, program>>

Dine == program = "philosophers" /\ UNCHANGED <<turnVars, program>>
Talk == program = "ping-pong" /\ UNCHANGED <<vars, program>>

MCInit == Init /\ Turns!Init /\ program \in {"philosophers", "ping-pong"}

MCNext == (Dine /\ Next) \/ (Talk /\ Turns!Next)

\* All threads are scheduled, in either program.
MCSpec == /\ MCInit /\ [][MCNext]_allVars
          /\ \A p \in Philos : WF_allVars(Dine /\ philosopher(p))
          /\ WF_allVars(Talk /\ Turns!SeesFlag)
          /\ \A t \in Turns!Walkers : WF_allVars(Talk /\ Turns!print_message(t))

-----------------------------------------------------------------------------
\* The types of the two programs.
MutexesTypeOK == TypeOK /\ Turns!TypeOK

\* The two threads of #10 print in turns, and end with all mutexes free.
PrintInTurns == Turns!PrintInTurns

\* The threads get to their ends, the dishes are all eaten.
EveryoneEnds == /\ program = "philosophers" => AllEnd
                /\ program = "ping-pong" => <>Turns!Settled
=============================================================================
