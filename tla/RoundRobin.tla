----------------------------- MODULE RoundRobin -----------------------------
(***************************************************************************)
(* What os-internals/round_robin promises, without its list and counters:  *)
(* one CPU, a first-in first-out line of ready threads and a set of        *)
(* blocked ones.  Every operation that frees the CPU gives it to the head  *)
(* of the line, and every thread that becomes ready joins its end.         *)
(* Scheduler.tla is shown to implement this module.                        *)
(***************************************************************************)
EXTENDS Naturals, Sequences

CONSTANTS Threads,   \* the threads there may be
          NoThread   \* the idle CPU

VARIABLES cpu,       \* the thread that has the CPU, or NoThread
          ready,     \* the threads waiting for the CPU, oldest first
          blocked    \* the threads waiting for a wake-up

rrVars == <<cpu, ready, blocked>>

Alive == {ready[i] : i \in DOMAIN ready} \cup blocked \cup ({cpu} \ {NoThread})

\* The CPU goes to the head of the line, if there is one.
Dispatch(line) ==
    IF line = <<>> THEN /\ cpu' = NoThread
                        /\ ready' = <<>>
                   ELSE /\ cpu' = Head(line)
                        /\ ready' = Tail(line)

\* t joins the line; an idle CPU serves it at once.
Join(t) == IF cpu = NoThread THEN Dispatch(Append(ready, t))
                             ELSE /\ ready' = Append(ready, t)
                                  /\ cpu' = cpu

Init == /\ cpu = NoThread
        /\ ready = <<>>
        /\ blocked = {}

Arrive(t) == /\ t \notin Alive
             /\ Join(t)
             /\ UNCHANGED blocked

Exit == /\ cpu # NoThread
        /\ Dispatch(ready)
        /\ UNCHANGED blocked

Block == /\ cpu # NoThread
         /\ Dispatch(ready)
         /\ blocked' = blocked \cup {cpu}

Wake(t) == /\ t \in blocked
           /\ Join(t)
           /\ blocked' = blocked \ {t}

Preempt == /\ cpu # NoThread
           /\ Dispatch(Append(ready, cpu))
           /\ UNCHANGED blocked

Next == \/ \E t \in Threads : Arrive(t) \/ Wake(t)
        \/ Exit
        \/ Block
        \/ Preempt

\* The CPU passes on while somebody is in line for it.
HandOver == ready # <<>> /\ (Exit \/ Block \/ Preempt)

Spec == Init /\ [][Next]_rrVars /\ WF_rrVars(HandOver)
=============================================================================
