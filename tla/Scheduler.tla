----------------------------- MODULE Scheduler ------------------------------
(***************************************************************************)
(* os-internals/round_robin/src/scheduler.c.  All threads, running, ready  *)
(* and blocked, live in one list threads_queue; whoever frees the CPU      *)
(* scans it from the head for the first READY thread.  The list is kept as *)
(* the code keeps it: its first and its last node, and in each node the    *)
(* next and the previous one.                                              *)
(* The calls come one at a time, from the timer interrupt (timer_tick) and *)
(* from the threads (the rest).                                            *)
(***************************************************************************)
EXTENDS Integers, Sequences, SequencesExt, FiniteSets

CONSTANTS Nodes,       \* the struct thread blocks malloc can hand out
          NULL,        \* the null pointer
          ThreadIds,   \* thread ids; two threads may carry the same one
          Timeslices   \* the arguments scheduler_setup may get

(* No block is at address 0, memory is finite, and timeslice is an int.    *)
ASSUME NullAssumption == NULL \notin Nodes
ASSUME NodesAssumption == IsFiniteSet(Nodes)
ASSUME TimeslicesAssumption == Timeslices \subseteq Int

VARIABLES max_time_on_cpu,
          threads_queue, tail_threads_queue, running_thread,
          thread_id, state, time_quantums, next, prev   \* the fields of each node

links == <<threads_queue, tail_threads_queue, next, prev>>
vars == <<max_time_on_cpu, links, running_thread, thread_id, state, time_quantums>>

\* FREE is a node malloc has not handed out; the others are enum states.
States == {"FREE", "RUNNING", "READY", "BLOCKED"}

Init == /\ max_time_on_cpu = 0
        /\ threads_queue = NULL
        /\ tail_threads_queue = NULL
        /\ running_thread = NULL
        /\ next = [n \in Nodes |-> NULL]
        /\ prev = [n \in Nodes |-> NULL]
        /\ thread_id \in [Nodes -> ThreadIds]
        /\ state = [n \in Nodes |-> "FREE"]
        /\ time_quantums = [n \in Nodes |-> 0]

\* Mutant: the quantum is counted from one.
SetupOffByOne(timeslice) ==
    /\ max_time_on_cpu' = timeslice + 1
    /\ UNCHANGED <<links, running_thread, thread_id, state, time_quantums>>

scheduler_setup(timeslice) ==
    /\ max_time_on_cpu' = timeslice
    /\ UNCHANGED <<links, running_thread, thread_id, state, time_quantums>>

\* The nodes a scan from node h along the links nx passes, in its order.  A
\* list that closes a circle is followed no further than there are nodes.
Walk(h, nx) ==
    LET step == [m \in Nodes \cup {NULL} |-> IF m = NULL THEN NULL ELSE nx[m]]
        at[k \in 1..Cardinality(Nodes)] == IF k = 1 THEN h ELSE step[at[k - 1]]
        length == Cardinality({k \in 1..Cardinality(Nodes) : at[k] # NULL})
    IN  [k \in 1..length |-> at[k]]

Queue == Walk(threads_queue, next)

ReadyPositions(q, st) == {i \in 1..Len(q) : st[q[i]] = "READY"}

\* Mutant: the scan does not stop at the first READY node.
ChooseLast(q, st) ==
    IF ReadyPositions(q, st) = {}
    THEN running_thread' = NULL /\ state' = st
    ELSE LET last == q[Max(ReadyPositions(q, st))]
         IN  running_thread' = last /\ state' = [st EXCEPT ![last] = "RUNNING"]

\* Run the first READY node of list q, given the states st the caller set.
choose_ready_thread(q, st) ==
    IF ReadyPositions(q, st) = {}
    THEN /\ running_thread' = NULL
         /\ state' = st
    ELSE LET first == q[Min(ReadyPositions(q, st))]
         IN  /\ running_thread' = first
             /\ state' = [st EXCEPT ![first] = "RUNNING"]

\* Mutant: the node behind the unlinked one keeps its link to it.
PrevKept(n) == prev

\* Unlinking node n: the head, and the links of the others without it.
HeadWithout(n) == IF prev[n] = NULL THEN next[n] ELSE threads_queue
NextWithout(n) == IF prev[n] = NULL THEN next ELSE [next EXCEPT ![prev[n]] = next[n]]
PrevWithout(n) == IF next[n] = NULL THEN prev ELSE [prev EXCEPT ![next[n]] = prev[n]]

\* Mutants: the node stays where it is; it goes to the head.
StayInPlace(n) == UNCHANGED links
PushToHead(n) ==
    IF n = threads_queue THEN UNCHANGED links
    ELSE /\ next' = [NextWithout(n) EXCEPT ![n] = threads_queue]
         /\ prev' = [PrevWithout(n) EXCEPT ![threads_queue] = n, ![n] = NULL]
         /\ tail_threads_queue' = IF next[n] = NULL THEN prev[n] ELSE tail_threads_queue
         /\ threads_queue' = n

\* Unlink node n and link it again behind the last one.
push_thread_to_tail(n) ==
    IF n = tail_threads_queue THEN UNCHANGED links
    ELSE /\ threads_queue' = HeadWithout(n)
         /\ next' = [NextWithout(n) EXCEPT ![tail_threads_queue] = n, ![n] = NULL]
         /\ prev' = [PrevWithout(n) EXCEPT ![n] = tail_threads_queue]
         /\ tail_threads_queue' = n

new_thread(n, id) ==
    /\ state[n] = "FREE"
    /\ IF threads_queue = NULL
       THEN /\ threads_queue' = n
            /\ next' = [next EXCEPT ![n] = NULL]
            /\ prev' = [prev EXCEPT ![n] = NULL]
       ELSE /\ next' = [next EXCEPT ![n] = NULL, ![tail_threads_queue] = n]
            /\ prev' = [prev EXCEPT ![n] = tail_threads_queue]
            /\ UNCHANGED threads_queue
    /\ tail_threads_queue' = n
    /\ thread_id' = [thread_id EXCEPT ![n] = id]
    /\ time_quantums' = [time_quantums EXCEPT ![n] = 0]
    /\ running_thread' = IF running_thread = NULL THEN n ELSE running_thread
    /\ state' = [state EXCEPT ![n] = IF running_thread = NULL THEN "RUNNING" ELSE "READY"]
    /\ UNCHANGED max_time_on_cpu

\* Mutant: the tail stays on the thread that has ended.
ExitStaleTail ==
    /\ running_thread # NULL
    /\ threads_queue' = HeadWithout(running_thread)
    /\ next' = NextWithout(running_thread)
    /\ prev' = PrevWithout(running_thread)
    /\ choose_ready_thread(Queue', [state EXCEPT ![running_thread] = "FREE"])
    /\ time_quantums' = [time_quantums EXCEPT ![running_thread] = 0]
    /\ UNCHANGED <<max_time_on_cpu, tail_threads_queue, thread_id>>

\* The freed node keeps its bytes; new_thread writes every field it reads.
exit_thread ==
    /\ running_thread # NULL
    /\ threads_queue' = HeadWithout(running_thread)
    /\ next' = NextWithout(running_thread)
    /\ prev' = PrevWithout(running_thread)
    /\ tail_threads_queue' = IF next[running_thread] = NULL
                             THEN prev[running_thread] ELSE tail_threads_queue
    /\ choose_ready_thread(Queue', [state EXCEPT ![running_thread] = "FREE"])
    /\ time_quantums' = [time_quantums EXCEPT ![running_thread] = 0]
    /\ UNCHANGED <<max_time_on_cpu, thread_id>>

\* Mutant: the blocked thread keeps the quanta it used.
BlockKeepsQuanta ==
    /\ running_thread # NULL
    /\ choose_ready_thread(Queue, [state EXCEPT ![running_thread] = "BLOCKED"])
    /\ UNCHANGED <<max_time_on_cpu, links, thread_id, time_quantums>>

block_thread ==
    /\ running_thread # NULL
    /\ choose_ready_thread(Queue, [state EXCEPT ![running_thread] = "BLOCKED"])
    /\ time_quantums' = [time_quantums EXCEPT ![running_thread] = 0]
    /\ UNCHANGED <<max_time_on_cpu, links, thread_id>>

BlockedPositions(q, id) ==
    {i \in 1..Len(q) : state[q[i]] = "BLOCKED" /\ thread_id[q[i]] = id}

\* The header asks for the id of a previously blocked thread.  Without one the
\* code hands NULL to push_thread_to_tail, which dereferences it unless the
\* list is empty too; that call is outside the contract and is not made here.
wake_thread(id) ==
    /\ BlockedPositions(Queue, id) # {}
    /\ LET q  == Queue
           n  == q[Min(BlockedPositions(q, id))]
           st == [state EXCEPT ![n] = "READY"]
       IN  /\ push_thread_to_tail(n)
           /\ IF running_thread = NULL
              THEN choose_ready_thread(Queue', st)
              ELSE /\ state' = st
                   /\ UNCHANGED running_thread
    /\ UNCHANGED <<max_time_on_cpu, thread_id, time_quantums>>

timer_tick ==
    /\ running_thread # NULL
    /\ LET used == time_quantums[running_thread] + 1
       IN  IF used >= max_time_on_cpu
           THEN /\ time_quantums' = [time_quantums EXCEPT ![running_thread] = 0]
                /\ push_thread_to_tail(running_thread)
                /\ choose_ready_thread(Queue', [state EXCEPT ![running_thread] = "READY"])
           ELSE /\ time_quantums' = [time_quantums EXCEPT ![running_thread] = used]
                /\ UNCHANGED <<links, running_thread, state>>
    /\ UNCHANGED <<max_time_on_cpu, thread_id>>

Next == \/ \E ts \in Timeslices : scheduler_setup(ts)
        \/ \E n \in Nodes, id \in ThreadIds : new_thread(n, id)
        \/ exit_thread
        \/ block_thread
        \/ \E id \in ThreadIds : wake_thread(id)
        \/ timer_tick

\* The only fairness is the timer's: the clock keeps ticking.
Spec == Init /\ [][Next]_vars /\ WF_vars(timer_tick)

-----------------------------------------------------------------------------
(* Type invariant: every variable holds a value its C declaration allows.  *)
TypeOK == /\ max_time_on_cpu \in Timeslices \cup {0}
          /\ {threads_queue, tail_threads_queue, running_thread} \subseteq Nodes \cup {NULL}
          /\ {next, prev} \subseteq [Nodes -> Nodes \cup {NULL}]
          /\ thread_id \in [Nodes -> ThreadIds]
          /\ state \in [Nodes -> States]
          /\ time_quantums \in [Nodes -> Nat]

Linked(q, n) == \E i \in 1..Len(q) : q[i] = n

Distinct(q) == \A i, j \in 1..Len(q) : q[i] = q[j] => i = j

\* q is the list that begins at h and ends at t, linked forwards by nx and
\* backwards by pv.
IsList(q, h, t, nx, pv) ==
    /\ h = IF q = <<>> THEN NULL ELSE q[1]
    /\ t = IF q = <<>> THEN NULL ELSE q[Len(q)]
    /\ \A i \in 1..Len(q) :
          /\ nx[q[i]] = IF i = Len(q) THEN NULL ELSE q[i + 1]
          /\ pv[q[i]] = IF i = 1 THEN NULL ELSE q[i - 1]

\* The list holds every allocated node exactly once and is linked both ways
\* from its head to its tail: whatever is unlinked and linked again, at either
\* end or between, no operation loses a thread, links it twice, closes a
\* circle, or leaves a freed node or a stale head, tail or link behind.
QueueHoldsLiveThreads ==
    LET q == Queue
    IN  /\ Distinct(q)
        /\ \A n \in Nodes : state[n] # "FREE" <=> Linked(q, n)
        /\ IsList(q, threads_queue, tail_threads_queue, next, prev)

\* Exactly the node running_thread points to is marked RUNNING.
OneRunning == \A n \in Nodes : state[n] = "RUNNING" <=> running_thread = n

\* Work conservation: the CPU is never idle while a thread is READY.
WorkConserving == running_thread = NULL => \A n \in Nodes : state[n] # "READY"

\* A thread that waits starts its next turn with a whole timeslice, and
\* a turn never outlasts the longest timeslice that was ever configured.
QuantaBounded ==
    \A n \in Nodes : /\ n # running_thread => time_quantums[n] = 0
                     /\ \/ time_quantums[n] = 0
                        \/ \E ts \in Timeslices : time_quantums[n] < ts

\* Turns are sound, whatever sequence of calls led here: the CPU is given to
\* one thread, to nobody only if nobody waits for it, and for a timeslice.
TurnsSound == OneRunning /\ WorkConserving /\ QuantaBounded

Before(q, n, m) == \E i, j \in 1..Len(q) : i < j /\ q[i] = n /\ q[j] = m

KeepsOrder ==
    LET q == Queue
        r == Queue'
    IN  \A n, m \in Nodes :
           (/\ state[n] = "READY" /\ state[m] = "READY"
            /\ Before(q, n, m)
            /\ state'[n] = "READY")
           => state'[m] = "READY" /\ Before(r, n, m)

\* No overtaking: while n waits in front of m, whatever is called, m neither
\* gets the CPU nor gets in front of n.
NoOvertaking == [][KeepsOrder]_vars

\* Starvation freedom: a READY thread gets the CPU, whatever the others do.
ReadyRuns == \A n \in Nodes : state[n] = "READY" ~> state[n] = "RUNNING"

-----------------------------------------------------------------------------
(* The refinement: the READY nodes in list order are the line.             *)
Ready == {n \in Nodes : state[n] = "READY"}

\* Those of the nodes R that are in list q, in its order.
Line(q, R) ==
    LET line[i \in 0..Len(q)] == IF i = 0 THEN <<>>
                                 ELSE IF q[i] \in R THEN Append(line[i - 1], q[i])
                                 ELSE line[i - 1]
    IN  line[Len(q)]

ReadyLine == Line(Queue, Ready)

RR == INSTANCE RoundRobin
      WITH Threads <- Nodes, NoThread <- NULL, cpu <- running_thread,
           ready <- ReadyLine,
           blocked <- {n \in Nodes : state[n] = "BLOCKED"}

\* The scheduler behaves as one FIFO line with preemption, liveness included.
ImplementsRoundRobin == RR!Spec
=============================================================================
