----------------------------- MODULE SharedCell -----------------------------
(***************************************************************************)
(* OS UNIX+ System V/Shared Memory/laboratory work #34: a producer hands   *)
(* the lines it reads to consumers through one cell of shared memory, with *)
(* two System V semaphores, WRITE (the cell may be filled) and READ (it    *)
(* may be printed).  Every operation has SEM_UNDO: when a process ends,    *)
(* all it ever did to a semaphore is taken back at once, and a value below *)
(* zero becomes zero (as Linux does it).                                   *)
(***************************************************************************)
EXTENDS Integers, Sequences, FiniteSets, Functions

CONSTANTS Consumers,
          Producer,     \* the producer's process, no consumer
          CellLines,    \* bound: the lines handed over
          Kills         \* bound: the processes that are killed

Processes == Consumers \cup {Producer}
Semaphores == {"READ", "WRITE"}
Nothing == [s \in Semaphores |-> 0]

VARIABLES
    at,            \* the next call of each process
    shm,           \* the segment can be found by its key
    sems,          \* "none", "made" (not set yet), "set" or "removed"
    val,           \* the semaphores' values
    undo,          \* of each process: what its end adds to them
    product,       \* the cell: a line by its number
    replaced,      \* what consumers see that have a segment that was removed and
                   \* made again
    handed,        \* lines the producer has handed over
    output,        \* what the consumers have printed
    kills,
    disturbed      \* a process was killed that had finished a round, or a consumer
                   \* was left on a segment that is not the producer's

ipcVars == <<shm, sems, val, undo>>
dataVars == <<product, replaced, handed, output>>
faultVars == <<kills, disturbed>>
cellVars == <<at, ipcVars, dataVars, faultVars>>

Init == /\ at = [p \in Processes |-> "shmget"]
        /\ shm = FALSE /\ sems = "none"
        /\ val = Nothing /\ undo = [p \in Processes |-> Nothing]
        /\ product = 0 /\ replaced = <<>> /\ handed = 0 /\ output = <<>>
        /\ kills = 0 /\ disturbed = FALSE

There == sems \in {"made", "set"}
Exit == {"ended", "killed"}

Go(p, from, to) == at[p] = from /\ at' = [at EXCEPT ![p] = to]

\* semop with SEM_UNDO of process p: n is 1 or -1.
Semop(p, s, n) == /\ There /\ val[s] + n >= 0
                  /\ val' = [val EXCEPT ![s] = @ + n]
                  /\ undo' = [undo EXCEPT ![p][s] = @ - n]
                  /\ UNCHANGED <<shm, sems, faultVars>>

-----------------------------------------------------------------------------
Seen(c) == IF c \in DOMAIN replaced THEN replaced[c] ELSE product
Attached == {c \in Consumers : at[c] \in {"semget", "READ", "printf", "WRITE"}}

\* The segment is found, or made.  A producer that is started again after the
\* segment was removed makes another, and consumers stay with what they have.
MakeSegment ==
    /\ Go(Producer, "shmget", "semget")
    /\ shm' = TRUE
    /\ IF shm THEN UNCHANGED <<product, replaced, disturbed>>
       ELSE /\ product' = 0
            /\ replaced' = [c \in Attached |-> Seen(c)]
            /\ disturbed' = (disturbed \/ Attached # {})
    /\ UNCHANGED <<sems, val, undo, handed, output, kills>>

\* New semaphores are zero; a set a killed producer left is taken as it is.
MakeSemaphores == /\ Go(Producer, "semget", "SETALL")
                  /\ sems' = IF sems = "none" THEN "made" ELSE sems
                  /\ UNCHANGED <<shm, val, undo, dataVars, faultVars>>

\* SETALL also forgets what the ends of all processes would undo.
SetAll == /\ Go(Producer, "SETALL", "WRITE")
          /\ sems' = "set"
          /\ val' = [s \in Semaphores |-> IF s = "WRITE" THEN 1 ELSE 0]
          /\ undo' = [p \in Processes |-> Nothing]
          /\ UNCHANGED <<shm, dataVars, faultVars>>

\* Mutant: the cell is filled without asking.
FillAtOnce == Go(Producer, "WRITE", "fgets") /\ UNCHANGED <<ipcVars, dataVars, faultVars>>

AskToWrite == /\ Go(Producer, "WRITE", "fgets")
              /\ Semop(Producer, "WRITE", -1)
              /\ UNCHANGED dataVars

\* A line, or the end of the input.
Fill == /\ \/ handed < CellLines /\ Go(Producer, "fgets", "READ") /\ product' = handed + 1
           \/ Go(Producer, "fgets", "shmctl") /\ UNCHANGED product
        /\ UNCHANGED <<ipcVars, replaced, handed, output, faultVars>>

HandOver == /\ Go(Producer, "READ", "WRITE")
            /\ Semop(Producer, "READ", 1)
            /\ handed' = handed + 1
            /\ UNCHANGED <<product, replaced, output>>

RemoveSegment == /\ Go(Producer, "shmctl", "semctl")
                 /\ shm' = FALSE
                 /\ UNCHANGED <<sems, val, undo, dataVars, faultVars>>

\* Mutant: the semaphores stay.
LeaveSemaphores == /\ Go(Producer, "semctl", "ended")
                   /\ UNCHANGED <<ipcVars, dataVars, faultVars>>

RemoveSemaphores == /\ Go(Producer, "semctl", "ended")
                    /\ sems' = "removed"
                    /\ UNCHANGED <<shm, val, undo, dataVars, faultVars>>

Produce == \/ MakeSegment \/ MakeSemaphores \/ SetAll \/ AskToWrite \/ Fill
           \/ HandOver \/ RemoveSegment \/ RemoveSemaphores

-----------------------------------------------------------------------------
\* A consumer without a segment, or later without semaphores, gives up.
FindSegment(c) == /\ Go(c, "shmget", IF shm THEN "semget" ELSE "ended")
                  /\ UNCHANGED <<ipcVars, dataVars, faultVars>>

FindSemaphores(c) == /\ Go(c, "semget", IF There THEN "READ" ELSE "ended")
                     /\ UNCHANGED <<ipcVars, dataVars, faultVars>>

AskToRead(c) == Go(c, "READ", "printf") /\ Semop(c, "READ", -1) /\ UNCHANGED dataVars

Printf(c) == /\ Go(c, "printf", "WRITE")
             /\ output' = Append(output, Seen(c))
             /\ UNCHANGED <<ipcVars, product, replaced, handed, faultVars>>

GiveBack(c) == Go(c, "WRITE", "READ") /\ Semop(c, "WRITE", 1) /\ UNCHANGED dataVars

\* semop fails when the semaphores are gone, also one that was waiting.
SemopFails(c) == /\ sems = "removed"
                 /\ \E s \in Semaphores : Go(c, s, "ended")
                 /\ UNCHANGED <<ipcVars, dataVars, faultVars>>

Consume(c) == FindSemaphores(c) \/ AskToRead(c) \/ Printf(c) \/ GiveBack(c) \/ SemopFails(c)

-----------------------------------------------------------------------------
\* Mutant: semop without SEM_UNDO.
NothingUndone(p) == val

\* What is left of the semaphores when p has ended.
Undone(p) == [s \in Semaphores |-> IF val[s] + undo[p][s] < 0 THEN 0
                                   ELSE val[s] + undo[p][s]]

\* Of a process that was killed everything is undone.  It has finished more than
\* half a round if it has raised the semaphore it raises.
Kill(p) ==
    /\ kills < Kills /\ kills' = kills + 1
    /\ at[p] \notin Exit /\ at' = [at EXCEPT ![p] = "killed"]
    /\ val' = IF There THEN Undone(p) ELSE val
    /\ undo' = [undo EXCEPT ![p] = Nothing]
    /\ LET raised == IF p = Producer THEN "READ" ELSE "WRITE"
       IN  disturbed' = (disturbed \/ (There /\ undo[p][raised] # 0))
    /\ UNCHANGED <<shm, sems, dataVars>>

\* After a kill the producer may be started again.
Restart == /\ Go(Producer, "killed", "shmget")
           /\ UNCHANGED <<ipcVars, dataVars, faultVars>>

\* The end; or the producer waits and there are no consumers left.
Over == /\ \/ at[Producer] \in Exit
           \/ at[Producer] = "WRITE" /\ \A c \in Consumers : at[c] \in Exit
        /\ UNCHANGED cellVars

Next == \/ Produce \/ Restart
        \/ \E c \in Consumers : FindSegment(c) \/ Consume(c)
        \/ \E p \in Processes : Kill(p)
        \/ Over

-----------------------------------------------------------------------------
\* Every process is at one of its calls, and values stay small.
TypeOK == /\ at \in [Processes -> {"shmget", "semget", "READ", "WRITE", "SETALL", "fgets",
                                   "shmctl", "semctl", "printf"} \cup Exit]
          /\ shm \in BOOLEAN /\ sems \in {"none", "made", "set", "removed"}
          /\ val \in [Semaphores -> 0 .. 2 * CellLines + 2]
          /\ handed \in 0 .. CellLines /\ product \in {0, handed, handed + 1}
          /\ kills \in 0 .. Kills

\* Until somebody is killed that has done whole rounds, or a segment is replaced
\* that a consumer has, consumers print every line, in order, none before it was
\* handed over, and one twice only for a consumer that was killed while it had
\* the cell.  When the producer has the cell again, be it to stop, the last line
\* has been printed, too.
LinesHandedOver ==
    ~disturbed => /\ \A k, l \in DOMAIN output : k < l => output[k] <= output[l]
                  /\ 1 .. product - 1 \subseteq Range(output)
                  /\ at[Producer] \in {"fgets", "READ", "shmctl", "semctl", "ended"} =>
                         1 .. handed \subseteq Range(output)
                  /\ Range(output) \subseteq 1 .. handed
                  /\ Len(output) <= Cardinality(Range(output)) + kills

\* Whoever is killed, the right to use the cell is not lost: somebody has it or
\* can get it.
CellNotLost ==
    sems = "set" => \/ \E s \in Semaphores : val[s] > 0
                    \/ at[Producer] \in {"fgets", "READ", "shmctl", "semctl"}
                    \/ \E c \in Consumers : at[c] \in {"printf", "WRITE"}

\* Where the program may stay: a producer and a consumer do not wait for each
\* other for ever, and no consumer outlives the producer.
NoConsumer == \A c \in Consumers : at[c] \notin {"READ", "printf", "WRITE"}

Settled == NoConsumer \/ at[Producer] = "killed"
=============================================================================
