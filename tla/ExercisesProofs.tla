-------------------------- MODULE ExercisesProofs ---------------------------
(***************************************************************************)
(* Proofs about the programs that MCExercises.tla puts side by side: pi    *)
(* until SIGINT, the sorted list, the test of SEM_UNDO, the widget makers, *)
(* the recursive copy, the shared cell and the status queue, for any       *)
(* number of threads and processes, any tree and any bounds.  Each program *)
(* has an invariant of its own, and a step of one leaves the variables of  *)
(* the others alone.                                                       *)
(***************************************************************************)
EXTENDS MCExercises, SequenceTheorems, FiniteSetTheorems, WellFoundedInduction, TLAPS

-----------------------------------------------------------------------------
(* The invariants.                                                         *)

\* Pi: no counter is more than a block past the finish line, and of a thread that
\* has ended none is behind it, which needs the finish line to be fixed by then.
BlocksMatchCounter ==
    \A t \in Threads :
        blocks[t] = IF pc[t] \in {"check", "done"} THEN local_iter_counter[t] + 1
                                                   ELSE local_iter_counter[t]

NearFinishLine ==
    \A t \in Threads : /\ local_iter_counter[t] <= global_iter_counter + 1
                       /\ pc[t] = "done" => /\ stop_computations
                                            /\ local_iter_counter[t] >= global_iter_counter

\* What main's two loops have done so far.
CreatedAndJoined ==
    /\ main = "create" => \A t \in Threads : t >= i => pc[t] = "not_started"
    /\ main = "join" => \A t \in Threads : t < i => pc[t] = "done"
    /\ main = "printed" => \A t \in Threads : pc[t] = "done"

PiInv == /\ TypeOK
        /\ BlocksMatchCounter
        /\ NearFinishLine
        /\ CreatedAndJoined
        /\ global_iter_counter <= MaxBlock

\* The list: the n nodes of S in the order q in which the links nx lead from hd to them.
Links(q, n, hd, nx, S) ==
    /\ n \in Nat
    /\ q \in [1 .. n -> List!Nodes]
    /\ \A k, j \in 1 .. n : q[k] = q[j] => k = j
    /\ \A k \in 1 .. n : q[k] \in S
    /\ \A m \in S : \E k \in 1 .. n : q[k] = m
    /\ hd = IF n = 0 THEN List!NULL ELSE q[1]
    /\ \A k \in 1 .. n : nx[q[k]] = IF k = n THEN List!NULL ELSE q[k + 1]

\* The lines at places from to upto are in order, and none after them is less.
Ascending(q, n, d, from, upto) ==
    \A k \in from .. upto, j \in 1 .. n : k < j => d[q[k]] <= d[q[j]]

\* No line as far as upto is less than the one at from.
LeastAt(q, d, from, upto) == \A c \in from .. upto : d[q[from]] <= d[q[c]]

\* How far the sort is: the places of its three pointers, and what is in order.
SortedSoFar(q, n, d, place, o, p, f) ==
    /\ place \in {"outer", "inner"} =>
           \E a \in 1 .. n :
              /\ o = q[a]
              /\ Ascending(q, n, d, 2, a)
              /\ place = "inner" => \E b \in a + 1 .. n :
                                       /\ p = q[b]
                                       /\ LeastAt(q, d, a + 1, b)
    /\ place = "find" =>
           /\ Ascending(q, n, d, 2, n)
           /\ \E g \in 1 .. n : f = q[g] /\ \A c \in 2 .. g : d[q[c]] <= d[q[1]]
    /\ place = "unlock" => Ascending(q, n, d, 1, n)

ListControl ==
    /\ locked <=> sorting \in {"outer", "inner", "find", "unlock"}
    /\ freed \cup forgotten \subseteq 1 .. pushed
    /\ freed \cap forgotten = {}
    /\ input = "read" => freed = {}
    /\ input = "done" => sorting = "done" /\ freed \cup forgotten = 1 .. pushed

ListInv ==
    /\ List!TypeOK
    /\ ListControl
    /\ \E n \in 0 .. pushed :
          \E q \in [1 .. n -> List!Nodes] :
             /\ Links(q, n, head, next, (1 .. pushed) \ (freed \cup forgotten))
             /\ SortedSoFar(q, n, data, sorting, out, in, first)

\* The test of SEM_UNDO: who has the semaphores is between its two semops, and
\* what its end will add to them is what it took, if it has the flag.
TestInv ==
    /\ Test!TypeOK
    /\ locks = "none" <=> tester[Master] = "start"
    /\ tester[Master] = "SETALL" => locks = "made"
    /\ tester[Master] \in {"lock", "fgetc", "loop", "unlock", "rmid"} => locks = "set"
    /\ locks \in {"none", "made"} => lockval = 0 /\ has = {}
    /\ \A p \in has : tester[p] \in {"fgetc", "loop", "unlock"}
    /\ locks # "removed" =>
           \A p \in Test!Testers : /\ adj[p] = IF p \in has /\ flag[p] THEN 1 ELSE 0
                                   /\ tester[p] \in {"fgetc", "unlock"} => p \in has
    /\ Test!LockExclusive

\* The widgets: nothing is made before the set is there, and a set that was
\* removed is not made again.
WidgetsInv ==
    /\ Parts!TypeOK
    /\ parts = "none" => \A k \in Parts!Kinds : details[k] = 0
    /\ parts = "removed" => maker = "ended"
    /\ Parts!PartsAddUp

\* The copy: what is not started waits in its directory, or was passed over, and
\* what went well so far has left its traces.
GoneWell(e) ==
    /\ thread[e] \in {"copy", "read"} => e \in made
    /\ thread[e] = "copy" => copy_type[e] = "file"
    /\ thread[e] = "read" => copy_type[e] = "directory"
    /\ thread[e] \notin {"close", "ended"} => unread[e] \cap skipped = {}
    /\ thread[e] \in {"close", "ended"} /\ reported = {} =>
           /\ e \in made
           /\ IF copy_type[e] = "file" THEN e \in copied \cup damaged ELSE unread[e] \subseteq skipped

TreeInv ==
    /\ thread \in [Entries -> {"none", "stat", "source", "destination", "copy", "read",
                               "close", "ended"}]
    /\ copy_type \in [Entries -> {"file", "directory"}]
    /\ \A e \in Entries : copy_type[e] \in Tree!Types(e)
    /\ unread \in [Entries -> SUBSET Entries]
    /\ {made, copied, damaged, skipped, reported} \subseteq SUBSET Entries
    /\ thread[Root] # "none"
    /\ \A e \in Entries \ {Root} : thread[e] = "none" <=> e \in unread[Parent[e]] \cup skipped
    /\ \A e \in Entries : unread[e] \subseteq Tree!Children(e)
    /\ \A e \in made : Kind[e] = "other" => copy_type[e] = "file"
    /\ \A e \in Entries : GoneWell(e)
    /\ \A e \in copied \cup damaged : copy_type[e] = "file" /\ thread[e] # "none"
    /\ Tree!CopyComplete

\* The copy: what a thread has open depends on where it is.
MayHave(n, there) ==
    /\ there \in {"none", "stat", "source", "ended"} => n = 0
    /\ there = "destination" => n = 1
    /\ there \in {"copy", "read"} => n = 2
    /\ there = "close" => n \in {1, 2}

Descriptors(e) == MayHave(open[e], thread[e])

OpenInv == /\ open \in [Entries -> 0 .. 2] /\ Tree!Open <= OpenMax
           /\ \A e \in Entries : Descriptors(e)

-----------------------------------------------------------------------------
\* The shared cell: the waits of the consumers, and what they have given back,
\* as far as their ends would undo it.
\* (A pile for each consumer is counted as a set of pairs.)
Pile(f) == {t \in Consumers \X Nat : t[2] # 0 /\ t[2] <= f[t[1]]}
TakenBy == [c \in Consumers |-> undo[c]["READ"]]
GivenBy == [c \in Consumers |-> -undo[c]["WRITE"]]
Taken == Pile(TakenBy)
Given == Pile(GivenBy)

InRound(c) == at[c] \in {"printf", "WRITE"}
Filling == at[Producer] \in {"fgets", "READ", "shmctl", "semctl"}

CellTypes ==
    /\ at \in [Cell!Processes -> {"shmget", "semget", "READ", "WRITE", "SETALL", "fgets",
                                  "shmctl", "semctl", "printf"} \cup Cell!Exit]
    /\ sems \in {"none", "made", "set", "removed"}
    /\ val \in [Cell!Semaphores -> Nat]
    /\ undo \in [Cell!Processes -> [Cell!Semaphores -> Int]]
    /\ \A c \in Consumers : undo[c]["READ"] >= 0 /\ undo[c]["WRITE"] <= 0
    /\ undo[Producer]["WRITE"] >= 0 /\ undo[Producer]["READ"] <= 0

\* Each value and all that would be undone add up to at least what SETALL made
\* of it: the end of a process may only add to that, when it stops at zero.
Balance ==
    /\ sems = "set" => /\ val["WRITE"] + undo[Producer]["WRITE"] >= 1 + Cardinality(Given)
                       /\ val["READ"] + Cardinality(Taken) >= -undo[Producer]["READ"]
    /\ sems # "removed" =>
           /\ \A c \in Consumers :
                 undo[c]["READ"] + undo[c]["WRITE"] <= IF InRound(c) THEN 1 ELSE 0
           /\ undo[Producer]["WRITE"] + undo[Producer]["READ"] <= IF Filling THEN 1 ELSE 0

CellInv == CellTypes /\ Balance /\ IsFiniteSet(Taken) /\ IsFiniteSet(Given)

\* Until somebody is killed that has done whole rounds there is one right to
\* use the cell, and it goes round.
MayWrite == val["WRITE"] = 1 /\ val["READ"] = 0 /\ ~Filling /\ \A c \in Consumers : ~InRound(c)
MayRead == val["WRITE"] = 0 /\ val["READ"] = 1 /\ ~Filling /\ \A c \in Consumers : ~InRound(c)
Fills == val["WRITE"] = 0 /\ val["READ"] = 0 /\ Filling /\ \A c \in Consumers : ~InRound(c)
Reads(c) == /\ val["WRITE"] = 0 /\ val["READ"] = 0 /\ ~Filling /\ InRound(c)
            /\ \A d \in Consumers : InRound(d) => d = c

\* The last line is not printed, or printed by a consumer that was killed then.
Unprinted == MayRead \/ \E c \in Consumers : Reads(c) /\ at[c] = "printf"

\* Where the producer is tells how far it is.
Places ==
    /\ handed = 0 \/ product = IF at[Producer] = "READ" THEN handed + 1 ELSE handed
    /\ at[Producer] \in {"killed", "shmget", "semget", "SETALL"} => handed = 0
    /\ at[Producer] \in {"WRITE", "fgets", "READ", "shmctl", "semctl"} => sems = "set"
    /\ at[Producer] # "printf" /\ (sems = "removed" <=> at[Producer] = "ended")
    /\ sems = "removed" => \A c \in Consumers : at[c] # "printf"

\* A process that is not in a round has undone with one hand what it did with
\* the other.
Rounds ==
    /\ handed = 0 => /\ val["READ"] = 0 /\ output = <<>>
                     /\ \A c \in Consumers : ~InRound(c)
    /\ sems # "removed" =>
          /\ undo[Producer]["READ"] = 0 - handed
          /\ undo[Producer]["WRITE"] = IF Filling THEN handed + 1 ELSE handed
          /\ \A c \in Consumers : undo[c]["READ"] + undo[c]["WRITE"] = IF InRound(c) THEN 1 ELSE 0

OneRight == sems = "set" => MayWrite \/ MayRead \/ Fills \/ \E c \in Consumers : Reads(c)

\* What the consumers have printed.
Printed ==
    /\ 1 .. handed - 1 \subseteq Cell!Range(output) /\ Cell!Range(output) \subseteq 1 .. handed
    /\ \A k, l \in DOMAIN output : k < l => output[k] <= output[l]
    /\ IF sems = "set" /\ Unprinted
       THEN handed \in Cell!Range(output) =>
                Len(output) < Cardinality(Cell!Range(output)) + kills
       ELSE 1 .. handed \subseteq Cell!Range(output)
    /\ Len(output) <= Cardinality(Cell!Range(output)) + kills

LineTypes ==
    /\ handed \in Nat /\ kills \in Nat /\ output \in Seq(Nat) /\ disturbed \in BOOLEAN
    /\ product \in {0, handed, handed + 1}
    /\ at[Producer] = "READ" => product = handed + 1
    /\ \A c \in DOMAIN replaced : replaced[c] \in Nat
    /\ ~disturbed => DOMAIN replaced = {}

LinesInv == LineTypes /\ (~disturbed => Places /\ Rounds /\ OneRight /\ Printed)

\* What a consumer holds of the lines that were handed over: as many as it has
\* taken, or as it has given back and has now.
Most(r, w, b) == LET n == (IF b THEN 1 ELSE 0) - w IN IF r > n THEN r ELSE n
HeldBy == [c \in Consumers |-> Most(undo[c]["READ"], undo[c]["WRITE"], InRound(c))]
Held == Pile(HeldBy)

Restarting == at[Producer] \in {"killed", "shmget", "semget", "SETALL"}

\* READ is never more than what was handed over and is held by nobody; what was
\* taken of WRITE comes back when the producer is killed, until it sets it again.
ValuesInv ==
    /\ shm \in BOOLEAN /\ kills \in 0 .. Kills /\ handed \in 0 .. CellLines
    /\ at[Producer] = "READ" => handed < CellLines
    /\ undo[Producer]["WRITE"] <= IF Restarting THEN 0
                                  ELSE IF at[Producer] = "WRITE" THEN handed ELSE handed + 1
    /\ IsFiniteSet(Held) /\ val["READ"] + Cardinality(Held) <= handed
    /\ Cell!There => val["WRITE"] <= 1 + Cardinality(Given)
                                         + IF Restarting THEN CellLines + 1 ELSE 0
    /\ sems = "none" => val["WRITE"] = 0
    /\ sems = "removed" => val["WRITE"] <= 2 * CellLines + 2

-----------------------------------------------------------------------------
\* The status queue: what it holds of slave s.
InQueue(s, text) == \E k \in DOMAIN queue : queue[k] = [from |-> s, text |-> text]
Rank(text) == IF text = Status!F THEN StatusLines + 1 ELSE text

\* Slaves that are counted: known, and their "F" is to come.
Live == {s \in known : slave[s] = "ended" => InQueue(s, Status!F)}

StatusTypes ==
    /\ master \in {"msgget", "signal", "msgrcv", "msgctl", "ended", "killed"}
    /\ queue \in Seq(Status!Messages)
    /\ alive \in Nat
    /\ slave \in [Reporters -> {"msgget", "R", "fgets", "line", "F", "ended", "killed"}]
    /\ printed_lines \in [Reporters -> 0 .. StatusLines]
    /\ line_no \in [Reporters -> 0 .. StatusLines]
    /\ known \subseteq Reporters /\ stray \subseteq Reporters
    /\ interrupted \in BOOLEAN /\ found \in BOOLEAN
    /\ master = "msgget" => /\ queue = <<>> /\ known = {} /\ alive = 0 /\ ~found
                            /\ \A s \in Reporters : /\ slave[s] \in {"msgget", "ended"}
                                                    /\ line_no[s] = 0 /\ printed_lines[s] = 0
    /\ master \in {"signal", "msgrcv", "msgctl"} => found

\* As long as no line is taken for a status: a slave's messages come in the order
\* R, lines, F; a line is sent after R, and is later than what is printed.
InOrder == \A j, k \in DOMAIN queue :
               j < k /\ queue[j].from = queue[k].from => Rank(queue[j].text) < Rank(queue[k].text)

\* What a message that waits says of its sender ...
Waiting(s, text) ==
    /\ slave[s] \in {"fgets", "line", "F", "ended", "killed"}
    /\ slave[s] = "ended" => InQueue(s, Status!F)
    /\ text = Status!F => slave[s] = "ended"
    /\ text = Status!R => s \notin known /\ printed_lines[s] = 0
    /\ text # Status!R => s \in known \/ InQueue(s, Status!R)
    /\ text > 0 => /\ printed_lines[s] < text /\ text <= line_no[s]
                   /\ slave[s] = "line" => text < line_no[s]

\* ... and what a slave has sent by the time it goes on.
Reported(s) ==
    /\ slave[s] \in {"msgget", "R"} => line_no[s] = 0 /\ printed_lines[s] = 0
    /\ slave[s] \in {"fgets", "line", "F"} \/ InQueue(s, Status!F)
           => s \in known \/ InQueue(s, Status!R)
    /\ s \in known => slave[s] \in {"fgets", "line", "F", "ended", "killed"}
    /\ s \notin known => printed_lines[s] = 0
    /\ slave[s] = "line" => printed_lines[s] < line_no[s]
    /\ slave[s] \notin {"line", "killed"} =>
           line_no[s] = printed_lines[s] \/ InQueue(s, line_no[s])

Orderly == /\ InOrder
           /\ \A s \in Reporters, text \in Status!F .. StatusLines :
                  InQueue(s, text) => Waiting(s, text)
           /\ \A s \in Reporters : Reported(s)

Counted == IsFiniteSet(Live) /\ alive = Cardinality(Live)

StatusInv ==
    /\ StatusTypes
    /\ stray = {} /\ master \in {"signal", "msgrcv", "msgctl"} =>
           /\ Orderly /\ Counted
           /\ master = "msgctl" /\ ~interrupted => alive = 0

QueueFits == Len(queue) <= Capacity

-----------------------------------------------------------------------------
\* Counting from 0 to m.
LEMMA CountUp ==
    ASSUME NEW m \in Nat, NEW S, 0 \in S,
           \A k \in 0 .. m - 1 : k \in S => k + 1 \in S
    PROVE  \A k \in 0 .. m : k \in S
<1> DEFINE R == {k \in 0 .. m : k \notin S}
           less == OpToRel(<, Nat)
<1>1. \A x, y \in Nat : x < y => <<x, y>> \in less
  BY DEF OpToRel
<1>2. R \subseteq Nat
  OBVIOUS
<1>3. ASSUME R # {} PROVE FALSE
  <2>1. IsWellFoundedOn(less, Nat)
    BY NatLessThanWellFounded
  <2> HIDE DEF less, R
  <2>2. PICK k \in R : \A j \in R : <<j, k>> \notin less
    BY <1>2, <1>3, <2>1, WFMin
  <2> USE DEF R
  <2>3. k \in 1 .. m /\ k - 1 \in Nat /\ k - 1 < k /\ k \in Nat
    BY <2>2
  <2>4. k - 1 \notin R
    BY <1>1, <2>2, <2>3
  <2>5. k - 1 \in S /\ (k - 1) + 1 = k
    BY <2>3, <2>4
  <2> QED
    BY <2>2, <2>3, <2>5
<1> QED
  BY <1>3

-----------------------------------------------------------------------------
(* Pi until SIGINT.                                                        *)

\* No thread runs at the start and no block is counted.
LEMMA PiInit == Init => PiInv
<1> SUFFICES ASSUME Init PROVE PiInv
  OBVIOUS
<1>1. TypeOK
  <2>1. 0 \in 0 .. threads_num
    BY ThreadsNumAssumption
  <2> QED  BY <2>1 DEF Init, TypeOK
<1>2. BlocksMatchCounter /\ NearFinishLine /\ CreatedAndJoined
  BY DEF Init, BlocksMatchCounter, NearFinishLine, CreatedAndJoined
<1> QED  BY <1>1, <1>2, MaxBlockAssumption DEF Init, PiInv

\* The critical section of pi_calc keeps the invariant, whichever of its
\* three branches is taken.
LEMMA PiChecks ==
    ASSUME PiInv, NEW t \in Threads, Check(t)
    PROVE  PiInv'
<1>1. /\ pc[t] = "check" /\ UNCHANGED <<stop_computations, blocks, main, i>>
      /\ TypeOK /\ blocks[t] = local_iter_counter[t] + 1
  BY DEF Check, PiInv, BlocksMatchCounter
<1>2. CASE Stop(t)
  <2>1. TypeOK'
    BY <1>1, <1>2 DEF TypeOK, Stop
  <2>2. BlocksMatchCounter'
    BY <1>1, <1>2 DEF PiInv, BlocksMatchCounter, Stop, TypeOK
  <2>3. NearFinishLine'
    BY <1>1, <1>2 DEF PiInv, NearFinishLine, Stop, TypeOK
  <2>4. CreatedAndJoined'
    BY <1>1, <1>2 DEF PiInv, CreatedAndJoined, Stop, TypeOK
  <2> QED  BY <1>2, <2>1, <2>2, <2>3, <2>4 DEF PiInv, Stop
<1>3. CASE CatchUp(t) \/ Advance(t)
  <2>1. /\ global_iter_counter' \in Nat
        /\ global_iter_counter' >= global_iter_counter
        /\ global_iter_counter' >= local_iter_counter[t]
        /\ global_iter_counter' <= MaxBlock
    BY <1>1, <1>3, MaxBlockAssumption DEF CatchUp, Advance, PiInv, TypeOK
  <2>2. /\ local_iter_counter' = [local_iter_counter EXCEPT ![t] = @ + 1]
        /\ pc' = [pc EXCEPT ![t] = "compute"]
    BY <1>3 DEF CatchUp, Advance, NextBlock
  <2>3. stop_computations => global_iter_counter' = global_iter_counter
    BY <1>3 DEF CatchUp, Advance
  <2>4. TypeOK'
    BY <1>1, <2>1, <2>2 DEF TypeOK
  <2>5. BlocksMatchCounter'
    BY <1>1, <2>2 DEF PiInv, BlocksMatchCounter, TypeOK
  <2>6. NearFinishLine'
    <3>1. ASSUME NEW u \in Threads
          PROVE  /\ local_iter_counter'[u] <= global_iter_counter' + 1
                 /\ pc'[u] = "done" => /\ stop_computations'
                                       /\ local_iter_counter'[u] >= global_iter_counter'
      <4>1. CASE u = t
        BY <1>1, <2>1, <2>2, <4>1 DEF TypeOK
      <4>2. CASE u # t
        BY <1>1, <2>1, <2>2, <2>3, <4>2 DEF PiInv, TypeOK, NearFinishLine
      <4> QED  BY <4>1, <4>2
    <3> QED  BY <3>1 DEF NearFinishLine
  <2>7. CreatedAndJoined'
    BY <1>1, <2>2 DEF PiInv, CreatedAndJoined, TypeOK
  <2> QED  BY <2>1, <2>4, <2>5, <2>6, <2>7 DEF PiInv
<1> QED  BY <1>2, <1>3 DEF Check

\* Every step of main, of the threads and of the handler keeps the invariant.
LEMMA PiStep ==
    ASSUME PiInv, [Next]_vars
    PROVE  PiInv'
<1>1. CASE sig_act
  BY <1>1 DEF sig_act, PiInv, TypeOK, BlocksMatchCounter, NearFinishLine, CreatedAndJoined
<1>2. CASE Create
  <2>1. CASE i < threads_num
    <3>1. i \in Threads /\ i' \in 0 .. threads_num
      BY <2>1, <1>2, ThreadsNumAssumption DEF Create, Threads, PiInv, TypeOK
    <3>2. /\ pc[i] = "not_started" /\ pc' = [pc EXCEPT ![i] = "compute"]
          /\ i' = i + 1 /\ main' = "create"
          /\ UNCHANGED <<stop_computations, global_iter_counter,
                         local_iter_counter, blocks>>
      BY <1>2, <2>1, <3>1 DEF Create, PiInv, TypeOK, CreatedAndJoined
    <3>3. TypeOK' /\ BlocksMatchCounter' /\ NearFinishLine'
      BY <3>1, <3>2 DEF PiInv, TypeOK, BlocksMatchCounter, NearFinishLine
    <3>4. CreatedAndJoined'
      BY <1>2, <3>1, <3>2 DEF PiInv, TypeOK, Create, CreatedAndJoined, Threads
    <3> QED  BY <3>2, <3>3, <3>4 DEF PiInv
  <2>2. CASE ~(i < threads_num)
    BY <1>2, <2>2, ThreadsNumAssumption DEF Create, PiInv, TypeOK, BlocksMatchCounter, NearFinishLine,
                      CreatedAndJoined, Threads
  <2> QED  BY <2>1, <2>2
<1>3. CASE Join
  <2>1. CASE i < threads_num
    BY <1>3, <2>1, ThreadsNumAssumption
       DEF Join, PiInv, TypeOK, BlocksMatchCounter, NearFinishLine, CreatedAndJoined, Threads
  <2>2. CASE ~(i < threads_num)
    <3>1. \A t \in Threads : t < i
      BY <2>2, ThreadsNumAssumption DEF Threads, PiInv, TypeOK
    <3> QED  BY <1>3, <2>2, <3>1
                DEF Join, PiInv, TypeOK, BlocksMatchCounter, NearFinishLine, CreatedAndJoined
  <2> QED  BY <2>1, <2>2
<1>4. ASSUME NEW t \in Threads, Compute(t) PROVE PiInv'
  BY <1>4 DEF Compute, PiInv, TypeOK, BlocksMatchCounter, NearFinishLine, CreatedAndJoined
<1>5. CASE UNCHANGED vars
  BY <1>5 DEF vars, PiInv, TypeOK, BlocksMatchCounter, NearFinishLine, CreatedAndJoined
<1> QED  BY <1>1, <1>2, <1>3, <1>4, <1>5, PiChecks DEF Next

LEMMA PiFrame == PiInv /\ UNCHANGED vars => PiInv'
<1> SUFFICES ASSUME PiInv, UNCHANGED vars PROVE PiInv'
  OBVIOUS
<1> QED
  BY PiStep

-----------------------------------------------------------------------------
(* The test of SEM_UNDO.                                                   *)

LEMMA TestInit == Test!Init => TestInv
BY ProcessesAssumption DEF Test!Init, TestInv, Test!TypeOK, Test!LockExclusive, Test!ThereStill,
   Test!Testers

LEMMA TestFrame == TestInv /\ UNCHANGED testVars => TestInv'
BY DEF testVars, TestInv, Test!TypeOK, Test!LockExclusive, Test!ThereStill

\* The end of a process: what it holds with the flag is given back, and what it
\* holds without is the reason why nobody can get it any more.
LEMMA TestGone ==
    ASSUME TestInv, NEW p \in Test!Testers, tester[p] \notin {"start", "ended", "killed"},
           NEW there \in {"ended", "killed"},
           p = Master /\ there = "ended" => locks \notin {"none", "made"},
           tester' = [tester EXCEPT ![p] = there], Test!Gone(p), UNCHANGED <<flag, locks>>
    PROVE  TestInv'
<1>1. /\ tester \in [Test!Testers -> {"start", "SETALL", "lock", "fgetc", "loop", "unlock",
                                      "rmid", "exit", "ended", "killed"}]
      /\ adj \in [Test!Testers -> 0 .. 1] /\ lockval \in 0 .. 1 /\ has \subseteq Test!Testers
      /\ flag \in [Test!Testers -> BOOLEAN]
      /\ has' = has \ {p} /\ adj' = [adj EXCEPT ![p] = 0]
      /\ lockval' = IF locks \in {"made", "set"} THEN lockval + adj[p] ELSE lockval
      /\ flag' = flag /\ locks' = locks /\ Master \in Test!Testers
  BY DEF TestInv, Test!TypeOK, Test!Gone, Test!ThereStill, Test!Testers
<1>2. /\ tester'[p] = there
      /\ \A q \in Test!Testers : q # p => tester'[q] = tester[q]
      /\ tester' \in [Test!Testers -> {"start", "SETALL", "lock", "fgetc", "loop", "unlock",
                                       "rmid", "exit", "ended", "killed"}]
  BY <1>1
<1>3. locks \in {"made", "set"} =>
          lockval' = IF p \in has /\ flag[p] THEN 1 ELSE lockval
  BY <1>1 DEF TestInv, Test!LockExclusive, Test!ThereStill
<1>4. Test!TypeOK'
  BY <1>1, <1>2, <1>3 DEF TestInv, Test!TypeOK
<1>5. /\ locks' = "none" <=> tester'[Master] = "start"
      /\ tester'[Master] = "SETALL" => locks' = "made"
      /\ tester'[Master] \in {"lock", "fgetc", "loop", "unlock", "rmid"} => locks' = "set"
  BY <1>1, <1>2 DEF TestInv
<1>6. locks' \in {"none", "made"} => lockval' = 0 /\ has' = {}
  BY <1>1, <1>3 DEF TestInv
<1>7. \A q \in has' : tester'[q] \in {"fgetc", "loop", "unlock"}
  BY <1>1, <1>2 DEF TestInv
<1>8. locks' # "removed" =>
          \A q \in Test!Testers : /\ adj'[q] = IF q \in has' /\ flag'[q] THEN 1 ELSE 0
                                  /\ tester'[q] \in {"fgetc", "unlock"} => q \in has'
  BY <1>1, <1>2 DEF TestInv
<1>9. Test!LockExclusive'
  <2>1. \A q, r \in has' : q = r
    BY <1>1 DEF TestInv, Test!LockExclusive
  <2>2. Test!ThereStill' /\ has' # {} => lockval' = 0
    BY <1>1, <1>3 DEF TestInv, Test!LockExclusive, Test!ThereStill
  <2>3. ASSUME locks' = "set", lockval' = 0, has' = {}
        PROVE  \E q \in Test!Testers : tester'[q] \in {"ended", "killed"} /\ ~flag'[q]
    <3>1. CASE p \in has
      <4>1. ~flag[p]
        BY <1>1, <1>3, <2>3, <3>1
      <4> QED
        BY <1>1, <1>2, <4>1
    <3>2. CASE p \notin has
      <4>1. PICK q \in Test!Testers : tester[q] \in {"ended", "killed"} /\ ~flag[q]
        BY <1>1, <1>3, <2>3, <3>2 DEF TestInv, Test!LockExclusive
      <4> QED
        BY <1>1, <1>2, <4>1
    <3> QED
      BY <3>1, <3>2
  <2> QED
    BY <2>1, <2>2, <2>3 DEF Test!LockExclusive
<1> QED
  BY <1>4, <1>5, <1>6, <1>7, <1>8, <1>9 DEF TestInv, Test!Testers

LEMMA TestStep == TestInv /\ Test!Next => TestInv'
<1> SUFFICES ASSUME TestInv, Test!Next PROVE TestInv'
  OBVIOUS
<1>1. /\ tester \in [Test!Testers -> {"start", "SETALL", "lock", "fgetc", "loop", "unlock",
                                      "rmid", "exit", "ended", "killed"}]
      /\ adj \in [Test!Testers -> 0 .. 1] /\ lockval \in 0 .. 1 /\ has \subseteq Test!Testers
      /\ flag \in [Test!Testers -> BOOLEAN]
      /\ Master \in Test!Testers /\ Slaves \subseteq Test!Testers /\ Master \notin Slaves
  BY ProcessesAssumption DEF TestInv, Test!TypeOK, Test!Testers
<1>2. ASSUME NEW p \in Test!Testers, Test!Start(p) PROVE TestInv'
  <2>1. /\ p \notin has /\ tester[p] = "start"
        /\ \A q \in Test!Testers : q # p => flag'[q] = flag[q] /\ tester'[q] = tester[q]
        /\ tester'[p] \in {"SETALL", "lock", "ended"}
        /\ flag' \in [Test!Testers -> BOOLEAN]
        /\ adj' = adj /\ lockval' = lockval /\ has' = has
    BY <1>1, <1>2 DEF Test!Start, Test!Step, TestInv
  <2>2. tester' \in [Test!Testers -> {"start", "SETALL", "lock", "fgetc", "loop", "unlock",
                                      "rmid", "exit", "ended", "killed"}]
    BY <1>1, <1>2 DEF Test!Start, Test!Step
  <2>3. IF p = Master THEN locks = "none" /\ locks' = "made" /\ tester'[p] = "SETALL"
        ELSE locks' = locks /\ tester'[Master] = tester[Master]
    BY <1>1, <1>2, <2>1 DEF Test!Start, Test!Step, TestInv
  <2>4. Test!TypeOK'
    BY <1>1, <2>1, <2>2, <2>3 DEF TestInv, Test!TypeOK
  <2>5. Test!LockExclusive'
    <3>1. /\ \A q, r \in has' : q = r
          /\ Test!ThereStill' /\ has' # {} => lockval' = 0
      BY <2>1, <2>3 DEF TestInv, Test!LockExclusive, Test!ThereStill
    <3>2. ASSUME locks' = "set", lockval' = 0, has' = {}
          PROVE  \E q \in Test!Testers : tester'[q] \in {"ended", "killed"} /\ ~flag'[q]
      <4>1. PICK q \in Test!Testers : tester[q] \in {"ended", "killed"} /\ ~flag[q]
        BY <2>1, <2>3, <3>2 DEF TestInv, Test!LockExclusive
      <4>2. q # p
        BY <2>1, <4>1
      <4> QED
        BY <2>1, <4>1, <4>2
    <3> QED
      BY <3>1, <3>2 DEF Test!LockExclusive
  <2>6. /\ locks' = "none" <=> tester'[Master] = "start"
        /\ tester'[Master] = "SETALL" => locks' = "made"
        /\ tester'[Master] \in {"lock", "fgetc", "loop", "unlock", "rmid"} => locks' = "set"
        /\ locks' \in {"none", "made"} => lockval' = 0 /\ has' = {}
    BY <2>1, <2>3 DEF TestInv
  <2>7. \A q \in has' : tester'[q] \in {"fgetc", "loop", "unlock"}
    BY <1>1, <2>1 DEF TestInv
  <2>8. locks' # "removed" =>
            \A q \in Test!Testers : /\ adj'[q] = IF q \in has' /\ flag'[q] THEN 1 ELSE 0
                                    /\ tester'[q] \in {"fgetc", "unlock"} => q \in has'
    BY <1>1, <2>1, <2>3 DEF TestInv
  <2> QED
    BY <2>4, <2>5, <2>6, <2>7, <2>8 DEF TestInv, Test!Testers
<1>3. CASE Test!SetAll
  <2>1. /\ tester[Master] = "SETALL" /\ locks = "made" /\ has = {}
        /\ tester' = [tester EXCEPT ![Master] = "lock"]
        /\ locks' = "set" /\ lockval' = 1 /\ adj' = [q \in Test!Testers |-> 0]
        /\ flag' = flag /\ has' = has
    BY <1>3 DEF Test!SetAll, Test!Step, TestInv
  <2> QED
    BY <1>1, <2>1 DEF TestInv, Test!TypeOK, Test!LockExclusive, Test!Testers
<1>4. ASSUME NEW p \in Test!Testers, Test!Lock(p), p = Master \/ p \in Slaves PROVE TestInv'
  <2>1. /\ tester[p] = "lock" /\ lockval = 1 /\ has = {} /\ locks = "set"
        /\ lockval' = 0 /\ has' = {p} /\ locks' = locks /\ flag' = flag
        /\ adj' = IF flag[p] THEN [adj EXCEPT ![p] = @ + 1] ELSE adj
    <3>1. /\ tester[p] = "lock" /\ lockval > 0 /\ locks \in {"made", "set"}
          /\ lockval' = lockval + (-1) /\ has' = has \cup {p} /\ locks' = locks /\ flag' = flag
          /\ adj' = IF flag[p] THEN [adj EXCEPT ![p] = @ - (-1)] ELSE adj
      BY <1>4 DEF Test!Lock, Test!Step, Test!Semop, Test!ThereStill
    <3>2. lockval = 1
      BY <1>1, <3>1
    <3>3. has = {} /\ locks = "set"
      BY <3>1, <3>2 DEF TestInv, Test!LockExclusive, Test!ThereStill
    <3>4. \A n \in 0 .. 1 : n - (-1) = n + 1
      OBVIOUS
    <3>5. [adj EXCEPT ![p] = @ - (-1)] = [adj EXCEPT ![p] = @ + 1]
      BY <1>1, <3>4
    <3> QED
      BY <3>1, <3>2, <3>3, <3>5
  <2>2. /\ tester' = [tester EXCEPT ![p] = IF p = Master THEN "fgetc" ELSE "unlock"]
    BY <1>4 DEF Test!Lock, Test!Step
  <2>3. \A q \in Test!Testers : adj[q] = 0 /\ tester[q] \notin {"fgetc", "unlock"}
    BY <2>1 DEF TestInv
  <2>4. \A q \in Test!Testers : adj'[q] = IF q = p /\ flag[q] THEN 1 ELSE 0
    BY <1>1, <2>1, <2>3
  <2>5. adj' \in [Test!Testers -> 0 .. 1]
    BY <1>1, <2>1, <2>3
  <2>6. /\ tester'[p] = IF p = Master THEN "fgetc" ELSE "unlock"
        /\ \A q \in Test!Testers : q # p => tester'[q] = tester[q]
        /\ tester' \in [Test!Testers -> {"start", "SETALL", "lock", "fgetc", "loop", "unlock",
                                         "rmid", "exit", "ended", "killed"}]
    BY <1>1, <2>2
  <2>7. Test!TypeOK'
    BY <1>1, <2>1, <2>5, <2>6 DEF TestInv, Test!TypeOK
  <2>8. Test!LockExclusive'
    BY <2>1 DEF Test!LockExclusive
  <2> QED
    BY <1>1, <2>1, <2>3, <2>4, <2>6, <2>7, <2>8 DEF TestInv, Test!Testers
<1>5. CASE Test!Fgetc
  <2>1. CASE Test!Step(Master, "fgetc", "ended") /\ Test!Gone(Master)
    BY <1>1, <1>5, <2>1, TestGone DEF Test!Fgetc, Test!Step, TestInv
  <2>2. CASE /\ Test!Step(Master, "fgetc", "loop") \/ Test!Step(Master, "fgetc", "unlock")
             /\ UNCHANGED <<lockval, adj, has>>
    <3>1. /\ tester[Master] = "fgetc" /\ tester'[Master] \in {"loop", "unlock"}
          /\ \A q \in Test!Testers : q # Master => tester'[q] = tester[q]
          /\ tester' \in [Test!Testers -> {"start", "SETALL", "lock", "fgetc", "loop", "unlock",
                                           "rmid", "exit", "ended", "killed"}]
          /\ lockval' = lockval /\ adj' = adj /\ has' = has /\ flag' = flag /\ locks' = locks
      BY <1>1, <1>5, <2>2 DEF Test!Fgetc, Test!Step
    <3>2. locks = "set"
      BY <3>1 DEF TestInv
    <3>3. Master \in has
      BY <1>1, <3>1, <3>2 DEF TestInv
    <3> QED
      BY <1>1, <3>1, <3>2, <3>3 DEF TestInv, Test!TypeOK, Test!LockExclusive, Test!ThereStill
  <2> QED
    BY <1>5, <2>1, <2>2 DEF Test!Fgetc
<1>6. ASSUME NEW p \in Test!Testers, Test!Unlock(p), p = Master \/ p \in Slaves PROVE TestInv'
  <2>1. /\ tester[p] = "unlock" /\ has' = has \ {p} /\ locks' = locks /\ flag' = flag
        /\ tester' = [tester EXCEPT ![p] = IF p = Master THEN "rmid" ELSE "exit"]
        /\ IF locks \in {"made", "set"}
           THEN /\ lockval' = lockval + 1
                /\ adj' = IF flag[p] THEN [adj EXCEPT ![p] = @ - 1] ELSE adj
           ELSE lockval' = lockval /\ adj' = adj
    BY <1>6 DEF Test!Unlock, Test!Step, Test!Semop, Test!ThereStill
  <2>2. /\ tester'[p] \in {"rmid", "exit"} /\ (tester'[p] = "rmid" => p = Master)
        /\ \A q \in Test!Testers : q # p => tester'[q] = tester[q]
        /\ tester' \in [Test!Testers -> {"start", "SETALL", "lock", "fgetc", "loop", "unlock",
                                         "rmid", "exit", "ended", "killed"}]
    BY <1>1, <2>1
  <2>3. locks \in {"made", "set"} =>
            /\ p \in has /\ has' = {} /\ locks = "set" /\ lockval = 0 /\ lockval' = 1
            /\ \A q \in Test!Testers : adj'[q] = 0
    <3> SUFFICES ASSUME locks \in {"made", "set"}
                 PROVE  /\ p \in has /\ has' = {} /\ locks = "set" /\ lockval = 0 /\ lockval' = 1
                        /\ \A q \in Test!Testers : adj'[q] = 0
      OBVIOUS
    <3>1. p \in has
      BY <1>1, <2>1 DEF TestInv
    <3>2. /\ locks = "set" /\ lockval = 0 /\ \A q \in has : q = p
      BY <3>1 DEF TestInv, Test!LockExclusive, Test!ThereStill
    <3>3. \A q \in Test!Testers : adj[q] = IF q = p /\ flag[q] THEN 1 ELSE 0
      BY <3>1, <3>2 DEF TestInv
    <3>4. \A q \in Test!Testers : adj'[q] = 0
      BY <1>1, <2>1, <3>3
    <3> QED
      BY <2>1, <3>1, <3>2, <3>4
  <2>4. /\ lockval' \in 0 .. 1 /\ adj' \in [Test!Testers -> 0 .. 1] /\ has' \subseteq Test!Testers
    <3>1. CASE locks \in {"made", "set"}
      <4>1. adj' \in [Test!Testers -> Int]
        BY <1>1, <2>1, <3>1
      <4> QED
        BY <1>1, <2>3, <3>1, <4>1
    <3>2. CASE ~(locks \in {"made", "set"})
      BY <1>1, <2>1, <3>2
    <3> QED
      BY <3>1, <3>2
  <2>5. Test!TypeOK'
    BY <1>1, <2>1, <2>2, <2>4 DEF TestInv, Test!TypeOK
  <2>6. Test!LockExclusive'
    BY <2>1, <2>3 DEF TestInv, Test!LockExclusive, Test!ThereStill
  <2>7. locks' # "removed" =>
            \A q \in Test!Testers : /\ adj'[q] = IF q \in has' /\ flag'[q] THEN 1 ELSE 0
                                    /\ tester'[q] \in {"fgetc", "unlock"} => q \in has'
    <3> SUFFICES ASSUME locks # "removed", NEW q \in Test!Testers
                 PROVE  /\ adj'[q] = IF q \in has' /\ flag'[q] THEN 1 ELSE 0
                        /\ tester'[q] \in {"fgetc", "unlock"} => q \in has'
      BY <2>1
    <3>1. locks \in {"made", "set"}
      BY <1>1, <2>1 DEF TestInv, Test!TypeOK
    <3>2. q # p => tester[q] \notin {"fgetc", "unlock"}
      BY <2>3, <3>1 DEF TestInv, Test!LockExclusive
    <3> QED
      BY <2>2, <2>3, <3>1, <3>2
  <2>8. \A q \in has' : tester'[q] \in {"fgetc", "loop", "unlock"}
    BY <1>1, <2>1, <2>2 DEF TestInv
  <2>9. /\ locks' = "none" <=> tester'[Master] = "start"
        /\ tester'[Master] = "SETALL" => locks' = "made"
        /\ tester'[Master] \in {"lock", "fgetc", "loop", "unlock", "rmid"} => locks' = "set"
        /\ locks' \in {"none", "made"} => lockval' = 0 /\ has' = {}
    BY <1>1, <2>1, <2>2, <2>3 DEF TestInv
  <2> QED
    BY <2>5, <2>6, <2>7, <2>8, <2>9 DEF TestInv, Test!Testers
<1>7. CASE Test!Remove
  <2>1. /\ tester[Master] = "rmid" /\ tester'[Master] = "ended" /\ locks' = "removed"
        /\ \A q \in Test!Testers : q # Master => tester'[q] = tester[q]
        /\ tester' \in [Test!Testers -> {"start", "SETALL", "lock", "fgetc", "loop", "unlock",
                                         "rmid", "exit", "ended", "killed"}]
        /\ flag' = flag /\ adj' = adj /\ lockval' = lockval /\ has' = has
    BY <1>1, <1>7 DEF Test!Remove, Test!Step
  <2> QED
    BY <1>1, <2>1 DEF TestInv, Test!TypeOK, Test!LockExclusive, Test!ThereStill
<1>8. ASSUME NEW p \in Slaves, Test!LockFails(p) PROVE TestInv'
  <2>1. /\ tester[p] = "lock" /\ tester'[p] = "unlock" /\ locks = "removed" /\ p # Master
        /\ \A q \in Test!Testers : q # p => tester'[q] = tester[q]
        /\ tester' \in [Test!Testers -> {"start", "SETALL", "lock", "fgetc", "loop", "unlock",
                                         "rmid", "exit", "ended", "killed"}]
        /\ flag' = flag /\ adj' = adj /\ lockval' = lockval /\ has' = has /\ locks' = locks
    BY <1>1, <1>8 DEF Test!LockFails, Test!Step
  <2> QED
    BY <1>1, <2>1 DEF TestInv, Test!TypeOK, Test!LockExclusive, Test!ThereStill
<1>9. ASSUME NEW p \in Slaves, Test!Exit(p) PROVE TestInv'
  BY <1>1, <1>9, TestGone DEF Test!Exit, Test!Step
<1>10. ASSUME NEW p \in Test!Testers, Test!Kill(p) PROVE TestInv'
  BY <1>1, <1>10, TestGone DEF Test!Kill
<1>11. CASE UNCHANGED testVars
  BY <1>11, TestFrame
<1> QED
  BY <1>1, <1>2, <1>3, <1>4, <1>5, <1>6, <1>7, <1>8, <1>9, <1>10, <1>11
     DEF Test!Next, Test!MasterStep, Test!SlaveStep, Test!Shown, Test!testVars, testVars

-----------------------------------------------------------------------------
(* The widget makers.                                                      *)

LEMMA WidgetsInit == Parts!Init => WidgetsInv
BY BoundsAssumption DEF Parts!Init, WidgetsInv, Parts!TypeOK, Parts!PartsAddUp, Parts!Kinds

LEMMA WidgetsFrame == WidgetsInv /\ UNCHANGED widgetVars => WidgetsInv'
BY DEF widgetVars, WidgetsInv, Parts!TypeOK, Parts!PartsAddUp

LEMMA WidgetsStep == WidgetsInv /\ Parts!Next => WidgetsInv'
<1> SUFFICES ASSUME WidgetsInv, Parts!Next PROVE WidgetsInv'
  OBVIOUS
<1>1. /\ maker \in {"semget", "SETALL", "signal", "semop", "ended", "killed"}
      /\ parts \in {"none", "there", "removed"}
      /\ detail_maker \in [Parts!Kinds -> {"semget", "semop", "ended", "killed"}]
      /\ count \in [Parts!Kinds -> 0 .. SEMVMX]
      /\ details \in [Parts!Kinds -> 0 .. DetailsMax] /\ lost \in [Parts!Kinds -> 0 .. DetailsMax]
      /\ widgets \in 0 .. DetailsMax
      /\ SEMVMX \in Nat /\ DetailsMax \in Nat
      /\ \A k \in Parts!Kinds : details[k] = widgets + count[k] + lost[k]
      /\ \A k \in Parts!Kinds : parts = "there" /\ detail_maker[k] = "ended" =>
            details[k] \in {0} \cup SEMVMX .. DetailsMax
      /\ parts = "none" => \A k \in Parts!Kinds : details[k] = 0
      /\ parts = "removed" => maker = "ended"
  BY BoundsAssumption DEF WidgetsInv, Parts!TypeOK, Parts!PartsAddUp
<1>2. CASE Parts!MakeSet
  BY <1>1, <1>2 DEF Parts!MakeSet, WidgetsInv, Parts!TypeOK, Parts!PartsAddUp
<1>3. CASE Parts!SetAll
  <2>1. /\ maker = "SETALL" /\ maker' = "signal"
        /\ lost' = [k \in Parts!Kinds |-> lost[k] + count[k]]
        /\ count' = [k \in Parts!Kinds |-> 0]
        /\ parts' = parts /\ detail_maker' = detail_maker /\ details' = details
        /\ widgets' = widgets
    BY <1>3 DEF Parts!SetAll
  <2>2. \A k \in Parts!Kinds : /\ lost[k] + count[k] \in 0 .. DetailsMax
                               /\ details[k] = widgets + 0 + (lost[k] + count[k])
    <3> SUFFICES ASSUME NEW k \in Parts!Kinds
                 PROVE  /\ lost[k] + count[k] \in 0 .. DetailsMax
                        /\ details[k] = widgets + 0 + (lost[k] + count[k])
      OBVIOUS
    <3>1. /\ details[k] \in 0 .. DetailsMax /\ count[k] \in 0 .. SEMVMX /\ lost[k] \in 0 .. DetailsMax
          /\ widgets \in 0 .. DetailsMax /\ details[k] = widgets + count[k] + lost[k]
          /\ SEMVMX \in Nat /\ DetailsMax \in Nat
      BY <1>1
    <3> QED
      BY <3>1
  <2>3. lost' \in [Parts!Kinds -> 0 .. DetailsMax] /\ count' \in [Parts!Kinds -> 0 .. SEMVMX]
    BY <1>1, <2>1, <2>2
  <2>4. \A k \in Parts!Kinds : details[k] = widgets + count'[k] + lost'[k]
    BY <2>1, <2>2
  <2> QED
    BY <1>1, <2>1, <2>3, <2>4 DEF WidgetsInv, Parts!TypeOK, Parts!PartsAddUp, Parts!Kinds
<1>4. CASE Parts!InstallHandler
  BY <1>1, <1>4 DEF Parts!InstallHandler, WidgetsInv, Parts!TypeOK, Parts!PartsAddUp
<1>5. CASE Parts!AddWidget
  <2>1. /\ maker = "semop" /\ \A k \in Parts!Kinds : count[k] > 0
        /\ count' = [k \in Parts!Kinds |-> count[k] - 1]
        /\ widgets' = widgets + 1
        /\ maker' = maker /\ parts' = parts /\ detail_maker' = detail_maker
        /\ details' = details /\ lost' = lost
    BY <1>5 DEF Parts!AddWidget
  <2>2. \A k \in Parts!Kinds : /\ count[k] - 1 \in 0 .. SEMVMX
                               /\ details[k] = (widgets + 1) + (count[k] - 1) + lost[k]
                               /\ widgets + 1 \in 0 .. DetailsMax
    <3> SUFFICES ASSUME NEW k \in Parts!Kinds
                 PROVE  /\ count[k] - 1 \in 0 .. SEMVMX
                        /\ details[k] = (widgets + 1) + (count[k] - 1) + lost[k]
                        /\ widgets + 1 \in 0 .. DetailsMax
      OBVIOUS
    <3>1. /\ details[k] \in 0 .. DetailsMax /\ count[k] \in 0 .. SEMVMX /\ lost[k] \in 0 .. DetailsMax
          /\ widgets \in 0 .. DetailsMax /\ details[k] = widgets + count[k] + lost[k]
          /\ SEMVMX \in Nat /\ DetailsMax \in Nat /\ count[k] > 0
      BY <1>1, <2>1
    <3> QED
      BY <3>1
  <2>3. widgets' \in 0 .. DetailsMax
    BY <2>1, <2>2 DEF Parts!Kinds
  <2>4. count' \in [Parts!Kinds -> 0 .. SEMVMX]
    BY <2>1, <2>2
  <2>5. \A k \in Parts!Kinds : details[k] = widgets' + count'[k] + lost[k]
    BY <2>1, <2>2
  <2> QED
    BY <1>1, <2>1, <2>3, <2>4, <2>5 DEF WidgetsInv, Parts!TypeOK, Parts!PartsAddUp
<1>6. CASE Parts!Interrupt \/ Parts!Kill
  BY <1>1, <1>6 DEF Parts!Interrupt, Parts!Kill, WidgetsInv, Parts!TypeOK, Parts!PartsAddUp
<1>7. CASE Parts!Restart
  BY <1>1, <1>7 DEF Parts!Restart, WidgetsInv, Parts!TypeOK, Parts!PartsAddUp
<1>8. ASSUME NEW k \in Parts!Kinds, Parts!FindSet(k) PROVE WidgetsInv'
  BY <1>1, <1>8 DEF Parts!FindSet, WidgetsInv, Parts!TypeOK, Parts!PartsAddUp
<1>9. ASSUME NEW k \in Parts!Kinds, Parts!AddDetail(k) PROVE WidgetsInv'
  <2>1. /\ detail_maker[k] = "semop" /\ parts = "there"
        /\ count[k] < SEMVMX /\ details[k] < DetailsMax
        /\ count' = [count EXCEPT ![k] = @ + 1]
        /\ details' = [details EXCEPT ![k] = @ + 1]
        /\ maker' = maker /\ parts' = parts /\ detail_maker' = detail_maker
        /\ lost' = lost /\ widgets' = widgets
    BY <1>9 DEF Parts!AddDetail
  <2>2. /\ count[k] + 1 \in 0 .. SEMVMX /\ details[k] + 1 \in 0 .. DetailsMax
        /\ details[k] + 1 = widgets + (count[k] + 1) + lost[k]
    <3>1. /\ details[k] \in 0 .. DetailsMax /\ count[k] \in 0 .. SEMVMX /\ lost[k] \in 0 .. DetailsMax
          /\ widgets \in 0 .. DetailsMax /\ details[k] = widgets + count[k] + lost[k]
          /\ SEMVMX \in Nat /\ DetailsMax \in Nat
      BY <1>1
    <3> QED
      BY <2>1, <3>1
  <2>3. /\ count'[k] = count[k] + 1 /\ details'[k] = details[k] + 1
        /\ \A j \in Parts!Kinds : j # k => count'[j] = count[j] /\ details'[j] = details[j]
        /\ count' \in [Parts!Kinds -> 0 .. SEMVMX] /\ details' \in [Parts!Kinds -> 0 .. DetailsMax]
    BY <1>1, <2>1, <2>2
  <2>4. \A j \in Parts!Kinds : details'[j] = widgets + count'[j] + lost[j]
    BY <1>1, <2>2, <2>3
  <2>5. \A j \in Parts!Kinds : detail_maker[j] = "ended" =>
            details'[j] \in {0} \cup SEMVMX .. DetailsMax
    BY <1>1, <2>1, <2>3
  <2> QED
    BY <1>1, <2>1, <2>3, <2>4, <2>5 DEF WidgetsInv, Parts!TypeOK, Parts!PartsAddUp
<1>10. ASSUME NEW k \in Parts!Kinds, Parts!SemopFails(k) PROVE WidgetsInv'
  <2>1. /\ parts = "removed" \/ count[k] = SEMVMX
        /\ detail_maker' = [detail_maker EXCEPT ![k] = "ended"]
        /\ maker' = maker /\ parts' = parts /\ count' = count
        /\ details' = details /\ lost' = lost /\ widgets' = widgets
    BY <1>10 DEF Parts!SemopFails
  <2>2. parts = "there" => details[k] \in SEMVMX .. DetailsMax
    <3>1. /\ details[k] \in 0 .. DetailsMax /\ count[k] \in 0 .. SEMVMX /\ lost[k] \in 0 .. DetailsMax
          /\ widgets \in 0 .. DetailsMax /\ details[k] = widgets + count[k] + lost[k]
          /\ SEMVMX \in Nat /\ DetailsMax \in Nat
      BY <1>1
    <3> QED
      BY <2>1, <3>1
  <2>3. \A j \in Parts!Kinds : parts = "there" /\ detail_maker'[j] = "ended" =>
            details[j] \in {0} \cup SEMVMX .. DetailsMax
    BY <1>1, <2>1, <2>2
  <2>4. detail_maker' \in [Parts!Kinds -> {"semget", "semop", "ended", "killed"}]
    BY <1>1, <2>1
  <2> QED
    BY <1>1, <2>1, <2>3, <2>4 DEF WidgetsInv, Parts!TypeOK, Parts!PartsAddUp
<1>11. CASE UNCHANGED widgetVars
  BY <1>11, WidgetsFrame
<1>12. ASSUME NEW k \in Parts!Kinds, Parts!KillDetailMaker(k) PROVE WidgetsInv'
  <2>1. /\ detail_maker' = [detail_maker EXCEPT ![k] = "killed"]
        /\ maker' = maker /\ parts' = parts /\ count' = count
        /\ details' = details /\ lost' = lost /\ widgets' = widgets
    BY <1>12 DEF Parts!KillDetailMaker
  <2>2. \A j \in Parts!Kinds : detail_maker'[j] = "ended" => detail_maker[j] = "ended"
    BY <1>1, <2>1
  <2>3. detail_maker' \in [Parts!Kinds -> {"semget", "semop", "ended", "killed"}]
    BY <1>1, <2>1
  <2> QED
    BY <1>1, <2>1, <2>2, <2>3 DEF WidgetsInv, Parts!TypeOK, Parts!PartsAddUp
<1> QED
  BY <1>2, <1>3, <1>4, <1>5, <1>6, <1>7, <1>8, <1>9, <1>10, <1>11, <1>12
     DEF Parts!Next, Parts!Rest, Parts!widgetVars, widgetVars

-----------------------------------------------------------------------------
(* The recursive copy.                                                     *)

LEMMA TreeInit == Tree!Init => TreeInv
<1> SUFFICES ASSUME Tree!Init PROVE TreeInv
  OBVIOUS
<1>1. /\ \A e \in Entries : thread[e] = IF e # Root THEN "none"
                                        ELSE IF Kind[Root] = "file" THEN "stat" ELSE "source"
      /\ thread \in [Entries -> {"none", "stat", "source", "destination", "copy", "read",
                                 "close", "ended"}]
      /\ unread = [e \in Entries |-> Tree!Children(e)]
      /\ made \subseteq {Root} /\ copied = {} /\ damaged = {} /\ skipped = {} /\ reported = {}
      /\ copy_type \in [Entries -> {"file", "directory"}]
      /\ \A e \in Entries : copy_type[e] \in Tree!Types(e)
      /\ Root \in Entries /\ Kind[Root] # "other"
  BY TreeAssumption DEF Tree!Init
<1>2. \A e \in Entries \ {Root} : e \in unread[Parent[e]]
  BY <1>1, TreeAssumption DEF Tree!Children
<1>3. /\ unread \in [Entries -> SUBSET Entries]
      /\ {made, copied, damaged, skipped, reported} \subseteq SUBSET Entries
      /\ \A e \in Entries : unread[e] \subseteq Tree!Children(e)
  BY <1>1 DEF Tree!Children
<1>4. Tree!CopyComplete
  <2>1. thread[Root] \notin {"none", "ended"}
    BY <1>1
  <2> QED
    BY <1>1, <2>1 DEF Tree!CopyComplete, Tree!AllEnded, Tree!Started
<1>5. \A e \in Entries : GoneWell(e)
  BY <1>1 DEF GoneWell
<1> QED
  BY <1>1, <1>2, <1>3, <1>4, <1>5 DEF TreeInv

LEMMA TreeFrame == TreeInv /\ UNCHANGED copyVars => TreeInv'
BY DEF copyVars, TreeInv, GoneWell, Tree!CopyComplete, Tree!AllEnded, Tree!Started

\* A tree in which all threads have ended without an error: where the threads
\* are, the types, what is unread, what is made, gone through and passed over.
Finished(th, type, rest, ready, done, over) ==
    /\ \A e \in Entries : th[e] \in {"none", "ended"}
    /\ th[Root] # "none"
    /\ \A e \in Entries : type[e] \in Tree!Types(e)
    /\ ready \subseteq Entries /\ \A e \in ready : Kind[e] = "other" => type[e] = "file"
    /\ \A e \in Entries \ {Root} : th[e] = "none" => e \in rest[Parent[e]] \cup over
    /\ \A e \in Entries : th[e] = "ended" =>
          e \in ready /\ IF type[e] = "file" THEN e \in done ELSE rest[e] \subseteq over
    /\ \A e \in done : e \in Entries /\ type[e] = "file" /\ th[e] # "none"

\* What has ended has left nothing of its directory unread but what was passed
\* over, and in a tree where nothing was, everything is reached.
LEMMA TreeComplete ==
    ASSUME NEW th, NEW type, NEW rest, NEW ready, NEW done, NEW over,
           Finished(th, type, rest, ready, done, over),
           NEW S, S = {e \in Entries : th[e] # "none"}
    PROVE  /\ S \subseteq ready
           /\ done = {e \in S : Kind[e] # "directory"}
           /\ \A e \in Entries \ S : e \in over \/ Parent[e] \notin S
           /\ over = {} => S = Entries
<1> USE DEF Finished
<1>1. S \subseteq ready /\ \A e \in S : th[e] = "ended"
  OBVIOUS
<1>2. \A e \in S : type[e] = "file" <=> Kind[e] # "directory"
  <2> SUFFICES ASSUME NEW e \in S PROVE type[e] = "file" <=> Kind[e] # "directory"
    OBVIOUS
  <2>1. Kind[e] \in {"file", "directory", "other"} /\ type[e] \in Tree!Types(e)
    BY TreeAssumption
  <2>2. Kind[e] = "other" => type[e] = "file"
    BY <1>1
  <2> QED
    BY <2>1, <2>2 DEF Tree!Types
<1>3. done = {e \in S : Kind[e] # "directory"}
  BY <1>1, <1>2
<1>4. ASSUME NEW e \in Entries \ S, Parent[e] \in S PROVE e \in over
  <2>1. e \in Entries \ {Root} /\ th[e] = "none"
    OBVIOUS
  <2>2. Parent[e] \in Entries /\ Kind[Parent[e]] = "directory"
    BY <2>1, TreeAssumption
  <2>3. th[Parent[e]] = "ended" /\ type[Parent[e]] = "directory"
    BY <1>1, <1>4, <2>2 DEF Tree!Types
  <2>4. rest[Parent[e]] \subseteq over
    BY <2>2, <2>3
  <2> QED
    BY <2>1, <2>4
<1>5. ASSUME over = {} PROVE S = Entries
  <2>1. S \in SUBSET Entries /\ Root \in S
    BY TreeAssumption
  <2>2. \A e \in Entries \ {Root} : Parent[e] \in S => e \in S
    BY <1>4, <1>5
  <2> QED
    BY <2>1, <2>2, TreeAssumption
<1> QED
  BY <1>1, <1>3, <1>4, <1>5

LEMMA TreeStep == TreeInv /\ Tree!Next => TreeInv'
<1> SUFFICES ASSUME TreeInv, Tree!Next PROVE TreeInv'
  OBVIOUS
<1>1. /\ thread \in [Entries -> {"none", "stat", "source", "destination", "copy", "read",
                                 "close", "ended"}]
      /\ copy_type \in [Entries -> {"file", "directory"}]
      /\ \A e \in Entries : copy_type[e] \in Tree!Types(e)
      /\ unread \in [Entries -> SUBSET Entries]
      /\ made \subseteq Entries /\ copied \subseteq Entries /\ reported \subseteq Entries
      /\ damaged \subseteq Entries /\ skipped \subseteq Entries
      /\ Root \in Entries
      /\ \A e \in Entries \ {Root} : Parent[e] \in Entries
  BY TreeAssumption DEF TreeInv
<1>2. \A e \in Entries \ {Root} : thread[e] # "none" =>
          Parent[e] \in made /\ (Kind[e] = "directory" => e \in made)
  BY DEF TreeInv, Tree!CopyComplete, Tree!Started
\* A step of one thread, of which no other entry notices but by what is made.
<1>3. ASSUME NEW e \in Entries, thread[e] # "none", NEW there, there # "none",
             thread' = [thread EXCEPT ![e] = there], copy_type' = copy_type,
             made \subseteq made', made' \subseteq made \cup {e},
             copied \subseteq copied', copied' \subseteq copied \cup {e},
             damaged \subseteq damaged', damaged' \subseteq damaged \cup {e},
             skipped \subseteq skipped', skipped' \subseteq skipped \cup unread[e],
             reported \subseteq reported', reported' \subseteq reported \cup {e},
             unread' = unread,
             there \in {"source", "destination", "copy", "read", "close", "ended"},
             e \in made' => (Kind[e] = "other" => copy_type[e] = "file"),
             e \in copied' \cup damaged' => copy_type[e] = "file",
             there \in {"copy", "read"} => e \in made',
             there = "copy" => copy_type[e] = "file",
             there = "read" => copy_type[e] = "directory",
             there \notin {"close", "ended"} => unread[e] \cap skipped' = {},
             there \in {"close", "ended"} /\ reported' = {} =>
                 /\ e \in made'
                 /\ IF copy_type[e] = "file" THEN e \in copied' \cup damaged'
                                             ELSE unread[e] \subseteq skipped'
      PROVE  TreeInv'
  <2>1. /\ thread' \in [Entries -> {"none", "stat", "source", "destination", "copy", "read",
                                    "close", "ended"}]
        /\ thread'[e] = there /\ \A d \in Entries : d # e => thread'[d] = thread[d]
        /\ \A d \in Entries : thread'[d] = "none" <=> thread[d] = "none"
    BY <1>1, <1>3
  <2>2. /\ made' \subseteq Entries /\ copied' \subseteq Entries /\ damaged' \subseteq Entries
        /\ skipped' \subseteq Entries /\ reported' \subseteq Entries
    BY <1>1, <1>3
  <2>3. ASSUME NEW d \in Entries PROVE GoneWell(d)'
    <3>1. CASE d = e
      BY <1>1, <1>3, <2>1, <3>1 DEF GoneWell
    <3>2. CASE d # e
      <4>1. (reported' = {} => reported = {}) /\ GoneWell(d)
        BY <1>3 DEF TreeInv
      <4>2. thread'[d] = thread[d] /\ (d \in made => d \in made')
            /\ (d \in copied \cup damaged => d \in copied' \cup damaged')
            /\ (unread[d] \subseteq skipped => unread'[d] \subseteq skipped')
        BY <1>3, <2>1, <3>2
      <4>3. unread'[d] \cap skipped = {} => unread'[d] \cap skipped' = {}
        <5>1. unread[d] \cap unread[e] = {}
          BY <3>2 DEF TreeInv, Tree!Children
        <5> QED
          BY <1>3, <5>1
      <4> QED
        BY <1>3, <4>1, <4>2, <4>3 DEF GoneWell
    <3> QED
      BY <3>1, <3>2
  <2>4. \A d \in made' : Kind[d] = "other" => copy_type'[d] = "file"
    BY <1>3 DEF TreeInv
  <2>5. \A d \in copied' \cup damaged' : copy_type'[d] = "file" /\ thread'[d] # "none"
    BY <1>3, <2>1, <2>2 DEF TreeInv
  <2>6. /\ thread'[Root] # "none"
        /\ \A d \in Entries : unread'[d] \subseteq Tree!Children(d)
        /\ unread' \in [Entries -> SUBSET Entries]
    BY <1>1, <1>3, <2>1 DEF TreeInv
  <2>7. ASSUME NEW d \in Entries \ {Root}
        PROVE  thread'[d] = "none" <=> d \in unread'[Parent[d]] \cup skipped'
    <3>1. thread[d] = "none" <=> d \in unread[Parent[d]] \cup skipped
      BY DEF TreeInv
    <3>2. d \in unread[e] => d \in unread[Parent[d]]
      BY DEF TreeInv, Tree!Children
    <3> QED
      BY <1>3, <2>1, <3>1, <3>2
  <2>8. \A d \in Entries \ {Root} : thread'[d] # "none" =>
            Parent[d] \in made' /\ (Kind[d] = "directory" => d \in made')
    BY <1>2, <1>3, <2>1
  <2>9. ASSUME Tree!AllEnded', reported' = {}
        PROVE  /\ Tree!Started' \subseteq made'
               /\ copied' \cup damaged' = {d \in Tree!Started' : Kind[d] # "directory"}
               /\ \A d \in Entries \ Tree!Started' :
                     d \in skipped' \/ Parent[d] \notin Tree!Started'
               /\ skipped' = {} => Tree!Started' = Entries
    <3>1. \A d \in Entries : thread'[d] \in {"none", "ended"}
      BY <2>9 DEF Tree!AllEnded
    <3>2. \A d \in Entries : thread'[d] = "ended" =>
              d \in made' /\ IF copy_type'[d] = "file" THEN d \in copied' \cup damaged'
                             ELSE unread'[d] \subseteq skipped'
      BY <2>3, <2>9 DEF GoneWell
    <3>3. \A d \in Entries : copy_type'[d] \in Tree!Types(d)
      BY <1>1, <1>3
    <3>4. Finished(thread', copy_type', unread', made', copied' \cup damaged', skipped')
      BY <2>2, <2>4, <2>5, <2>6, <2>7, <3>1, <3>2, <3>3 DEF Finished
    <3>5. PICK th, type, rest, ready, done, over, S :
              /\ th = thread' /\ type = copy_type' /\ rest = unread' /\ ready = made'
              /\ done = copied' \cup damaged' /\ over = skipped'
              /\ S = {d \in Entries : th[d] # "none"}
      OBVIOUS
    <3>6. Finished(th, type, rest, ready, done, over)
      BY <3>4, <3>5
    <3>7. /\ S \subseteq ready
          /\ done = {d \in S : Kind[d] # "directory"}
          /\ \A d \in Entries \ S : d \in over \/ Parent[d] \notin S
          /\ over = {} => S = Entries
      <4>1. S = {d \in Entries : th[d] # "none"}
        BY <3>5
      <4> QED
        BY <3>6, <4>1, TreeComplete
    <3>8. Tree!Started' = S
      BY <3>5 DEF Tree!Started
    <3> QED
      BY <3>5, <3>7, <3>8
  <2>10. Tree!CopyComplete'
    BY <2>8, <2>9 DEF Tree!CopyComplete, Tree!Started
  <2> QED
    BY <1>1, <1>3, <2>1, <2>2, <2>3, <2>4, <2>5, <2>6, <2>7, <2>10 DEF TreeInv
\* An entry is read, and its thread is started or it is passed over; the others
\* go on, or end with the program.
<1>4. ASSUME NEW e \in Entries, NEW c \in unread[e], Tree!Entry(e, c),
             thread' \in [Entries -> {"none", "stat", "source", "destination", "copy", "read",
                                      "close", "ended"}],
             skipped \subseteq skipped', skipped' \subseteq skipped \cup {c},
             reported' \subseteq Entries, reported' = {} => reported = {},
             thread[c] = "none" /\ c \notin skipped => (thread'[c] = "none" <=> c \in skipped'),
             \A d \in Entries : d # c => (thread'[d] = "none" <=> thread[d] = "none"),
             \A d \in Entries :
                 /\ thread'[d] \in {"copy", "read"} => thread'[d] = thread[d]
                 /\ thread'[d] \notin {"close", "ended"} => thread[d] \notin {"close", "ended"}
                 /\ reported' = {} /\ thread'[d] \in {"close", "ended"} => thread'[d] = thread[d],
             thread'[e] = "read" \/ reported' # {}
      PROVE  TreeInv'
  <2>1. /\ unread' = [unread EXCEPT ![e] = @ \ {c}]
        /\ made' = IF Kind[c] = "directory" THEN made \cup {c} ELSE made
        /\ thread[e] = "read" /\ copy_type' = copy_type /\ copied' = copied /\ damaged' = damaged
    BY <1>4 DEF Tree!Entry
  <2>2. /\ c \in Entries \ {Root} /\ Parent[c] = e /\ thread[c] = "none" /\ e \in made /\ c # e
        /\ c \notin skipped
    <3>1. c \in Entries \ {Root} /\ Parent[c] = e
      BY DEF TreeInv, Tree!Children
    <3>2. thread[c] = "none" /\ e \in made /\ unread[e] \cap skipped = {}
      BY <2>1, <3>1 DEF TreeInv, GoneWell
    <3> QED
      BY <2>1, <3>1, <3>2
  <2>3. /\ unread'[e] = unread[e] \ {c} /\ \A d \in Entries : d # e => unread'[d] = unread[d]
        /\ unread' \in [Entries -> SUBSET Entries]
        /\ \A d \in Entries : unread'[d] \subseteq Tree!Children(d)
    BY <1>1, <2>1 DEF TreeInv
  <2>4. /\ made \subseteq made' /\ made' \subseteq made \cup {c} /\ made' \subseteq Entries
        /\ skipped' \subseteq Entries
    BY <1>1, <1>4, <2>1, <2>2
  <2>5. ASSUME NEW d \in Entries \ {Root}
        PROVE  thread'[d] = "none" <=> d \in unread'[Parent[d]] \cup skipped'
    <3>1. thread[d] = "none" <=> d \in unread[Parent[d]] \cup skipped
      BY DEF TreeInv
    <3>2. CASE d = c
      BY <1>4, <2>2, <2>3, <3>2
    <3>3. CASE d # c
      <4>1. d \in unread'[Parent[d]] <=> d \in unread[Parent[d]]
        BY <1>1, <2>3, <3>3
      <4>2. d \in skipped' <=> d \in skipped
        BY <1>4, <3>3
      <4> QED
        BY <1>4, <3>1, <3>3, <4>1, <4>2
    <3> QED
      BY <3>2, <3>3
  <2>6. ASSUME NEW d \in Entries PROVE GoneWell(d)'
    <3>1. GoneWell(d)
      BY DEF TreeInv
    <3>2. unread'[d] \subseteq unread[d] /\ (unread[d] \cap skipped = {} => unread'[d] \cap skipped' = {})
      <4>1. CASE d = e
        BY <1>4, <2>3, <4>1
      <4>2. CASE d # e
        <5>1. c \notin unread[d]
          BY <2>2, <4>2 DEF TreeInv, Tree!Children
        <5> QED
          BY <1>4, <2>3, <4>2, <5>1
      <4> QED
        BY <4>1, <4>2
    <3>3. /\ thread'[d] \in {"copy", "read"} =>
                 /\ d \in made'
                 /\ thread'[d] = "copy" => copy_type'[d] = "file"
                 /\ thread'[d] = "read" => copy_type'[d] = "directory"
          /\ thread'[d] \notin {"close", "ended"} => unread'[d] \cap skipped' = {}
      BY <1>4, <2>1, <2>4, <3>1, <3>2 DEF GoneWell
    <3>4. ASSUME thread'[d] \in {"close", "ended"}, reported' = {}
          PROVE  /\ d \in made'
                 /\ IF copy_type'[d] = "file" THEN d \in copied' \cup damaged'
                                              ELSE unread'[d] \subseteq skipped'
      <4>1. thread[d] \in {"close", "ended"} /\ reported = {}
        BY <1>4, <3>4
      <4>2. d \in made /\ IF copy_type[d] = "file" THEN d \in copied \cup damaged
                                                   ELSE unread[d] \subseteq skipped
        BY <3>1, <4>1 DEF GoneWell
      <4> QED
        BY <1>4, <2>1, <2>4, <3>2, <4>2
    <3> QED
      BY <3>3, <3>4 DEF GoneWell
  <2>7. \A d \in made' : Kind[d] = "other" => copy_type'[d] = "file"
    BY <2>1 DEF TreeInv
  <2>8. \A d \in copied' \cup damaged' : copy_type'[d] = "file" /\ thread'[d] # "none"
    <3> SUFFICES ASSUME NEW d \in copied \cup damaged
                 PROVE  copy_type'[d] = "file" /\ thread'[d] # "none"
      BY <2>1
    <3>1. d \in Entries /\ copy_type[d] = "file" /\ thread[d] # "none"
      BY <1>1 DEF TreeInv
    <3> QED
      BY <1>4, <2>1, <2>2, <3>1
  <2>9. Tree!CopyComplete'
    <3>1. ~Tree!AllEnded' \/ reported' # {}
      BY <1>4 DEF Tree!AllEnded
    <3>2. ASSUME NEW d \in Entries \ {Root}, thread'[d] # "none"
          PROVE  Parent[d] \in made' /\ (Kind[d] = "directory" => d \in made')
      <4>1. CASE d = c
        BY <2>1, <2>2, <2>4, <4>1
      <4>2. CASE d # c
        BY <1>2, <1>4, <2>4, <3>2, <4>2
      <4> QED
        BY <4>1, <4>2
    <3> QED
      BY <3>1, <3>2 DEF Tree!CopyComplete, Tree!Started
  <2>10. thread'[Root] # "none"
    BY <1>1, <1>4, <2>2 DEF TreeInv
  <2> QED
    BY <1>1, <1>4, <2>1, <2>3, <2>4, <2>5, <2>6, <2>7, <2>8, <2>9, <2>10 DEF TreeInv
<1>5. ASSUME NEW e \in Entries, Tree!Stat(e) \/ Tree!OpenSource(e) \/ Tree!OpenFails(e)
      PROVE  TreeInv'
  <2>1. /\ thread[e] \in {"stat", "source", "destination"} /\ copy_type' = copy_type
        /\ unread' = unread /\ made' = made /\ copied' = copied /\ damaged' = damaged
        /\ skipped' = skipped
        /\ \/ thread' = [thread EXCEPT ![e] = "source"] /\ reported' = reported
           \/ thread' = [thread EXCEPT ![e] = "destination"] /\ reported' = reported
           \/ thread' = [thread EXCEPT ![e] = "ended"] /\ reported' = reported \cup {e}
    BY <1>5 DEF Tree!Stat, Tree!OpenSource, Tree!OpenFails, Tree!Goto, Tree!Report, Tree!outcome
  <2>2. /\ e \in made => (Kind[e] = "other" => copy_type[e] = "file")
        /\ e \in copied \cup damaged => copy_type[e] = "file"
        /\ unread[e] \cap skipped = {}
    BY <2>1 DEF TreeInv, GoneWell
  <2> QED
    BY <1>3, <2>1, <2>2
<1>6. ASSUME NEW e \in Entries, Tree!OpenDestination(e) PROVE TreeInv'
  <2>1. /\ thread[e] = "destination" /\ copy_type' = copy_type /\ unread' = unread
        /\ made' = made \cup {e} /\ copied' = copied /\ damaged' = damaged
        /\ skipped' = skipped /\ reported' = reported
        /\ copy_type[e] = "directory" => e \in made
        /\ thread' = [thread EXCEPT ![e] = IF copy_type[e] = "file" THEN "copy" ELSE "read"]
    BY <1>6 DEF Tree!OpenDestination, Tree!Goto, Tree!outcome
  <2>2. /\ e \in copied \cup damaged => copy_type[e] = "file"
        /\ copy_type[e] \in {"file", "directory"} /\ unread[e] \cap skipped = {}
        /\ Kind[e] = "other" => copy_type[e] = "file"
    <3>1. e \in copied \cup damaged => copy_type[e] = "file"
      BY DEF TreeInv
    <3>2. copy_type[e] \in {"file", "directory"} /\ unread[e] \cap skipped = {}
      BY <1>1, <2>1 DEF TreeInv, GoneWell
    <3>3. e \in made => (Kind[e] = "other" => copy_type[e] = "file")
      BY DEF TreeInv
    <3> QED
      BY <2>1, <3>1, <3>2, <3>3
  <2>3. CASE copy_type[e] = "file"
    BY <1>3, <2>1, <2>2, <2>3
  <2>4. CASE copy_type[e] = "directory"
    BY <1>3, <2>1, <2>2, <2>4
  <2> QED
    BY <2>2, <2>3, <2>4
<1>7. ASSUME NEW e \in Entries, Tree!CopyData(e) \/ Tree!ReadFails(e) \/ Tree!ReadEnds(e)
      PROVE  TreeInv'
  <2>1. /\ thread[e] \in {"copy", "read"} /\ copy_type' = copy_type /\ unread' = unread
        /\ made' = made
        /\ thread' = [thread EXCEPT ![e] = "close"]
    BY <1>7 DEF Tree!CopyData, Tree!ReadFails, Tree!ReadEnds, Tree!Goto
  <2>2. /\ e \in made /\ (e \in copied \cup damaged => copy_type[e] = "file")
        /\ thread[e] = "copy" => copy_type[e] = "file"
        /\ thread[e] = "read" => copy_type[e] = "directory"
        /\ Kind[e] = "other" => copy_type[e] = "file"
    <3>1. e \in made /\ GoneWell(e)
      BY <2>1 DEF TreeInv, GoneWell
    <3> QED
      BY <3>1 DEF TreeInv, GoneWell
  <2>3. CASE Tree!CopyData(e)
    <3>1. /\ thread[e] = "copy" /\ skipped' = skipped
          /\ \/ copied' = copied \cup {e} /\ damaged' = damaged /\ reported' = reported
             \/ damaged' = damaged \cup {e} /\ copied' = copied /\ reported' = reported
             \/ copied' = copied /\ damaged' = damaged /\ reported' = reported \cup {e}
      BY <2>3 DEF Tree!CopyData, Tree!Report
    <3> QED
      BY <1>3, <2>1, <2>2, <3>1
  <2>4. CASE Tree!ReadFails(e)
    <3>1. /\ copied' = copied /\ damaged' = damaged /\ skipped' = skipped
          /\ reported' = reported \cup {e}
      BY <2>4 DEF Tree!ReadFails, Tree!Report
    <3> QED
      BY <1>3, <2>1, <2>2, <3>1
  <2>5. CASE Tree!ReadEnds(e)
    <3>1. /\ thread[e] = "read" /\ copied' = copied /\ damaged' = damaged
          /\ skipped' = skipped \cup unread[e] /\ reported' = reported
      BY <2>5 DEF Tree!ReadEnds
    <3> QED
      BY <1>3, <2>1, <2>2, <3>1
  <2> QED
    BY <1>7, <2>3, <2>4, <2>5
<1>8. ASSUME NEW e \in Entries, Tree!Close(e) PROVE TreeInv'
  <2>1. /\ thread[e] = "close" /\ copy_type' = copy_type /\ unread' = unread
        /\ made' = made /\ copied' = copied /\ damaged' = damaged /\ skipped' = skipped
        /\ reported' = reported
        /\ \/ thread' = [thread EXCEPT ![e] = "ended"]
           \/ thread' = [thread EXCEPT ![e] = "close"]
    BY <1>8 DEF Tree!Close, Tree!Goto, Tree!outcome
  <2>2. /\ e \in copied \cup damaged => copy_type[e] = "file"
        /\ e \in made => (Kind[e] = "other" => copy_type[e] = "file")
        /\ reported = {} => /\ e \in made
                            /\ IF copy_type[e] = "file" THEN e \in copied \cup damaged
                                                        ELSE unread[e] \subseteq skipped
    BY <2>1 DEF TreeInv, GoneWell
  <2> QED
    BY <1>3, <2>1, <2>2
<1>9. CASE UNCHANGED copyVars
  BY <1>9, TreeFrame
<1>10. ASSUME NEW e \in Entries, Tree!Read(e) PROVE TreeInv'
  <2>1. PICK c \in unread[e] :
            /\ Tree!Entry(e, c)
            /\ thread' = [thread EXCEPT ![c] = IF copy_type[c] = "file" THEN "stat" ELSE "source"]
            /\ skipped' = skipped /\ reported' = reported
    BY <1>10 DEF Tree!Read, Tree!Goto
  <2>2. thread[e] = "read" /\ c \in Entries /\ c # e
    <3>1. thread[e] = "read" /\ c \in Entries \ {Root} /\ Parent[c] = e
      BY <2>1 DEF Tree!Entry, TreeInv, Tree!Children
    <3>2. thread[c] = "none"
      BY <2>1, <3>1 DEF TreeInv
    <3> QED
      BY <3>1, <3>2
  <2>3. /\ thread' \in [Entries -> {"none", "stat", "source", "destination", "copy", "read",
                                    "close", "ended"}]
        /\ thread'[c] \in {"stat", "source"} /\ \A d \in Entries : d # c => thread'[d] = thread[d]
    BY <1>1, <2>1, <2>2
  <2>4. thread[c] = "none"
    BY <2>1 DEF Tree!Entry, TreeInv, Tree!Children
  <2> QED
    BY <1>1, <1>4, <2>1, <2>2, <2>3, <2>4
<1>11. ASSUME NEW e \in Entries, Tree!ReadSkips(e) \/ Tree!ReadCrashes(e) PROVE TreeInv'
  <2>1. PICK c \in unread[e] :
            /\ Tree!Entry(e, c)
            /\ skipped' = skipped \cup {c}
            /\ \/ thread' = thread /\ reported' = reported
               \/ /\ thread' = [d \in Entries |-> IF thread[d] = "none" THEN "none" ELSE "ended"]
                  /\ reported' = reported \cup {e}
    BY <1>11 DEF Tree!ReadSkips, Tree!ReadCrashes, Tree!Unstarted
  <2>2. thread[e] = "read" /\ c \in Entries
    BY <1>1, <2>1 DEF Tree!Entry
  <2>3. thread[c] = "none"
    BY <2>1 DEF Tree!Entry, TreeInv, Tree!Children
  <2>4. CASE thread' = thread /\ reported' = reported
    BY <1>1, <1>4, <2>1, <2>2, <2>3, <2>4
  <2>5. CASE /\ thread' = [d \in Entries |-> IF thread[d] = "none" THEN "none" ELSE "ended"]
             /\ reported' = reported \cup {e}
    BY <1>1, <1>4, <2>1, <2>2, <2>3, <2>5
  <2> QED
    BY <2>1, <2>4, <2>5
<1> QED
  BY <1>5, <1>6, <1>7, <1>8, <1>9, <1>10, <1>11
     DEF Tree!Next, Tree!copy, Tree!Retry, Tree!copyVars, copyVars, Tree!outcome

-----------------------------------------------------------------------------
(* The copy: its descriptors.                                              *)

\* Open adds the numbers up in the order in which CHOOSE takes the entries.
SumTurn(f, w, s) == IF s = {} THEN 0
                    ELSE w[s \ {CHOOSE x \in s : TRUE}] + f[CHOOSE x \in s : TRUE]
SumOf(f) == CHOOSE w : w = [s \in SUBSET Entries |-> SumTurn(f, w, s)]

LEMMA OpenIsSum == Tree!Open = SumOf(open)[Entries]
BY DEF Tree!Open, Tree!FoldSet, Tree!MapThenFoldSet, SumOf, SumTurn

Small(n) == {s \in SUBSET Entries : Cardinality(s) <= n}

\* Whatever set has one element more than n is a set of n and that element.
LEMMA SmallSets ==
    /\ Cardinality(Entries) \in Nat
    /\ Small(0) = {{}}
    /\ Small(Cardinality(Entries)) = SUBSET Entries
    /\ \A n \in Nat : /\ Small(n) \subseteq Small(n + 1) /\ {} \in Small(n)
                      /\ \A s \in Small(n + 1) : s # {} =>
                            /\ (CHOOSE x \in s : TRUE) \in s
                            /\ s \ {CHOOSE x \in s : TRUE} \in Small(n)
<1>1. IsFiniteSet(Entries)
  BY TreeAssumption
<1>2. \A s \in SUBSET Entries : /\ IsFiniteSet(s) /\ Cardinality(s) \in Nat
                                /\ Cardinality(s) <= Cardinality(Entries)
  BY <1>1, FS_Subset, FS_CardinalityType
<1>3. Cardinality({}) = 0 /\ {} \in SUBSET Entries
  BY FS_EmptySet
<1>4. \A s \in SUBSET Entries : Cardinality(s) <= 0 => s = {}
  <2> SUFFICES ASSUME NEW s \in SUBSET Entries, Cardinality(s) <= 0 PROVE s = {}
    OBVIOUS
  <2>1. IsFiniteSet(s) /\ Cardinality(s) = 0
    BY <1>2
  <2> QED
    BY <2>1, FS_EmptySet
<1>5. Small(0) = {{}}
  BY <1>3, <1>4 DEF Small
<1>6. ASSUME NEW n \in Nat, NEW s \in Small(n + 1), s # {}
      PROVE  /\ (CHOOSE x \in s : TRUE) \in s
             /\ s \ {CHOOSE x \in s : TRUE} \in Small(n)
  <2>1. (CHOOSE x \in s : TRUE) \in s
    BY <1>6
  <2>2. PICK x \in s : x = CHOOSE y \in s : TRUE
    BY <2>1
  <2>3. s \in SUBSET Entries /\ Cardinality(s) <= n + 1 /\ IsFiniteSet(s) /\ Cardinality(s) \in Nat
    BY <1>2 DEF Small
  <2>4. Cardinality(s \ {x}) = Cardinality(s) - 1
    BY <2>3, FS_RemoveElement
  <2>5. s \ {x} \in Small(n)
    BY <2>3, <2>4 DEF Small
  <2> QED
    BY <2>1, <2>2, <2>5
<1>7. ASSUME NEW n \in Nat PROVE Small(n) \subseteq Small(n + 1) /\ {} \in Small(n)
  BY <1>2, <1>3 DEF Small
<1>8. Small(Cardinality(Entries)) = SUBSET Entries
  BY <1>2 DEF Small
<1>9. Cardinality(Entries) \in Nat
  BY <1>1, FS_CardinalityType
<1> QED
  BY <1>5, <1>6, <1>7, <1>8, <1>9

LEMMA SumExists ==
    ASSUME NEW f
    PROVE  \A s \in SUBSET Entries : SumOf(f)[s] = SumTurn(f, SumOf(f), s)
<1> DEFINE Fits(w, n) == w = [s \in Small(n) |-> SumTurn(f, w, s)]
           S == {n \in 0 .. Cardinality(Entries) : \E w : Fits(w, n)}
<1>1. 0 \in S
  <2> DEFINE w == [s \in Small(0) |-> 0]
  <2>1. \A s \in Small(0) : SumTurn(f, w, s) = 0
    BY SmallSets DEF SumTurn
  <2>2. Fits(w, 0)
    BY <2>1
  <2>3. 0 \in 0 .. Cardinality(Entries)
    BY SmallSets
  <2> HIDE DEF w, Fits
  <2> QED
    BY <2>2, <2>3
<1>2. ASSUME NEW n \in 0 .. Cardinality(Entries) - 1, n \in S PROVE n + 1 \in S
  <2>1. PICK w : Fits(w, n)
    BY <1>2
  <2>2. \A s \in Small(n) : w[s] = SumTurn(f, w, s)
    BY <2>1, Zenon
  <2>3. n \in Nat /\ n + 1 \in 0 .. Cardinality(Entries)
    BY SmallSets
  <2> DEFINE g == [s \in Small(n + 1) |-> SumTurn(f, w, s)]
  <2>4. \A s \in Small(n + 1) : g[s] = SumTurn(f, w, s)
    OBVIOUS
  <2>5. g = [s \in Small(n + 1) |-> g[s]]
    OBVIOUS
  <2> HIDE DEF g
  <2>6. \A s \in Small(n) : g[s] = w[s]
    BY <2>2, <2>3, <2>4, SmallSets
  <2>7. ASSUME NEW s \in Small(n + 1) PROVE SumTurn(f, w, s) = SumTurn(f, g, s)
    <3>1. CASE s = {}
      BY <3>1 DEF SumTurn
    <3>2. CASE s # {}
      <4>1. PICK t : t = s \ {CHOOSE x \in s : TRUE}
        OBVIOUS
      <4>2. t \in Small(n)
        BY <2>3, <3>2, <4>1, SmallSets
      <4>3. w[t] = g[t]
        BY <2>6, <4>2
      <4> QED
        BY <3>2, <4>1, <4>3 DEF SumTurn
    <3> QED
      BY <3>1, <3>2
  <2>8. Fits(g, n + 1)
    BY <2>4, <2>5, <2>7
  <2> HIDE DEF Fits
  <2> QED
    BY <2>3, <2>8
<1> HIDE DEF S
<1>3. \A n \in 0 .. Cardinality(Entries) : n \in S
  BY <1>1, <1>2, SmallSets, CountUp
<1>4. Cardinality(Entries) \in S
  BY <1>3, SmallSets
<1>5. PICK w : Fits(w, Cardinality(Entries))
  BY <1>4 DEF S
<1>6. w = [s \in SUBSET Entries |-> SumTurn(f, w, s)]
  BY <1>5, SmallSets
<1>7. SumOf(f) = [s \in SUBSET Entries |-> SumTurn(f, SumOf(f), s)]
  BY <1>6 DEF SumOf
<1> QED
  BY <1>7, Zenon

\* One number that changes changes the sum by as much.
LEMMA SumChanges ==
    ASSUME NEW f \in [Entries -> Int], NEW g \in [Entries -> Int], NEW e \in Entries,
           \A x \in Entries : x # e => g[x] = f[x]
    PROVE  /\ SumOf(f)[Entries] \in Int
           /\ SumOf(g)[Entries] = SumOf(f)[Entries] + (g[e] - f[e])
<1>1. PICK u : u = SumOf(f)
  OBVIOUS
<1>2. PICK v : v = SumOf(g)
  OBVIOUS
<1>3. \A s \in SUBSET Entries : u[s] = SumTurn(f, u, s) /\ v[s] = SumTurn(g, v, s)
  BY <1>1, <1>2, SumExists
<1> DEFINE Right(s) == u[s] \in Int /\ v[s] = u[s] + IF e \in s THEN g[e] - f[e] ELSE 0
           S == {n \in 0 .. Cardinality(Entries) : \A s \in Small(n) : Right(s)}
<1>4. Right({})
  BY <1>3 DEF SumTurn
<1>5. 0 \in S
  <2>1. 0 \in 0 .. Cardinality(Entries) /\ \A s \in Small(0) : s = {}
    BY SmallSets
  <2> HIDE DEF Right
  <2> QED
    BY <1>4, <2>1
<1>6. ASSUME NEW n \in 0 .. Cardinality(Entries) - 1, n \in S PROVE n + 1 \in S
  <2>1. n \in Nat /\ n + 1 \in 0 .. Cardinality(Entries)
    BY SmallSets
  <2>2. ASSUME NEW s \in Small(n + 1) PROVE Right(s)
    <3>1. CASE s = {}
      BY <1>4, <3>1
    <3>2. CASE s # {}
      <4>1. PICK x \in s : x = CHOOSE y \in s : TRUE
        BY <3>2
      <4>2. PICK t : t = s \ {x}
        OBVIOUS
      <4>3. t \in Small(n) /\ s \in SUBSET Entries
        BY <2>1, <3>2, <4>1, <4>2, SmallSets DEF Small
      <4>4. u[s] = u[t] + f[x] /\ v[s] = v[t] + g[x]
        BY <1>3, <3>2, <4>1, <4>2, <4>3 DEF SumTurn
      <4>5. u[t] \in Int /\ v[t] = u[t] + IF e \in t THEN g[e] - f[e] ELSE 0
        BY <1>6, <4>3
      <4>6. x \in Entries /\ f[x] \in Int /\ g[x] \in Int /\ f[e] \in Int /\ g[e] \in Int
        BY <4>3
      <4>7. CASE x = e
        <5>1. e \notin t /\ e \in s
          BY <4>2, <4>7
        <5> QED
          BY <4>4, <4>5, <4>6, <4>7, <5>1
      <4>8. CASE x # e
        <5>1. (e \in t <=> e \in s) /\ g[x] = f[x]
          BY <4>2, <4>6, <4>8
        <5> QED
          BY <4>4, <4>5, <4>6, <5>1
      <4> QED
        BY <4>7, <4>8
    <3> QED
      BY <3>1, <3>2
  <2> HIDE DEF Right
  <2> QED
    BY <2>1, <2>2
<1> HIDE DEF S
<1>7. \A n \in 0 .. Cardinality(Entries) : n \in S
  BY <1>5, <1>6, SmallSets, CountUp
<1>8. Cardinality(Entries) \in S
  BY <1>7, SmallSets
<1>9. Right(Entries)
  BY <1>8, SmallSets DEF S
<1> QED
  BY <1>1, <1>2, <1>9

LEMMA SumZero ==
    ASSUME NEW f, \A x \in Entries : f[x] = 0
    PROVE  SumOf(f)[Entries] = 0
<1>1. PICK u : u = SumOf(f)
  OBVIOUS
<1>2. \A s \in SUBSET Entries : u[s] = SumTurn(f, u, s)
  BY <1>1, SumExists
<1> DEFINE S == {n \in 0 .. Cardinality(Entries) : \A s \in Small(n) : u[s] = 0}
<1>3. u[{}] = 0
  BY <1>2 DEF SumTurn
<1>4. 0 \in S
  <2>1. 0 \in 0 .. Cardinality(Entries) /\ \A s \in Small(0) : s = {}
    BY SmallSets
  <2> QED
    BY <1>3, <2>1
<1>5. ASSUME NEW n \in 0 .. Cardinality(Entries) - 1, n \in S PROVE n + 1 \in S
  <2>1. n \in Nat /\ n + 1 \in 0 .. Cardinality(Entries)
    BY SmallSets
  <2>2. ASSUME NEW s \in Small(n + 1) PROVE u[s] = 0
    <3>1. CASE s = {}
      BY <1>3, <3>1
    <3>2. CASE s # {}
      <4>1. PICK x \in s : x = CHOOSE y \in s : TRUE
        BY <3>2
      <4>2. PICK t : t = s \ {x}
        OBVIOUS
      <4>3. t \in Small(n) /\ s \in SUBSET Entries
        BY <2>1, <3>2, <4>1, <4>2, SmallSets DEF Small
      <4>4. u[s] = u[t] + f[x]
        BY <1>2, <3>2, <4>1, <4>2, <4>3 DEF SumTurn
      <4> QED
        BY <1>5, <4>3, <4>4
    <3> QED
      BY <3>1, <3>2
  <2> QED
    BY <2>1, <2>2
<1> HIDE DEF S
<1>6. \A n \in 0 .. Cardinality(Entries) : n \in S
  BY <1>4, <1>5, SmallSets, CountUp
<1>7. Cardinality(Entries) \in S
  BY <1>6, SmallSets
<1> QED
  BY <1>1, <1>7, SmallSets DEF S

\* Thread e goes on with n descriptors, at most one of them new.
GoesOn(e, n, there) ==
    /\ e \in Entries /\ n \in 0 .. 2 /\ MayHave(n, there)
    /\ open' = [open EXCEPT ![e] = n] /\ thread' = [thread EXCEPT ![e] = there]
    /\ n <= open[e] \/ (n = open[e] + 1 /\ Tree!Open < OpenMax)

LEMMA OpenInit == Tree!Init => OpenInv
<1> SUFFICES ASSUME Tree!Init PROVE OpenInv
  OBVIOUS
<1>1. open = [e \in Entries |-> 0] /\ OpenMax \in Nat
  BY BoundsAssumption DEF Tree!Init
<1>2. Tree!Open = 0
  BY <1>1, OpenIsSum, SumZero
<1>3. \A e \in Entries : thread[e] \in {"none", "stat", "source"}
  BY DEF Tree!Init
<1> QED
  BY <1>1, <1>2, <1>3 DEF OpenInv, Descriptors, MayHave

LEMMA OpenFrame == OpenInv /\ UNCHANGED copyVars => OpenInv'
<1> SUFFICES ASSUME OpenInv, UNCHANGED copyVars PROVE OpenInv'
  OBVIOUS
<1>1. thread' = thread /\ open' = open
  BY DEF copyVars
<1>2. Tree!Open' = Tree!Open
  BY <1>1 DEF Tree!Open, Tree!FoldSet, Tree!MapThenFoldSet
<1> QED
  BY <1>1, <1>2 DEF OpenInv, Descriptors, MayHave

\* A step moves a thread on, and with it its own descriptors.
LEMMA OpenStep == TreeInv /\ OpenInv /\ Tree!Next => OpenInv'
<1> SUFFICES ASSUME TreeInv, OpenInv, Tree!Next PROVE OpenInv'
  OBVIOUS
<1>1. /\ thread \in [Entries -> {"none", "stat", "source", "destination", "copy", "read",
                                 "close", "ended"}]
      /\ open \in [Entries -> 0 .. 2] /\ Tree!Open <= OpenMax /\ OpenMax \in Nat
      /\ \A e \in Entries : Descriptors(e)
  BY BoundsAssumption DEF TreeInv, OpenInv
<1>2. ASSUME NEW e, NEW n, NEW there, GoesOn(e, n, there) PROVE OpenInv'
  <2>0. /\ e \in Entries /\ n \in 0 .. 2 /\ MayHave(n, there)
        /\ open' = [open EXCEPT ![e] = n] /\ thread' = [thread EXCEPT ![e] = there]
        /\ n <= open[e] \/ (n = open[e] + 1 /\ Tree!Open < OpenMax)
    BY <1>2 DEF GoesOn
  <2>1. PICK g : g = open'
    OBVIOUS
  <2>2. /\ g \in [Entries -> 0 .. 2] /\ g[e] = n
        /\ \A x \in Entries : x # e => g[x] = open[x]
    BY <1>1, <2>0, <2>1
  <2>3. open \in [Entries -> Int] /\ g \in [Entries -> Int] /\ open[e] \in 0 .. 2
    <3>1. open \in [Entries -> 0 .. 2] /\ g \in [Entries -> 0 .. 2] /\ e \in Entries
      BY <1>1, <2>0, <2>2
    <3> QED
      BY <3>1
  <2>4. /\ SumOf(open)[Entries] \in Int
        /\ SumOf(g)[Entries] = SumOf(open)[Entries] + (g[e] - open[e])
    BY <2>0, <2>2, <2>3, SumChanges
  <2>5. Tree!Open' = SumOf(g)[Entries] /\ Tree!Open = SumOf(open)[Entries]
    BY <2>1, OpenIsSum DEF Tree!Open, Tree!FoldSet, Tree!MapThenFoldSet, SumOf, SumTurn
  <2>6. Tree!Open' <= OpenMax
    BY <1>1, <2>0, <2>2, <2>3, <2>4, <2>5
  <2>7. ASSUME NEW x \in Entries PROVE Descriptors(x)'
    <3>1. CASE x = e
      BY <1>1, <2>0, <3>1 DEF Descriptors, MayHave
    <3>2. CASE x # e
      <4>1. thread'[x] = thread[x] /\ open'[x] = open[x] /\ Descriptors(x)
        BY <1>1, <2>0, <3>2
      <4> QED
        BY <4>1 DEF Descriptors, MayHave
    <3> QED
      BY <3>1, <3>2
  <2> QED
    BY <2>1, <2>2, <2>6, <2>7 DEF OpenInv
<1>3. ASSUME NEW e \in Entries, NEW there, open' = open, thread' = [thread EXCEPT ![e] = there],
             MayHave(open[e], there)
      PROVE  OpenInv'
  <2>1. open[e] \in 0 .. 2 /\ open' = [open EXCEPT ![e] = open[e]]
    BY <1>1, <1>3
  <2>2. PICK n \in 0 .. 2 : n = open[e]
    BY <2>1
  <2>3. MayHave(n, there) /\ open' = [open EXCEPT ![e] = n] /\ n <= open[e]
    <3>1. open' = [open EXCEPT ![e] = n] /\ MayHave(n, there)
      BY <1>3, <2>1, <2>2
    <3>2. n <= open[e]
      BY <2>2
    <3> QED
      BY <3>1, <3>2
  <2>4. GoesOn(e, n, there)
    BY <1>3, <2>3 DEF GoesOn
  <2> QED
    BY <1>2, <2>4
<1>4. ASSUME NEW e \in Entries,
             Tree!Stat(e) \/ Tree!CopyData(e) \/ Tree!ReadFails(e) \/ Tree!ReadEnds(e)
      PROVE  OpenInv'
  <2>1. Descriptors(e)
    BY <1>1
  <2>2. CASE Tree!Stat(e)
    <3>1. PICK there \in {"source", "ended"} : thread' = [thread EXCEPT ![e] = there]
      BY <2>2 DEF Tree!Stat, Tree!Goto
    <3>2. open' = open /\ open[e] = 0
      BY <2>1, <2>2 DEF Tree!Stat, Descriptors, MayHave
    <3> QED
      BY <1>3, <3>1, <3>2 DEF MayHave
  <2>3. CASE Tree!CopyData(e) \/ Tree!ReadFails(e) \/ Tree!ReadEnds(e)
    <3>1. open' = open /\ thread' = [thread EXCEPT ![e] = "close"] /\ open[e] = 2
      BY <2>1, <2>3 DEF Tree!CopyData, Tree!ReadFails, Tree!ReadEnds, Tree!Goto, Descriptors, MayHave
    <3> QED
      BY <1>3, <3>1 DEF MayHave
  <2> QED
    BY <1>4, <2>2, <2>3
<1>5. ASSUME NEW e \in Entries, Tree!OpenSource(e) \/ Tree!OpenDestination(e)
      PROVE  OpenInv'
  <2>1. Descriptors(e) /\ Tree!Open < OpenMax
    BY <1>1, <1>5 DEF Tree!OpenSource, Tree!OpenDestination
  <2>2. CASE Tree!OpenSource(e)
    <3>1. /\ open' = [open EXCEPT ![e] = 1] /\ thread' = [thread EXCEPT ![e] = "destination"]
          /\ open[e] = 0
      BY <2>1, <2>2 DEF Tree!OpenSource, Tree!Goto, Descriptors, MayHave
    <3>2. GoesOn(e, 1, "destination")
      BY <2>1, <3>1 DEF GoesOn, MayHave
    <3> QED
      BY <1>2, <3>2
  <2>3. CASE Tree!OpenDestination(e)
    <3>1. PICK there \in {"copy", "read"} : thread' = [thread EXCEPT ![e] = there]
      BY <2>3 DEF Tree!OpenDestination, Tree!Goto
    <3>2. open' = [open EXCEPT ![e] = 2] /\ open[e] = 1
      BY <2>1, <2>3 DEF Tree!OpenDestination, Descriptors, MayHave
    <3>3. GoesOn(e, 2, there)
      BY <2>1, <3>1, <3>2 DEF GoesOn, MayHave
    <3> QED
      BY <1>2, <3>3
  <2> QED
    BY <1>5, <2>2, <2>3
<1>6. ASSUME NEW e \in Entries, Tree!OpenFails(e) PROVE OpenInv'
  <2>1. open' = [open EXCEPT ![e] = 0] /\ thread' = [thread EXCEPT ![e] = "ended"]
    BY <1>6 DEF Tree!OpenFails, Tree!Goto
  <2>2. 0 <= open[e]
    BY <1>1
  <2>3. GoesOn(e, 0, "ended")
    BY <2>1, <2>2 DEF GoesOn, MayHave
  <2> QED
    BY <1>2, <2>3
<1>7. ASSUME NEW e \in Entries, Tree!Read(e) PROVE OpenInv'
  <2>1. PICK c \in unread[e] :
           thread' = [thread EXCEPT ![c] = IF copy_type[c] = "file" THEN "stat" ELSE "source"]
    BY <1>7 DEF Tree!Read, Tree!Goto
  <2>2. c \in Tree!Children(e)
    BY <2>1 DEF TreeInv
  <2>3. c \in Entries \ {Root} /\ Parent[c] = e
    BY <2>2 DEF Tree!Children
  <2>4. thread[c] = "none"
    BY <2>1, <2>3 DEF TreeInv
  <2>5. open' = open /\ open[c] = 0
    BY <1>1, <1>7, <2>3, <2>4 DEF Tree!Read, Descriptors, MayHave
  <2>6. PICK there \in {"stat", "source"} : thread' = [thread EXCEPT ![c] = there]
    BY <2>1
  <2> QED
    BY <1>3, <2>3, <2>5, <2>6 DEF MayHave
<1>8. ASSUME NEW e \in Entries, Tree!Close(e) PROVE OpenInv'
  <2>1. open[e] \in {1, 2}
    BY <1>1, <1>8 DEF Tree!Close, Descriptors, MayHave
  <2>2. open' = [open EXCEPT ![e] = open[e] - 1]
    BY <1>8 DEF Tree!Close
  <2>3. PICK there : /\ thread' = [thread EXCEPT ![e] = there]
                     /\ there = IF open[e] = 1 THEN "ended" ELSE "close"
    BY <1>8 DEF Tree!Close, Tree!Goto
  <2>4. PICK n \in 0 .. 2 : n = open[e] - 1
    BY <2>1
  <2>5. GoesOn(e, n, there)
    BY <2>1, <2>2, <2>3, <2>4 DEF GoesOn, MayHave
  <2> QED
    BY <1>2, <2>5
<1>9. CASE UNCHANGED copyVars
  BY <1>9, OpenFrame
<1>10. ASSUME NEW e \in Entries, Tree!ReadSkips(e) PROVE OpenInv'
  <2>1. open' = open /\ thread' = thread
    BY <1>10 DEF Tree!ReadSkips
  <2>2. Tree!Open' = Tree!Open
    BY <2>1 DEF Tree!Open, Tree!FoldSet, Tree!MapThenFoldSet
  <2> QED
    BY <2>1, <2>2 DEF OpenInv, Descriptors, MayHave
<1>11. ASSUME NEW e \in Entries, Tree!ReadCrashes(e) PROVE OpenInv'
  <2>1. PICK g : g = open'
    OBVIOUS
  <2>2. /\ g = [d \in Entries |-> 0] /\ \A d \in Entries : thread'[d] \in {"none", "ended"}
    BY <1>11, <2>1 DEF Tree!ReadCrashes
  <2>3. Tree!Open' = SumOf(g)[Entries]
    BY <2>1, OpenIsSum DEF Tree!Open, Tree!FoldSet, Tree!MapThenFoldSet, SumOf, SumTurn
  <2>4. Tree!Open' = 0
    BY <2>2, <2>3, SumZero
  <2> QED
    BY <1>1, <2>1, <2>2, <2>4 DEF OpenInv, Descriptors, MayHave
<1> QED
  BY <1>4, <1>5, <1>6, <1>7, <1>8, <1>9, <1>10, <1>11
     DEF Tree!Next, Tree!copy, Tree!Retry, Tree!copyVars, copyVars, Tree!outcome

LEMMA TreeTypes == TreeInv /\ OpenInv => Tree!TypeOK
<1> SUFFICES ASSUME TreeInv, OpenInv PROVE Tree!TypeOK
  OBVIOUS
<1>1. UNION {made, copied, damaged, skipped, reported} \subseteq Entries
  BY DEF TreeInv
<1> QED
  BY <1>1 DEF TreeInv, OpenInv, Tree!TypeOK

-----------------------------------------------------------------------------
(* The shared cell: the right to use it.                                   *)

LEMMA PileEmpty ==
    ASSUME NEW f, \A c \in Consumers : f[c] = 0
    PROVE  IsFiniteSet(Pile(f)) /\ Cardinality(Pile(f)) = 0
<1>1. Pile(f) = {}
  BY DEF Pile
<1> QED
  BY <1>1, FS_EmptySet

LEMMA PileGrows ==
    ASSUME NEW f \in [Consumers -> Nat], NEW g \in [Consumers -> Nat], NEW c \in Consumers,
           g[c] = f[c] + 1, \A d \in Consumers : d # c => g[d] = f[d],
           IsFiniteSet(Pile(f))
    PROVE  IsFiniteSet(Pile(g)) /\ Cardinality(Pile(g)) = Cardinality(Pile(f)) + 1
<1> DEFINE new == <<c, f[c] + 1>>
<1>1. new \in Consumers \X Nat /\ new[1] = c /\ new[2] = f[c] + 1 /\ f[c] \in Nat
  OBVIOUS
<1>2. new \notin Pile(f)
  BY <1>1 DEF Pile
<1>3. ASSUME NEW t \in Consumers \X Nat
      PROVE  t \in Pile(g) <=> t \in Pile(f) \/ t = new
  <2>1. t[1] \in Consumers /\ t[2] \in Nat /\ t = <<t[1], t[2]>> /\ f[t[1]] \in Nat
    OBVIOUS
  <2>2. CASE t[1] = c
    BY <1>1, <2>1, <2>2 DEF Pile
  <2>3. CASE t[1] # c
    BY <1>1, <2>1, <2>3 DEF Pile
  <2> QED
    BY <2>2, <2>3
<1>4. Pile(g) = Pile(f) \cup {new}
  <2>1. Pile(g) \subseteq Consumers \X Nat /\ Pile(f) \subseteq Consumers \X Nat
    BY DEF Pile
  <2> QED
    BY <1>1, <1>3, <2>1
<1> QED
  BY <1>2, <1>4, FS_AddElement

LEMMA PileGone ==
    ASSUME NEW f \in [Consumers -> Nat], NEW g \in [Consumers -> Nat], NEW c \in Consumers,
           g[c] = 0, \A d \in Consumers : d # c => g[d] = f[d],
           IsFiniteSet(Pile(f))
    PROVE  IsFiniteSet(Pile(g)) /\ Cardinality(Pile(g)) = Cardinality(Pile(f)) - f[c]
<1> DEFINE old == {c} \X (1 .. f[c])
<1>1. IsFiniteSet(old) /\ Cardinality(old) = f[c]
  <2>1. IsFiniteSet({c}) /\ Cardinality({c}) = 1
    BY FS_Singleton
  <2>2. IsFiniteSet(1 .. f[c]) /\ Cardinality(1 .. f[c]) = f[c]
    <3>1. 1 \in Int /\ f[c] \in Int /\ f[c] >= 0
      OBVIOUS
    <3>2. /\ IsFiniteSet(1 .. f[c])
          /\ Cardinality(1 .. f[c]) = IF 1 > f[c] THEN 0 ELSE f[c] - 1 + 1
      BY <3>1, FS_Interval
    <3> QED
      BY <3>1, <3>2
  <2>3. IsFiniteSet(old) /\ Cardinality(old) = 1 * f[c]
    BY SMTT(30), <2>1, <2>2, FS_Product
  <2> QED
    BY <2>3
<1>2. old \subseteq Pile(f)
  <2> SUFFICES ASSUME NEW t \in old PROVE t \in Pile(f)
    OBVIOUS
  <2>1. t[1] = c /\ t[2] \in 1 .. f[c] /\ t = <<t[1], t[2]>> /\ f[c] \in Nat
    OBVIOUS
  <2>2. t \in Consumers \X Nat
    BY <2>1
  <2> QED
    BY <2>1, <2>2 DEF Pile
<1>3. ASSUME NEW t \in Consumers \X Nat
      PROVE  t \in Pile(g) <=> t \in Pile(f) /\ t \notin old
  <2>1. t[1] \in Consumers /\ t[2] \in Nat /\ t = <<t[1], t[2]>> /\ f[t[1]] \in Nat
    OBVIOUS
  <2>2. CASE t[1] = c
    <3>1. t \in old <=> t[2] \in 1 .. f[c]
      BY <2>1, <2>2
    <3> QED
      BY <2>1, <2>2, <3>1 DEF Pile
  <2>3. CASE t[1] # c
    <3>1. t \notin old
      BY <2>1, <2>3
    <3> QED
      BY <2>1, <2>3, <3>1 DEF Pile
  <2> QED
    BY <2>2, <2>3
<1>4. Pile(g) = Pile(f) \ old
  <2>1. Pile(g) \subseteq Consumers \X Nat /\ Pile(f) \subseteq Consumers \X Nat
    BY DEF Pile
  <2> QED
    BY <1>3, <2>1
<1>5. Pile(f) \cap old = old
  BY <1>2
<1>6. Cardinality(Pile(f)) \in Nat
  BY FS_CardinalityType
<1> HIDE DEF old
<1>7. /\ IsFiniteSet(Pile(f) \ old)
      /\ Cardinality(Pile(f) \ old) = Cardinality(Pile(f)) - Cardinality(Pile(f) \cap old)
  BY <1>1, FS_Difference
<1> QED
  BY <1>1, <1>4, <1>5, <1>6, <1>7

LEMMA PileSmaller ==
    ASSUME NEW f \in [Consumers -> Nat], NEW g \in [Consumers -> Nat],
           \A c \in Consumers : f[c] <= g[c], IsFiniteSet(Pile(g))
    PROVE  IsFiniteSet(Pile(f)) /\ Cardinality(Pile(f)) <= Cardinality(Pile(g))
<1>1. Pile(f) \subseteq Pile(g)
  <2> SUFFICES ASSUME NEW t \in Pile(f) PROVE t \in Pile(g)
    OBVIOUS
  <2>1. t \in Consumers \X Nat /\ t[1] \in Consumers /\ t[2] \in Nat /\ t[2] # 0 /\ t[2] <= f[t[1]]
    BY DEF Pile
  <2>2. f[t[1]] \in Nat /\ g[t[1]] \in Nat /\ f[t[1]] <= g[t[1]]
    BY <2>1
  <2>3. t[2] <= g[t[1]]
    BY <2>1, <2>2
  <2> QED
    BY <2>1, <2>3 DEF Pile
<1> QED
  BY <1>1, FS_Subset

\* Who cannot get at the cell has not got it: then the numbers do not add up.
LEMMA CellInvImplies == CellInv => Cell!CellNotLost
<1> SUFFICES ASSUME CellInv, sems = "set", \A s \in Cell!Semaphores : ~(val[s] > 0),
                    ~Filling, \A c \in Consumers : ~InRound(c)
             PROVE  FALSE
  BY DEF Cell!CellNotLost, Filling, InRound
<1>1. /\ val["READ"] = 0 /\ val["WRITE"] = 0
      /\ undo[Producer]["WRITE"] \in Int /\ undo[Producer]["READ"] \in Int
      /\ \A c \in Consumers : /\ undo[c]["READ"] \in Nat /\ -undo[c]["WRITE"] \in Nat
                              /\ undo[c]["WRITE"] \in Int
  BY DEF CellInv, CellTypes, Cell!Semaphores, Cell!Processes
<1>2. TakenBy \in [Consumers -> Nat] /\ GivenBy \in [Consumers -> Nat]
  BY <1>1 DEF TakenBy, GivenBy
<1>3. ASSUME NEW c \in Consumers PROVE TakenBy[c] <= GivenBy[c]
  <2>1. undo[c]["READ"] + undo[c]["WRITE"] <= 0
    BY DEF CellInv, Balance
  <2> QED
    BY <1>1, <2>1 DEF TakenBy, GivenBy
<1>4. Cardinality(Taken) <= Cardinality(Given)
  BY <1>2, <1>3, PileSmaller DEF CellInv, Taken, Given
<1>5. Cardinality(Taken) \in Nat /\ Cardinality(Given) \in Nat
  BY FS_CardinalityType DEF CellInv
<1>6. /\ 0 + undo[Producer]["WRITE"] >= 1 + Cardinality(Given)
      /\ 0 + Cardinality(Taken) >= -undo[Producer]["READ"]
      /\ undo[Producer]["WRITE"] + undo[Producer]["READ"] <= 0
  BY <1>1 DEF CellInv, Balance
<1> QED
  BY <1>1, <1>4, <1>5, <1>6

LEMMA CellInit == Cell!Init => CellInv
<1> SUFFICES ASSUME Cell!Init PROVE CellInv
  OBVIOUS
<1>1. /\ at = [p \in Cell!Processes |-> "shmget"] /\ sems = "none" /\ val = Cell!Nothing
      /\ undo = [p \in Cell!Processes |-> Cell!Nothing]
      /\ Producer \in Cell!Processes /\ Consumers \subseteq Cell!Processes
  BY DEF Cell!Init, Cell!Processes
<1>2. CellTypes
  BY <1>1 DEF CellTypes, Cell!Nothing, Cell!Semaphores
<1>3. \A c \in Consumers : TakenBy[c] = 0 /\ GivenBy[c] = 0
  <2>1. \A c \in Consumers : undo[c]["READ"] = 0 /\ undo[c]["WRITE"] = 0
    BY <1>1 DEF Cell!Nothing, Cell!Semaphores
  <2>2. \A n \in Int : -n = 0 - n
    OBVIOUS
  <2> QED
    BY <2>1, <2>2 DEF TakenBy, GivenBy
<1>4. IsFiniteSet(Taken) /\ IsFiniteSet(Given)
  BY <1>3, PileEmpty DEF Taken, Given
<1>5. Balance
  BY <1>1 DEF Balance, Cell!Nothing, Cell!Semaphores
<1> QED
  BY <1>2, <1>4, <1>5 DEF CellInv

LEMMA CellFrame == CellInv /\ UNCHANGED cellVars => CellInv'
BY DEF cellVars, CellInv, CellTypes, Balance, InRound, Filling, Taken, Given, TakenBy, GivenBy

\* A process goes on without a semop.
LEMMA CellMoves ==
    ASSUME CellInv, val' = val, undo' = undo, NEW p \in Cell!Processes,
           NEW there \in {"shmget", "semget", "READ", "WRITE", "SETALL", "fgets",
                          "shmctl", "semctl", "printf"} \cup Cell!Exit,
           at' = [at EXCEPT ![p] = there],
           sems' \in {"none", "made", "set", "removed"},
           sems' = "set" => sems = "set",
           sems' # "removed" =>
               /\ sems # "removed"
               /\ p \in Consumers /\ InRound(p) => there \in {"printf", "WRITE"}
               /\ p = Producer /\ Filling => there \in {"fgets", "READ", "shmctl", "semctl"}
    PROVE  CellInv'
<1>1. /\ at \in [Cell!Processes -> {"shmget", "semget", "READ", "WRITE", "SETALL", "fgets",
                                    "shmctl", "semctl", "printf"} \cup Cell!Exit]
      /\ Producer \in Cell!Processes /\ Consumers \subseteq Cell!Processes
  BY DEF CellInv, CellTypes, Cell!Processes
<1>2. at'[p] = there /\ \A q \in Cell!Processes : q # p => at'[q] = at[q]
  BY <1>1
<1>3. CellTypes'
  BY <1>1 DEF CellInv, CellTypes
<1>4. Taken' = Taken /\ Given' = Given
  BY DEF Taken, Given, TakenBy, GivenBy
<1>5. sems' # "removed" => /\ \A c \in Consumers : InRound(c) => InRound(c)'
                           /\ Filling => Filling'
  BY <1>1, <1>2 DEF InRound, Filling
<1>6. Balance'
  <2>1. sems' = "set" => /\ val["WRITE"] + undo[Producer]["WRITE"] >= 1 + Cardinality(Given)
                         /\ val["READ"] + Cardinality(Taken) >= -undo[Producer]["READ"]
    BY DEF CellInv, Balance
  <2>2. ASSUME sems' # "removed", NEW c \in Consumers
        PROVE  undo[c]["READ"] + undo[c]["WRITE"] <= IF InRound(c)' THEN 1 ELSE 0
    <3>1. undo[c]["READ"] + undo[c]["WRITE"] <= IF InRound(c) THEN 1 ELSE 0
      BY <2>2 DEF CellInv, Balance
    <3>2. undo[c]["READ"] \in Int /\ undo[c]["WRITE"] \in Int
      BY <1>1 DEF CellInv, CellTypes, Cell!Semaphores
    <3> QED
      BY <1>5, <2>2, <3>1, <3>2
  <2>3. ASSUME sems' # "removed"
        PROVE  undo[Producer]["WRITE"] + undo[Producer]["READ"] <= IF Filling' THEN 1 ELSE 0
    <3>1. undo[Producer]["WRITE"] + undo[Producer]["READ"] <= IF Filling THEN 1 ELSE 0
      BY <2>3 DEF CellInv, Balance
    <3>2. undo[Producer]["READ"] \in Int /\ undo[Producer]["WRITE"] \in Int
      BY <1>1 DEF CellInv, CellTypes, Cell!Semaphores
    <3> QED
      BY <1>5, <2>3, <3>1, <3>2
  <2> QED
    BY <1>4, <2>1, <2>2, <2>3 DEF Balance
<1> QED
  BY <1>3, <1>4, <1>6 DEF CellInv

LEMMA CellSetAll == CellInv /\ Cell!SetAll => CellInv'
<1> SUFFICES ASSUME CellInv, Cell!SetAll PROVE CellInv'
  OBVIOUS
<1>1. /\ at \in [Cell!Processes -> {"shmget", "semget", "READ", "WRITE", "SETALL", "fgets",
                                    "shmctl", "semctl", "printf"} \cup Cell!Exit]
      /\ Producer \in Cell!Processes /\ Consumers \subseteq Cell!Processes
      /\ at' = [at EXCEPT ![Producer] = "WRITE"] /\ sems' = "set"
      /\ val' = [s \in Cell!Semaphores |-> IF s = "WRITE" THEN 1 ELSE 0]
      /\ undo' = [q \in Cell!Processes |-> Cell!Nothing]
  BY DEF CellInv, CellTypes, Cell!Processes, Cell!SetAll, Cell!Go
<1>2. \A q \in Cell!Processes : undo'[q]["READ"] = 0 /\ undo'[q]["WRITE"] = 0
  BY <1>1 DEF Cell!Nothing, Cell!Semaphores
<1>3. val'["WRITE"] = 1 /\ val'["READ"] = 0
  BY <1>1 DEF Cell!Semaphores
<1>4. CellTypes'
  <2>1. at' \in [Cell!Processes -> {"shmget", "semget", "READ", "WRITE", "SETALL", "fgets",
                                    "shmctl", "semctl", "printf"} \cup Cell!Exit]
    BY <1>1
  <2>2. val' \in [Cell!Semaphores -> Nat]
    BY <1>1
  <2>3. undo' \in [Cell!Processes -> [Cell!Semaphores -> Int]]
    BY <1>1 DEF Cell!Nothing
  <2> QED
    BY <1>1, <1>2, <2>1, <2>2, <2>3 DEF CellTypes
<1>5. \A c \in Consumers : TakenBy'[c] = 0 /\ GivenBy'[c] = 0
  <2>1. \A n \in Int : -n = 0 - n
    OBVIOUS
  <2> QED
    BY <1>1, <1>2, <2>1 DEF TakenBy, GivenBy
<1>6. /\ IsFiniteSet(Taken') /\ IsFiniteSet(Given')
      /\ Cardinality(Taken') = 0 /\ Cardinality(Given') = 0
  BY <1>5, PileEmpty DEF Taken, Given
<1>7. Balance'
  BY <1>1, <1>2, <1>3, <1>6 DEF Balance
<1> QED
  BY <1>4, <1>6, <1>7 DEF CellInv

\* Types after a semop, and what the waits of the consumers are.
LEMMA CellSemop ==
    ASSUME CellInv, NEW p \in Cell!Processes, NEW s \in Cell!Semaphores, NEW n \in {1, -1},
           NEW there \in {"READ", "WRITE", "fgets", "printf"},
           p \in Consumers => n = IF s = "READ" THEN -1 ELSE 1,
           p = Producer => n = IF s = "READ" THEN 1 ELSE -1,
           at' = [at EXCEPT ![p] = there], Cell!Semop(p, s, n)
    PROVE  /\ CellTypes' /\ sems' = sems /\ sems # "removed"
           /\ at'[p] = there /\ \A q \in Cell!Processes : q # p => at'[q] = at[q]
           /\ val'[s] = val[s] + n
           /\ \A r \in Cell!Semaphores : r # s => val'[r] = val[r]
           /\ undo'[p][s] = undo[p][s] - n
           /\ \A r \in Cell!Semaphores : r # s => undo'[p][r] = undo[p][r]
           /\ \A q \in Cell!Processes : q # p => undo'[q] = undo[q]
           /\ \A q \in Cell!Processes, r \in Cell!Semaphores : undo[q][r] \in Int
           /\ \A r \in Cell!Semaphores : val[r] \in Nat
<1>1. /\ at \in [Cell!Processes -> {"shmget", "semget", "READ", "WRITE", "SETALL", "fgets",
                                    "shmctl", "semctl", "printf"} \cup Cell!Exit]
      /\ Producer \in Cell!Processes /\ Consumers \subseteq Cell!Processes
      /\ val \in [Cell!Semaphores -> Nat] /\ undo \in [Cell!Processes -> [Cell!Semaphores -> Int]]
      /\ val' = [val EXCEPT ![s] = @ + n] /\ undo' = [undo EXCEPT ![p][s] = @ - n]
      /\ val[s] + n >= 0 /\ sems' = sems /\ sems \in {"made", "set"}
  BY DEF CellInv, CellTypes, Cell!Processes, Cell!Semop, Cell!There
<1>2. /\ at'[p] = there /\ \A q \in Cell!Processes : q # p => at'[q] = at[q]
      /\ at' \in [Cell!Processes -> {"shmget", "semget", "READ", "WRITE", "SETALL", "fgets",
                                     "shmctl", "semctl", "printf"} \cup Cell!Exit]
  BY <1>1
<1>3. /\ val'[s] = val[s] + n
      /\ \A r \in Cell!Semaphores : r # s => val'[r] = val[r]
      /\ val' \in [Cell!Semaphores -> Nat]
  BY <1>1
<1>4. /\ undo'[p][s] = undo[p][s] - n
      /\ \A r \in Cell!Semaphores : r # s => undo'[p][r] = undo[p][r]
      /\ \A q \in Cell!Processes : q # p => undo'[q] = undo[q]
      /\ undo' \in [Cell!Processes -> [Cell!Semaphores -> Int]]
  <2>1. undo' = [undo EXCEPT ![p] = [undo[p] EXCEPT ![s] = undo[p][s] - n]]
    BY <1>1
  <2>2. [undo[p] EXCEPT ![s] = undo[p][s] - n] \in [Cell!Semaphores -> Int]
    BY <1>1
  <2> QED
    BY <1>1, <2>1, <2>2
<1>5. "READ" \in Cell!Semaphores /\ "WRITE" \in Cell!Semaphores
  BY DEF Cell!Semaphores
<1>6. \A c \in Consumers : undo'[c]["READ"] >= 0 /\ undo'[c]["WRITE"] <= 0
  <2> SUFFICES ASSUME NEW c \in Consumers
               PROVE  undo'[c]["READ"] >= 0 /\ undo'[c]["WRITE"] <= 0
    OBVIOUS
  <2>1. /\ undo[c]["READ"] >= 0 /\ undo[c]["WRITE"] <= 0
        /\ undo[c]["READ"] \in Int /\ undo[c]["WRITE"] \in Int /\ c \in Cell!Processes
    BY <1>1, <1>5 DEF CellInv, CellTypes
  <2>2. CASE c # p
    BY <1>4, <2>1, <2>2
  <2>3. CASE c = p /\ s = "READ"
    BY <1>4, <1>5, <2>1, <2>3
  <2>4. CASE c = p /\ s = "WRITE"
    BY <1>4, <1>5, <2>1, <2>4
  <2> QED
    BY <2>2, <2>3, <2>4 DEF Cell!Semaphores
<1>7. undo'[Producer]["WRITE"] >= 0 /\ undo'[Producer]["READ"] <= 0
  <2>1. /\ undo[Producer]["WRITE"] >= 0 /\ undo[Producer]["READ"] <= 0
        /\ undo[Producer]["READ"] \in Int /\ undo[Producer]["WRITE"] \in Int
    BY <1>1, <1>5 DEF CellInv, CellTypes
  <2>2. CASE Producer # p
    BY <1>1, <1>4, <2>1, <2>2
  <2>3. CASE Producer = p /\ s = "READ"
    BY <1>4, <1>5, <2>1, <2>3
  <2>4. CASE Producer = p /\ s = "WRITE"
    BY <1>4, <1>5, <2>1, <2>4
  <2> QED
    BY <2>2, <2>3, <2>4 DEF Cell!Semaphores
<1>8. CellTypes'
  BY <1>1, <1>2, <1>3, <1>4, <1>6, <1>7 DEF CellTypes
<1> QED
  BY <1>1, <1>2, <1>3, <1>4, <1>8

LEMMA CellPiles ==
    CellInv => /\ TakenBy \in [Consumers -> Nat] /\ GivenBy \in [Consumers -> Nat]
               /\ Cardinality(Taken) \in Nat /\ Cardinality(Given) \in Nat
<1> SUFFICES ASSUME CellInv
             PROVE  /\ TakenBy \in [Consumers -> Nat] /\ GivenBy \in [Consumers -> Nat]
                    /\ Cardinality(Taken) \in Nat /\ Cardinality(Given) \in Nat
  OBVIOUS
<1>1. \A c \in Consumers : undo[c]["READ"] \in Nat /\ -undo[c]["WRITE"] \in Nat
  BY DEF CellInv, CellTypes, Cell!Semaphores, Cell!Processes
<1>2. TakenBy \in [Consumers -> Nat] /\ GivenBy \in [Consumers -> Nat]
  BY <1>1 DEF TakenBy, GivenBy
<1> QED
  BY <1>2, FS_CardinalityType DEF CellInv

\* (The types are enough for the next state, too.)
LEMMA PileTypes ==
    ASSUME CellTypes' PROVE TakenBy' \in [Consumers -> Nat] /\ GivenBy' \in [Consumers -> Nat]
<1>1. \A c \in Consumers : undo'[c]["READ"] \in Nat /\ -undo'[c]["WRITE"] \in Nat
  BY DEF CellTypes, Cell!Semaphores, Cell!Processes
<1> QED
  BY <1>1 DEF TakenBy, GivenBy

\* A semop of the producer: what it takes of WRITE, or adds to READ, is undone by its end.
LEMMA CellProducerSemop ==
    ASSUME CellInv, Cell!AskToWrite \/ Cell!HandOver PROVE CellInv'
<1>1. Producer \in Cell!Processes /\ Consumers \subseteq Cell!Processes
      /\ "READ" \in Cell!Semaphores /\ "WRITE" \in Cell!Semaphores /\ Producer \notin Consumers
  BY ProcessesAssumption DEF Cell!Processes, Cell!Semaphores
<1>2. CASE Cell!AskToWrite
  <2>1. /\ at' = [at EXCEPT ![Producer] = "fgets"] /\ at[Producer] = "WRITE"
        /\ Cell!Semop(Producer, "WRITE", -1)
    BY <1>2 DEF Cell!AskToWrite, Cell!Go
  <2>2. /\ CellTypes' /\ sems' = sems /\ sems # "removed"
        /\ at'[Producer] = "fgets"
        /\ \A q \in Cell!Processes : q # Producer => at'[q] = at[q]
        /\ val'["WRITE"] = val["WRITE"] + (-1)
        /\ val'["READ"] = val["READ"]
        /\ undo'[Producer]["WRITE"] = undo[Producer]["WRITE"] - (-1)
        /\ undo'[Producer]["READ"] = undo[Producer]["READ"]
        /\ \A q \in Cell!Processes : q # Producer => undo'[q] = undo[q]
        /\ \A q \in Cell!Processes, r \in Cell!Semaphores : undo[q][r] \in Int
        /\ \A r \in Cell!Semaphores : val[r] \in Nat
    BY <1>1, <2>1, CellSemop
  <2>3. Taken' = Taken /\ Given' = Given
    BY <1>1, <2>2 DEF Taken, Given, TakenBy, GivenBy
  <2>4. \A c \in Consumers : InRound(c)' = InRound(c)
    BY <1>1, <2>2 DEF InRound
  <2>5. ~Filling /\ Filling'
    BY <2>1, <2>2 DEF Filling
  <2>6. undo[Producer]["READ"] \in Int /\ undo[Producer]["WRITE"] \in Int
        /\ val["READ"] \in Nat /\ val["WRITE"] \in Nat
    BY <1>1, <2>2
  <2>7. sems = "set" => /\ val'["WRITE"] + undo'[Producer]["WRITE"] >= 1 + Cardinality(Given')
                        /\ val'["READ"] + Cardinality(Taken') >= -undo'[Producer]["READ"]
    <3>1. Cardinality(Given) \in Nat /\ Cardinality(Taken) \in Nat
      BY CellPiles
    <3>2. sems = "set" => /\ val["WRITE"] + undo[Producer]["WRITE"] >= 1 + Cardinality(Given)
                          /\ val["READ"] + Cardinality(Taken) >= -undo[Producer]["READ"]
      BY DEF CellInv, Balance
    <3> QED
      BY <2>2, <2>3, <2>6, <3>1, <3>2
  <2>8. undo'[Producer]["WRITE"] + undo'[Producer]["READ"] <= 1
    <3>1. undo[Producer]["WRITE"] + undo[Producer]["READ"] <= 0
      BY <2>2, <2>5 DEF CellInv, Balance
    <3> QED
      BY <2>2, <2>6, <3>1
  <2>9. \A c \in Consumers :
            undo'[c]["READ"] + undo'[c]["WRITE"] <= IF InRound(c)' THEN 1 ELSE 0
    BY <1>1, <2>2, <2>4 DEF CellInv, Balance
  <2>10. Balance'
    BY <2>2, <2>5, <2>7, <2>8, <2>9 DEF Balance
  <2> QED
    BY <2>2, <2>3, <2>10 DEF CellInv
<1>3. CASE Cell!HandOver
  <2>1. /\ at' = [at EXCEPT ![Producer] = "WRITE"] /\ at[Producer] = "READ"
        /\ Cell!Semop(Producer, "READ", 1)
    BY <1>3 DEF Cell!HandOver, Cell!Go
  <2>2. /\ CellTypes' /\ sems' = sems /\ sems # "removed"
        /\ at'[Producer] = "WRITE"
        /\ \A q \in Cell!Processes : q # Producer => at'[q] = at[q]
        /\ val'["READ"] = val["READ"] + 1
        /\ val'["WRITE"] = val["WRITE"]
        /\ undo'[Producer]["READ"] = undo[Producer]["READ"] - 1
        /\ undo'[Producer]["WRITE"] = undo[Producer]["WRITE"]
        /\ \A q \in Cell!Processes : q # Producer => undo'[q] = undo[q]
        /\ \A q \in Cell!Processes, r \in Cell!Semaphores : undo[q][r] \in Int
        /\ \A r \in Cell!Semaphores : val[r] \in Nat
    BY <1>1, <2>1, CellSemop
  <2>3. Taken' = Taken /\ Given' = Given
    BY <1>1, <2>2 DEF Taken, Given, TakenBy, GivenBy
  <2>4. \A c \in Consumers : InRound(c)' = InRound(c)
    BY <1>1, <2>2 DEF InRound
  <2>5. Filling /\ ~Filling'
    BY <2>1, <2>2 DEF Filling
  <2>6. undo[Producer]["READ"] \in Int /\ undo[Producer]["WRITE"] \in Int
        /\ val["READ"] \in Nat /\ val["WRITE"] \in Nat
    BY <1>1, <2>2
  <2>7. sems = "set" => /\ val'["WRITE"] + undo'[Producer]["WRITE"] >= 1 + Cardinality(Given')
                        /\ val'["READ"] + Cardinality(Taken') >= -undo'[Producer]["READ"]
    <3>1. Cardinality(Given) \in Nat /\ Cardinality(Taken) \in Nat
      BY CellPiles
    <3>2. sems = "set" => /\ val["WRITE"] + undo[Producer]["WRITE"] >= 1 + Cardinality(Given)
                          /\ val["READ"] + Cardinality(Taken) >= -undo[Producer]["READ"]
      BY DEF CellInv, Balance
    <3> QED
      BY <2>2, <2>3, <2>6, <3>1, <3>2
  <2>8. undo'[Producer]["WRITE"] + undo'[Producer]["READ"] <= 0
    <3>1. undo[Producer]["WRITE"] + undo[Producer]["READ"] <= 1
      BY <2>2, <2>5 DEF CellInv, Balance
    <3> QED
      BY <2>2, <2>6, <3>1
  <2>9. \A c \in Consumers :
            undo'[c]["READ"] + undo'[c]["WRITE"] <= IF InRound(c)' THEN 1 ELSE 0
    BY <1>1, <2>2, <2>4 DEF CellInv, Balance
  <2>10. Balance'
    BY <2>2, <2>5, <2>7, <2>8, <2>9 DEF Balance
  <2> QED
    BY <2>2, <2>3, <2>10 DEF CellInv
<1> QED
  BY <1>2, <1>3

\* A wait of a consumer on READ, and its semop on WRITE, each make a pile larger.
LEMMA CellAskToRead ==
    ASSUME CellInv, NEW c \in Consumers, Cell!AskToRead(c) PROVE CellInv'
<1>1. /\ Producer \in Cell!Processes /\ Consumers \subseteq Cell!Processes /\ Producer # c
      /\ "READ" \in Cell!Semaphores /\ "WRITE" \in Cell!Semaphores
  BY ProcessesAssumption DEF Cell!Processes, Cell!Semaphores
<1>2. /\ at' = [at EXCEPT ![c] = "printf"] /\ at[c] = "READ"
      /\ Cell!Semop(c, "READ", -1)
  BY DEF Cell!AskToRead, Cell!Go
<1>3. /\ CellTypes' /\ sems' = sems /\ sems # "removed"
      /\ at'[c] = "printf"
      /\ \A q \in Cell!Processes : q # c => at'[q] = at[q]
      /\ val'["READ"] = val["READ"] + (-1)
      /\ val'["WRITE"] = val["WRITE"]
      /\ undo'[c]["READ"] = undo[c]["READ"] - (-1)
      /\ undo'[c]["WRITE"] = undo[c]["WRITE"]
      /\ \A q \in Cell!Processes : q # c => undo'[q] = undo[q]
      /\ \A q \in Cell!Processes, r \in Cell!Semaphores : undo[q][r] \in Int
      /\ \A r \in Cell!Semaphores : val[r] \in Nat
  <2>1. /\ c \in Cell!Processes /\ -1 \in {1, -1} /\ "READ" # "WRITE"
        /\ "READ" \in Cell!Semaphores /\ "WRITE" \in Cell!Semaphores
        /\ "printf" \in {"READ", "WRITE", "fgets", "printf"}
        /\ c = Producer => -1 = IF "READ" = "READ" THEN 1 ELSE -1
        /\ c \in Consumers => -1 = IF "READ" = "READ" THEN -1 ELSE 1
    BY <1>1
  <2>2. /\ CellTypes' /\ sems' = sems /\ sems # "removed"
        /\ at'[c] = "printf" /\ \A q \in Cell!Processes : q # c => at'[q] = at[q]
        /\ val'["READ"] = val["READ"] + (-1)
        /\ \A r \in Cell!Semaphores : r # "READ" => val'[r] = val[r]
        /\ undo'[c]["READ"] = undo[c]["READ"] - (-1)
        /\ \A r \in Cell!Semaphores : r # "READ" => undo'[c][r] = undo[c][r]
        /\ \A q \in Cell!Processes : q # c => undo'[q] = undo[q]
        /\ \A q \in Cell!Processes, r \in Cell!Semaphores : undo[q][r] \in Int
        /\ \A r \in Cell!Semaphores : val[r] \in Nat
    BY <1>1, <1>2, <2>1, CellSemop, Zenon
  <2> QED
    BY <1>1, <2>1, <2>2
<1>4. /\ TakenBy \in [Consumers -> Nat] /\ GivenBy \in [Consumers -> Nat]
      /\ TakenBy' \in [Consumers -> Nat] /\ GivenBy' \in [Consumers -> Nat]
      /\ Cardinality(Taken) \in Nat /\ Cardinality(Given) \in Nat
      /\ IsFiniteSet(Taken) /\ IsFiniteSet(Given)
  BY <1>3, CellPiles, PileTypes DEF CellInv
<1>5. Given' = Given
  BY <1>1, <1>3 DEF Given, GivenBy
<1>6. IsFiniteSet(Taken') /\ Cardinality(Taken') = Cardinality(Taken) + 1
  <2>1. TakenBy'[c] = TakenBy[c] + 1
    BY <1>1, <1>3 DEF TakenBy
  <2>2. \A d \in Consumers : d # c => TakenBy'[d] = TakenBy[d]
    BY <1>1, <1>3 DEF TakenBy
  <2> QED
    BY <1>4, <2>1, <2>2, PileGrows DEF Taken
<1>7. \A d \in Consumers : d # c => InRound(d)' = InRound(d)
  BY <1>1, <1>3 DEF InRound
<1>8. ~InRound(c) /\ InRound(c)' /\ Filling' = Filling
  BY <1>1, <1>2, <1>3 DEF InRound, Filling
<1>9. /\ undo[Producer]["READ"] \in Int /\ undo[Producer]["WRITE"] \in Int
      /\ undo[c]["READ"] \in Int /\ undo[c]["WRITE"] \in Int
      /\ val["READ"] \in Nat /\ val["WRITE"] \in Nat
      /\ undo'[Producer] = undo[Producer]
  BY <1>1, <1>3
<1>10. sems = "set" => /\ val'["WRITE"] + undo'[Producer]["WRITE"] >= 1 + Cardinality(Given')
                       /\ val'["READ"] + Cardinality(Taken') >= -undo'[Producer]["READ"]
  <2>1. sems = "set" => /\ val["WRITE"] + undo[Producer]["WRITE"] >= 1 + Cardinality(Given)
                        /\ val["READ"] + Cardinality(Taken) >= -undo[Producer]["READ"]
    BY DEF CellInv, Balance
  <2> QED
    BY <1>3, <1>4, <1>5, <1>6, <1>9, <2>1
<1>11. undo'[c]["READ"] + undo'[c]["WRITE"] <= 1
  <2>1. undo[c]["READ"] + undo[c]["WRITE"] <= 0
    BY <1>3, <1>8 DEF CellInv, Balance
  <2> QED
    BY <1>3, <1>9, <2>1
<1>12. ASSUME NEW d \in Consumers
       PROVE  undo'[d]["READ"] + undo'[d]["WRITE"] <= IF InRound(d)' THEN 1 ELSE 0
  <2>1. CASE d = c
    BY <1>8, <1>11, <2>1
  <2>2. CASE d # c
    BY <1>1, <1>3, <1>7, <2>2 DEF CellInv, Balance
  <2> QED
    BY <2>1, <2>2
<1>13. undo'[Producer]["WRITE"] + undo'[Producer]["READ"] <= IF Filling' THEN 1 ELSE 0
  BY <1>3, <1>8, <1>9 DEF CellInv, Balance
<1>14. Balance'
  BY <1>3, <1>10, <1>12, <1>13 DEF Balance
<1> QED
  BY <1>3, <1>4, <1>5, <1>6, <1>14 DEF CellInv

LEMMA CellGiveBack ==
    ASSUME CellInv, NEW c \in Consumers, Cell!GiveBack(c) PROVE CellInv'
<1>1. /\ Producer \in Cell!Processes /\ Consumers \subseteq Cell!Processes /\ Producer # c
      /\ "READ" \in Cell!Semaphores /\ "WRITE" \in Cell!Semaphores
  BY ProcessesAssumption DEF Cell!Processes, Cell!Semaphores
<1>2. /\ at' = [at EXCEPT ![c] = "READ"] /\ at[c] = "WRITE"
      /\ Cell!Semop(c, "WRITE", 1)
  BY DEF Cell!GiveBack, Cell!Go
<1>3. /\ CellTypes' /\ sems' = sems /\ sems # "removed"
      /\ at'[c] = "READ"
      /\ \A q \in Cell!Processes : q # c => at'[q] = at[q]
      /\ val'["WRITE"] = val["WRITE"] + 1
      /\ val'["READ"] = val["READ"]
      /\ undo'[c]["WRITE"] = undo[c]["WRITE"] - 1
      /\ undo'[c]["READ"] = undo[c]["READ"]
      /\ \A q \in Cell!Processes : q # c => undo'[q] = undo[q]
      /\ \A q \in Cell!Processes, r \in Cell!Semaphores : undo[q][r] \in Int
      /\ \A r \in Cell!Semaphores : val[r] \in Nat
  BY <1>1, <1>2, CellSemop
<1>4. /\ TakenBy \in [Consumers -> Nat] /\ GivenBy \in [Consumers -> Nat]
      /\ TakenBy' \in [Consumers -> Nat] /\ GivenBy' \in [Consumers -> Nat]
      /\ Cardinality(Taken) \in Nat /\ Cardinality(Given) \in Nat
      /\ IsFiniteSet(Taken) /\ IsFiniteSet(Given)
  BY <1>3, CellPiles, PileTypes DEF CellInv
<1>5. Taken' = Taken
  BY <1>1, <1>3 DEF Taken, TakenBy
<1>6. IsFiniteSet(Given') /\ Cardinality(Given') = Cardinality(Given) + 1
  <2>1. GivenBy'[c] = GivenBy[c] + 1
    BY <1>1, <1>3 DEF GivenBy
  <2>2. \A d \in Consumers : d # c => GivenBy'[d] = GivenBy[d]
    BY <1>1, <1>3 DEF GivenBy
  <2> QED
    BY <1>4, <2>1, <2>2, PileGrows DEF Given
<1>7. \A d \in Consumers : d # c => InRound(d)' = InRound(d)
  BY <1>1, <1>3 DEF InRound
<1>8. InRound(c) /\ ~InRound(c)' /\ Filling' = Filling
  BY <1>1, <1>2, <1>3 DEF InRound, Filling
<1>9. /\ undo[Producer]["READ"] \in Int /\ undo[Producer]["WRITE"] \in Int
      /\ undo[c]["READ"] \in Int /\ undo[c]["WRITE"] \in Int
      /\ val["READ"] \in Nat /\ val["WRITE"] \in Nat
      /\ undo'[Producer] = undo[Producer]
  BY <1>1, <1>3
<1>10. sems = "set" => /\ val'["WRITE"] + undo'[Producer]["WRITE"] >= 1 + Cardinality(Given')
                       /\ val'["READ"] + Cardinality(Taken') >= -undo'[Producer]["READ"]
  <2>1. sems = "set" => /\ val["WRITE"] + undo[Producer]["WRITE"] >= 1 + Cardinality(Given)
                        /\ val["READ"] + Cardinality(Taken) >= -undo[Producer]["READ"]
    BY DEF CellInv, Balance
  <2> QED
    BY <1>3, <1>4, <1>5, <1>6, <1>9, <2>1
<1>11. undo'[c]["READ"] + undo'[c]["WRITE"] <= 0
  <2>1. undo[c]["READ"] + undo[c]["WRITE"] <= 1
    BY <1>3, <1>8 DEF CellInv, Balance
  <2> QED
    BY <1>3, <1>9, <2>1
<1>12. ASSUME NEW d \in Consumers
       PROVE  undo'[d]["READ"] + undo'[d]["WRITE"] <= IF InRound(d)' THEN 1 ELSE 0
  <2>1. CASE d = c
    BY <1>8, <1>11, <2>1
  <2>2. CASE d # c
    BY <1>1, <1>3, <1>7, <2>2 DEF CellInv, Balance
  <2> QED
    BY <2>1, <2>2
<1>13. undo'[Producer]["WRITE"] + undo'[Producer]["READ"] <= IF Filling' THEN 1 ELSE 0
  BY <1>3, <1>8, <1>9 DEF CellInv, Balance
<1>14. Balance'
  BY <1>3, <1>10, <1>12, <1>13 DEF Balance
<1> QED
  BY <1>3, <1>4, <1>5, <1>6, <1>14 DEF CellInv

\* The end of a killed process: what it did is undone, and no value is below zero.
LEMMA CellKill ==
    ASSUME CellInv, NEW p \in Cell!Processes, Cell!Kill(p) PROVE CellInv'
<1>1. /\ at \in [Cell!Processes -> {"shmget", "semget", "READ", "WRITE", "SETALL", "fgets",
                                    "shmctl", "semctl", "printf"} \cup Cell!Exit]
      /\ Producer \in Cell!Processes /\ Consumers \subseteq Cell!Processes
      /\ Producer \notin Consumers
      /\ "READ" \in Cell!Semaphores /\ "WRITE" \in Cell!Semaphores
      /\ val \in [Cell!Semaphores -> Nat] /\ undo \in [Cell!Processes -> [Cell!Semaphores -> Int]]
      /\ at' = [at EXCEPT ![p] = "killed"] /\ at[p] \notin Cell!Exit
      /\ undo' = [undo EXCEPT ![p] = Cell!Nothing] /\ sems' = sems
      /\ sems \in {"none", "made", "set", "removed"}
      /\ val' = IF Cell!There THEN Cell!Undone(p) ELSE val
  BY ProcessesAssumption
     DEF CellInv, CellTypes, Cell!Processes, Cell!Semaphores, Cell!Kill
<1>2. /\ at'[p] = "killed" /\ \A q \in Cell!Processes : q # p => at'[q] = at[q]
      /\ \A r \in Cell!Semaphores : undo'[p][r] = 0
      /\ \A q \in Cell!Processes : q # p => undo'[q] = undo[q]
      /\ Cell!Nothing \in [Cell!Semaphores -> Int]
  BY <1>1 DEF Cell!Nothing
<1>3. ASSUME NEW r \in Cell!Semaphores
      PROVE  /\ undo[p][r] \in Int /\ val[r] \in Nat /\ val'[r] \in Nat
             /\ sems = "set" => val'[r] >= val[r] + undo[p][r]
  <2>1. undo[p][r] \in Int /\ val[r] \in Nat
    BY <1>1
  <2>2. Cell!Undone(p)[r] = IF val[r] + undo[p][r] < 0 THEN 0 ELSE val[r] + undo[p][r]
    BY DEF Cell!Undone
  <2>3. sems = "set" => val' = Cell!Undone(p)
    BY <1>1 DEF Cell!There
  <2>4. val' = val \/ val' = Cell!Undone(p)
    BY <1>1
  <2> QED
    BY <2>1, <2>2, <2>3, <2>4
<1>4. CellTypes'
  <2>1. at' \in [Cell!Processes -> {"shmget", "semget", "READ", "WRITE", "SETALL", "fgets",
                                    "shmctl", "semctl", "printf"} \cup Cell!Exit]
    BY <1>1 DEF Cell!Exit
  <2>2. val' \in [Cell!Semaphores -> Nat]
    <3>1. Cell!Undone(p) = [r \in Cell!Semaphores |-> Cell!Undone(p)[r]]
      BY DEF Cell!Undone
    <3>2. val' = [r \in Cell!Semaphores |-> val'[r]]
      BY <1>1, <3>1
    <3> QED
      BY <1>3, <3>2
  <2>3. undo' \in [Cell!Processes -> [Cell!Semaphores -> Int]]
    BY <1>1, <1>2
  <2>4. ASSUME NEW c \in Consumers PROVE undo'[c]["READ"] >= 0 /\ undo'[c]["WRITE"] <= 0
    BY <1>1, <1>2 DEF CellInv, CellTypes
  <2>5. undo'[Producer]["WRITE"] >= 0 /\ undo'[Producer]["READ"] <= 0
    BY <1>1, <1>2 DEF CellInv, CellTypes
  <2> QED
    BY <1>1, <2>1, <2>2, <2>3, <2>4, <2>5 DEF CellTypes
<1>5. /\ TakenBy \in [Consumers -> Nat] /\ GivenBy \in [Consumers -> Nat]
      /\ TakenBy' \in [Consumers -> Nat] /\ GivenBy' \in [Consumers -> Nat]
      /\ Cardinality(Taken) \in Nat /\ Cardinality(Given) \in Nat
      /\ IsFiniteSet(Taken) /\ IsFiniteSet(Given)
  BY <1>4, CellPiles, PileTypes DEF CellInv
<1>6. \A q \in Cell!Processes : q # p =>
          /\ InRound(q)' = InRound(q)
          /\ q = Producer => Filling' = Filling
  BY <1>1, <1>2 DEF InRound, Filling
<1>7. sems # "removed" =>
          /\ \A c \in Consumers :
                undo'[c]["READ"] + undo'[c]["WRITE"] <= IF InRound(c)' THEN 1 ELSE 0
          /\ undo'[Producer]["WRITE"] + undo'[Producer]["READ"] <= IF Filling' THEN 1 ELSE 0
  <2> SUFFICES ASSUME sems # "removed"
               PROVE  /\ \A c \in Consumers :
                            undo'[c]["READ"] + undo'[c]["WRITE"] <= IF InRound(c)' THEN 1 ELSE 0
                      /\ undo'[Producer]["WRITE"] + undo'[Producer]["READ"]
                            <= IF Filling' THEN 1 ELSE 0
    OBVIOUS
  <2>1. undo'[p]["READ"] + undo'[p]["WRITE"] <= 0 /\ undo'[p]["WRITE"] + undo'[p]["READ"] <= 0
    BY <1>1, <1>2
  <2>2. ASSUME NEW c \in Consumers
        PROVE  undo'[c]["READ"] + undo'[c]["WRITE"] <= IF InRound(c)' THEN 1 ELSE 0
    <3>1. CASE c = p
      BY <1>1, <1>2, <3>1
    <3>2. CASE c # p
      BY <1>1, <1>2, <1>6, <3>2 DEF CellInv, Balance
    <3> QED
      BY <3>1, <3>2
  <2>3. undo'[Producer]["WRITE"] + undo'[Producer]["READ"] <= IF Filling' THEN 1 ELSE 0
    <3>1. CASE Producer = p
      BY <1>1, <1>2, <3>1
    <3>2. CASE Producer # p
      BY <1>1, <1>2, <1>6, <3>2 DEF CellInv, Balance
    <3> QED
      BY <3>1, <3>2
  <2> QED
    BY <2>2, <2>3
<1>8. sems = "set" => /\ val["WRITE"] + undo[Producer]["WRITE"] >= 1 + Cardinality(Given)
                      /\ val["READ"] + Cardinality(Taken) >= -undo[Producer]["READ"]
  BY DEF CellInv, Balance
<1>9. /\ undo[p]["READ"] \in Int /\ val["READ"] \in Nat /\ val'["READ"] \in Nat
      /\ undo[p]["WRITE"] \in Int /\ val["WRITE"] \in Nat /\ val'["WRITE"] \in Nat
      /\ undo[Producer]["READ"] \in Int /\ undo[Producer]["WRITE"] \in Int
      /\ sems = "set" => /\ val'["READ"] >= val["READ"] + undo[p]["READ"]
                         /\ val'["WRITE"] >= val["WRITE"] + undo[p]["WRITE"]
      /\ undo'[p]["READ"] = 0 /\ undo'[p]["WRITE"] = 0
  BY <1>1, <1>2, <1>3
<1>10. CASE p = Producer
  <2>1. Taken' = Taken /\ Given' = Given
    BY <1>1, <1>2, <1>10 DEF Taken, Given, TakenBy, GivenBy
  <2>2. sems = "set" => /\ val'["WRITE"] + undo'[Producer]["WRITE"] >= 1 + Cardinality(Given')
                        /\ val'["READ"] + Cardinality(Taken') >= -undo'[Producer]["READ"]
    BY <1>5, <1>8, <1>9, <1>10, <2>1
  <2>3. Balance'
    BY <1>1, <1>7, <2>2 DEF Balance
  <2> QED
    BY <1>4, <1>5, <2>1, <2>3 DEF CellInv
<1>11. CASE p \in Consumers
  <2>1. undo'[Producer] = undo[Producer]
    BY <1>1, <1>2, <1>11
  <2>2. IsFiniteSet(Taken') /\ Cardinality(Taken') = Cardinality(Taken) - TakenBy[p]
    <3>1. TakenBy'[p] = 0 /\ \A d \in Consumers : d # p => TakenBy'[d] = TakenBy[d]
      BY <1>1, <1>2, <1>9, <1>11 DEF TakenBy
    <3> QED
      BY <1>5, <1>11, <3>1, PileGone DEF Taken
  <2>3. IsFiniteSet(Given') /\ Cardinality(Given') = Cardinality(Given) - GivenBy[p]
    <3>1. \A n \in Int : -n = 0 - n
      OBVIOUS
    <3>2. GivenBy'[p] = 0 /\ \A d \in Consumers : d # p => GivenBy'[d] = GivenBy[d]
      BY <1>1, <1>2, <1>9, <1>11, <3>1 DEF GivenBy
    <3> QED
      BY <1>5, <1>11, <3>2, PileGone DEF Given
  <2>4. TakenBy[p] = undo[p]["READ"] /\ GivenBy[p] = -undo[p]["WRITE"]
    BY <1>11 DEF TakenBy, GivenBy
  <2>5. sems = "set" => /\ val'["WRITE"] + undo'[Producer]["WRITE"] >= 1 + Cardinality(Given')
                        /\ val'["READ"] + Cardinality(Taken') >= -undo'[Producer]["READ"]
    BY <1>5, <1>8, <1>9, <2>1, <2>2, <2>3, <2>4
  <2>6. Balance'
    BY <1>1, <1>7, <2>5 DEF Balance
  <2> QED
    BY <1>4, <2>2, <2>3, <2>6 DEF CellInv
<1> QED
  BY <1>10, <1>11 DEF Cell!Processes

LEMMA CellStep == CellInv /\ Cell!Next => CellInv'
<1> SUFFICES ASSUME CellInv, Cell!Next PROVE CellInv'
  OBVIOUS
<1>1. Producer \in Cell!Processes /\ Consumers \subseteq Cell!Processes
  BY DEF Cell!Processes
<1>2. sems \in {"none", "made", "set", "removed"}
  BY DEF CellInv, CellTypes
<1>3. Producer \notin Consumers
  BY ProcessesAssumption
<1>4. CASE Cell!MakeSegment
  <2>1. /\ at[Producer] = "shmget" /\ at' = [at EXCEPT ![Producer] = "semget"]
        /\ sems' = sems /\ val' = val /\ undo' = undo
    BY <1>4 DEF Cell!MakeSegment, Cell!Go
  <2>2. ~Filling
    BY <2>1 DEF Filling
  <2> QED
    BY <1>1, <1>2, <1>3, <2>1, <2>2, CellMoves
<1>5. CASE Cell!MakeSemaphores
  <2>1. /\ at[Producer] = "semget" /\ at' = [at EXCEPT ![Producer] = "SETALL"]
        /\ sems' = (IF sems = "none" THEN "made" ELSE sems) /\ val' = val /\ undo' = undo
    BY <1>5 DEF Cell!MakeSemaphores, Cell!Go
  <2>2. ~Filling
    BY <2>1 DEF Filling
  <2> QED
    BY <1>1, <1>2, <1>3, <2>1, <2>2, CellMoves
<1>6. CASE Cell!SetAll
  BY <1>6, CellSetAll
<1>7. CASE Cell!AskToWrite \/ Cell!HandOver
  BY <1>7, CellProducerSemop
<1>8. CASE Cell!Fill
  <2>1. PICK there \in {"READ", "shmctl"} :
            /\ at' = [at EXCEPT ![Producer] = there]
            /\ sems' = sems /\ val' = val /\ undo' = undo
    BY <1>8 DEF Cell!Fill, Cell!Go, Cell!ipcVars
  <2> QED
    BY <1>1, <1>2, <1>3, <2>1, CellMoves
<1>9. CASE Cell!RemoveSegment
  <2>1. /\ at' = [at EXCEPT ![Producer] = "semctl"]
        /\ sems' = sems /\ val' = val /\ undo' = undo
    BY <1>9 DEF Cell!RemoveSegment, Cell!Go
  <2> QED
    BY <1>1, <1>2, <1>3, <2>1, CellMoves
<1>10. CASE Cell!RemoveSemaphores
  <2>1. /\ at' = [at EXCEPT ![Producer] = "ended"]
        /\ sems' = "removed" /\ val' = val /\ undo' = undo /\ "ended" \in Cell!Exit
    BY <1>10 DEF Cell!RemoveSemaphores, Cell!Go, Cell!Exit
  <2> QED
    BY <1>1, <1>2, <2>1, CellMoves
<1>11. CASE Cell!Restart
  <2>1. /\ at[Producer] = "killed" /\ at' = [at EXCEPT ![Producer] = "shmget"]
        /\ sems' = sems /\ val' = val /\ undo' = undo
    BY <1>11 DEF Cell!Restart, Cell!Go, Cell!ipcVars
  <2>2. ~Filling
    BY <2>1 DEF Filling
  <2> QED
    BY <1>1, <1>2, <1>3, <2>1, <2>2, CellMoves
<1>12. ASSUME NEW c \in Consumers, Cell!FindSegment(c) \/ Cell!FindSemaphores(c)
       PROVE  CellInv'
  <2>1. PICK there \in {"semget", "READ", "ended"} :
            /\ at[c] \in {"shmget", "semget"} /\ at' = [at EXCEPT ![c] = there]
            /\ sems' = sems /\ val' = val /\ undo' = undo
    BY <1>12 DEF Cell!FindSegment, Cell!FindSemaphores, Cell!Go, Cell!ipcVars
  <2>2. ~InRound(c) /\ c # Producer /\ "ended" \in Cell!Exit
    BY <1>3, <2>1 DEF InRound, Cell!Exit
  <2> QED
    BY <1>1, <1>2, <2>1, <2>2, CellMoves
<1>13. ASSUME NEW c \in Consumers, Cell!AskToRead(c) PROVE CellInv'
  BY <1>13, CellAskToRead
<1>14. ASSUME NEW c \in Consumers, Cell!GiveBack(c) PROVE CellInv'
  BY <1>14, CellGiveBack
<1>15. ASSUME NEW c \in Consumers, Cell!Printf(c) PROVE CellInv'
  <2>1. /\ at' = [at EXCEPT ![c] = "WRITE"] /\ c # Producer
        /\ sems' = sems /\ val' = val /\ undo' = undo
    BY <1>3, <1>15 DEF Cell!Printf, Cell!Go, Cell!ipcVars
  <2> QED
    BY <1>1, <1>2, <2>1, CellMoves
<1>16. ASSUME NEW c \in Consumers, Cell!SemopFails(c) PROVE CellInv'
  <2>1. /\ at' = [at EXCEPT ![c] = "ended"] /\ c # Producer /\ "ended" \in Cell!Exit
        /\ sems' = sems /\ sems = "removed" /\ val' = val /\ undo' = undo
    BY <1>3, <1>16 DEF Cell!SemopFails, Cell!Go, Cell!ipcVars, Cell!Exit
  <2> QED
    BY <1>1, <1>2, <2>1, CellMoves
<1>17. ASSUME NEW p \in Cell!Processes, Cell!Kill(p) PROVE CellInv'
  BY <1>17, CellKill
<1>18. CASE Cell!Over
  BY <1>18, CellFrame DEF Cell!Over, Cell!cellVars, cellVars, Cell!ipcVars, Cell!dataVars,
     Cell!faultVars
<1> QED
  BY <1>4, <1>5, <1>6, <1>7, <1>8, <1>9, <1>10, <1>11, <1>12, <1>13, <1>14, <1>15, <1>16,
     <1>17, <1>18 DEF Cell!Next, Cell!Produce, Cell!Consume

-----------------------------------------------------------------------------
(* The shared cell: the lines.                                             *)

LEMMA RangeAppend ==
    ASSUME NEW s \in Seq(Nat), NEW n \in Nat
    PROVE  Cell!Range(Append(s, n)) = Cell!Range(s) \cup {n}
<1> DEFINE t == Append(s, n)
<1>1. /\ Len(t) = Len(s) + 1 /\ Len(s) \in Nat /\ t[Len(s) + 1] = n
      /\ \A k \in 1 .. Len(s) : t[k] = s[k]
      /\ DOMAIN s = 1 .. Len(s) /\ DOMAIN t = 1 .. Len(s) + 1
  OBVIOUS
<1> HIDE DEF t
<1>2. \A k \in DOMAIN t : k \in DOMAIN s \/ k = Len(s) + 1
  BY <1>1
<1>3. Len(s) + 1 \in DOMAIN t /\ \A k \in DOMAIN s : k \in DOMAIN t
  BY <1>1
<1>4. ASSUME NEW x PROVE x \in Cell!Range(t) <=> x \in Cell!Range(s) \/ x = n
  BY <1>1, <1>2, <1>3 DEF Cell!Range
<1> QED
  BY <1>4 DEF t

LEMMA RangeElements ==
    ASSUME NEW s, NEW k \in DOMAIN s PROVE s[k] \in Cell!Range(s)
BY DEF Cell!Range

LEMMA SameCardinality == \A S : Cell!Cardinality(S) = Cardinality(S)
BY DEF Cell!Cardinality, Cardinality

\* The types that the steps below use.
LEMMA LineFacts ==
    ASSUME CellInv, LinesInv
    PROVE  /\ at \in [Cell!Processes -> {"shmget", "semget", "READ", "WRITE", "SETALL", "fgets",
                                         "shmctl", "semctl", "printf"} \cup Cell!Exit]
           /\ Producer \in Cell!Processes /\ Consumers \subseteq Cell!Processes
           /\ Producer \notin Consumers
           /\ sems \in {"none", "made", "set", "removed"}
           /\ val["READ"] \in Nat /\ val["WRITE"] \in Nat
           /\ \A p \in Cell!Processes : undo[p]["READ"] \in Int /\ undo[p]["WRITE"] \in Int
           /\ "READ" \in Cell!Semaphores /\ "WRITE" \in Cell!Semaphores
           /\ handed \in Nat /\ kills \in Nat /\ output \in Seq(Nat) /\ disturbed \in BOOLEAN
BY ProcessesAssumption
   DEF CellInv, CellTypes, LinesInv, LineTypes, Cell!Processes, Cell!Semaphores

\* The set of the printed lines is finite.
LEMMA OutputFinite ==
    ASSUME LineTypes, Printed
    PROVE  /\ IsFiniteSet(Cell!Range(output)) /\ Cardinality(Cell!Range(output)) \in Nat
           /\ Len(output) \in Nat
<1>1. handed \in Nat /\ Cell!Range(output) \subseteq 1 .. handed /\ output \in Seq(Nat)
  BY DEF Printed, LineTypes
<1>2. IsFiniteSet(1 .. handed)
  BY <1>1, FS_Interval
<1>3. IsFiniteSet(Cell!Range(output))
  BY <1>1, <1>2, FS_Subset
<1> QED
  BY <1>1, <1>3, FS_CardinalityType

LEMMA LinesImplies == CellInv /\ LinesInv => Cell!LinesHandedOver
<1> SUFFICES ASSUME CellInv, LinesInv, ~disturbed
             PROVE  /\ \A k, l \in DOMAIN output : k < l => output[k] <= output[l]
                    /\ 1 .. product - 1 \subseteq Cell!Range(output)
                    /\ at[Producer] \in {"fgets", "READ", "shmctl", "semctl", "ended"} =>
                           1 .. handed \subseteq Cell!Range(output)
                    /\ Cell!Range(output) \subseteq 1 .. handed
                    /\ Len(output) <= Cardinality(Cell!Range(output)) + kills
  BY SameCardinality DEF Cell!LinesHandedOver
<1>1. Places /\ Printed /\ LineTypes
  BY DEF LinesInv
<1>2. 1 .. product - 1 \subseteq Cell!Range(output)
  <2>1. handed \in Nat /\ product \in {0, handed, handed + 1}
    BY <1>1 DEF LineTypes
  <2>5. CASE product = 0
    <3>1. 1 .. product - 1 = {}
      BY <2>5
    <3> QED
      BY <3>1
  <2>2. CASE product = handed
    BY <1>1, <2>2 DEF Printed
  <2>3. CASE product = handed + 1 /\ handed = 0
    <3>1. 1 .. product - 1 = {}
      BY <2>3
    <3> QED
      BY <3>1
  <2>4. CASE product = handed + 1 /\ handed # 0
    <3>1. at[Producer] = "READ"
      BY <1>1, <2>1, <2>4 DEF Places
    <3>2. Filling
      BY <3>1 DEF Filling
    <3>3. ~Unprinted
      BY <3>2 DEF Unprinted, MayRead, Reads
    <3>4. 1 .. handed \subseteq Cell!Range(output)
      BY <1>1, <3>3 DEF Printed
    <3>5. product - 1 = handed
      BY <2>1, <2>4
    <3> QED
      BY <3>4, <3>5
  <2> QED
    BY <2>1, <2>2, <2>3, <2>4, <2>5
<1>3. ASSUME at[Producer] \in {"fgets", "READ", "shmctl", "semctl", "ended"}
      PROVE  1 .. handed \subseteq Cell!Range(output)
  <2>1. CASE Filling
    <3>1. ~Unprinted
      BY <2>1 DEF Unprinted, MayRead, Reads
    <3> QED
      BY <1>1, <3>1 DEF Printed
  <2>2. CASE at[Producer] = "ended"
    <3>1. sems # "set"
      BY <1>1, <2>2 DEF Places
    <3> QED
      BY <1>1, <3>1 DEF Printed
  <2> QED
    BY <1>3, <2>1, <2>2 DEF Filling
<1> QED
  BY <1>1, <1>2, <1>3 DEF Printed

LEMMA LinesInit == Cell!Init => LinesInv
<1> SUFFICES ASSUME Cell!Init PROVE LinesInv
  OBVIOUS
<1>1. /\ at = [p \in Cell!Processes |-> "shmget"] /\ sems = "none" /\ val = Cell!Nothing
      /\ undo = [p \in Cell!Processes |-> Cell!Nothing]
      /\ product = 0 /\ replaced = <<>> /\ handed = 0 /\ output = <<>> /\ kills = 0
      /\ disturbed = FALSE /\ Producer \in Cell!Processes /\ Consumers \subseteq Cell!Processes
  BY DEF Cell!Init, Cell!Processes
<1>2. /\ at[Producer] = "shmget" /\ \A c \in Consumers : at[c] = "shmget"
      /\ val["READ"] = 0 /\ val["WRITE"] = 0
      /\ undo[Producer]["READ"] = 0 /\ undo[Producer]["WRITE"] = 0
      /\ \A c \in Consumers : undo[c]["READ"] = 0 /\ undo[c]["WRITE"] = 0
  BY <1>1 DEF Cell!Nothing, Cell!Semaphores
<1>3. LineTypes
  <2>1. <<>> \in Seq(Nat)
    OBVIOUS
  <2>2. DOMAIN <<>> = {}
    OBVIOUS
  <2>3. /\ DOMAIN replaced = {} /\ \A c \in DOMAIN replaced : replaced[c] \in Nat
    BY <1>1, <2>2
  <2> QED
    BY <1>1, <1>2, <2>1, <2>3 DEF LineTypes
<1>4. Places
  BY <1>1, <1>2 DEF Places
<1>5. Rounds
  BY <1>1, <1>2 DEF Rounds, Filling, InRound
<1>6. OneRight
  BY <1>1 DEF OneRight
<1>7. Printed
  <2>1. Cell!Range(output) = {} /\ DOMAIN output = {} /\ Len(output) = 0
    BY <1>1 DEF Cell!Range
  <2>2. 1 .. handed - 1 = {} /\ 1 .. handed = {}
    BY <1>1
  <2>3. Cardinality(Cell!Range(output)) = 0
    BY <2>1, FS_EmptySet
  <2> QED
    BY <1>1, <2>1, <2>2, <2>3 DEF Printed
<1> QED
  BY <1>3, <1>4, <1>5, <1>6, <1>7 DEF LinesInv

LEMMA LinesFrame == LinesInv /\ UNCHANGED cellVars => LinesInv'
<1> SUFFICES ASSUME LinesInv, UNCHANGED cellVars PROVE LinesInv'
  OBVIOUS
<1>1. /\ at' = at /\ sems' = sems /\ val' = val /\ undo' = undo
      /\ product' = product /\ replaced' = replaced
      /\ handed' = handed /\ output' = output /\ kills' = kills /\ disturbed' = disturbed
  BY DEF cellVars
<1>2. LineTypes' <=> LineTypes
  BY <1>1 DEF LineTypes
<1>3. Places' <=> Places
  BY <1>1 DEF Places
<1>4. Rounds' <=> Rounds
  BY <1>1 DEF Rounds, Filling, InRound
<1>5. OneRight' <=> OneRight
  BY <1>1 DEF OneRight, MayWrite, MayRead, Fills, Reads, Filling, InRound
<1>6. Printed' <=> Printed
  BY <1>1 DEF Printed, Unprinted, MayRead, Reads, Filling, InRound
<1> QED
  BY <1>1, <1>2, <1>3, <1>4, <1>5, <1>6 DEF LinesInv

\* A step that neither moves the right nor takes one from a round.
LEMMA LinesQuiet ==
    ASSUME LinesInv, UNCHANGED <<val, undo, handed, output, kills, disturbed>>,
           sems' = "set" <=> sems = "set", sems' = "removed" <=> sems = "removed",
           Filling' <=> Filling,
           \A c \in Consumers : InRound(c)' <=> InRound(c),
           \A c \in Consumers : at'[c] = "printf" <=> at[c] = "printf",
           ~disturbed => Places',
           product' \in {0, handed, handed + 1},
           at'[Producer] = "READ" => product' = handed + 1,
           \A c \in DOMAIN replaced' : replaced'[c] \in Nat,
           ~disturbed => DOMAIN replaced' = {}
    PROVE  LinesInv'
<1>1. /\ val' = val /\ undo' = undo /\ handed' = handed /\ output' = output
      /\ kills' = kills /\ disturbed' = disturbed
  OBVIOUS
<1>2. LineTypes'
  BY <1>1 DEF LinesInv, LineTypes
<1>3. Rounds => Rounds'
  BY <1>1 DEF Rounds
<1>4. /\ MayWrite' <=> MayWrite
      /\ MayRead' <=> MayRead
      /\ Fills' <=> Fills
      /\ \A c \in Consumers : Reads(c)' <=> Reads(c)
  BY <1>1 DEF MayWrite, MayRead, Fills, Reads
<1>5. OneRight => OneRight'
  BY <1>4 DEF OneRight
<1>6. Unprinted' <=> Unprinted
  BY <1>4 DEF Unprinted
<1>7. Printed => Printed'
  BY <1>1, <1>6 DEF Printed
<1> QED
  BY <1>1, <1>2, <1>3, <1>5, <1>7 DEF LinesInv

\* The right goes from one to the next by the semops.
LEMMA LinesAskToWrite ==
    ASSUME CellInv, LinesInv, Cell!AskToWrite PROVE LinesInv'
<1>1. /\ at \in [Cell!Processes -> {"shmget", "semget", "READ", "WRITE", "SETALL", "fgets",
                                    "shmctl", "semctl", "printf"} \cup Cell!Exit]
      /\ Producer \in Cell!Processes /\ Consumers \subseteq Cell!Processes
      /\ Producer \notin Consumers
      /\ val["READ"] \in Nat /\ val["WRITE"] \in Nat
      /\ \A q \in Cell!Processes : undo[q]["READ"] \in Int /\ undo[q]["WRITE"] \in Int
      /\ "READ" \in Cell!Semaphores /\ "WRITE" \in Cell!Semaphores
      /\ handed \in Nat /\ kills \in Nat /\ output \in Seq(Nat) /\ disturbed \in BOOLEAN
  BY LineFacts
<1>2. /\ at' = [at EXCEPT ![Producer] = "fgets"] /\ at[Producer] = "WRITE"
      /\ Cell!Semop(Producer, "WRITE", -1)
      /\ handed' = handed /\ product' = product /\ replaced' = replaced
      /\ output' = output /\ kills' = kills /\ disturbed' = disturbed
      /\ val["WRITE"] + (-1) >= 0 /\ sems \in {"made", "set"}
  BY DEF Cell!AskToWrite, Cell!Go, Cell!Semop, Cell!faultVars, Cell!dataVars,
     Cell!There
<1>3. /\ sems' = sems /\ at'[Producer] = "fgets"
      /\ \A q \in Cell!Processes : q # Producer => at'[q] = at[q]
      /\ val'["WRITE"] = val["WRITE"] + (-1)
      /\ val'["READ"] = val["READ"]
      /\ undo'[Producer]["WRITE"] = undo[Producer]["WRITE"] - (-1)
      /\ undo'[Producer]["READ"] = undo[Producer]["READ"]
      /\ \A q \in Cell!Processes : q # Producer => undo'[q] = undo[q]
  BY <1>1, <1>2, CellSemop
<1>4. LineTypes'
  BY <1>2, <1>3 DEF LinesInv, LineTypes
<1> SUFFICES ASSUME ~disturbed PROVE Places' /\ Rounds' /\ OneRight' /\ Printed'
  BY <1>2, <1>4 DEF LinesInv
<1>5. Places /\ Rounds /\ OneRight /\ Printed
  BY DEF LinesInv
<1>6. sems = "set"
  BY <1>2, <1>5 DEF Places
<1>7. ~Filling /\ Filling' /\ \A c \in Consumers : InRound(c)' <=> InRound(c)
  BY <1>1, <1>2, <1>3 DEF Filling, InRound
<1>8. MayWrite
  BY <1>1, <1>2, <1>5, <1>6 DEF OneRight, MayWrite, MayRead, Fills, Reads
<1>9. Fills'
  BY <1>1, <1>3, <1>7, <1>8 DEF MayWrite, Fills
<1>10. Places'
  BY <1>1, <1>2, <1>3, <1>5, <1>6 DEF Places
<1>11. Rounds'
  <2>1. handed = 0 => /\ val'["READ"] = 0 /\ output = <<>>
                      /\ \A c \in Consumers : ~InRound(c)'
    BY <1>3, <1>5, <1>7 DEF Rounds
  <2>2. undo'[Producer]["READ"] = 0 - handed
    BY <1>3, <1>5, <1>6 DEF Rounds
  <2>3. undo'[Producer]["WRITE"] = handed + 1
    <3>1. undo[Producer]["WRITE"] = handed
      BY <1>5, <1>6, <1>7 DEF Rounds
    <3> QED
      BY <1>1, <1>3, <3>1
  <2>4. \A c \in Consumers :
            undo'[c]["READ"] + undo'[c]["WRITE"] = IF InRound(c)' THEN 1 ELSE 0
    BY <1>1, <1>3, <1>5, <1>6, <1>7 DEF Rounds
  <2> QED
    BY <1>2, <1>7, <2>1, <2>2, <2>3, <2>4 DEF Rounds
<1>12. OneRight'
  BY <1>9 DEF OneRight
<1>13. Printed'
  <2>1. ~Unprinted /\ ~Unprinted'
    BY <1>7, <1>8 DEF Unprinted, MayRead, Reads, MayWrite
  <2> QED
    BY <1>2, <1>5, <2>1 DEF Printed
<1> QED
  BY <1>10, <1>11, <1>12, <1>13

LEMMA LinesHandOver ==
    ASSUME CellInv, LinesInv, Cell!HandOver PROVE LinesInv'
<1>1. /\ at \in [Cell!Processes -> {"shmget", "semget", "READ", "WRITE", "SETALL", "fgets",
                                    "shmctl", "semctl", "printf"} \cup Cell!Exit]
      /\ Producer \in Cell!Processes /\ Consumers \subseteq Cell!Processes
      /\ Producer \notin Consumers
      /\ val["READ"] \in Nat /\ val["WRITE"] \in Nat
      /\ \A q \in Cell!Processes : undo[q]["READ"] \in Int /\ undo[q]["WRITE"] \in Int
      /\ "READ" \in Cell!Semaphores /\ "WRITE" \in Cell!Semaphores
      /\ handed \in Nat /\ kills \in Nat /\ output \in Seq(Nat) /\ disturbed \in BOOLEAN
  BY LineFacts
<1>2. /\ at' = [at EXCEPT ![Producer] = "WRITE"] /\ at[Producer] = "READ"
      /\ Cell!Semop(Producer, "READ", 1)
      /\ handed' = handed + 1 /\ product' = product /\ replaced' = replaced
      /\ output' = output /\ kills' = kills /\ disturbed' = disturbed
      /\ val["READ"] + 1 >= 0 /\ sems \in {"made", "set"}
  BY DEF Cell!HandOver, Cell!Go, Cell!Semop, Cell!faultVars, Cell!dataVars,
     Cell!There
<1>3. /\ sems' = sems /\ at'[Producer] = "WRITE"
      /\ \A q \in Cell!Processes : q # Producer => at'[q] = at[q]
      /\ val'["READ"] = val["READ"] + 1
      /\ val'["WRITE"] = val["WRITE"]
      /\ undo'[Producer]["READ"] = undo[Producer]["READ"] - 1
      /\ undo'[Producer]["WRITE"] = undo[Producer]["WRITE"]
      /\ \A q \in Cell!Processes : q # Producer => undo'[q] = undo[q]
  BY <1>1, <1>2, CellSemop
<1>4. LineTypes'
  <2>1. product = handed + 1 /\ handed + 1 \in Nat
    BY <1>1, <1>2 DEF LinesInv, LineTypes
  <2>2. product' = handed' /\ handed' \in Nat
    BY <1>2, <2>1
  <2>3. /\ \A c \in DOMAIN replaced' : replaced'[c] \in Nat
        /\ ~disturbed' => DOMAIN replaced' = {}
    BY <1>2 DEF LinesInv, LineTypes
  <2>4. /\ kills' \in Nat /\ output' \in Seq(Nat) /\ disturbed' \in BOOLEAN
        /\ at'[Producer] # "READ"
    BY <1>1, <1>2, <1>3
  <2> QED
    BY <2>2, <2>3, <2>4 DEF LineTypes
<1> SUFFICES ASSUME ~disturbed PROVE Places' /\ Rounds' /\ OneRight' /\ Printed'
  BY <1>2, <1>4 DEF LinesInv
<1>5. Places /\ Rounds /\ OneRight /\ Printed
  BY DEF LinesInv
<1>6. sems = "set" /\ product = handed + 1 /\ handed' # 0
  BY <1>1, <1>2, <1>5 DEF Places, LinesInv, LineTypes
<1>7. Filling /\ ~Filling' /\ \A c \in Consumers : InRound(c)' <=> InRound(c)
  BY <1>1, <1>2, <1>3 DEF Filling, InRound
<1>8. Fills
  BY <1>5, <1>6, <1>7 DEF OneRight, MayWrite, MayRead, Fills, Reads
<1>9. MayRead'
  BY <1>1, <1>3, <1>7, <1>8 DEF MayRead, Fills
<1>10. Places'
  BY <1>1, <1>2, <1>3, <1>5, <1>6 DEF Places
<1>11. Rounds'
  <2>2. undo'[Producer]["READ"] = 0 - handed'
    <3>1. undo[Producer]["READ"] = 0 - handed
      BY <1>5, <1>6 DEF Rounds
    <3> QED
      BY <1>1, <1>2, <1>3, <3>1
  <2>3. undo'[Producer]["WRITE"] = handed'
    <3>1. undo[Producer]["WRITE"] = handed + 1
      BY <1>5, <1>6, <1>7 DEF Rounds
    <3> QED
      BY <1>1, <1>2, <1>3, <3>1
  <2>4. \A c \in Consumers :
            undo'[c]["READ"] + undo'[c]["WRITE"] = IF InRound(c)' THEN 1 ELSE 0
    BY <1>1, <1>3, <1>5, <1>6, <1>7 DEF Rounds
  <2> QED
    BY <1>6, <1>7, <2>2, <2>3, <2>4 DEF Rounds
<1>12. OneRight'
  BY <1>9 DEF OneRight
<1>13. Printed'
  <2>1. ~Unprinted /\ sems' = "set" /\ Unprinted'
    BY <1>3, <1>6, <1>7, <1>9 DEF Unprinted, MayRead, Reads
  <2>2. /\ 1 .. handed \subseteq Cell!Range(output) /\ Cell!Range(output) \subseteq 1 .. handed
        /\ \A k, l \in DOMAIN output : k < l => output[k] <= output[l]
        /\ Len(output) <= Cardinality(Cell!Range(output)) + kills
    BY <1>5, <2>1 DEF Printed
  <2>3. handed' - 1 = handed /\ 1 .. handed \subseteq 1 .. handed' /\ handed' \notin 1 .. handed
    BY <1>1, <1>2
  <2>4. /\ 1 .. handed' - 1 \subseteq Cell!Range(output)
        /\ Cell!Range(output) \subseteq 1 .. handed'
        /\ handed' \notin Cell!Range(output)
    BY <2>2, <2>3
  <2> QED
    BY <1>2, <2>1, <2>2, <2>4 DEF Printed
<1> QED
  BY <1>10, <1>11, <1>12, <1>13

LEMMA LinesAskToRead ==
    ASSUME CellInv, LinesInv, NEW c \in Consumers, Cell!AskToRead(c) PROVE LinesInv'
<1>1. /\ at \in [Cell!Processes -> {"shmget", "semget", "READ", "WRITE", "SETALL", "fgets",
                                    "shmctl", "semctl", "printf"} \cup Cell!Exit]
      /\ Producer \in Cell!Processes /\ Consumers \subseteq Cell!Processes
      /\ Producer \notin Consumers /\ Producer # c
      /\ val["READ"] \in Nat /\ val["WRITE"] \in Nat
      /\ \A q \in Cell!Processes : undo[q]["READ"] \in Int /\ undo[q]["WRITE"] \in Int
      /\ "READ" \in Cell!Semaphores /\ "WRITE" \in Cell!Semaphores
      /\ handed \in Nat /\ kills \in Nat /\ output \in Seq(Nat) /\ disturbed \in BOOLEAN
  BY LineFacts
<1>2. /\ at' = [at EXCEPT ![c] = "printf"] /\ at[c] = "READ"
      /\ Cell!Semop(c, "READ", -1)
      /\ handed' = handed /\ product' = product /\ replaced' = replaced
      /\ output' = output /\ kills' = kills /\ disturbed' = disturbed
      /\ val["READ"] + (-1) >= 0 /\ sems \in {"made", "set"}
  BY DEF Cell!AskToRead, Cell!Go, Cell!Semop, Cell!faultVars, Cell!dataVars,
     Cell!There
<1>3. /\ sems' = sems /\ at'[c] = "printf"
      /\ \A q \in Cell!Processes : q # c => at'[q] = at[q]
      /\ val'["READ"] = val["READ"] + (-1)
      /\ val'["WRITE"] = val["WRITE"]
      /\ undo'[c]["READ"] = undo[c]["READ"] - (-1)
      /\ undo'[c]["WRITE"] = undo[c]["WRITE"]
      /\ \A q \in Cell!Processes : q # c => undo'[q] = undo[q]
  <2>1. /\ c \in Cell!Processes /\ -1 \in {1, -1} /\ "READ" # "WRITE"
        /\ "READ" \in Cell!Semaphores /\ "WRITE" \in Cell!Semaphores
        /\ "printf" \in {"READ", "WRITE", "fgets", "printf"}
        /\ c = Producer => -1 = IF "READ" = "READ" THEN 1 ELSE -1
        /\ c \in Consumers => -1 = IF "READ" = "READ" THEN -1 ELSE 1
    BY <1>1
  <2>2. /\ CellTypes' /\ sems' = sems /\ sems # "removed"
        /\ at'[c] = "printf" /\ \A q \in Cell!Processes : q # c => at'[q] = at[q]
        /\ val'["READ"] = val["READ"] + (-1)
        /\ \A r \in Cell!Semaphores : r # "READ" => val'[r] = val[r]
        /\ undo'[c]["READ"] = undo[c]["READ"] - (-1)
        /\ \A r \in Cell!Semaphores : r # "READ" => undo'[c][r] = undo[c][r]
        /\ \A q \in Cell!Processes : q # c => undo'[q] = undo[q]
        /\ \A q \in Cell!Processes, r \in Cell!Semaphores : undo[q][r] \in Int
        /\ \A r \in Cell!Semaphores : val[r] \in Nat
    BY <1>1, <1>2, <2>1, CellSemop, Zenon
  <2> QED
    BY <1>1, <2>1, <2>2
<1>4. LineTypes'
  BY <1>1, <1>2, <1>3 DEF LinesInv, LineTypes
<1> SUFFICES ASSUME ~disturbed PROVE Places' /\ Rounds' /\ OneRight' /\ Printed'
  BY <1>2, <1>4 DEF LinesInv
<1>5. Places /\ Rounds /\ OneRight /\ Printed
  BY DEF LinesInv
<1>6. handed # 0 /\ sems = "set" /\ at'[Producer] = at[Producer]
  <2>1. val["READ"] # 0
    BY <1>1, <1>2
  <2>2. handed # 0
    BY <1>5, <2>1 DEF Rounds
  <2>3. sems = "set"
    BY <1>1, <1>2, <1>5, <2>2 DEF Places, Cell!Exit
  <2> QED
    BY <1>1, <1>3, <2>2, <2>3
<1>7. /\ Filling' <=> Filling
      /\ \A d \in Consumers : d # c => (InRound(d)' <=> InRound(d))
      /\ ~InRound(c) /\ InRound(c)'
  BY <1>1, <1>2, <1>3, <1>6 DEF Filling, InRound
<1>8. MayRead
  BY <1>1, <1>2, <1>5, <1>6 DEF OneRight, MayWrite, MayRead, Fills, Reads
<1>9. Reads(c)'
  BY <1>1, <1>3, <1>7, <1>8 DEF MayRead, Reads
<1>10. Places'
  BY <1>1, <1>2, <1>3, <1>5, <1>6 DEF Places
<1>11. Rounds'
  <2>1. undo'[Producer] = undo[Producer]
    BY <1>1, <1>3
  <2>2. undo'[c]["READ"] + undo'[c]["WRITE"] = 1
    <3>1. undo[c]["READ"] + undo[c]["WRITE"] = 0
      BY <1>5, <1>6, <1>7 DEF Rounds
    <3>2. undo[c]["READ"] \in Int /\ undo[c]["WRITE"] \in Int
      BY <1>1
    <3> QED
      BY <1>3, <3>1, <3>2
  <2>3. ASSUME NEW d \in Consumers, d # c
        PROVE  undo'[d]["READ"] + undo'[d]["WRITE"] = IF InRound(d)' THEN 1 ELSE 0
    BY <1>1, <1>3, <1>5, <1>6, <1>7, <2>3 DEF Rounds
  <2>4. \A d \in Consumers :
            undo'[d]["READ"] + undo'[d]["WRITE"] = IF InRound(d)' THEN 1 ELSE 0
    BY <1>7, <2>2, <2>3
  <2> QED
    BY <1>2, <1>5, <1>6, <1>7, <2>1, <2>4 DEF Rounds
<1>12. OneRight'
  BY <1>9 DEF OneRight
<1>13. Printed'
  <2>1. Unprinted /\ Unprinted'
    BY <1>3, <1>8, <1>9 DEF Unprinted
  <2> QED
    BY <1>2, <1>3, <1>5, <1>6, <2>1 DEF Printed
<1> QED
  BY <1>10, <1>11, <1>12, <1>13

LEMMA LinesGiveBack ==
    ASSUME CellInv, LinesInv, NEW c \in Consumers, Cell!GiveBack(c) PROVE LinesInv'
<1>1. /\ at \in [Cell!Processes -> {"shmget", "semget", "READ", "WRITE", "SETALL", "fgets",
                                    "shmctl", "semctl", "printf"} \cup Cell!Exit]
      /\ Producer \in Cell!Processes /\ Consumers \subseteq Cell!Processes
      /\ Producer \notin Consumers /\ Producer # c
      /\ val["READ"] \in Nat /\ val["WRITE"] \in Nat
      /\ \A q \in Cell!Processes : undo[q]["READ"] \in Int /\ undo[q]["WRITE"] \in Int
      /\ "READ" \in Cell!Semaphores /\ "WRITE" \in Cell!Semaphores
      /\ handed \in Nat /\ kills \in Nat /\ output \in Seq(Nat) /\ disturbed \in BOOLEAN
  BY LineFacts
<1>2. /\ at' = [at EXCEPT ![c] = "READ"] /\ at[c] = "WRITE"
      /\ Cell!Semop(c, "WRITE", 1)
      /\ handed' = handed /\ product' = product /\ replaced' = replaced
      /\ output' = output /\ kills' = kills /\ disturbed' = disturbed
      /\ val["WRITE"] + 1 >= 0 /\ sems \in {"made", "set"}
  BY DEF Cell!GiveBack, Cell!Go, Cell!Semop, Cell!faultVars, Cell!dataVars,
     Cell!There
<1>3. /\ sems' = sems /\ at'[c] = "READ"
      /\ \A q \in Cell!Processes : q # c => at'[q] = at[q]
      /\ val'["WRITE"] = val["WRITE"] + 1
      /\ val'["READ"] = val["READ"]
      /\ undo'[c]["WRITE"] = undo[c]["WRITE"] - 1
      /\ undo'[c]["READ"] = undo[c]["READ"]
      /\ \A q \in Cell!Processes : q # c => undo'[q] = undo[q]
  BY <1>1, <1>2, CellSemop
<1>4. LineTypes'
  BY <1>1, <1>2, <1>3 DEF LinesInv, LineTypes
<1> SUFFICES ASSUME ~disturbed PROVE Places' /\ Rounds' /\ OneRight' /\ Printed'
  BY <1>2, <1>4 DEF LinesInv
<1>5. Places /\ Rounds /\ OneRight /\ Printed
  BY DEF LinesInv
<1>6. InRound(c) /\ ~InRound(c)'
  BY <1>1, <1>2, <1>3 DEF InRound
<1>7. handed # 0 /\ sems = "set" /\ at'[Producer] = at[Producer]
  <2>1. handed # 0
    BY <1>5, <1>6 DEF Rounds
  <2>2. sems = "set"
    BY <1>1, <1>2, <1>5, <2>1 DEF Places, Cell!Exit
  <2> QED
    BY <1>1, <1>3, <2>1, <2>2
<1>8. /\ Filling' <=> Filling
      /\ \A d \in Consumers : d # c => (InRound(d)' <=> InRound(d))
  BY <1>1, <1>2, <1>3, <1>7 DEF Filling, InRound
<1>9. Reads(c)
  BY <1>5, <1>6, <1>7 DEF OneRight, MayWrite, MayRead, Fills, Reads
<1>10. MayWrite'
  BY <1>1, <1>3, <1>6, <1>8, <1>9 DEF MayWrite, Reads
<1>11. Places'
  BY <1>1, <1>2, <1>3, <1>5, <1>7 DEF Places
<1>12. Rounds'
  <2>1. undo'[Producer] = undo[Producer]
    BY <1>1, <1>3
  <2>2. undo'[c]["READ"] + undo'[c]["WRITE"] = 0
    <3>1. undo[c]["READ"] + undo[c]["WRITE"] = 1
      BY <1>5, <1>6, <1>7 DEF Rounds
    <3>2. undo[c]["READ"] \in Int /\ undo[c]["WRITE"] \in Int
      BY <1>1
    <3> QED
      BY <1>3, <3>1, <3>2
  <2>3. ASSUME NEW d \in Consumers, d # c
        PROVE  undo'[d]["READ"] + undo'[d]["WRITE"] = IF InRound(d)' THEN 1 ELSE 0
    BY <1>1, <1>3, <1>5, <1>7, <1>8, <2>3 DEF Rounds
  <2>4. \A d \in Consumers :
            undo'[d]["READ"] + undo'[d]["WRITE"] = IF InRound(d)' THEN 1 ELSE 0
    BY <1>6, <2>2, <2>3
  <2> QED
    BY <1>2, <1>5, <1>7, <1>8, <2>1, <2>4 DEF Rounds
<1>13. OneRight'
  BY <1>10 DEF OneRight
<1>14. Printed'
  <2>1. ~Unprinted
    BY <1>2, <1>6, <1>9 DEF Unprinted, MayRead, Reads
  <2>2. ~Unprinted'
    BY <1>10 DEF Unprinted, MayWrite, MayRead, Reads
  <2> QED
    BY <1>2, <1>3, <1>5, <2>1, <2>2 DEF Printed
<1> QED
  BY <1>11, <1>12, <1>13, <1>14

LEMMA LinesSetAll == CellInv /\ LinesInv /\ Cell!SetAll => LinesInv'
<1> SUFFICES ASSUME CellInv, LinesInv, Cell!SetAll PROVE LinesInv'
  OBVIOUS
<1>1. /\ at \in [Cell!Processes -> {"shmget", "semget", "READ", "WRITE", "SETALL", "fgets",
                                    "shmctl", "semctl", "printf"} \cup Cell!Exit]
      /\ Producer \in Cell!Processes /\ Consumers \subseteq Cell!Processes
      /\ Producer \notin Consumers
      /\ val["READ"] \in Nat /\ val["WRITE"] \in Nat
      /\ \A q \in Cell!Processes : undo[q]["READ"] \in Int /\ undo[q]["WRITE"] \in Int
      /\ "READ" \in Cell!Semaphores /\ "WRITE" \in Cell!Semaphores
      /\ handed \in Nat /\ kills \in Nat /\ output \in Seq(Nat) /\ disturbed \in BOOLEAN
      /\ sems \in {"none", "made", "set", "removed"}
  BY LineFacts
<1>2. /\ at[Producer] = "SETALL" /\ at' = [at EXCEPT ![Producer] = "WRITE"] /\ sems' = "set"
      /\ val' = [s \in Cell!Semaphores |-> IF s = "WRITE" THEN 1 ELSE 0]
      /\ undo' = [q \in Cell!Processes |-> Cell!Nothing]
      /\ product' = product /\ replaced' = replaced /\ handed' = handed /\ output' = output
      /\ kills' = kills /\ disturbed' = disturbed
  BY DEF Cell!SetAll, Cell!Go, Cell!dataVars, Cell!faultVars
<1>3. /\ at'[Producer] = "WRITE" /\ \A c \in Consumers : at'[c] = at[c]
      /\ val'["WRITE"] = 1 /\ val'["READ"] = 0
      /\ \A q \in Cell!Processes : undo'[q]["READ"] = 0 /\ undo'[q]["WRITE"] = 0
  BY <1>1, <1>2 DEF Cell!Nothing
<1>4. LineTypes'
  BY <1>2, <1>3 DEF LinesInv, LineTypes
<1> SUFFICES ASSUME ~disturbed PROVE Places' /\ Rounds' /\ OneRight' /\ Printed'
  BY <1>2, <1>4 DEF LinesInv
<1>5. Places /\ Rounds /\ OneRight /\ Printed
  BY DEF LinesInv
<1>6. handed = 0 /\ \A c \in Consumers : ~InRound(c)
  BY <1>2, <1>5 DEF Places, Rounds
<1>7. ~Filling' /\ \A c \in Consumers : ~InRound(c)'
  BY <1>3, <1>6 DEF Filling, InRound
<1>8. MayWrite'
  BY <1>3, <1>7 DEF MayWrite
<1>9. Places'
  BY <1>2, <1>3, <1>5, <1>6 DEF Places
<1>10. Rounds'
  <2>1. 0 - 0 = 0 /\ 0 + 0 = 0
    OBVIOUS
  <2>2. output = <<>>
    BY <1>5, <1>6 DEF Rounds
  <2> QED
    BY <1>1, <1>2, <1>3, <1>6, <1>7, <2>1, <2>2 DEF Rounds
<1>11. OneRight'
  BY <1>8 DEF OneRight
<1>12. Printed'
  <2>1. 1 .. handed = {}
    BY <1>6
  <2>2. ~Unprinted'
    BY <1>8 DEF Unprinted, MayWrite, MayRead, Reads
  <2> QED
    BY <1>2, <1>5, <2>1, <2>2 DEF Printed
<1> QED
  BY <1>9, <1>10, <1>11, <1>12

LEMMA LinesPrintf ==
    ASSUME CellInv, LinesInv, NEW c \in Consumers, Cell!Printf(c) PROVE LinesInv'
<1>1. /\ at \in [Cell!Processes -> {"shmget", "semget", "READ", "WRITE", "SETALL", "fgets",
                                    "shmctl", "semctl", "printf"} \cup Cell!Exit]
      /\ Producer \in Cell!Processes /\ Consumers \subseteq Cell!Processes
      /\ Producer \notin Consumers
      /\ val["READ"] \in Nat /\ val["WRITE"] \in Nat
      /\ \A q \in Cell!Processes : undo[q]["READ"] \in Int /\ undo[q]["WRITE"] \in Int
      /\ "READ" \in Cell!Semaphores /\ "WRITE" \in Cell!Semaphores
      /\ handed \in Nat /\ kills \in Nat /\ output \in Seq(Nat) /\ disturbed \in BOOLEAN
      /\ sems \in {"none", "made", "set", "removed"}
  BY LineFacts
<1>2. /\ at[c] = "printf" /\ at' = [at EXCEPT ![c] = "WRITE"] /\ c # Producer
      /\ output' = Append(output, Cell!Seen(c))
      /\ sems' = sems /\ val' = val /\ undo' = undo
      /\ product' = product /\ replaced' = replaced /\ handed' = handed
      /\ kills' = kills /\ disturbed' = disturbed
  BY <1>1 DEF Cell!Printf, Cell!Go, Cell!ipcVars, Cell!faultVars
<1>3. /\ at'[c] = "WRITE" /\ \A q \in Cell!Processes : q # c => at'[q] = at[q]
      /\ at'[Producer] = at[Producer]
  BY <1>1, <1>2
<1>4. Cell!Seen(c) \in Nat /\ (~disturbed => Cell!Seen(c) = product)
  BY <1>1 DEF LinesInv, LineTypes, Cell!Seen
<1>5. LineTypes'
  <2>1. output' \in Seq(Nat)
    BY <1>1, <1>2, <1>4
  <2> QED
    BY <1>2, <1>3, <2>1 DEF LinesInv, LineTypes
<1> SUFFICES ASSUME ~disturbed PROVE Places' /\ Rounds' /\ OneRight' /\ Printed'
  BY <1>2, <1>5 DEF LinesInv
<1>6. Places /\ Rounds /\ OneRight /\ Printed /\ LineTypes
  BY DEF LinesInv
<1>7. /\ InRound(c) /\ \A d \in Consumers : InRound(d)' <=> InRound(d)
      /\ Filling' <=> Filling
  BY <1>1, <1>2, <1>3 DEF InRound, Filling
<1>8. handed # 0 /\ sems = "set"
  <2>1. handed # 0
    BY <1>6, <1>7 DEF Rounds
  <2>2. sems = "set"
    BY <1>1, <1>2, <1>6, <2>1 DEF Places, Cell!Exit
  <2> QED
    BY <2>1, <2>2
<1>9. Reads(c)
  BY <1>6, <1>7, <1>8 DEF OneRight, MayWrite, MayRead, Fills, Reads
<1>10. Cell!Seen(c) = handed
  BY <1>4, <1>6, <1>8, <1>9 DEF Places, Reads, Filling
<1>11. Places'
  BY <1>1, <1>2, <1>3, <1>6, <1>8 DEF Places
<1>12. Rounds'
  BY <1>1, <1>2, <1>6, <1>7, <1>8 DEF Rounds
<1>13. OneRight'
  <2>1. Reads(c)'
    BY <1>2, <1>7, <1>9 DEF Reads
  <2> QED
    BY <2>1 DEF OneRight
<1>14. ~Unprinted' /\ Unprinted
  BY <1>2, <1>3, <1>7, <1>9 DEF Unprinted, MayRead, Reads
<1>15. Cell!Range(output') = Cell!Range(output) \cup {handed}
  BY <1>1, <1>2, <1>10, RangeAppend
<1>16. /\ IsFiniteSet(Cell!Range(output)) /\ Cardinality(Cell!Range(output)) \in Nat
       /\ Len(output) \in Nat
  BY <1>6, OutputFinite
<1>17. /\ 1 .. handed - 1 \subseteq Cell!Range(output)
       /\ Cell!Range(output) \subseteq 1 .. handed
       /\ \A k, l \in DOMAIN output : k < l => output[k] <= output[l]
       /\ handed \in Cell!Range(output) =>
              Len(output) < Cardinality(Cell!Range(output)) + kills
       /\ Len(output) <= Cardinality(Cell!Range(output)) + kills
  BY <1>6, <1>8, <1>14 DEF Printed
<1>18. Printed'
  <2>1. 1 .. handed \subseteq Cell!Range(output')
    <3>1. ASSUME NEW n \in 1 .. handed PROVE n \in Cell!Range(output')
      <4>1. n = handed \/ n \in 1 .. handed - 1
        BY <1>1
      <4> QED
        BY <1>15, <1>17, <4>1
    <3> QED
      BY <3>1
  <2>2. Cell!Range(output') \subseteq 1 .. handed
    <3>1. handed \in 1 .. handed
      BY <1>1, <1>8
    <3> QED
      BY <1>15, <1>17, <3>1
  <2>3. \A k, l \in DOMAIN output' : k < l => output'[k] <= output'[l]
    <3>1. /\ DOMAIN output = 1 .. Len(output) /\ DOMAIN output' = 1 .. Len(output) + 1
          /\ \A k \in 1 .. Len(output) : output'[k] = output[k]
          /\ output'[Len(output) + 1] = handed
      BY <1>1, <1>2, <1>4, <1>10
    <3>2. \A k \in DOMAIN output : output[k] <= handed
      <4>1. \A k \in DOMAIN output : output[k] \in 1 .. handed
        BY <1>17, RangeElements
      <4> QED
        BY <1>1, <4>1
    <3> SUFFICES ASSUME NEW k \in DOMAIN output', NEW l \in DOMAIN output', k < l
                 PROVE  output'[k] <= output'[l]
      OBVIOUS
    <3>3. k \in DOMAIN output /\ (l \in DOMAIN output \/ l = Len(output) + 1)
      BY <1>16, <3>1
    <3>4. CASE l \in DOMAIN output
      BY <1>17, <3>1, <3>3, <3>4
    <3>5. CASE l = Len(output) + 1
      BY <3>1, <3>2, <3>3, <3>5
    <3> QED
      BY <3>3, <3>4, <3>5
  <2>4. Len(output') = Len(output) + 1
    BY <1>1, <1>2, <1>4
  <2>5. Len(output') <= Cardinality(Cell!Range(output')) + kills
    <3>1. CASE handed \in Cell!Range(output)
      <4>1. Cell!Range(output') = Cell!Range(output)
        BY <1>15, <3>1
      <4> QED
        BY <1>1, <1>16, <1>17, <2>4, <3>1, <4>1
    <3>2. CASE handed \notin Cell!Range(output)
      <4>1. Cardinality(Cell!Range(output')) = Cardinality(Cell!Range(output)) + 1
        BY <1>15, <1>16, <3>2, FS_AddElement
      <4> QED
        BY <1>1, <1>16, <1>17, <2>4, <4>1
    <3> QED
      BY <3>1, <3>2
  <2>6. 1 .. handed - 1 \subseteq Cell!Range(output')
    BY <1>15, <1>17
  <2> QED
    BY <1>2, <1>14, <2>1, <2>2, <2>3, <2>5, <2>6 DEF Printed
<1> QED
  BY <1>11, <1>12, <1>13, <1>18

LEMMA LinesRemoveSemaphores == CellInv /\ LinesInv /\ Cell!RemoveSemaphores => LinesInv'
<1> SUFFICES ASSUME CellInv, LinesInv, Cell!RemoveSemaphores PROVE LinesInv'
  OBVIOUS
<1>1. /\ at \in [Cell!Processes -> {"shmget", "semget", "READ", "WRITE", "SETALL", "fgets",
                                    "shmctl", "semctl", "printf"} \cup Cell!Exit]
      /\ Producer \in Cell!Processes /\ Consumers \subseteq Cell!Processes
      /\ Producer \notin Consumers
      /\ val["READ"] \in Nat /\ val["WRITE"] \in Nat
      /\ \A q \in Cell!Processes : undo[q]["READ"] \in Int /\ undo[q]["WRITE"] \in Int
      /\ "READ" \in Cell!Semaphores /\ "WRITE" \in Cell!Semaphores
      /\ handed \in Nat /\ kills \in Nat /\ output \in Seq(Nat) /\ disturbed \in BOOLEAN
      /\ sems \in {"none", "made", "set", "removed"}
  BY LineFacts
<1>2. /\ at[Producer] = "semctl" /\ at' = [at EXCEPT ![Producer] = "ended"]
      /\ sems' = "removed" /\ val' = val /\ undo' = undo
      /\ product' = product /\ replaced' = replaced /\ handed' = handed /\ output' = output
      /\ kills' = kills /\ disturbed' = disturbed
  BY DEF Cell!RemoveSemaphores, Cell!Go, Cell!dataVars, Cell!faultVars
<1>3. at'[Producer] = "ended" /\ \A c \in Consumers : at'[c] = at[c]
  BY <1>1, <1>2
<1>4. LineTypes'
  BY <1>2, <1>3 DEF LinesInv, LineTypes
<1> SUFFICES ASSUME ~disturbed PROVE Places' /\ Rounds' /\ OneRight' /\ Printed'
  BY <1>2, <1>4 DEF LinesInv
<1>5. Places /\ Rounds /\ OneRight /\ Printed
  BY DEF LinesInv
<1>6. Filling /\ sems = "set"
  BY <1>2, <1>5 DEF Filling, Places
<1>7. \A c \in Consumers : ~InRound(c)
  BY <1>5, <1>6 DEF OneRight, MayWrite, MayRead, Fills, Reads
<1>8. Places'
  BY <1>2, <1>3, <1>5, <1>7 DEF Places, InRound
<1>9. Rounds'
  BY <1>2, <1>3, <1>5 DEF Rounds, InRound
<1>10. OneRight'
  BY <1>2 DEF OneRight
<1>11. Printed'
  <2>1. ~Unprinted
    BY <1>6 DEF Unprinted, MayRead, Reads
  <2> QED
    BY <1>2, <1>5, <2>1 DEF Printed
<1> QED
  BY <1>8, <1>9, <1>10, <1>11

LEMMA LinesSemopFails ==
    ASSUME CellInv, LinesInv, NEW c \in Consumers, Cell!SemopFails(c) PROVE LinesInv'
<1>1. /\ at \in [Cell!Processes -> {"shmget", "semget", "READ", "WRITE", "SETALL", "fgets",
                                    "shmctl", "semctl", "printf"} \cup Cell!Exit]
      /\ Producer \in Cell!Processes /\ Consumers \subseteq Cell!Processes
      /\ Producer \notin Consumers
      /\ val["READ"] \in Nat /\ val["WRITE"] \in Nat
      /\ \A q \in Cell!Processes : undo[q]["READ"] \in Int /\ undo[q]["WRITE"] \in Int
      /\ "READ" \in Cell!Semaphores /\ "WRITE" \in Cell!Semaphores
      /\ handed \in Nat /\ kills \in Nat /\ output \in Seq(Nat) /\ disturbed \in BOOLEAN
      /\ sems \in {"none", "made", "set", "removed"}
  BY LineFacts
<1>2. /\ at' = [at EXCEPT ![c] = "ended"] /\ c # Producer
      /\ sems = "removed" /\ sems' = sems /\ val' = val /\ undo' = undo
      /\ product' = product /\ replaced' = replaced /\ handed' = handed /\ output' = output
      /\ kills' = kills /\ disturbed' = disturbed
  BY <1>1 DEF Cell!SemopFails, Cell!Go, Cell!ipcVars, Cell!dataVars, Cell!faultVars
<1>3. /\ at'[Producer] = at[Producer] /\ at'[c] = "ended"
      /\ \A d \in Consumers : d # c => at'[d] = at[d]
  BY <1>1, <1>2
<1>4. LineTypes'
  BY <1>2, <1>3 DEF LinesInv, LineTypes
<1> SUFFICES ASSUME ~disturbed PROVE Places' /\ Rounds' /\ OneRight' /\ Printed'
  BY <1>2, <1>4 DEF LinesInv
<1>5. Places /\ Rounds /\ OneRight /\ Printed
  BY DEF LinesInv
<1>6. Places'
  BY <1>2, <1>3, <1>5 DEF Places
<1>7. Rounds'
  BY <1>2, <1>3, <1>5 DEF Rounds, InRound
<1>8. OneRight'
  BY <1>2 DEF OneRight
<1>9. Printed'
  BY <1>2, <1>5 DEF Printed
<1> QED
  BY <1>6, <1>7, <1>8, <1>9

\* A consumer that has done no whole round gives the right back when it is killed.
LEMMA LinesKillConsumer ==
    ASSUME CellInv, LinesInv, NEW c \in Consumers, Cell!Kill(c) PROVE LinesInv'
<1>1. /\ at \in [Cell!Processes -> {"shmget", "semget", "READ", "WRITE", "SETALL", "fgets",
                                    "shmctl", "semctl", "printf"} \cup Cell!Exit]
      /\ Producer \in Cell!Processes /\ Consumers \subseteq Cell!Processes
      /\ Producer \notin Consumers
      /\ val["READ"] \in Nat /\ val["WRITE"] \in Nat
      /\ \A q \in Cell!Processes : undo[q]["READ"] \in Int /\ undo[q]["WRITE"] \in Int
      /\ "READ" \in Cell!Semaphores /\ "WRITE" \in Cell!Semaphores
      /\ handed \in Nat /\ kills \in Nat /\ output \in Seq(Nat) /\ disturbed \in BOOLEAN
      /\ sems \in {"none", "made", "set", "removed"}
  BY LineFacts
<1>2. /\ at' = [at EXCEPT ![c] = "killed"] /\ at[c] \notin Cell!Exit /\ c # Producer
      /\ c \in Cell!Processes
      /\ undo' = [undo EXCEPT ![c] = Cell!Nothing] /\ sems' = sems
      /\ val' = IF Cell!There THEN Cell!Undone(c) ELSE val
      /\ product' = product /\ replaced' = replaced /\ handed' = handed
      /\ output' = output /\ kills' = kills + 1
      /\ disturbed' = (disturbed \/ (Cell!There /\ undo[c]["WRITE"] # 0))
  BY <1>1 DEF Cell!Kill, Cell!dataVars
<1>3. /\ at'[c] = "killed" /\ at'[Producer] = at[Producer]
      /\ \A d \in Consumers : d # c => at'[d] = at[d] /\ undo'[d] = undo[d]
      /\ undo'[c]["READ"] = 0 /\ undo'[c]["WRITE"] = 0 /\ undo'[Producer] = undo[Producer]
  <2>1. undo \in [Cell!Processes -> [Cell!Semaphores -> Int]]
    BY DEF CellInv, CellTypes
  <2> QED
    BY <1>1, <1>2, <2>1 DEF Cell!Nothing
<1>4. LineTypes'
  <2>1. kills' \in Nat /\ disturbed' \in BOOLEAN
    BY <1>1, <1>2
  <2> QED
    BY <1>2, <1>3, <2>1 DEF LinesInv, LineTypes
<1> SUFFICES ASSUME ~disturbed' PROVE Places' /\ Rounds' /\ OneRight' /\ Printed'
  BY <1>4 DEF LinesInv
<1>5. ~disturbed /\ (Cell!There => undo[c]["WRITE"] = 0)
  BY <1>1, <1>2
<1>6. Places /\ Rounds /\ OneRight /\ Printed /\ LineTypes
  BY <1>5 DEF LinesInv
<1>7. /\ Filling' <=> Filling
      /\ ~InRound(c)' /\ \A d \in Consumers : d # c => (InRound(d)' <=> InRound(d))
  BY <1>3 DEF Filling, InRound
<1>8. Places'
  <2>1. sems = "removed" => \A d \in Consumers : at'[d] # "printf"
    BY <1>3, <1>6 DEF Places
  <2> QED
    BY <1>2, <1>3, <1>6, <2>1 DEF Places
<1>9. Cell!There => /\ val'["WRITE"] = val["WRITE"]
                    /\ val'["READ"] = IF InRound(c) THEN val["READ"] + 1 ELSE val["READ"]
  <2> SUFFICES ASSUME Cell!There
               PROVE  /\ val'["WRITE"] = val["WRITE"]
                      /\ val'["READ"] = IF InRound(c) THEN val["READ"] + 1 ELSE val["READ"]
    OBVIOUS
  <2>1. undo[c]["WRITE"] = 0 /\ undo[c]["READ"] = IF InRound(c) THEN 1 ELSE 0
    <3>1. undo[c]["READ"] + undo[c]["WRITE"] = IF InRound(c) THEN 1 ELSE 0
      BY <1>6 DEF Rounds, Cell!There
    <3>2. undo[c]["READ"] \in Int /\ undo[c]["WRITE"] = 0
      BY <1>2, <1>1, <1>5
    <3> QED
      BY <3>1, <3>2
  <2>2. \A r \in Cell!Semaphores :
            val'[r] = IF val[r] + undo[c][r] < 0 THEN 0 ELSE val[r] + undo[c][r]
    BY <1>2 DEF Cell!Undone
  <2> QED
    BY <1>1, <2>1, <2>2
<1>10. Rounds'
  <2>1. handed = 0 => val'["READ"] = 0
    <3>1. handed = 0 => val["READ"] = 0 /\ ~InRound(c)
      BY <1>6 DEF Rounds
    <3> QED
      BY <1>2, <1>9, <3>1
  <2>2. handed = 0 => output = <<>> /\ \A d \in Consumers : ~InRound(d)'
    BY <1>6, <1>7 DEF Rounds
  <2>3. undo'[c]["READ"] + undo'[c]["WRITE"] = 0
    BY <1>3
  <2>4. sems # "removed" =>
            \A d \in Consumers :
                undo'[d]["READ"] + undo'[d]["WRITE"] = IF InRound(d)' THEN 1 ELSE 0
    BY <1>3, <1>6, <1>7, <2>3 DEF Rounds
  <2> QED
    BY <1>2, <1>3, <1>6, <1>7, <2>1, <2>2, <2>4 DEF Rounds
<1>11. sems = "set" => Cell!There
  BY DEF Cell!There
<1>12. ASSUME sems = "set", InRound(c) PROVE Reads(c) /\ MayRead'
  <2>1. Reads(c)
    BY <1>6, <1>12 DEF OneRight, MayWrite, MayRead, Fills, Reads
  <2> QED
    BY <1>7, <1>9, <1>11, <1>12, <2>1 DEF Reads, MayRead
<1>13. ASSUME sems = "set", ~InRound(c)
       PROVE  /\ MayWrite' <=> MayWrite
              /\ MayRead' <=> MayRead
              /\ Fills' <=> Fills
              /\ \A d \in Consumers : Reads(d)' <=> Reads(d)
  <2>1. /\ \A d \in Consumers : InRound(d)' <=> InRound(d)
        /\ val'["WRITE"] = val["WRITE"] /\ val'["READ"] = val["READ"]
    BY <1>7, <1>9, <1>11, <1>13
  <2> QED
    BY <1>7, <2>1 DEF MayWrite, MayRead, Fills, Reads
<1>14. OneRight'
  BY <1>2, <1>6, <1>12, <1>13 DEF OneRight
<1>15. sems = "set" /\ Unprinted' => Unprinted \/ InRound(c)
  <2> SUFFICES ASSUME sems = "set", Unprinted', ~InRound(c) PROVE Unprinted
    OBVIOUS
  <2>1. CASE MayRead'
    BY <1>13, <2>1 DEF Unprinted
  <2>2. ASSUME NEW d \in Consumers, Reads(d)', at'[d] = "printf" PROVE Unprinted
    BY <1>3, <1>13, <2>2 DEF Unprinted
  <2> QED
    BY <2>1, <2>2 DEF Unprinted
<1>16. sems = "set" /\ ~Unprinted' => ~Unprinted
  <2> SUFFICES ASSUME sems = "set", Unprinted, ~Unprinted' PROVE FALSE
    OBVIOUS
  <2>1. ~InRound(c)
    BY <1>12 DEF Unprinted
  <2>2. ~MayRead
    BY <1>13, <2>1 DEF Unprinted
  <2>3. PICK d \in Consumers : Reads(d) /\ at[d] = "printf"
    BY <2>2 DEF Unprinted
  <2>4. d # c
    BY <2>1, <2>3 DEF InRound
  <2> QED
    BY <1>3, <1>13, <2>1, <2>3, <2>4 DEF Unprinted
<1>17. Printed'
  <2>1. Cardinality(Cell!Range(output)) \in Nat /\ Len(output) \in Nat
    BY <1>6, OutputFinite
  <2>2. /\ 1 .. handed - 1 \subseteq Cell!Range(output)
        /\ Cell!Range(output) \subseteq 1 .. handed
        /\ \A k, l \in DOMAIN output : k < l => output[k] <= output[l]
        /\ Len(output) <= Cardinality(Cell!Range(output)) + kills
    BY <1>6 DEF Printed
  <2>3. Len(output) < Cardinality(Cell!Range(output)) + (kills + 1)
    BY <1>1, <2>1, <2>2
  <2>4. ~(sems = "set" /\ Unprinted') => 1 .. handed \subseteq Cell!Range(output)
    BY <1>6, <1>16 DEF Printed
  <2>5. Len(output) <= Cardinality(Cell!Range(output)) + (kills + 1)
    BY <1>1, <2>1, <2>2
  <2> QED
    BY <1>2, <2>2, <2>3, <2>4, <2>5 DEF Printed
<1> QED
  BY <1>8, <1>10, <1>14, <1>17

\* A producer that has handed over nothing gives the right back when it is killed.
LEMMA LinesKillProducer == CellInv /\ LinesInv /\ Cell!Kill(Producer) => LinesInv'
<1> SUFFICES ASSUME CellInv, LinesInv, Cell!Kill(Producer) PROVE LinesInv'
  OBVIOUS
<1>1. /\ at \in [Cell!Processes -> {"shmget", "semget", "READ", "WRITE", "SETALL", "fgets",
                                    "shmctl", "semctl", "printf"} \cup Cell!Exit]
      /\ Producer \in Cell!Processes /\ Consumers \subseteq Cell!Processes
      /\ Producer \notin Consumers
      /\ val["READ"] \in Nat /\ val["WRITE"] \in Nat
      /\ \A q \in Cell!Processes : undo[q]["READ"] \in Int /\ undo[q]["WRITE"] \in Int
      /\ "READ" \in Cell!Semaphores /\ "WRITE" \in Cell!Semaphores
      /\ handed \in Nat /\ kills \in Nat /\ output \in Seq(Nat) /\ disturbed \in BOOLEAN
      /\ sems \in {"none", "made", "set", "removed"}
  BY LineFacts
<1>2. /\ at' = [at EXCEPT ![Producer] = "killed"] /\ at[Producer] \notin Cell!Exit
      /\ undo' = [undo EXCEPT ![Producer] = Cell!Nothing] /\ sems' = sems
      /\ val' = IF Cell!There THEN Cell!Undone(Producer) ELSE val
      /\ product' = product /\ replaced' = replaced /\ handed' = handed
      /\ output' = output /\ kills' = kills + 1
      /\ disturbed' = (disturbed \/ (Cell!There /\ undo[Producer]["READ"] # 0))
  BY <1>1 DEF Cell!Kill, Cell!dataVars
<1>3. /\ at'[Producer] = "killed"
      /\ \A d \in Consumers : at'[d] = at[d] /\ undo'[d] = undo[d]
      /\ undo'[Producer]["READ"] = 0 /\ undo'[Producer]["WRITE"] = 0
  <2>1. undo \in [Cell!Processes -> [Cell!Semaphores -> Int]]
    BY DEF CellInv, CellTypes
  <2> QED
    BY <1>1, <1>2, <2>1 DEF Cell!Nothing
<1>4. LineTypes'
  <2>1. kills' \in Nat /\ disturbed' \in BOOLEAN
    BY <1>1, <1>2
  <2> QED
    BY <1>2, <1>3, <2>1 DEF LinesInv, LineTypes
<1> SUFFICES ASSUME ~disturbed' PROVE Places' /\ Rounds' /\ OneRight' /\ Printed'
  BY <1>4 DEF LinesInv
<1>5. ~disturbed /\ (Cell!There => undo[Producer]["READ"] = 0)
  BY <1>1, <1>2
<1>6. Places /\ Rounds /\ OneRight /\ Printed /\ LineTypes
  BY <1>5 DEF LinesInv
<1>7. sems # "removed"
  BY <1>2, <1>6 DEF Places, Cell!Exit
<1>8. handed = 0
  <2>1. CASE Cell!There
    <3>1. 0 - handed = 0
      BY <1>5, <1>6, <1>7, <2>1 DEF Rounds
    <3> QED
      BY <1>1, <3>1
  <2>2. CASE ~Cell!There
    BY <1>1, <1>2, <1>6, <1>7, <2>2 DEF Places, Cell!There, Cell!Exit
  <2> QED
    BY <2>1, <2>2
<1>9. /\ val["READ"] = 0 /\ output = <<>> /\ \A c \in Consumers : ~InRound(c)
      /\ undo[Producer]["READ"] = 0 - 0
      /\ undo[Producer]["WRITE"] = IF Filling THEN 0 + 1 ELSE 0
  BY <1>6, <1>7, <1>8 DEF Rounds
<1>10. ~Filling' /\ \A c \in Consumers : ~InRound(c)'
  BY <1>3, <1>9 DEF Filling, InRound
<1>11. Cell!There => /\ val'["READ"] = 0
                     /\ val'["WRITE"] = IF Filling THEN val["WRITE"] + 1 ELSE val["WRITE"]
  <2> SUFFICES ASSUME Cell!There
               PROVE  /\ val'["READ"] = 0
                      /\ val'["WRITE"] = IF Filling THEN val["WRITE"] + 1 ELSE val["WRITE"]
    OBVIOUS
  <2>1. \A r \in Cell!Semaphores :
            val'[r] = IF val[r] + undo[Producer][r] < 0 THEN 0 ELSE val[r] + undo[Producer][r]
    BY <1>2 DEF Cell!Undone
  <2>2. val'["READ"] = 0
    <3>1. undo[Producer]["READ"] = 0
      BY <1>9
    <3> QED
      BY <1>1, <1>9, <2>1, <3>1
  <2>3. CASE Filling
    BY <1>1, <1>9, <2>1, <2>2, <2>3
  <2>4. CASE ~Filling
    BY <1>1, <1>9, <2>1, <2>2, <2>4
  <2> QED
    BY <2>2, <2>3, <2>4
<1>12. Places'
  BY <1>2, <1>3, <1>6, <1>7, <1>8 DEF Places
<1>13. Rounds'
  <2>1. val'["READ"] = 0
    BY <1>2, <1>9, <1>11
  <2>2. \A c \in Consumers : undo'[c]["READ"] + undo'[c]["WRITE"] = 0
    BY <1>3, <1>6, <1>7, <1>9 DEF Rounds
  <2>3. 0 - 0 = 0
    OBVIOUS
  <2> QED
    BY <1>2, <1>3, <1>8, <1>9, <1>10, <2>1, <2>2, <2>3 DEF Rounds
<1>14. sems = "set" => MayWrite'
  <2> SUFFICES ASSUME sems = "set" PROVE MayWrite'
    OBVIOUS
  <2>1. MayWrite \/ Fills
    BY <1>6, <1>9 DEF OneRight, MayRead, Reads
  <2>2. Cell!There
    BY DEF Cell!There
  <2>3. val'["WRITE"] = 1
    BY <1>11, <2>1, <2>2 DEF MayWrite, Fills
  <2> QED
    BY <1>10, <1>11, <2>2, <2>3 DEF MayWrite
<1>15. OneRight'
  BY <1>2, <1>14 DEF OneRight
<1>16. Printed'
  <2>1. sems = "set" => ~Unprinted'
    BY <1>14 DEF Unprinted, MayWrite, MayRead, Reads
  <2>2. 1 .. handed = {}
    BY <1>8
  <2>3. Len(output) <= Cardinality(Cell!Range(output)) + (kills + 1)
    <3>1. Cardinality(Cell!Range(output)) \in Nat /\ Len(output) \in Nat
      BY <1>6, OutputFinite
    <3>2. Len(output) <= Cardinality(Cell!Range(output)) + kills
      BY <1>6 DEF Printed
    <3> QED
      BY <1>1, <3>1, <3>2
  <2> QED
    BY <1>2, <1>6, <2>1, <2>2, <2>3 DEF Printed
<1> QED
  BY <1>12, <1>13, <1>15, <1>16

LEMMA LinesStep == CellInv /\ LinesInv /\ Cell!Next => LinesInv'
<1> SUFFICES ASSUME CellInv, LinesInv, Cell!Next PROVE LinesInv'
  OBVIOUS
<1>1. /\ at \in [Cell!Processes -> {"shmget", "semget", "READ", "WRITE", "SETALL", "fgets",
                                    "shmctl", "semctl", "printf"} \cup Cell!Exit]
      /\ Producer \in Cell!Processes /\ Consumers \subseteq Cell!Processes
      /\ Producer \notin Consumers /\ sems \in {"none", "made", "set", "removed"}
      /\ handed \in Nat
  BY LineFacts
<1>2. /\ product \in {0, handed, handed + 1}
      /\ (at[Producer] = "READ" => product = handed + 1)
      /\ disturbed \in BOOLEAN /\ (~disturbed => Places)
      /\ \A c \in DOMAIN replaced : replaced[c] \in Nat
      /\ ~disturbed => DOMAIN replaced = {}
  BY DEF LinesInv, LineTypes
<1> DEFINE Still == UNCHANGED <<val, undo, handed, output, kills, disturbed>>
           SameRounds == \A c \in Consumers : /\ InRound(c)' <=> InRound(c)
                                              /\ at'[c] = "printf" <=> at[c] = "printf"
<1>3. ASSUME at' = [at EXCEPT ![Producer] = at'[Producer]] PROVE SameRounds
  <2>1. \A c \in Consumers : at'[c] = at[c]
    BY <1>1, <1>3
  <2> QED
    BY <2>1 DEF InRound
<1>4. CASE Cell!MakeSegment
  <2>1. /\ at[Producer] = "shmget" /\ at' = [at EXCEPT ![Producer] = "semget"]
        /\ sems' = sems /\ val' = val /\ undo' = undo
        /\ handed' = handed /\ output' = output /\ kills' = kills
        /\ \/ shm /\ product' = product /\ replaced' = replaced /\ disturbed' = disturbed
           \/ /\ product' = 0 /\ replaced' = [c \in Cell!Attached |-> Cell!Seen(c)]
              /\ disturbed' = (disturbed \/ Cell!Attached # {})
    BY <1>4 DEF Cell!MakeSegment, Cell!Go
  <2>2. at'[Producer] = "semget" /\ \A c \in Consumers : at'[c] = at[c]
    BY <1>1, <2>1
  <2>3. Filling' <=> Filling
    BY <2>1, <2>2 DEF Filling
  <2>4. /\ product' \in {0, handed, handed + 1}
        /\ \A c \in DOMAIN replaced' : replaced'[c] \in Nat
        /\ ~disturbed' => ~disturbed /\ DOMAIN replaced' = {}
        /\ disturbed' \in BOOLEAN
    <3>1. CASE shm /\ product' = product /\ replaced' = replaced /\ disturbed' = disturbed
      BY <1>2, <3>1
    <3>2. CASE /\ product' = 0 /\ replaced' = [c \in Cell!Attached |-> Cell!Seen(c)]
               /\ disturbed' = (disturbed \/ Cell!Attached # {})
      <4>1. \A c \in Cell!Attached : Cell!Seen(c) \in Nat
        BY <1>1, <1>2 DEF Cell!Seen
      <4>2. /\ DOMAIN replaced' = Cell!Attached
            /\ \A c \in Cell!Attached : replaced'[c] = Cell!Seen(c)
        BY <3>2
      <4>3. ~disturbed' => ~disturbed /\ Cell!Attached = {}
        BY <3>2
      <4>4. disturbed' \in BOOLEAN
        BY <3>2
      <4> QED
        BY <3>2, <4>1, <4>2, <4>3, <4>4
    <3> QED
      BY <2>1, <3>1, <3>2
  <2>5. LineTypes'
    <3>1. /\ handed \in Nat /\ kills \in Nat /\ output \in Seq(Nat)
      BY LineFacts
    <3> QED
      BY <2>1, <2>2, <2>4, <3>1 DEF LineTypes
  <2>6. CASE disturbed'
    BY <2>5, <2>6 DEF LinesInv
  <2>7. CASE ~disturbed'
    <3>1. ~disturbed /\ DOMAIN replaced' = {} /\ disturbed' = disturbed
      BY <1>2, <2>4, <2>7
    <3>2. Places'
      <4>1. Places
        BY <1>2, <3>1
      <4>2. handed = 0
        BY <2>1, <4>1 DEF Places
      <4> QED
        BY <2>1, <2>2, <4>1, <4>2 DEF Places
    <3> QED
      BY <1>2, <1>3, <2>1, <2>2, <2>3, <2>4, <3>1, <3>2, LinesQuiet
  <2> QED
    BY <2>6, <2>7
<1>5. CASE Cell!MakeSemaphores
  <2>1. /\ at[Producer] = "semget" /\ at' = [at EXCEPT ![Producer] = "SETALL"]
        /\ sems' = (IF sems = "none" THEN "made" ELSE sems)
        /\ product' = product /\ replaced' = replaced /\ Still
    BY <1>5 DEF Cell!MakeSemaphores, Cell!Go, Cell!dataVars, Cell!faultVars
  <2>2. at'[Producer] = "SETALL" /\ \A c \in Consumers : at'[c] = at[c]
    BY <1>1, <2>1
  <2>3. Filling' <=> Filling
    BY <2>1, <2>2 DEF Filling
  <2>4. ~disturbed => Places'
    BY <1>2, <2>1, <2>2 DEF Places
  <2>5. (sems' = "set" <=> sems = "set") /\ (sems' = "removed" <=> sems = "removed")
    BY <2>1
  <2> QED
    BY <1>2, <1>3, <2>1, <2>2, <2>3, <2>4, <2>5, LinesQuiet
<1>6. CASE Cell!SetAll
  BY <1>6, LinesSetAll
<1>7. CASE Cell!AskToWrite
  BY <1>7, LinesAskToWrite
<1>8. CASE Cell!HandOver
  BY <1>8, LinesHandOver
<1>9. CASE Cell!Fill
  <2>1. PICK there \in {"READ", "shmctl"} :
            /\ at[Producer] = "fgets" /\ at' = [at EXCEPT ![Producer] = there]
            /\ product' = IF there = "READ" THEN handed + 1 ELSE product
            /\ sems' = sems /\ replaced' = replaced /\ Still
    BY <1>9 DEF Cell!Fill, Cell!Go, Cell!ipcVars, Cell!faultVars
  <2>2. at'[Producer] = there /\ \A c \in Consumers : at'[c] = at[c]
    BY <1>1, <2>1
  <2>3. Filling' <=> Filling
    BY <2>1, <2>2 DEF Filling
  <2>4. ~disturbed => Places'
    BY <1>2, <2>1, <2>2 DEF Places
  <2>5. product' \in {0, handed, handed + 1} /\ (there = "READ" => product' = handed + 1)
    BY <1>2, <2>1
  <2> QED
    BY <1>2, <1>3, <2>1, <2>2, <2>3, <2>4, <2>5, LinesQuiet
<1>10. CASE Cell!RemoveSegment
  <2>1. /\ at[Producer] = "shmctl" /\ at' = [at EXCEPT ![Producer] = "semctl"]
        /\ sems' = sems /\ product' = product /\ replaced' = replaced /\ Still
    BY <1>10 DEF Cell!RemoveSegment, Cell!Go, Cell!dataVars, Cell!faultVars
  <2>2. at'[Producer] = "semctl" /\ \A c \in Consumers : at'[c] = at[c]
    BY <1>1, <2>1
  <2>3. Filling' <=> Filling
    BY <2>1, <2>2 DEF Filling
  <2>4. ~disturbed => Places'
    BY <1>2, <2>1, <2>2 DEF Places
  <2> QED
    BY <1>2, <1>3, <2>1, <2>2, <2>3, <2>4, LinesQuiet
<1>11. CASE Cell!RemoveSemaphores
  BY <1>11, LinesRemoveSemaphores
<1>12. CASE Cell!Restart
  <2>1. /\ at[Producer] = "killed" /\ at' = [at EXCEPT ![Producer] = "shmget"]
        /\ sems' = sems /\ product' = product /\ replaced' = replaced /\ Still
    BY <1>12 DEF Cell!Restart, Cell!Go, Cell!ipcVars, Cell!dataVars, Cell!faultVars
  <2>2. at'[Producer] = "shmget" /\ \A c \in Consumers : at'[c] = at[c]
    BY <1>1, <2>1
  <2>3. Filling' <=> Filling
    BY <2>1, <2>2 DEF Filling
  <2>4. ~disturbed => Places'
    BY <1>2, <2>1, <2>2 DEF Places
  <2> QED
    BY <1>2, <1>3, <2>1, <2>2, <2>3, <2>4, LinesQuiet
<1>13. ASSUME NEW c \in Consumers, Cell!FindSegment(c) \/ Cell!FindSemaphores(c)
       PROVE  LinesInv'
  <2>1. PICK there \in {"semget", "READ", "ended"} :
            /\ at[c] \in {"shmget", "semget"} /\ at' = [at EXCEPT ![c] = there]
            /\ sems' = sems /\ product' = product /\ replaced' = replaced /\ Still
    BY <1>13 DEF Cell!FindSegment, Cell!FindSemaphores, Cell!Go, Cell!ipcVars,
       Cell!dataVars, Cell!faultVars
  <2>2. /\ at'[c] = there /\ at'[Producer] = at[Producer]
        /\ \A d \in Consumers : d # c => at'[d] = at[d]
    BY <1>1, <2>1
  <2>3. (Filling' <=> Filling) /\ SameRounds
    BY <2>1, <2>2 DEF Filling, InRound
  <2>4. ~disturbed => Places'
    <3>1. \A d \in Consumers : at'[d] = "printf" <=> at[d] = "printf"
      BY <2>3
    <3> QED
      BY <1>2, <2>1, <2>2, <3>1 DEF Places
  <2> QED
    BY <1>2, <2>1, <2>2, <2>3, <2>4, LinesQuiet
<1>14. ASSUME NEW c \in Consumers, Cell!AskToRead(c) PROVE LinesInv'
  BY <1>14, LinesAskToRead
<1>15. ASSUME NEW c \in Consumers, Cell!Printf(c) PROVE LinesInv'
  BY <1>15, LinesPrintf
<1>16. ASSUME NEW c \in Consumers, Cell!GiveBack(c) PROVE LinesInv'
  BY <1>16, LinesGiveBack
<1>17. ASSUME NEW c \in Consumers, Cell!SemopFails(c) PROVE LinesInv'
  BY <1>17, LinesSemopFails
<1>18. ASSUME NEW p \in Cell!Processes, Cell!Kill(p) PROVE LinesInv'
  <2>1. p \in Consumers \/ p = Producer
    BY DEF Cell!Processes
  <2> QED
    BY <1>18, <2>1, LinesKillConsumer, LinesKillProducer
<1>19. CASE Cell!Over
  BY <1>19, LinesFrame DEF Cell!Over, Cell!cellVars, cellVars, Cell!ipcVars, Cell!dataVars,
     Cell!faultVars
<1> QED
  BY <1>4, <1>5, <1>6, <1>7, <1>8, <1>9, <1>10, <1>11, <1>12, <1>13, <1>14, <1>15, <1>16,
     <1>17, <1>18, <1>19 DEF Cell!Next, Cell!Produce, Cell!Consume

-----------------------------------------------------------------------------
(* The shared cell: how large the values get.                              *)

LEMMA HeldTypes ==
    ASSUME CellTypes
    PROVE  /\ HeldBy \in [Consumers -> Nat] /\ GivenBy \in [Consumers -> Nat]
           /\ val["READ"] \in Nat /\ val["WRITE"] \in Nat
           /\ undo[Producer]["READ"] \in Int /\ undo[Producer]["WRITE"] \in Nat
           /\ Producer \notin Consumers
           /\ \A c \in Consumers : /\ undo[c]["READ"] \in Nat /\ -undo[c]["WRITE"] \in Nat
                                   /\ undo[c]["WRITE"] \in Int /\ undo[c]["WRITE"] <= 0
                                   /\ GivenBy[c] = -undo[c]["WRITE"]
                                   /\ HeldBy[c] = Most(undo[c]["READ"], undo[c]["WRITE"], InRound(c))
                                   /\ undo[c]["READ"] <= HeldBy[c] /\ GivenBy[c] <= HeldBy[c]
<1>1. \A c \in Consumers : /\ undo[c]["READ"] \in Nat /\ -undo[c]["WRITE"] \in Nat
                           /\ undo[c]["WRITE"] \in Int /\ undo[c]["WRITE"] <= 0
  BY DEF CellTypes, Cell!Semaphores, Cell!Processes
<1>2. /\ val["READ"] \in Nat /\ val["WRITE"] \in Nat
      /\ undo[Producer]["READ"] \in Int /\ undo[Producer]["WRITE"] \in Nat
  BY DEF CellTypes, Cell!Semaphores, Cell!Processes
<1>3. \A c \in Consumers :
         /\ HeldBy[c] = Most(undo[c]["READ"], undo[c]["WRITE"], InRound(c))
         /\ GivenBy[c] = -undo[c]["WRITE"]
  BY DEF HeldBy, GivenBy
<1>4. ASSUME NEW r \in Nat, NEW w \in Int, w <= 0, NEW b
      PROVE  Most(r, w, b) \in Nat /\ r <= Most(r, w, b) /\ -w <= Most(r, w, b)
  BY <1>4 DEF Most
<1>5. \A c \in Consumers : /\ HeldBy[c] \in Nat
                           /\ undo[c]["READ"] <= HeldBy[c] /\ GivenBy[c] <= HeldBy[c]
  BY <1>1, <1>3, <1>4
<1>6. HeldBy \in [Consumers -> Nat] /\ GivenBy \in [Consumers -> Nat]
  BY <1>1, <1>5 DEF HeldBy, GivenBy
<1> QED
  BY <1>1, <1>2, <1>3, <1>5, <1>6, ProcessesAssumption

\* (And of the next state.)
LEMMA HeldTypesNext ==
    ASSUME CellTypes'
    PROVE  /\ HeldBy' \in [Consumers -> Nat] /\ GivenBy' \in [Consumers -> Nat]
           /\ \A c \in Consumers :
                 HeldBy'[c] = Most(undo'[c]["READ"], undo'[c]["WRITE"], InRound(c)')
           /\ val'["READ"] \in Nat /\ val'["WRITE"] \in Nat
<1>1. \A c \in Consumers : /\ undo'[c]["READ"] \in Nat /\ -undo'[c]["WRITE"] \in Nat
                           /\ undo'[c]["WRITE"] \in Int /\ undo'[c]["WRITE"] <= 0
  BY DEF CellTypes, Cell!Semaphores, Cell!Processes
<1>2. \A c \in Consumers : HeldBy'[c] = Most(undo'[c]["READ"], undo'[c]["WRITE"], InRound(c)')
  BY DEF HeldBy
<1>3. ASSUME NEW r \in Nat, NEW w \in Int, w <= 0, NEW b
      PROVE  Most(r, w, b) \in Nat
  BY <1>3 DEF Most
<1>4. \A c \in Consumers : HeldBy'[c] \in Nat
  BY <1>1, <1>2, <1>3
<1>5. HeldBy' \in [Consumers -> Nat] /\ GivenBy' \in [Consumers -> Nat]
  BY <1>1, <1>4 DEF HeldBy, GivenBy
<1>6. val'["READ"] \in Nat /\ val'["WRITE"] \in Nat
  BY DEF CellTypes, Cell!Semaphores
<1> QED
  BY <1>2, <1>5, <1>6

\* What has been given back is held, and what is held was handed over.
LEMMA ValuesBound ==
    ASSUME CellInv, ValuesInv
    PROVE  /\ Cardinality(Given) \in Nat /\ Cardinality(Held) \in Nat
           /\ Cardinality(Given) <= Cardinality(Held)
           /\ handed \in Nat /\ CellLines \in Nat /\ Kills \in Nat /\ handed <= CellLines
           /\ val["READ"] \in Nat /\ val["WRITE"] \in Nat
           /\ val["READ"] <= CellLines /\ val["WRITE"] <= 2 * CellLines + 2
<1>1. CellTypes /\ sems \in {"none", "made", "set", "removed"}
  BY DEF CellInv, CellTypes
<1>2. /\ HeldBy \in [Consumers -> Nat] /\ GivenBy \in [Consumers -> Nat]
      /\ val["READ"] \in Nat /\ val["WRITE"] \in Nat
      /\ \A c \in Consumers : GivenBy[c] <= HeldBy[c]
  BY <1>1, HeldTypes
<1>3. IsFiniteSet(Held) /\ Cardinality(Given) <= Cardinality(Held)
  BY <1>2, PileSmaller DEF ValuesInv, Held, Given
<1>4. Cardinality(Held) \in Nat /\ Cardinality(Given) \in Nat
  BY <1>3, FS_CardinalityType DEF CellInv
<1>5. CellLines \in Nat /\ Kills \in Nat
  BY BoundsAssumption
<1>6. handed \in Nat /\ handed <= CellLines
  BY <1>5 DEF ValuesInv
<1>7. val["READ"] + Cardinality(Held) <= handed
  BY DEF ValuesInv
<1>8. val["WRITE"] <= 2 * CellLines + 2
  <2>1. CASE Cell!There
    <3>1. val["WRITE"] <= 1 + Cardinality(Given) + IF Restarting THEN CellLines + 1 ELSE 0
      BY <2>1 DEF ValuesInv
    <3> QED
      BY <1>2, <1>3, <1>4, <1>5, <1>6, <1>7, <3>1
  <2>2. CASE ~Cell!There
    BY <1>1, <1>5, <2>2 DEF ValuesInv, Cell!There
  <2> QED
    BY <2>1, <2>2
<1> QED
  BY <1>2, <1>3, <1>4, <1>5, <1>6, <1>7, <1>8

LEMMA ValuesImply == CellInv /\ LinesInv /\ ValuesInv => Cell!TypeOK
<1> SUFFICES ASSUME CellInv, LinesInv, ValuesInv PROVE Cell!TypeOK
  OBVIOUS
<1>1. CellTypes /\ LineTypes
  BY DEF CellInv, LinesInv
<1>2. /\ CellLines \in Nat /\ val["READ"] \in Nat /\ val["WRITE"] \in Nat
      /\ val["READ"] <= CellLines /\ val["WRITE"] <= 2 * CellLines + 2
  BY ValuesBound
<1>3. val["READ"] \in 0 .. 2 * CellLines + 2 /\ val["WRITE"] \in 0 .. 2 * CellLines + 2
  BY <1>2
<1>4. val \in [Cell!Semaphores -> 0 .. 2 * CellLines + 2]
  <2>1. \A s \in Cell!Semaphores : s = "READ" \/ s = "WRITE"
    BY DEF Cell!Semaphores
  <2>2. \A s \in Cell!Semaphores : val[s] \in 0 .. 2 * CellLines + 2
    BY <1>3, <2>1
  <2> QED
    BY <1>1, <2>2 DEF CellTypes
<1> QED
  BY <1>1, <1>4 DEF Cell!TypeOK, CellTypes, LineTypes, ValuesInv

LEMMA ValuesInit == Cell!Init => ValuesInv
<1> SUFFICES ASSUME Cell!Init PROVE ValuesInv
  OBVIOUS
<1>1. /\ at = [p \in Cell!Processes |-> "shmget"] /\ val = Cell!Nothing /\ shm = FALSE
      /\ undo = [p \in Cell!Processes |-> Cell!Nothing] /\ handed = 0 /\ kills = 0
      /\ sems = "none" /\ Producer \in Cell!Processes /\ Consumers \subseteq Cell!Processes
      /\ CellLines \in Nat /\ Kills \in Nat
  BY BoundsAssumption DEF Cell!Init, Cell!Processes
<1>2. /\ val["READ"] = 0 /\ val["WRITE"] = 0 /\ undo[Producer]["WRITE"] = 0
      /\ at[Producer] = "shmget"
      /\ \A c \in Consumers : undo[c]["READ"] = 0 /\ undo[c]["WRITE"] = 0 /\ at[c] = "shmget"
  BY <1>1 DEF Cell!Nothing, Cell!Semaphores
<1>3. \A c \in Consumers : HeldBy[c] = 0
  BY <1>2 DEF HeldBy, Most, InRound
<1>4. IsFiniteSet(Held) /\ Cardinality(Held) = 0
  BY <1>3, PileEmpty DEF Held
<1>5. kills \in 0 .. Kills /\ handed \in 0 .. CellLines /\ val["READ"] + Cardinality(Held) <= handed
  BY <1>1, <1>2, <1>4
<1>6. Restarting /\ undo[Producer]["WRITE"] <= 0
  BY <1>2 DEF Restarting
<1> QED
  BY <1>1, <1>2, <1>4, <1>5, <1>6 DEF ValuesInv, Cell!There

\* A move that leaves the values: nobody holds more, and the producer is where it
\* has as much to undo.
LEMMA ValuesMove ==
    ASSUME CellInv, CellInv', ValuesInv,
           UNCHANGED <<val, undo, handed, kills>>, shm' \in BOOLEAN,
           sems' = sems \/ (sems = "none" /\ sems' = "made") \/ sems' = "removed",
           \A c \in Consumers : InRound(c)' => InRound(c),
           Restarting' <=> Restarting,
           at'[Producer] = "WRITE" => at[Producer] = "WRITE",
           at'[Producer] = "READ" => handed < CellLines
    PROVE  ValuesInv'
<1>1. CellTypes /\ CellTypes'
  BY DEF CellInv
<1>2. HeldBy \in [Consumers -> Nat] /\ HeldBy' \in [Consumers -> Nat]
  BY <1>1, HeldTypes, HeldTypesNext
<1>3. PICK g : g = HeldBy'
  OBVIOUS
<1>4. ASSUME NEW c \in Consumers PROVE g[c] <= HeldBy[c]
  <2>1. /\ HeldBy[c] = Most(undo[c]["READ"], undo[c]["WRITE"], InRound(c))
        /\ undo[c]["READ"] \in Nat /\ undo[c]["WRITE"] \in Int
    BY <1>1, HeldTypes
  <2>2. g[c] = Most(undo[c]["READ"], undo[c]["WRITE"], InRound(c)')
    BY <1>1, <1>3, HeldTypesNext
  <2>3. InRound(c)' => InRound(c)
    OBVIOUS
  <2> QED
    BY <2>1, <2>2, <2>3 DEF Most
<1>5. g \in [Consumers -> Nat] /\ IsFiniteSet(Pile(HeldBy))
  BY <1>2, <1>3 DEF ValuesInv, Held
<1>6. IsFiniteSet(Pile(g)) /\ Cardinality(Pile(g)) <= Cardinality(Pile(HeldBy))
  BY <1>2, <1>4, <1>5, PileSmaller
<1>7. Held' = Pile(g) /\ Held = Pile(HeldBy)
  BY <1>3 DEF Held, Pile
<1>8. Given' = Given
  BY DEF Given, GivenBy, Pile
<1>9. Cardinality(Pile(g)) \in Nat /\ Cardinality(Pile(HeldBy)) \in Nat
  BY <1>5, <1>6, FS_CardinalityType
<1>10. /\ handed \in Nat /\ CellLines \in Nat
       /\ val["READ"] \in Nat /\ val["WRITE"] \in Nat /\ undo[Producer]["WRITE"] \in Nat
       /\ Cardinality(Given) \in Nat /\ val["WRITE"] <= 2 * CellLines + 2
  BY <1>1, HeldTypes, ValuesBound
<1>11. IsFiniteSet(Held)' /\ val'["READ"] + Cardinality(Held') <= handed'
  BY <1>6, <1>7, <1>9, <1>10 DEF ValuesInv
<1>12. undo'[Producer]["WRITE"] <= IF Restarting' THEN 0
                                   ELSE IF at'[Producer] = "WRITE" THEN handed' ELSE handed' + 1
  BY <1>10 DEF ValuesInv
<1>13. Cell!There' => val'["WRITE"] <= 1 + Cardinality(Given')
                                           + IF Restarting' THEN CellLines + 1 ELSE 0
  <2>1. CASE Cell!There
    <3>1. val["WRITE"] <= 1 + Cardinality(Given) + IF Restarting THEN CellLines + 1 ELSE 0
      BY <2>1 DEF ValuesInv
    <3> QED
      BY <1>8, <3>1
  <2>2. CASE sems = "none"
    <3>1. val["WRITE"] = 0
      BY <2>2 DEF ValuesInv
    <3> QED
      BY <1>8, <1>10, <3>1
  <2>3. CASE sems = "removed"
    BY <2>3 DEF Cell!There
  <2> QED
    BY <1>1, <2>1, <2>2, <2>3 DEF CellTypes, Cell!There
<1>14. sems' = "none" => val'["WRITE"] = 0
  BY DEF ValuesInv
<1>15. sems' = "removed" => val'["WRITE"] <= 2 * CellLines + 2
  BY <1>10
<1> QED
  BY <1>11, <1>12, <1>13, <1>14, <1>15 DEF ValuesInv

LEMMA ValuesFrame == CellInv /\ ValuesInv /\ UNCHANGED cellVars => ValuesInv'
<1> SUFFICES ASSUME CellInv, ValuesInv, UNCHANGED cellVars PROVE ValuesInv'
  OBVIOUS
<1>1. CellInv'
  BY CellFrame
<1>2. UNCHANGED <<val, undo, handed, kills, shm, sems, at>>
  BY DEF cellVars
<1>3. /\ \A c \in Consumers : InRound(c)' => InRound(c)
      /\ Restarting' <=> Restarting
  BY <1>2 DEF InRound, Restarting
<1> QED
  BY <1>1, <1>2, <1>3, ValuesMove DEF ValuesInv

\* The semops of the producer: what it takes of WRITE it may undo, what it adds to
\* READ was handed over.
LEMMA ValuesProducer ==
    ASSUME CellInv, ValuesInv, Cell!AskToWrite \/ Cell!HandOver PROVE ValuesInv'
<1>1. Producer \in Cell!Processes /\ Consumers \subseteq Cell!Processes
      /\ "READ" \in Cell!Semaphores /\ "WRITE" \in Cell!Semaphores /\ Producer \notin Consumers
  BY ProcessesAssumption DEF Cell!Processes, Cell!Semaphores
<1>2. /\ Cardinality(Held) \in Nat /\ Cardinality(Given) \in Nat
      /\ handed \in Nat /\ CellLines \in Nat /\ Kills \in Nat
      /\ val["READ"] \in Nat /\ val["WRITE"] \in Nat /\ undo[Producer]["WRITE"] \in Nat
      /\ IsFiniteSet(Held) /\ val["READ"] + Cardinality(Held) <= handed
  BY ValuesBound, HeldTypes DEF CellInv, ValuesInv
<1>3. ASSUME \A q \in Cell!Processes : q # Producer => at'[q] = at[q] /\ undo'[q] = undo[q]
      PROVE  Held' = Held /\ Given' = Given
  <2>1. \A c \in Consumers : undo'[c] = undo[c] /\ InRound(c)' = InRound(c)
    BY <1>1, <1>3 DEF InRound
  <2>2. HeldBy' = HeldBy
    BY <2>1 DEF HeldBy
  <2>3. GivenBy' = GivenBy
    BY <2>1 DEF GivenBy
  <2> QED
    BY <2>2, <2>3 DEF Held, Given, Pile
<1>4. CASE Cell!AskToWrite
  <2>1. /\ at' = [at EXCEPT ![Producer] = "fgets"] /\ at[Producer] = "WRITE"
        /\ Cell!Semop(Producer, "WRITE", -1)
        /\ handed' = handed /\ kills' = kills /\ shm' = shm
    BY <1>4 DEF Cell!AskToWrite, Cell!Go, Cell!dataVars, Cell!faultVars, Cell!Semop
  <2>2. /\ CellTypes' /\ sems' = sems /\ sems # "removed"
        /\ at'[Producer] = "fgets"
        /\ \A q \in Cell!Processes : q # Producer => at'[q] = at[q]
        /\ val'["WRITE"] = val["WRITE"] + (-1)
        /\ val'["READ"] = val["READ"]
        /\ undo'[Producer]["WRITE"] = undo[Producer]["WRITE"] - (-1)
        /\ \A q \in Cell!Processes : q # Producer => undo'[q] = undo[q]
    BY <1>1, <2>1, CellSemop
  <2>3. Held' = Held /\ Given' = Given
    BY <1>3, <2>2
  <2>4. ~Restarting /\ ~Restarting' /\ Cell!There /\ Cell!There'
    BY <2>1, <2>2 DEF Restarting, Cell!Semop, Cell!There
  <2>5. undo'[Producer]["WRITE"] <= handed' + 1
    <3>1. undo[Producer]["WRITE"] <= handed
      BY <2>1, <2>4 DEF ValuesInv
    <3> QED
      BY <1>2, <2>1, <2>2, <3>1
  <2>6. val'["WRITE"] <= 1 + Cardinality(Given')
    <3>1. val["WRITE"] <= 1 + Cardinality(Given)
      BY <1>2, <2>4 DEF ValuesInv
    <3> QED
      BY <1>2, <2>2, <2>3, <3>1
  <2>7. IsFiniteSet(Held') /\ val'["READ"] + Cardinality(Held') <= handed'
    BY <1>2, <2>1, <2>2, <2>3
  <2>8. /\ shm' \in BOOLEAN /\ kills' \in 0 .. Kills /\ handed' \in 0 .. CellLines
        /\ at'[Producer] # "READ" /\ at'[Producer] # "WRITE"
        /\ sems' # "none" /\ sems' # "removed"
    BY <2>1, <2>2, <2>4 DEF ValuesInv, Cell!There
  <2>9. val'["WRITE"] <= 1 + Cardinality(Given') + 0
    BY <1>2, <2>3, <2>6
  <2> QED
    BY <2>4, <2>5, <2>7, <2>8, <2>9 DEF ValuesInv
<1>5. CASE Cell!HandOver
  <2>1. /\ at' = [at EXCEPT ![Producer] = "WRITE"] /\ at[Producer] = "READ"
        /\ Cell!Semop(Producer, "READ", 1)
        /\ handed' = handed + 1 /\ kills' = kills /\ shm' = shm
    BY <1>5 DEF Cell!HandOver, Cell!Go, Cell!faultVars, Cell!Semop
  <2>2. /\ CellTypes' /\ sems' = sems /\ sems # "removed"
        /\ at'[Producer] = "WRITE"
        /\ \A q \in Cell!Processes : q # Producer => at'[q] = at[q]
        /\ val'["READ"] = val["READ"] + 1
        /\ val'["WRITE"] = val["WRITE"]
        /\ undo'[Producer]["WRITE"] = undo[Producer]["WRITE"]
        /\ \A q \in Cell!Processes : q # Producer => undo'[q] = undo[q]
    BY <1>1, <2>1, CellSemop
  <2>3. Held' = Held /\ Given' = Given
    BY <1>3, <2>2
  <2>4. ~Restarting /\ ~Restarting' /\ Cell!There /\ Cell!There'
    BY <2>1, <2>2 DEF Restarting, Cell!Semop, Cell!There
  <2>5. undo'[Producer]["WRITE"] <= handed'
    <3>1. undo[Producer]["WRITE"] <= handed + 1
      BY <2>1, <2>4 DEF ValuesInv
    <3> QED
      BY <1>2, <2>1, <2>2, <3>1
  <2>6. val'["WRITE"] <= 1 + Cardinality(Given') + 0
    BY <2>2, <2>3, <2>4 DEF ValuesInv
  <2>7. IsFiniteSet(Held') /\ val'["READ"] + Cardinality(Held') <= handed'
    BY <1>2, <2>1, <2>2, <2>3
  <2>8. handed < CellLines
    BY <2>1 DEF ValuesInv
  <2>9. /\ shm' \in BOOLEAN /\ kills' \in 0 .. Kills /\ handed' \in 0 .. CellLines
        /\ at'[Producer] # "READ" /\ sems' # "none" /\ sems' # "removed"
    BY <1>2, <2>1, <2>2, <2>4, <2>8 DEF ValuesInv, Cell!There
  <2> QED
    BY <2>2, <2>4, <2>5, <2>6, <2>7, <2>9 DEF ValuesInv
<1> QED
  BY <1>4, <1>5

\* SETALL: nothing would be undone any more.
LEMMA ValuesSetAll == CellInv /\ ValuesInv /\ Cell!SetAll => ValuesInv'
<1> SUFFICES ASSUME CellInv, ValuesInv, Cell!SetAll PROVE ValuesInv'
  OBVIOUS
<1>1. CellInv'
  BY CellSetAll
<1>2. /\ at \in [Cell!Processes -> {"shmget", "semget", "READ", "WRITE", "SETALL", "fgets",
                                    "shmctl", "semctl", "printf"} \cup Cell!Exit]
      /\ Producer \in Cell!Processes /\ Consumers \subseteq Cell!Processes
      /\ at' = [at EXCEPT ![Producer] = "WRITE"] /\ sems' = "set"
      /\ val' = [s \in Cell!Semaphores |-> IF s = "WRITE" THEN 1 ELSE 0]
      /\ undo' = [q \in Cell!Processes |-> Cell!Nothing]
      /\ handed' = handed /\ kills' = kills /\ shm' = shm
  BY DEF CellInv, CellTypes, Cell!Processes, Cell!SetAll, Cell!Go, Cell!dataVars, Cell!faultVars
<1>3. \A q \in Cell!Processes : undo'[q]["READ"] = 0 /\ undo'[q]["WRITE"] = 0
  BY <1>2 DEF Cell!Nothing, Cell!Semaphores
<1>4. val'["WRITE"] = 1 /\ val'["READ"] = 0
  BY <1>2 DEF Cell!Semaphores
<1>5. at'[Producer] = "WRITE" /\ \A c \in Consumers : at'[c] = at[c]
  BY <1>2, ProcessesAssumption
<1>6. HeldBy \in [Consumers -> Nat] /\ HeldBy' \in [Consumers -> Nat]
  BY <1>1, HeldTypes, HeldTypesNext DEF CellInv
<1>7. PICK g : g = HeldBy'
  OBVIOUS
<1>8. ASSUME NEW c \in Consumers PROVE g[c] <= HeldBy[c]
  <2>1. /\ HeldBy[c] = Most(undo[c]["READ"], undo[c]["WRITE"], InRound(c))
        /\ undo[c]["READ"] \in Nat /\ undo[c]["WRITE"] \in Int /\ undo[c]["WRITE"] <= 0
    BY HeldTypes DEF CellInv
  <2>2. g[c] = Most(undo'[c]["READ"], undo'[c]["WRITE"], InRound(c)')
    BY <1>1, <1>7, HeldTypesNext DEF CellInv
  <2>3. undo'[c]["READ"] = 0 /\ undo'[c]["WRITE"] = 0 /\ InRound(c)' = InRound(c)
    BY <1>2, <1>3, <1>5 DEF InRound
  <2> QED
    BY <2>1, <2>2, <2>3 DEF Most
<1>9. g \in [Consumers -> Nat] /\ IsFiniteSet(Pile(HeldBy))
  BY <1>6, <1>7 DEF ValuesInv, Held
<1>10. IsFiniteSet(Pile(g)) /\ Cardinality(Pile(g)) <= Cardinality(Pile(HeldBy))
  BY <1>6, <1>8, <1>9, PileSmaller
<1>11. Held' = Pile(g) /\ Held = Pile(HeldBy)
  BY <1>7 DEF Held, Pile
<1>12. Cardinality(Pile(g)) \in Nat /\ Cardinality(Pile(HeldBy)) \in Nat
  BY <1>9, <1>10, FS_CardinalityType
<1>13. /\ handed \in Nat /\ CellLines \in Nat /\ val["READ"] \in Nat
       /\ val["READ"] + Cardinality(Held) <= handed
  BY ValuesBound DEF ValuesInv
<1>14. IsFiniteSet(Held') /\ val'["READ"] + Cardinality(Held') <= handed'
  BY <1>2, <1>4, <1>10, <1>11, <1>12, <1>13
<1>15. Cardinality(Given') \in Nat
  BY <1>1, FS_CardinalityType DEF CellInv
<1>16. val'["WRITE"] <= 1 + Cardinality(Given') + 0
  BY <1>4, <1>15
<1>17. ~Restarting' /\ undo'[Producer]["WRITE"] <= handed'
  BY <1>2, <1>3, <1>5, <1>13 DEF Restarting
<1>18. /\ shm' \in BOOLEAN /\ kills' \in 0 .. Kills /\ handed' \in 0 .. CellLines
       /\ at'[Producer] # "READ" /\ sems' # "none" /\ sems' # "removed"
  BY <1>2, <1>5 DEF ValuesInv
<1> QED
  BY <1>5, <1>14, <1>16, <1>17, <1>18 DEF ValuesInv

\* A consumer that reads holds one more, and READ is one less.
LEMMA ValuesAskToRead ==
    ASSUME CellInv, ValuesInv, NEW c \in Consumers, Cell!AskToRead(c) PROVE ValuesInv'
<1>1. /\ Producer \in Cell!Processes /\ Consumers \subseteq Cell!Processes /\ Producer # c
      /\ "READ" \in Cell!Semaphores /\ "WRITE" \in Cell!Semaphores
  BY ProcessesAssumption DEF Cell!Processes, Cell!Semaphores
<1>2. /\ at' = [at EXCEPT ![c] = "printf"] /\ at[c] = "READ"
      /\ Cell!Semop(c, "READ", -1)
      /\ handed' = handed /\ kills' = kills /\ shm' = shm
  BY DEF Cell!AskToRead, Cell!Go, Cell!dataVars, Cell!faultVars, Cell!Semop
<1>3. /\ CellTypes' /\ sems' = sems /\ sems # "removed"
      /\ at'[c] = "printf"
      /\ \A q \in Cell!Processes : q # c => at'[q] = at[q]
      /\ val'["READ"] = val["READ"] + (-1)
      /\ val'["WRITE"] = val["WRITE"]
      /\ undo'[c]["READ"] = undo[c]["READ"] - (-1)
      /\ undo'[c]["WRITE"] = undo[c]["WRITE"]
      /\ \A q \in Cell!Processes : q # c => undo'[q] = undo[q]
  <2>1. /\ c \in Cell!Processes /\ -1 \in {1, -1} /\ "READ" # "WRITE"
        /\ "READ" \in Cell!Semaphores /\ "WRITE" \in Cell!Semaphores
        /\ "printf" \in {"READ", "WRITE", "fgets", "printf"}
        /\ c = Producer => -1 = IF "READ" = "READ" THEN 1 ELSE -1
        /\ c \in Consumers => -1 = IF "READ" = "READ" THEN -1 ELSE 1
    BY <1>1
  <2>2. /\ CellTypes' /\ sems' = sems /\ sems # "removed"
        /\ at'[c] = "printf" /\ \A q \in Cell!Processes : q # c => at'[q] = at[q]
        /\ val'["READ"] = val["READ"] + (-1)
        /\ \A r \in Cell!Semaphores : r # "READ" => val'[r] = val[r]
        /\ undo'[c]["READ"] = undo[c]["READ"] - (-1)
        /\ \A r \in Cell!Semaphores : r # "READ" => undo'[c][r] = undo[c][r]
        /\ \A q \in Cell!Processes : q # c => undo'[q] = undo[q]
    BY <1>1, <1>2, <2>1, CellSemop, Zenon
  <2> QED
    BY <1>1, <2>1, <2>2
<1>4. /\ HeldBy \in [Consumers -> Nat] /\ HeldBy' \in [Consumers -> Nat]
      /\ IsFiniteSet(Held) /\ Cardinality(Held) \in Nat /\ Cardinality(Given) \in Nat
      /\ handed \in Nat /\ val["READ"] \in Nat /\ val["WRITE"] \in Nat
      /\ val["READ"] + Cardinality(Held) <= handed
  BY <1>3, HeldTypes, HeldTypesNext, ValuesBound DEF CellInv, ValuesInv
<1>5. HeldBy'[c] = HeldBy[c] + 1
  <2>1. /\ HeldBy[c] = Most(undo[c]["READ"], undo[c]["WRITE"], InRound(c))
        /\ undo[c]["READ"] \in Nat /\ undo[c]["WRITE"] \in Int
    BY HeldTypes DEF CellInv
  <2>2. HeldBy'[c] = Most(undo[c]["READ"] + 1, undo[c]["WRITE"], InRound(c)')
    <3>1. HeldBy'[c] = Most(undo'[c]["READ"], undo'[c]["WRITE"], InRound(c)')
      BY <1>3, HeldTypesNext
    <3>2. undo'[c]["READ"] = undo[c]["READ"] + 1
      BY <1>3, <2>1
    <3> QED
      BY <1>3, <3>1, <3>2
  <2>3. ~InRound(c) /\ InRound(c)'
    BY <1>2, <1>3 DEF InRound
  <2> QED
    BY <2>1, <2>2, <2>3 DEF Most
<1>6. \A d \in Consumers : d # c => HeldBy'[d] = HeldBy[d] /\ GivenBy'[d] = GivenBy[d]
  BY <1>1, <1>3 DEF HeldBy, GivenBy, InRound
<1>7. IsFiniteSet(Held') /\ Cardinality(Held') = Cardinality(Held) + 1
  BY <1>4, <1>5, <1>6, PileGrows DEF Held
<1>8. Given' = Given
  <2>1. GivenBy'[c] = GivenBy[c]
    BY <1>3 DEF GivenBy
  <2>2. GivenBy' = GivenBy
    BY <1>6, <2>1 DEF GivenBy
  <2> QED
    BY <2>2 DEF Given, Pile
<1>9. /\ at'[Producer] = at[Producer] /\ undo'[Producer] = undo[Producer]
      /\ Restarting' = Restarting /\ Cell!There' = Cell!There
  BY <1>1, <1>3 DEF Restarting, Cell!There
<1>10. val'["READ"] + Cardinality(Held') <= handed'
  BY <1>2, <1>3, <1>4, <1>7
<1>11. shm' \in BOOLEAN /\ kills' \in 0 .. Kills /\ handed' \in 0 .. CellLines
  BY <1>2 DEF ValuesInv
<1> QED
  BY <1>2, <1>3, <1>7, <1>8, <1>9, <1>10, <1>11 DEF ValuesInv

\* A consumer that gives back holds as much as before.
LEMMA ValuesGiveBack ==
    ASSUME CellInv, ValuesInv, NEW c \in Consumers, Cell!GiveBack(c) PROVE ValuesInv'
<1>1. /\ Producer \in Cell!Processes /\ Consumers \subseteq Cell!Processes /\ Producer # c
      /\ "READ" \in Cell!Semaphores /\ "WRITE" \in Cell!Semaphores
  BY ProcessesAssumption DEF Cell!Processes, Cell!Semaphores
<1>2. /\ at' = [at EXCEPT ![c] = "READ"] /\ at[c] = "WRITE"
      /\ Cell!Semop(c, "WRITE", 1)
      /\ handed' = handed /\ kills' = kills /\ shm' = shm
  BY DEF Cell!GiveBack, Cell!Go, Cell!dataVars, Cell!faultVars, Cell!Semop
<1>3. /\ CellTypes' /\ sems' = sems /\ sems # "removed"
      /\ at'[c] = "READ"
      /\ \A q \in Cell!Processes : q # c => at'[q] = at[q]
      /\ val'["WRITE"] = val["WRITE"] + 1
      /\ val'["READ"] = val["READ"]
      /\ undo'[c]["WRITE"] = undo[c]["WRITE"] - 1
      /\ undo'[c]["READ"] = undo[c]["READ"]
      /\ \A q \in Cell!Processes : q # c => undo'[q] = undo[q]
  BY <1>1, <1>2, CellSemop
<1>4. /\ GivenBy \in [Consumers -> Nat] /\ GivenBy' \in [Consumers -> Nat]
      /\ HeldBy \in [Consumers -> Nat] /\ HeldBy' \in [Consumers -> Nat]
      /\ IsFiniteSet(Held) /\ Cardinality(Held) \in Nat /\ Cardinality(Given) \in Nat
      /\ IsFiniteSet(Given) /\ CellLines \in Nat
      /\ handed \in Nat /\ val["READ"] \in Nat /\ val["WRITE"] \in Nat
  BY <1>3, HeldTypes, HeldTypesNext, ValuesBound DEF CellInv, ValuesInv
<1>5. undo[c]["READ"] \in Nat /\ undo[c]["WRITE"] \in Int
  BY HeldTypes DEF CellInv
<1>6. HeldBy'[c] = HeldBy[c]
  <2>1. HeldBy[c] = Most(undo[c]["READ"], undo[c]["WRITE"], InRound(c))
    BY HeldTypes DEF CellInv
  <2>2. HeldBy'[c] = Most(undo[c]["READ"], undo[c]["WRITE"] - 1, InRound(c)')
    <3>1. HeldBy'[c] = Most(undo'[c]["READ"], undo'[c]["WRITE"], InRound(c)')
      BY <1>3, HeldTypesNext
    <3> QED
      BY <1>3, <3>1
  <2>3. InRound(c) /\ ~InRound(c)'
    BY <1>2, <1>3 DEF InRound
  <2> QED
    BY <1>5, <2>1, <2>2, <2>3 DEF Most
<1>7. GivenBy'[c] = GivenBy[c] + 1
  BY <1>3, <1>5 DEF GivenBy
<1>8. \A d \in Consumers : d # c => HeldBy'[d] = HeldBy[d] /\ GivenBy'[d] = GivenBy[d]
  BY <1>1, <1>3 DEF HeldBy, GivenBy, InRound
<1>9. Held' = Held
  <2>1. HeldBy' = HeldBy
    BY <1>4, <1>6, <1>8
  <2> QED
    BY <2>1 DEF Held, Pile
<1>10. Cardinality(Given') = Cardinality(Given) + 1
  BY <1>4, <1>7, <1>8, PileGrows DEF Given
<1>11. /\ at'[Producer] = at[Producer] /\ undo'[Producer] = undo[Producer]
       /\ Restarting' = Restarting /\ Cell!There /\ Cell!There'
  BY <1>1, <1>2, <1>3 DEF Restarting, Cell!There, Cell!Semop
<1>12. val'["WRITE"] <= 1 + Cardinality(Given') + IF Restarting' THEN CellLines + 1 ELSE 0
  <2>1. val["WRITE"] <= 1 + Cardinality(Given) + IF Restarting THEN CellLines + 1 ELSE 0
    BY <1>11 DEF ValuesInv
  <2> QED
    BY <1>3, <1>4, <1>10, <1>11, <2>1
<1>13. sems' # "none" /\ sems' # "removed"
  BY <1>11 DEF Cell!There
<1> QED
  BY <1>2, <1>3, <1>9, <1>11, <1>12, <1>13 DEF ValuesInv

\* What the end of a consumer puts back into READ it held, what it takes from WRITE
\* it had given; the end of the producer gives WRITE back at most one more than the
\* lines.
LEMMA ValuesKill ==
    ASSUME CellInv, ValuesInv, NEW p \in Cell!Processes, Cell!Kill(p) PROVE ValuesInv'
<1>1. /\ at \in [Cell!Processes -> {"shmget", "semget", "READ", "WRITE", "SETALL", "fgets",
                                    "shmctl", "semctl", "printf"} \cup Cell!Exit]
      /\ Producer \in Cell!Processes /\ Consumers \subseteq Cell!Processes
      /\ Producer \notin Consumers
      /\ "READ" \in Cell!Semaphores /\ "WRITE" \in Cell!Semaphores
      /\ undo \in [Cell!Processes -> [Cell!Semaphores -> Int]]
      /\ at' = [at EXCEPT ![p] = "killed"]
      /\ undo' = [undo EXCEPT ![p] = Cell!Nothing] /\ sems' = sems
      /\ val' = (IF Cell!There THEN Cell!Undone(p) ELSE val)
      /\ kills < Kills /\ kills' = kills + 1 /\ handed' = handed /\ shm' = shm
  BY ProcessesAssumption
     DEF CellInv, CellTypes, Cell!Processes, Cell!Semaphores, Cell!Kill, Cell!dataVars
<1>2. CellTypes'
  BY CellKill DEF CellInv
<1>3. /\ at'[p] = "killed" /\ \A q \in Cell!Processes : q # p => at'[q] = at[q]
      /\ undo'[p]["READ"] = 0 /\ undo'[p]["WRITE"] = 0
      /\ \A q \in Cell!Processes : q # p => undo'[q] = undo[q]
  BY <1>1 DEF Cell!Nothing
<1>4. /\ GivenBy \in [Consumers -> Nat] /\ GivenBy' \in [Consumers -> Nat]
      /\ HeldBy \in [Consumers -> Nat] /\ HeldBy' \in [Consumers -> Nat]
      /\ IsFiniteSet(Held) /\ Cardinality(Held) \in Nat /\ Cardinality(Given) \in Nat
      /\ IsFiniteSet(Given) /\ CellLines \in Nat /\ Kills \in Nat
      /\ handed \in Nat /\ handed <= CellLines
      /\ val["READ"] \in Nat /\ val["WRITE"] \in Nat
      /\ val["READ"] + Cardinality(Held) <= handed
      /\ undo[Producer]["READ"] \in Int /\ undo[Producer]["WRITE"] \in Nat
  BY <1>2, HeldTypes, HeldTypesNext, ValuesBound DEF CellInv, ValuesInv
<1>5. /\ undo[p]["READ"] \in Int /\ undo[p]["WRITE"] \in Int
      /\ val'["READ"] \in Nat /\ val'["WRITE"] \in Nat
  BY <1>1, <1>2, HeldTypesNext
<1>6. /\ Cell!There =>
             /\ val'["READ"] = IF val["READ"] + undo[p]["READ"] < 0 THEN 0
                               ELSE val["READ"] + undo[p]["READ"]
             /\ val'["WRITE"] = IF val["WRITE"] + undo[p]["WRITE"] < 0 THEN 0
                                ELSE val["WRITE"] + undo[p]["WRITE"]
      /\ ~Cell!There => val' = val
  BY <1>1 DEF Cell!Undone
<1>7. /\ shm' \in BOOLEAN /\ kills' \in 0 .. Kills /\ handed' \in 0 .. CellLines
      /\ sems' = "none" => sems = "none" /\ val'["WRITE"] = 0
      /\ sems' = "removed" => val'["WRITE"] <= 2 * CellLines + 2
  <2>1. shm' \in BOOLEAN /\ kills' \in 0 .. Kills /\ handed' \in 0 .. CellLines
    BY <1>1, <1>4 DEF ValuesInv
  <2>2. sems' = "none" \/ sems' = "removed" => ~Cell!There
    BY <1>1 DEF Cell!There
  <2> QED
    BY <1>1, <1>6, <2>1, <2>2 DEF ValuesInv
<1>8. Cell!There => val["WRITE"] <= 1 + Cardinality(Given) + IF Restarting THEN CellLines + 1 ELSE 0
  BY DEF ValuesInv
<1>9. Cell!There' = Cell!There
  BY <1>1 DEF Cell!There
<1>10. CASE p = Producer
  <2>1. \A c \in Consumers : undo'[c] = undo[c] /\ InRound(c)' = InRound(c)
    BY <1>1, <1>3, <1>10 DEF InRound
  <2>2. HeldBy' = HeldBy /\ GivenBy' = GivenBy
    BY <2>1 DEF HeldBy, GivenBy
  <2>3. Held' = Held /\ Given' = Given
    BY <2>2 DEF Held, Given, Pile
  <2>4. Restarting' /\ at'[Producer] = "killed"
    BY <1>3, <1>10 DEF Restarting
  <2>5. IsFiniteSet(Held') /\ val'["READ"] + Cardinality(Held') <= handed'
    <3>1. val'["READ"] <= val["READ"]
      <4>1. undo[p]["READ"] <= 0
        BY <1>10 DEF CellInv, CellTypes
      <4> QED
        BY <1>4, <1>5, <1>6, <4>1
    <3> QED
      BY <1>1, <1>4, <1>5, <2>3, <3>1
  <2>6. Cell!There' => val'["WRITE"] <= 1 + Cardinality(Given') + (CellLines + 1)
    <3> SUFFICES ASSUME Cell!There PROVE val'["WRITE"] <= 1 + Cardinality(Given) + (CellLines + 1)
      BY <1>9, <2>3
    <3>1. val'["WRITE"] = val["WRITE"] + undo[Producer]["WRITE"]
      BY <1>4, <1>6, <1>10
    <3>2. CASE Restarting
      <4>1. undo[Producer]["WRITE"] <= 0 /\ val["WRITE"] <= 1 + Cardinality(Given) + (CellLines + 1)
        BY <1>8, <3>2 DEF ValuesInv
      <4> QED
        BY <1>4, <3>1, <4>1
    <3>3. CASE ~Restarting
      <4>1. undo[Producer]["WRITE"] <= handed + 1
        BY <1>4, <3>3 DEF ValuesInv
      <4>2. val["WRITE"] <= 1 + Cardinality(Given)
        BY <1>4, <1>8, <3>3
      <4> QED
        BY <1>4, <3>1, <4>1, <4>2
    <3> QED
      BY <3>2, <3>3
  <2>7. undo'[Producer]["WRITE"] <= 0 /\ at'[Producer] # "READ"
    BY <1>3, <1>10, <2>4
  <2> QED
    BY <1>7, <2>4, <2>5, <2>6, <2>7 DEF ValuesInv
<1>11. CASE p \in Consumers
  <2>1. /\ undo[p]["READ"] \in Nat /\ -undo[p]["WRITE"] \in Nat
        /\ GivenBy[p] = -undo[p]["WRITE"] /\ undo[p]["READ"] <= HeldBy[p]
    BY <1>11, HeldTypes DEF CellInv
  <2>2. /\ at'[Producer] = at[Producer] /\ undo'[Producer] = undo[Producer]
        /\ Restarting' = Restarting
    BY <1>1, <1>3, <1>11 DEF Restarting
  <2>3. GivenBy'[p] = 0 /\ HeldBy'[p] = 0
    <3>1. HeldBy'[p] = Most(undo'[p]["READ"], undo'[p]["WRITE"], InRound(p)')
      BY <1>2, <1>11, HeldTypesNext
    <3>2. ~InRound(p)'
      BY <1>3 DEF InRound
    <3>3. HeldBy'[p] = 0
      BY <1>3, <3>1, <3>2 DEF Most
    <3>4. \A n \in Int : -n = 0 - n
      OBVIOUS
    <3>5. GivenBy'[p] = 0
      BY <1>3, <1>11, <3>4 DEF GivenBy
    <3> QED
      BY <3>3, <3>5
  <2>4. \A d \in Consumers : d # p => HeldBy'[d] = HeldBy[d] /\ GivenBy'[d] = GivenBy[d]
    BY <1>1, <1>3 DEF HeldBy, GivenBy, InRound
  <2>5. IsFiniteSet(Held') /\ Cardinality(Held') = Cardinality(Held) - HeldBy[p]
    BY <1>4, <1>11, <2>3, <2>4, PileGone DEF Held
  <2>6. IsFiniteSet(Given') /\ Cardinality(Given') = Cardinality(Given) - GivenBy[p]
    BY <1>4, <1>11, <2>3, <2>4, PileGone DEF Given
  <2>7. HeldBy[p] \in Nat /\ Cardinality(Held') \in Nat /\ Cardinality(Given') \in Nat
    BY <1>4, <1>11, <2>5, <2>6, FS_CardinalityType
  <2>8. val'["READ"] <= val["READ"] + undo[p]["READ"]
    BY <1>4, <1>5, <1>6, <2>1
  <2>9. val'["READ"] + Cardinality(Held') <= handed'
    BY <1>1, <1>4, <1>5, <2>1, <2>5, <2>7, <2>8
  <2>10. Cell!There' => val'["WRITE"] <= 1 + Cardinality(Given')
                                             + IF Restarting' THEN CellLines + 1 ELSE 0
    <3> SUFFICES ASSUME Cell!There
                 PROVE  val'["WRITE"] <= 1 + Cardinality(Given')
                                           + IF Restarting THEN CellLines + 1 ELSE 0
      BY <1>9, <2>2
    <3>1. PICK most \in Nat : most = IF Restarting THEN CellLines + 1 ELSE 0
      BY <1>4
    <3>2. val["WRITE"] <= 1 + Cardinality(Given) + most
      BY <1>8, <3>1
    <3>3. val'["WRITE"] = IF val["WRITE"] + undo[p]["WRITE"] < 0 THEN 0
                          ELSE val["WRITE"] + undo[p]["WRITE"]
      BY <1>6
    <3>4. val'["WRITE"] <= 1 + Cardinality(Given') + most
      BY <1>4, <1>5, <2>1, <2>6, <2>7, <3>1, <3>2, <3>3
    <3> QED
      BY <3>1, <3>4
  <2>11. undo'[Producer]["WRITE"] <= IF Restarting' THEN 0
                                     ELSE IF at'[Producer] = "WRITE" THEN handed' ELSE handed' + 1
    BY <1>1, <2>2 DEF ValuesInv
  <2>12. at'[Producer] = "READ" => handed' < CellLines
    BY <1>1, <2>2 DEF ValuesInv
  <2> QED
    BY <1>7, <2>5, <2>9, <2>10, <2>11, <2>12 DEF ValuesInv
<1> QED
  BY <1>10, <1>11 DEF Cell!Processes

LEMMA ValuesStep == CellInv /\ ValuesInv /\ Cell!Next => ValuesInv'
<1> SUFFICES ASSUME CellInv, ValuesInv, Cell!Next PROVE ValuesInv'
  OBVIOUS
<1>1. CellInv' /\ CellTypes /\ shm \in BOOLEAN
  BY CellStep DEF CellInv, ValuesInv
<1>2. /\ at \in [Cell!Processes -> {"shmget", "semget", "READ", "WRITE", "SETALL", "fgets",
                                    "shmctl", "semctl", "printf"} \cup Cell!Exit]
      /\ Producer \in Cell!Processes /\ Consumers \subseteq Cell!Processes
      /\ Producer \notin Consumers
  BY <1>1, ProcessesAssumption DEF CellTypes, Cell!Processes
\* The producer goes on without a semop.
<1>3. ASSUME NEW there, at' = [at EXCEPT ![Producer] = there],
             UNCHANGED <<val, undo, handed, kills>>, shm' \in BOOLEAN,
             sems' = sems \/ (sems = "none" /\ sems' = "made") \/ sems' = "removed",
             Restarting' <=> Restarting, there # "WRITE", there = "READ" => handed < CellLines
      PROVE  ValuesInv'
  <2>1. at'[Producer] = there /\ \A c \in Consumers : at'[c] = at[c]
    BY <1>2, <1>3
  <2>2. \A c \in Consumers : InRound(c)' => InRound(c)
    BY <2>1 DEF InRound
  <2> QED
    BY <1>1, <1>3, <2>1, <2>2, ValuesMove
\* And a consumer.
<1>4. ASSUME NEW c \in Consumers, NEW there, at' = [at EXCEPT ![c] = there],
             UNCHANGED <<val, undo, handed, kills, shm, sems>>,
             there \in {"printf", "WRITE"} => InRound(c)
      PROVE  ValuesInv'
  <2>1. at'[c] = there /\ \A q \in Cell!Processes : q # c => at'[q] = at[q]
    BY <1>2, <1>4
  <2>2. at'[Producer] = at[Producer]
    BY <1>2, <2>1
  <2>3. \A d \in Consumers : InRound(d)' => InRound(d)
    BY <1>2, <1>4, <2>1 DEF InRound
  <2>4. Restarting' <=> Restarting
    BY <2>2 DEF Restarting
  <2>5. at'[Producer] = "READ" => handed < CellLines
    BY <2>2 DEF ValuesInv
  <2> QED
    BY <1>1, <1>4, <2>2, <2>3, <2>4, <2>5, ValuesMove
<1>5. CASE Cell!MakeSegment \/ Cell!MakeSemaphores \/ Cell!Restart
  <2>1. PICK there \in {"shmget", "semget", "SETALL"} :
           /\ at' = [at EXCEPT ![Producer] = there]
           /\ at[Producer] \in {"shmget", "semget", "killed"}
           /\ UNCHANGED <<val, undo, handed, kills>> /\ shm' \in BOOLEAN
           /\ sems' = sems \/ (sems = "none" /\ sems' = "made")
    BY <1>1, <1>5 DEF Cell!MakeSegment, Cell!MakeSemaphores, Cell!Restart, Cell!Go,
       Cell!ipcVars, Cell!dataVars, Cell!faultVars
  <2>2. Restarting /\ Restarting'
    BY <1>2, <2>1 DEF Restarting
  <2> QED
    BY <1>3, <2>1, <2>2
<1>6. CASE Cell!Fill
  <2>1. PICK there \in {"READ", "shmctl"} :
           /\ at' = [at EXCEPT ![Producer] = there] /\ at[Producer] = "fgets"
           /\ UNCHANGED <<val, undo, handed, kills, shm, sems>>
           /\ there = "READ" => handed < CellLines
    BY <1>6 DEF Cell!Fill, Cell!Go, Cell!ipcVars, Cell!faultVars
  <2>2. ~Restarting /\ ~Restarting'
    BY <1>2, <2>1 DEF Restarting
  <2> QED
    BY <1>1, <1>3, <2>1, <2>2
<1>7. CASE Cell!RemoveSegment \/ Cell!RemoveSemaphores
  <2>1. PICK there \in {"semctl", "ended"} :
           /\ at' = [at EXCEPT ![Producer] = there] /\ at[Producer] \in {"shmctl", "semctl"}
           /\ UNCHANGED <<val, undo, handed, kills>> /\ shm' \in BOOLEAN
           /\ sems' = sems \/ sems' = "removed"
    BY <1>1, <1>7 DEF Cell!RemoveSegment, Cell!RemoveSemaphores, Cell!Go,
       Cell!dataVars, Cell!faultVars
  <2>2. ~Restarting /\ ~Restarting'
    BY <1>2, <2>1 DEF Restarting
  <2> QED
    BY <1>3, <2>1, <2>2
<1>8. CASE Cell!SetAll
  BY <1>8, ValuesSetAll
<1>9. CASE Cell!AskToWrite \/ Cell!HandOver
  BY <1>9, ValuesProducer
<1>10. ASSUME NEW c \in Consumers, Cell!FindSegment(c) \/ Cell!FindSemaphores(c)
       PROVE  ValuesInv'
  <2>1. PICK there \in {"semget", "READ", "ended"} :
            /\ at' = [at EXCEPT ![c] = there]
            /\ UNCHANGED <<val, undo, handed, kills, shm, sems>>
    BY <1>10 DEF Cell!FindSegment, Cell!FindSemaphores, Cell!Go, Cell!ipcVars,
       Cell!dataVars, Cell!faultVars
  <2> QED
    BY <1>4, <2>1
<1>11. ASSUME NEW c \in Consumers, Cell!Printf(c) PROVE ValuesInv'
  <2>1. /\ at' = [at EXCEPT ![c] = "WRITE"] /\ InRound(c)
        /\ UNCHANGED <<val, undo, handed, kills, shm, sems>>
    BY <1>11 DEF Cell!Printf, Cell!Go, Cell!ipcVars, Cell!faultVars, InRound
  <2> QED
    BY <1>4, <2>1
<1>12. ASSUME NEW c \in Consumers, Cell!SemopFails(c) PROVE ValuesInv'
  <2>1. /\ at' = [at EXCEPT ![c] = "ended"]
        /\ UNCHANGED <<val, undo, handed, kills, shm, sems>>
    BY <1>12 DEF Cell!SemopFails, Cell!Go, Cell!ipcVars, Cell!dataVars, Cell!faultVars
  <2> QED
    BY <1>4, <2>1
<1>13. ASSUME NEW c \in Consumers, Cell!AskToRead(c) \/ Cell!GiveBack(c) PROVE ValuesInv'
  BY <1>13, ValuesAskToRead, ValuesGiveBack
<1>14. ASSUME NEW p \in Cell!Processes, Cell!Kill(p) PROVE ValuesInv'
  BY <1>14, ValuesKill
<1>15. CASE Cell!Over
  BY <1>15, ValuesFrame DEF Cell!Over, Cell!cellVars, cellVars, Cell!ipcVars, Cell!dataVars,
     Cell!faultVars
<1> QED
  BY <1>5, <1>6, <1>7, <1>8, <1>9, <1>10, <1>11, <1>12, <1>13, <1>14, <1>15
     DEF Cell!Next, Cell!Produce, Cell!Consume

-----------------------------------------------------------------------------
(* The status queue.                                                       *)

\* The codes of the texts, and the order in which a slave sends them.
LEMMA Codes ==
    /\ Status!R = 0 /\ Status!F \in Int /\ Status!F < 0 /\ StatusLines \in Nat
    /\ Status!R \in Status!F .. StatusLines /\ Status!F \in Status!F .. StatusLines
    /\ \A n \in 0 .. StatusLines : n \in Status!F .. StatusLines
    /\ \A t \in Status!F .. StatusLines :
          /\ t \in Int /\ t <= StatusLines
          /\ t = Status!F \/ t = Status!R \/ t > 0
    /\ Rank(Status!F) = StatusLines + 1
    /\ \A t \in Status!F .. StatusLines :
          t # Status!F => Rank(t) = t /\ t >= 0 /\ Rank(t) < Rank(Status!F)
<1>1. Status!F \in Int /\ Status!F < 0 /\ StatusLines \in Nat /\ Status!F = 0 - 1
  BY BoundsAssumption DEF Status!F
<1>2. Status!R = 0
  BY DEF Status!R
<1> QED
  BY <1>1, <1>2 DEF Rank

LEMMA MessageParts ==
    ASSUME NEW m \in Status!Messages
    PROVE  /\ m = [from |-> m.from, text |-> m.text]
           /\ m.from \in Reporters /\ m.text \in Status!F .. StatusLines
BY DEF Status!Messages

\* A message is sent ...
LEMMA QueueGrows ==
    ASSUME queue \in Seq(Status!Messages), NEW s \in Reporters,
           NEW text \in Status!F .. StatusLines,
           queue' = Append(queue, [from |-> s, text |-> text])
    PROVE  /\ queue' \in Seq(Status!Messages)
           /\ \A r, t : InQueue(r, t)' <=> InQueue(r, t) \/ (r = s /\ t = text)
           /\ InOrder /\ (\A t \in Status!F .. StatusLines :
                             InQueue(s, t) => Rank(t) < Rank(text)) => InOrder'
<1> DEFINE m == [from |-> s, text |-> text]
           n == Len(queue)
<1>1. m \in Status!Messages /\ m.from = s /\ m.text = text
  BY DEF Status!Messages
<1>2. \A r, t : m = [from |-> r, text |-> t] <=> r = s /\ t = text
  OBVIOUS
<1> HIDE DEF m
<1>3. /\ queue' \in Seq(Status!Messages) /\ n \in Nat
      /\ DOMAIN queue = 1 .. n /\ DOMAIN queue' = 1 .. n + 1
      /\ \A k \in 1 .. n : queue'[k] = queue[k]
      /\ queue'[n + 1] = m
  BY <1>1 DEF m
<1> HIDE DEF n
<1>4. \A k \in DOMAIN queue' : k \in DOMAIN queue \/ k = n + 1
  BY <1>3
<1>5. n + 1 \in DOMAIN queue' /\ \A k \in DOMAIN queue : k \in DOMAIN queue'
  BY <1>3
<1>6. ASSUME NEW r, NEW t PROVE InQueue(r, t)' <=> InQueue(r, t) \/ (r = s /\ t = text)
  <2>1. InQueue(r, t)' => InQueue(r, t) \/ m = [from |-> r, text |-> t]
    BY <1>3, <1>4 DEF InQueue
  <2>2. InQueue(r, t) => InQueue(r, t)'
    BY <1>3, <1>5 DEF InQueue
  <2>3. m = [from |-> r, text |-> t] => InQueue(r, t)'
    BY <1>3, <1>5 DEF InQueue
  <2> QED
    BY <1>2, <2>1, <2>2, <2>3
<1>7. ASSUME InOrder, \A t \in Status!F .. StatusLines : InQueue(s, t) => Rank(t) < Rank(text)
      PROVE  InOrder'
  <2> SUFFICES ASSUME NEW j \in DOMAIN queue', NEW k \in DOMAIN queue', j < k,
                      queue'[j].from = queue'[k].from
               PROVE  Rank(queue'[j].text) < Rank(queue'[k].text)
    BY DEF InOrder, Rank
  <2>1. j \in DOMAIN queue /\ queue'[j] = queue[j] /\ queue[j] \in Status!Messages
    BY <1>3
  <2>2. CASE k \in DOMAIN queue
    BY <1>3, <1>7, <2>1, <2>2 DEF InOrder
  <2>3. CASE k = n + 1
    <3>1. queue[j] = [from |-> s, text |-> queue[j].text]
          /\ queue[j].text \in Status!F .. StatusLines
      BY <1>1, <1>3, <2>1, <2>3, MessageParts
    <3>2. InQueue(s, queue[j].text)
      BY <2>1, <3>1 DEF InQueue
    <3> QED
      BY <1>1, <1>3, <1>7, <2>1, <2>3, <3>1, <3>2
  <2> QED
    BY <1>4, <2>2, <2>3
<1> QED
  BY <1>3, <1>6, <1>7

\* ... and one is received.
LEMMA QueueShrinks ==
    ASSUME queue \in Seq(Status!Messages), queue # <<>>, queue' = Tail(queue),
           NEW s, NEW text, s = Head(queue).from, text = Head(queue).text
    PROVE  /\ queue' \in Seq(Status!Messages)
           /\ s \in Reporters /\ text \in Status!F .. StatusLines
           /\ \A r, t : InQueue(r, t) <=> InQueue(r, t)' \/ (r = s /\ t = text)
           /\ InOrder => /\ InOrder'
                         /\ \A t \in Status!F .. StatusLines :
                               InQueue(s, t)' => Rank(text) < Rank(t)
<1> DEFINE n == Len(queue)
<1>1. /\ queue' \in Seq(Status!Messages) /\ n \in Nat /\ n >= 1
      /\ DOMAIN queue = 1 .. n /\ DOMAIN queue' = 1 .. n - 1
      /\ \A k \in 1 .. n - 1 : queue'[k] = queue[k + 1]
      /\ Head(queue) = queue[1] /\ queue[1] \in Status!Messages
  OBVIOUS
<1> HIDE DEF n
<1>2. /\ queue[1] = [from |-> s, text |-> text]
      /\ s \in Reporters /\ text \in Status!F .. StatusLines
  BY <1>1, MessageParts
<1>3. /\ 1 \in DOMAIN queue
      /\ \A k \in DOMAIN queue : k = 1 \/ (k - 1 \in DOMAIN queue' /\ queue'[k - 1] = queue[k])
      /\ \A k \in DOMAIN queue' : k + 1 \in DOMAIN queue /\ queue'[k] = queue[k + 1] /\ k \in Int
                                  /\ 1 < k + 1
  BY <1>1
<1>4. \A r, t : [from |-> s, text |-> text] = [from |-> r, text |-> t] <=> r = s /\ t = text
  OBVIOUS
<1>5. ASSUME NEW r, NEW t PROVE InQueue(r, t) <=> InQueue(r, t)' \/ (r = s /\ t = text)
  <2>1. InQueue(r, t)' => InQueue(r, t)
    BY <1>3 DEF InQueue
  <2>2. InQueue(r, t) => InQueue(r, t)' \/ queue[1] = [from |-> r, text |-> t]
    <3> SUFFICES ASSUME NEW k \in DOMAIN queue, queue[k] = [from |-> r, text |-> t]
                 PROVE  InQueue(r, t)' \/ queue[1] = [from |-> r, text |-> t]
      BY DEF InQueue
    <3>1. CASE k = 1
      BY <3>1
    <3>2. CASE k - 1 \in DOMAIN queue' /\ queue'[k - 1] = queue[k]
      BY <3>2 DEF InQueue
    <3> QED
      BY <1>3, <3>1, <3>2
  <2>3. queue[1] = [from |-> r, text |-> t] => InQueue(r, t)
    BY <1>3 DEF InQueue
  <2> QED
    BY <1>2, <1>4, <2>1, <2>2, <2>3
<1>6. ASSUME InOrder PROVE InOrder'
  <2> SUFFICES ASSUME NEW j \in DOMAIN queue', NEW k \in DOMAIN queue', j < k,
                      queue'[j].from = queue'[k].from
               PROVE  Rank(queue'[j].text) < Rank(queue'[k].text)
    BY DEF InOrder, Rank
  <2>1. /\ j + 1 \in DOMAIN queue /\ k + 1 \in DOMAIN queue /\ j + 1 < k + 1
        /\ queue'[j] = queue[j + 1] /\ queue'[k] = queue[k + 1]
    BY <1>3
  <2> QED
    BY <1>6, <2>1 DEF InOrder
<1>7. ASSUME InOrder, NEW t \in Status!F .. StatusLines, InQueue(s, t)'
      PROVE  Rank(text) < Rank(t)
  <2>1. PICK k \in DOMAIN queue' : queue'[k] = [from |-> s, text |-> t]
    BY <1>7 DEF InQueue
  <2>2. k + 1 \in DOMAIN queue /\ 1 < k + 1 /\ queue[k + 1] = [from |-> s, text |-> t]
    BY <1>3, <2>1
  <2>3. queue[1].from = s /\ queue[k + 1].from = s /\ queue[1].text = text /\ queue[k + 1].text = t
    BY <1>2, <2>2
  <2> QED
    BY <1>3, <1>7, <2>2, <2>3 DEF InOrder
<1> QED
  BY <1>1, <1>2, <1>5, <1>6, <1>7

LEMMA StatusImplies == StatusInv => Status!AllHeard
<1> SUFFICES ASSUME StatusInv, master = "msgctl", ~interrupted, stray = {}
             PROVE  /\ \A s \in known : slave[s] = "ended" /\ printed_lines[s] = line_no[s]
                    /\ \A k \in DOMAIN queue : queue[k].from \notin known
                    /\ \A s \in Reporters \ known :
                          /\ printed_lines[s] = 0
                          /\ slave[s] \in {"fgets", "line", "F"} =>
                                 [from |-> s, text |-> Status!R] \in Status!Range(queue)
  BY DEF Status!AllHeard
<1>1. Orderly /\ Counted /\ alive = 0 /\ StatusTypes
  BY DEF StatusInv
<1>2. Live = {}
  BY <1>1, FS_EmptySet DEF Counted
<1>3. ASSUME NEW s \in known
      PROVE  s \in Reporters /\ slave[s] = "ended" /\ ~InQueue(s, Status!F)
  BY <1>1, <1>2, <1>3 DEF Live, StatusTypes
<1>4. ASSUME NEW s \in known PROVE printed_lines[s] = line_no[s]
  <2>1. line_no[s] = printed_lines[s] \/ InQueue(s, line_no[s])
    BY <1>1, <1>3 DEF Orderly, Reported
  <2>2. line_no[s] \in 0 .. StatusLines
    BY <1>1, <1>3 DEF StatusTypes
  <2>3. line_no[s] \in Status!F .. StatusLines
    BY <2>2, Codes
  <2>4. ~InQueue(s, line_no[s])
    BY <1>1, <1>3, <2>3 DEF Orderly, Waiting
  <2> QED
    BY <2>1, <2>4
<1>5. ASSUME NEW k \in DOMAIN queue, queue[k].from \in known PROVE FALSE
  <2>1. PICK s, text : s = queue[k].from /\ text = queue[k].text
    OBVIOUS
  <2>2. /\ queue[k] = [from |-> s, text |-> text] /\ text \in Status!F .. StatusLines
    <3>1. queue[k] \in Status!Messages
      BY <1>1 DEF StatusTypes
    <3> QED
      BY <2>1, <3>1, MessageParts
  <2>3. InQueue(s, text)
    BY <2>2 DEF InQueue
  <2> QED
    BY <1>1, <1>3, <1>5, <2>1, <2>2, <2>3 DEF Orderly, Waiting
<1>6. ASSUME NEW s \in Reporters \ known PROVE printed_lines[s] = 0
  BY <1>1 DEF Orderly, Reported
<1>7. ASSUME NEW s \in Reporters \ known, slave[s] \in {"fgets", "line", "F"}
      PROVE  [from |-> s, text |-> Status!R] \in Status!Range(queue)
  <2>1. InQueue(s, Status!R)
    BY <1>1, <1>7 DEF Orderly, Reported
  <2> QED
    BY <2>1 DEF InQueue, Status!Range
<1> QED
  BY <1>3, <1>4, <1>5, <1>6, <1>7

LEMMA StatusInit == Status!Init => StatusInv
<1> SUFFICES ASSUME Status!Init PROVE StatusInv
  OBVIOUS
<1>1. <<>> \in Seq(Status!Messages)
  OBVIOUS
<1>2. StatusTypes
  <2>1. 0 \in 0 .. StatusLines /\ 0 \in Nat
    BY Codes
  <2>2. /\ printed_lines = [s \in Reporters |-> 0] /\ line_no = [s \in Reporters |-> 0]
        /\ slave = [s \in Reporters |-> "msgget"] /\ queue = <<>> /\ master = "msgget"
        /\ found = FALSE /\ alive = 0 /\ interrupted = FALSE /\ known = {} /\ stray = {}
    BY DEF Status!Init
  <2>3. /\ printed_lines \in [Reporters -> 0 .. StatusLines]
        /\ line_no \in [Reporters -> 0 .. StatusLines]
    BY <2>1, <2>2
  <2> QED
    BY <1>1, <2>1, <2>2, <2>3 DEF StatusTypes
<1> QED
  BY <1>2 DEF Status!Init, StatusInv

LEMMA StatusFrame == StatusInv /\ UNCHANGED statusVars => StatusInv'
<1> SUFFICES ASSUME StatusInv, UNCHANGED statusVars PROVE StatusInv'
  OBVIOUS
<1>1. /\ found' = found /\ queue' = queue /\ master' = master /\ alive' = alive
      /\ printed_lines' = printed_lines /\ interrupted' = interrupted /\ known' = known
      /\ slave' = slave /\ line_no' = line_no /\ stray' = stray
  BY DEF statusVars
<1>2. StatusTypes'
  BY <1>1 DEF StatusInv, StatusTypes
<1>3. Orderly' <=> Orderly
  BY <1>1 DEF Orderly, InOrder, Waiting, Reported, InQueue, Rank
<1>4. Counted' <=> Counted
  BY <1>1 DEF Counted, Live, InQueue
<1> QED
  BY <1>1, <1>2, <1>3, <1>4 DEF StatusInv

LEMMA StatusTypesKept == StatusTypes /\ Status!Next => StatusTypes'
<1> SUFFICES ASSUME StatusTypes, Status!Next PROVE StatusTypes'
  OBVIOUS
<1> DEFINE At == {"msgget", "R", "fgets", "line", "F", "ended", "killed"}
<1>1. /\ master \in {"msgget", "signal", "msgrcv", "msgctl", "ended", "killed"}
      /\ queue \in Seq(Status!Messages) /\ alive \in Nat /\ slave \in [Reporters -> At]
      /\ printed_lines \in [Reporters -> 0 .. StatusLines]
      /\ line_no \in [Reporters -> 0 .. StatusLines]
      /\ known \subseteq Reporters /\ stray \subseteq Reporters
      /\ interrupted \in BOOLEAN /\ found \in BOOLEAN
      /\ master \in {"signal", "msgrcv", "msgctl"} => found
  BY DEF StatusTypes
<1>2. master = "msgget" =>
          /\ queue = <<>> /\ known = {} /\ alive = 0 /\ ~found
          /\ \A s \in Reporters : /\ slave[s] \in {"msgget", "ended"}
                                  /\ line_no[s] = 0 /\ printed_lines[s] = 0
  BY DEF StatusTypes
<1>3. CASE Status!MakeQueue
  BY <1>1, <1>3 DEF Status!MakeQueue, Status!slaveVars, StatusTypes
<1>4. CASE Status!InstallHandler
  BY <1>1, <1>4 DEF Status!InstallHandler, Status!slaveVars, Status!queueVars, StatusTypes
<1>5. CASE Status!RemoveQueue
  <2>1. <<>> \in Seq(Status!Messages)
    OBVIOUS
  <2> QED
    BY <1>1, <1>5, <2>1 DEF Status!RemoveQueue, Status!slaveVars, StatusTypes
<1>6. CASE Status!Interrupt
  BY <1>1, <1>6 DEF Status!Interrupt, Status!slaveVars, Status!queueVars, StatusTypes
<1>7. CASE Status!Receive
  <2>1. /\ master = "msgrcv" /\ queue # <<>> /\ queue' = Tail(queue)
        /\ found' = found /\ interrupted' = interrupted /\ slave' = slave
        /\ line_no' = line_no /\ stray' = stray
        /\ \/ Status!ReceiveF(Head(queue)) \/ Status!ReceiveR(Head(queue))
           \/ Status!ReceiveLine(Head(queue))
    BY <1>7 DEF Status!Receive, Status!slaveVars
  <2>2. queue' \in Seq(Status!Messages) /\ Head(queue) \in Status!Messages
    BY <1>1, <2>1
  <2>3. Head(queue).from \in Reporters /\ Head(queue).text \in Status!F .. StatusLines
    BY <2>2, MessageParts
  <2>4. /\ master' \in {"msgrcv", "msgctl"} /\ alive' \in Nat /\ known' \subseteq Reporters
        /\ printed_lines' \in [Reporters -> 0 .. StatusLines]
    <3>1. CASE Status!ReceiveF(Head(queue))
      BY <1>1, <2>1, <3>1 DEF Status!ReceiveF
    <3>2. CASE Status!ReceiveR(Head(queue))
      BY <1>1, <2>1, <2>3, <3>2 DEF Status!ReceiveR, Status!CountOneMore
    <3>3. CASE Status!ReceiveLine(Head(queue))
      <4>1. /\ master' = master /\ alive' = alive /\ known' = known
            /\ printed_lines' = IF Head(queue).text = Status!F THEN printed_lines
                                ELSE [printed_lines EXCEPT ![Head(queue).from] = Head(queue).text]
            /\ Head(queue).text # Status!R
        BY <3>3 DEF Status!ReceiveLine
      <4>2. Head(queue).text # Status!F => Head(queue).text \in 0 .. StatusLines
        BY <2>3, <4>1, Codes
      <4> QED
        BY <1>1, <2>1, <4>1, <4>2
    <3> QED
      BY <2>1, <3>1, <3>2, <3>3
  <2>5. master' # "msgget"
    BY <2>4
  <2> QED
    BY <1>1, <2>1, <2>2, <2>4, <2>5 DEF StatusTypes
<1>8. ASSUME NEW s \in Reporters, Status!FindQueue(s) PROVE StatusTypes'
  <2>1. /\ slave' = [slave EXCEPT ![s] = IF found THEN "R" ELSE "ended"]
        /\ queue' = queue /\ found' = found /\ line_no' = line_no /\ stray' = stray
        /\ master' = master /\ alive' = alive /\ printed_lines' = printed_lines
        /\ interrupted' = interrupted /\ known' = known
    BY <1>8 DEF Status!FindQueue, Status!Go, Status!queueVars, Status!masterVars
  <2>2. slave' \in [Reporters -> At]
    BY <1>1, <2>1
  <2>3. master = "msgget" => \A r \in Reporters : slave'[r] \in {"msgget", "ended"}
    BY <1>1, <1>2, <2>1
  <2> QED
    BY <1>1, <1>2, <2>1, <2>2, <2>3 DEF StatusTypes
<1>9. ASSUME NEW s \in Reporters, NEW text \in Status!F .. StatusLines,
             Status!Send(s, text), NEW there \in At,
             slave[s] \notin {"msgget", "ended"}, slave' = [slave EXCEPT ![s] = there],
             stray' \in {stray, stray \cup {s}}
      PROVE  StatusTypes'
  <2>1. /\ queue' = IF found THEN Append(queue, [from |-> s, text |-> text]) ELSE queue
        /\ found' = found /\ line_no' = line_no
        /\ master' = master /\ alive' = alive /\ printed_lines' = printed_lines
        /\ interrupted' = interrupted /\ known' = known
    BY <1>9 DEF Status!Send, Status!masterVars
  <2>2. slave' \in [Reporters -> At] /\ stray' \subseteq Reporters
    BY <1>1, <1>9
  <2>3. master # "msgget"
    BY <1>2, <1>9
  <2>4. queue' \in Seq(Status!Messages)
    BY <1>1, <2>1, QueueGrows
  <2> QED
    BY <1>1, <2>1, <2>2, <2>3, <2>4 DEF StatusTypes
<1>10. ASSUME NEW s \in Reporters, Status!SlaveWorks(s) PROVE StatusTypes'
  <2>1. CASE Status!SendR(s)
    BY <1>9, <1>10, <2>1, Codes DEF Status!SendR, Status!Go
  <2>2. CASE Status!SendLine(s)
    <3>1. line_no[s] \in Status!F .. StatusLines
      BY <1>1, <1>10, Codes
    <3> QED
      BY <1>9, <1>10, <2>2, <3>1 DEF Status!SendLine, Status!Go
  <2>3. CASE Status!SendStray(s)
    BY <1>9, <1>10, <2>3, Codes DEF Status!SendStray, Status!Go
  <2>4. CASE Status!SendF(s)
    BY <1>9, <1>10, <2>4, Codes DEF Status!SendF, Status!Go
  <2>5. CASE Status!ReadLine(s)
    <3>1. PICK there \in {"line", "F"} :
              /\ slave[s] = "fgets" /\ slave' = [slave EXCEPT ![s] = there]
              /\ line_no' = IF there = "line" THEN [line_no EXCEPT ![s] = @ + 1] ELSE line_no
              /\ there = "line" => line_no[s] < StatusLines
              /\ queue' = queue /\ found' = found /\ stray' = stray
              /\ master' = master /\ alive' = alive /\ printed_lines' = printed_lines
              /\ interrupted' = interrupted /\ known' = known
      BY <2>5 DEF Status!ReadLine, Status!Go, Status!queueVars, Status!masterVars
    <3>2. slave' \in [Reporters -> At]
      BY <1>1, <3>1
    <3>3. line_no' \in [Reporters -> 0 .. StatusLines]
      <4>1. there = "line" => line_no[s] + 1 \in 0 .. StatusLines
        BY <1>1, <1>10, <3>1, Codes
      <4> QED
        BY <1>1, <3>1, <4>1
    <3>4. master # "msgget"
      BY <1>2, <1>10, <3>1
    <3> QED
      BY <1>1, <3>1, <3>2, <3>3, <3>4 DEF StatusTypes
  <2> QED
    BY <1>10, <2>1, <2>2, <2>3, <2>4, <2>5 DEF Status!SlaveWorks
<1>11. ASSUME NEW s \in Reporters, Status!Kill(s) PROVE StatusTypes'
  <2>1. /\ slave[s] \notin {"msgget", "ended"} /\ slave' = [slave EXCEPT ![s] = "killed"]
        /\ queue' = queue /\ found' = found /\ line_no' = line_no /\ stray' = stray
        /\ master' = master /\ alive' = alive /\ printed_lines' = printed_lines
        /\ interrupted' = interrupted /\ known' = known
    BY <1>11 DEF Status!Kill, Status!queueVars, Status!masterVars
  <2>2. slave' \in [Reporters -> At]
    BY <1>1, <2>1
  <2>3. master # "msgget"
    BY <1>2, <1>11, <2>1
  <2> QED
    BY <1>1, <2>1, <2>2, <2>3 DEF StatusTypes
<1>12. CASE Status!Rest
  <2>1. /\ found' = found /\ queue' = queue /\ master' = master /\ alive' = alive
        /\ printed_lines' = printed_lines /\ interrupted' = interrupted /\ known' = known
        /\ slave' = slave /\ line_no' = line_no /\ stray' = stray
    BY <1>12 DEF Status!Rest, Status!statusVars, Status!queueVars, Status!masterVars,
       Status!slaveVars
  <2> QED
    BY <1>1, <1>2, <2>1 DEF StatusTypes
<1> QED
  BY <1>3, <1>4, <1>5, <1>6, <1>7, <1>8, <1>10, <1>11, <1>12 DEF Status!Next, Status!MasterWorks

\* What a step does not touch of a slave.
LEMMA OtherSlave ==
    ASSUME NEW r, slave'[r] = slave[r], line_no'[r] = line_no[r],
           printed_lines'[r] = printed_lines[r], r \in known' <=> r \in known,
           \A t : InQueue(r, t)' <=> InQueue(r, t)
    PROVE  /\ \A t : Waiting(r, t)' <=> Waiting(r, t)
           /\ Reported(r)' <=> Reported(r)
           /\ r \in Live' <=> r \in Live
<1>1. \A t : Waiting(r, t)' <=> Waiting(r, t)
  BY DEF Waiting
<1>2. Reported(r)' <=> Reported(r)
  BY DEF Reported
<1>3. r \in Live' <=> r \in Live
  BY DEF Live
<1> QED
  BY <1>1, <1>2, <1>3

\* A step that touches one slave and does not change who counts.
Untouched(s) ==
    \A r \in Reporters \ {s} :
        /\ slave'[r] = slave[r] /\ line_no'[r] = line_no[r]
        /\ printed_lines'[r] = printed_lines[r] /\ (r \in known' <=> r \in known)
        /\ \A t : InQueue(r, t)' <=> InQueue(r, t)

LEMMA OneSlave ==
    ASSUME Orderly, NEW s \in Reporters, Untouched(s), InOrder',
           \A t \in Status!F .. StatusLines : InQueue(s, t)' => Waiting(s, t)',
           Reported(s)'
    PROVE  Orderly'
<1>1. ASSUME NEW r \in Reporters, NEW t \in Status!F .. StatusLines, InQueue(r, t)'
      PROVE  Waiting(r, t)'
  <2>1. CASE r = s
    BY <1>1, <2>1
  <2>2. CASE r # s
    BY <1>1, <2>2, OtherSlave DEF Untouched, Orderly
  <2> QED
    BY <2>1, <2>2
<1>2. ASSUME NEW r \in Reporters PROVE Reported(r)'
  <2>1. CASE r = s
    BY <2>1
  <2>2. CASE r # s
    BY <2>2, OtherSlave DEF Untouched, Orderly
  <2> QED
    BY <2>1, <2>2
<1> QED
  BY <1>1, <1>2 DEF Orderly

LEMMA SameCount ==
    ASSUME Counted, NEW s \in Reporters, known \subseteq Reporters, known' \subseteq Reporters,
           Untouched(s), s \in Live' <=> s \in Live, alive' = alive
    PROVE  Counted'
<1>1. ASSUME NEW r \in Reporters PROVE r \in Live' <=> r \in Live
  BY OtherSlave DEF Untouched
<1>2. Live' = Live
  BY <1>1 DEF Live
<1> QED
  BY <1>2 DEF Counted

\* The first message of a slave is not among the rest: what is there comes later.
LEMMA FirstOfSlave ==
    ASSUME StatusTypes, Orderly, queue # <<>>, queue' = Tail(queue),
           NEW s, NEW text, s = Head(queue).from, text = Head(queue).text
    PROVE  /\ s \in Reporters /\ text \in Status!F .. StatusLines
           /\ queue' \in Seq(Status!Messages) /\ InOrder'
           /\ InQueue(s, text) /\ ~InQueue(s, text)'
           /\ \A t : t # text => (InQueue(s, t)' <=> InQueue(s, t))
           /\ \A r, t : r # s => (InQueue(r, t)' <=> InQueue(r, t))
           /\ text = Status!F => \A t \in Status!F .. StatusLines : ~InQueue(s, t)'
           /\ text # Status!F /\ text # Status!R =>
                  /\ ~InQueue(s, Status!R)
                  /\ \A t \in Status!F .. StatusLines : InQueue(s, t)' => t = Status!F \/ t > text
<1>1. queue \in Seq(Status!Messages) /\ InOrder
  BY DEF StatusTypes, Orderly
<1>2. /\ queue' \in Seq(Status!Messages)
      /\ s \in Reporters /\ text \in Status!F .. StatusLines
      /\ \A r, t : InQueue(r, t) <=> InQueue(r, t)' \/ (r = s /\ t = text)
      /\ InOrder'
      /\ \A t \in Status!F .. StatusLines : InQueue(s, t)' => Rank(text) < Rank(t)
  BY <1>1, QueueShrinks
<1>3. \A t \in Status!F .. StatusLines : Rank(t) \in Int
  BY Codes DEF Rank
<1>4. ~InQueue(s, text)'
  <2>1. ~(Rank(text) < Rank(text))
    BY <1>2, <1>3
  <2> QED
    BY <1>2, <2>1
<1>5. ASSUME text = Status!F, NEW t \in Status!F .. StatusLines PROVE ~InQueue(s, t)'
  <2>1. CASE t = Status!F
    BY <1>4, <1>5, <2>1
  <2>2. CASE t # Status!F
    <3>1. Rank(t) < Rank(text)
      BY <1>5, <2>2, Codes
    <3>2. ~(Rank(text) < Rank(t))
      BY <1>2, <1>3, <3>1
    <3> QED
      BY <1>2, <3>2
  <2> QED
    BY <2>1, <2>2
<1>6. ASSUME text # Status!F, text # Status!R
      PROVE  /\ ~InQueue(s, Status!R)
             /\ \A t \in Status!F .. StatusLines : InQueue(s, t)' => t = Status!F \/ t > text
  <2>1. Rank(text) = text /\ text > 0 /\ text \in Int
    BY <1>2, <1>6, Codes
  <2>2. \A t \in Status!F .. StatusLines : InQueue(s, t)' => t = Status!F \/ t > text
    BY <1>2, <2>1, Codes
  <2>3. ~InQueue(s, Status!R)'
    <3>1. Status!R \in Status!F .. StatusLines /\ Status!R # Status!F /\ Status!R = 0
      BY Codes
    <3> QED
      BY <2>1, <2>2, <3>1
  <2> QED
    BY <1>2, <1>6, <2>2, <2>3
<1> QED
  BY <1>2, <1>4, <1>5, <1>6

\* "F" of a slave comes after its "R": it is one that counts.
LEMMA HearF ==
    ASSUME StatusTypes, Orderly, Counted, queue # <<>>, queue' = Tail(queue),
           NEW s, NEW text, s = Head(queue).from, text = Head(queue).text,
           text = Status!F,
           UNCHANGED <<slave, line_no, printed_lines, known>>
    PROVE  Orderly' /\ Live' = Live \ {s} /\ s \in Live
<1>1. /\ s \in Reporters /\ InOrder' /\ InQueue(s, Status!F) /\ ~InQueue(s, Status!F)'
      /\ \A r, t : r # s => (InQueue(r, t)' <=> InQueue(r, t))
      /\ \A t \in Status!F .. StatusLines : ~InQueue(s, t)'
      /\ \A t : t # Status!F => (InQueue(s, t)' <=> InQueue(s, t))
  BY FirstOfSlave
<1>2. Waiting(s, Status!F) /\ Reported(s) /\ Status!F \in Status!F .. StatusLines
  BY <1>1, Codes DEF Orderly
<1>3. slave[s] = "ended"
  BY <1>2 DEF Waiting
<1>4. s \in known
  <2>1. ~InQueue(s, Status!R)
    BY <1>1, Codes
  <2> QED
    BY <1>1, <1>2, <2>1 DEF Reported
<1>5. line_no[s] = printed_lines[s]
  <2>1. line_no[s] \in 0 .. StatusLines
    BY <1>1 DEF StatusTypes
  <2>2. line_no[s] \in Status!F .. StatusLines /\ line_no[s] # Status!F
    BY <2>1, Codes
  <2>3. ~InQueue(s, line_no[s])
    BY <1>1, <2>2
  <2> QED
    BY <1>2, <1>3, <2>3 DEF Reported
<1>6. /\ slave' = slave /\ line_no' = line_no /\ printed_lines' = printed_lines
      /\ known' = known
  OBVIOUS
<1>7. Reported(s)'
  BY <1>2, <1>3, <1>4, <1>5, <1>6 DEF Reported
<1>8. Untouched(s)
  BY <1>1, <1>6 DEF Untouched
<1>9. Orderly'
  BY <1>1, <1>7, <1>8, OneSlave
<1>10. s \in Live /\ s \notin Live'
  BY <1>1, <1>3, <1>4, <1>6 DEF Live
<1>11. ASSUME NEW r \in Reporters, r # s PROVE r \in Live' <=> r \in Live
  BY <1>8, <1>11, OtherSlave DEF Untouched
<1>12. Live \subseteq Reporters /\ Live' \subseteq Reporters
  BY <1>6 DEF Live, StatusTypes
<1>13. Live' = Live \ {s}
  BY <1>10, <1>11, <1>12
<1> QED
  BY <1>9, <1>10, <1>13

\* "R" makes its slave one that counts.
LEMMA HearR ==
    ASSUME StatusTypes, Orderly, Counted, queue # <<>>, queue' = Tail(queue),
           NEW s, NEW text, s = Head(queue).from, text = Head(queue).text,
           text = Status!R,
           known' = known \cup {s},
           UNCHANGED <<slave, line_no, printed_lines>>
    PROVE  Orderly' /\ Live' = Live \cup {s} /\ s \notin Live
<1>1. /\ s \in Reporters /\ InOrder' /\ InQueue(s, Status!R) /\ ~InQueue(s, Status!R)'
      /\ \A r, t : r # s => (InQueue(r, t)' <=> InQueue(r, t))
      /\ \A t : t # Status!R => (InQueue(s, t)' <=> InQueue(s, t))
  BY FirstOfSlave
<1>2. /\ slave' = slave /\ line_no' = line_no /\ printed_lines' = printed_lines
      /\ known' = known \cup {s}
  OBVIOUS
<1>3. /\ Waiting(s, Status!R) /\ Reported(s)
      /\ Status!R \in Status!F .. StatusLines /\ Status!R # Status!F
  BY <1>1, Codes DEF Orderly
<1>4. s \notin known /\ printed_lines[s] = 0 /\ s \in known'
  BY <1>2, <1>3 DEF Waiting
<1>5. slave[s] = "ended" => InQueue(s, Status!F)'
  BY <1>1, <1>3 DEF Waiting
<1>6. ASSUME NEW t \in Status!F .. StatusLines, InQueue(s, t)' PROVE Waiting(s, t)'
  <2>1. t # Status!R /\ InQueue(s, t)
    BY <1>1, <1>6
  <2>2. Waiting(s, t)
    BY <1>1, <2>1 DEF Orderly
  <2> QED
    BY <1>2, <1>4, <1>5, <2>1, <2>2 DEF Waiting
<1>7. Reported(s)'
  <2>1. slave[s] \notin {"line", "killed"} =>
            line_no[s] = printed_lines[s] \/ InQueue(s, line_no[s])'
    <3>1. CASE line_no[s] = Status!R
      BY <1>4, <3>1, Codes
    <3>2. CASE line_no[s] # Status!R
      BY <1>1, <1>3, <3>2 DEF Reported
    <3> QED
      BY <3>1, <3>2
  <2>2. slave[s] \in {"fgets", "line", "F", "ended", "killed"}
    BY <1>3 DEF Waiting
  <2> QED
    BY <1>2, <1>3, <1>4, <2>1, <2>2 DEF Reported
<1>8. Untouched(s)
  BY <1>1, <1>2 DEF Untouched
<1>9. Orderly'
  BY <1>1, <1>6, <1>7, <1>8, OneSlave
<1>10. s \notin Live /\ s \in Live'
  BY <1>2, <1>4, <1>5 DEF Live
<1>11. ASSUME NEW r \in Reporters, r # s PROVE r \in Live' <=> r \in Live
  BY <1>8, <1>11, OtherSlave DEF Untouched
<1>12. Live \subseteq Reporters /\ Live' \subseteq Reporters
  BY <1>1, <1>2 DEF Live, StatusTypes
<1>13. Live' = Live \cup {s}
  BY <1>10, <1>11, <1>12
<1> QED
  BY <1>9, <1>10, <1>13

\* A line is printed after those before it.
LEMMA HearLine ==
    ASSUME StatusTypes, Orderly, Counted, queue # <<>>, queue' = Tail(queue),
           NEW s, NEW text, s = Head(queue).from, text = Head(queue).text,
           text # Status!R, text # Status!F,
           printed_lines' = [printed_lines EXCEPT ![s] = text],
           UNCHANGED <<slave, line_no, known, alive>>
    PROVE  Orderly' /\ Counted'
<1>1. /\ s \in Reporters /\ InOrder' /\ InQueue(s, text) /\ text \in Status!F .. StatusLines
      /\ \A r, t : r # s => (InQueue(r, t)' <=> InQueue(r, t))
      /\ \A t : t # text => (InQueue(s, t)' <=> InQueue(s, t))
      /\ ~InQueue(s, Status!R)
      /\ \A t \in Status!F .. StatusLines : InQueue(s, t)' => t = Status!F \/ t > text
  BY FirstOfSlave
<1>2. /\ slave' = slave /\ line_no' = line_no /\ known' = known /\ alive' = alive
      /\ printed_lines' = [printed_lines EXCEPT ![s] = text]
      /\ text # Status!R /\ text # Status!F
  OBVIOUS
<1>3. text > 0 /\ text \in Int
  BY <1>1, <1>2, Codes
<1>4. /\ printed_lines'[s] = text /\ printed_lines[s] \in 0 .. StatusLines
      /\ line_no[s] \in 0 .. StatusLines
      /\ \A r \in Reporters \ {s} : printed_lines'[r] = printed_lines[r]
  BY <1>1, <1>2 DEF StatusTypes
<1>5. Waiting(s, text) /\ Reported(s)
  BY <1>1 DEF Orderly
<1>6. /\ printed_lines[s] < text /\ text <= line_no[s]
      /\ slave[s] = "line" => text < line_no[s]
      /\ slave[s] \in {"fgets", "line", "F", "ended", "killed"}
      /\ s \in known
  BY <1>1, <1>2, <1>3, <1>5 DEF Waiting
<1>7. ASSUME NEW t \in Status!F .. StatusLines, InQueue(s, t)' PROVE Waiting(s, t)'
  <2>1. t = Status!F \/ t > text
    BY <1>1, <1>7
  <2>2. t # text /\ t # Status!R /\ t \in Int
    BY <1>2, <1>3, <2>1, <1>7, Codes
  <2>3. Waiting(s, t) /\ (InQueue(s, Status!F)' <=> InQueue(s, Status!F))
    BY <1>1, <1>2, <1>7, <2>2 DEF Orderly
  <2>4. t > 0 => text < t
    BY <2>1, <2>2, Codes
  <2> QED
    BY <1>2, <1>4, <1>6, <2>2, <2>3, <2>4 DEF Waiting
<1>8. Reported(s)'
  <2>1. slave[s] \in {"fgets", "line", "F"} \/ InQueue(s, Status!F)' => s \in known
    BY <1>1, <1>2, <1>5 DEF Reported
  <2>2. slave[s] = "line" => text < line_no[s]
    BY <1>6
  <2>3. slave[s] \notin {"line", "killed"} => line_no[s] = text \/ InQueue(s, line_no[s])'
    <3>1. line_no[s] # printed_lines[s]
      BY <1>3, <1>4, <1>6
    <3> QED
      BY <1>1, <1>5, <3>1 DEF Reported
  <2> QED
    BY <1>2, <1>4, <1>5, <1>6, <2>1, <2>2, <2>3 DEF Reported
<1>9. Untouched(s)
  BY <1>1, <1>2, <1>4 DEF Untouched
<1>10. Orderly'
  BY <1>1, <1>7, <1>8, <1>9, OneSlave
<1>11. s \in Live' <=> s \in Live
  BY <1>1, <1>2 DEF Live
<1>12. known \subseteq Reporters /\ known' \subseteq Reporters
  BY <1>2 DEF StatusTypes
<1> QED
  BY <1>1, <1>2, <1>9, <1>10, <1>11, <1>12, SameCount

\* A slave goes on without a message.
LEMMA SlaveGoesOn ==
    ASSUME StatusTypes, Orderly, Counted, found, NEW s \in Reporters,
           Status!FindQueue(s) \/ Status!ReadLine(s) \/ Status!Kill(s)
    PROVE  Orderly' /\ Counted'
<1>1. /\ queue' = queue /\ printed_lines' = printed_lines /\ known' = known /\ alive' = alive
      /\ slave' = [slave EXCEPT ![s] = slave'[s]] /\ slave[s] # "ended"
  BY DEF Status!FindQueue, Status!ReadLine, Status!Kill, Status!Go, Status!queueVars,
         Status!masterVars, StatusTypes
<1>2. /\ slave \in [Reporters -> {"msgget", "R", "fgets", "line", "F", "ended", "killed"}]
      /\ line_no \in [Reporters -> 0 .. StatusLines]
      /\ printed_lines \in [Reporters -> 0 .. StatusLines] /\ known \subseteq Reporters
  BY DEF StatusTypes
<1>3. \/ slave[s] = "msgget" /\ slave'[s] = "R" /\ line_no' = line_no
      \/ /\ slave[s] = "fgets" /\ slave'[s] = "line"
         /\ line_no' = [line_no EXCEPT ![s] = line_no[s] + 1]
      \/ slave[s] = "fgets" /\ slave'[s] = "F" /\ line_no' = line_no
      \/ /\ slave[s] \notin {"msgget", "ended", "killed"} /\ slave'[s] = "killed"
         /\ line_no' = line_no
  BY <1>2 DEF Status!FindQueue, Status!ReadLine, Status!Kill, Status!Go
<1>4. /\ \A r \in Reporters \ {s} : slave'[r] = slave[r] /\ line_no'[r] = line_no[r]
      /\ line_no[s] \in Int /\ line_no[s] >= 0 /\ printed_lines[s] \in Int
      /\ line_no'[s] = IF slave'[s] = "line" THEN line_no[s] + 1 ELSE line_no[s]
  BY <1>1, <1>2, <1>3
<1>5. \A r, t : InQueue(r, t)' <=> InQueue(r, t)
  BY <1>1 DEF InQueue
<1>6. Untouched(s) /\ InOrder' /\ Reported(s)
  BY <1>1, <1>4, <1>5 DEF Untouched, Orderly, InOrder, Rank
<1>7. \A t \in Status!F .. StatusLines : InQueue(s, t) => Waiting(s, t)
  BY DEF Orderly
<1>8. ASSUME NEW t \in Status!F .. StatusLines, InQueue(s, t)' PROVE Waiting(s, t)'
  <2>1. Waiting(s, t) /\ t \in Int
    BY <1>5, <1>7, <1>8, Codes
  <2>2. slave'[s] \in {"fgets", "line", "F", "ended", "killed"} /\ slave'[s] # "ended"
    BY <1>3, <2>1 DEF Waiting
  <2>3. t = Status!F => slave'[s] = "ended"
    BY <1>1, <2>1 DEF Waiting
  <2>4. t > 0 => /\ printed_lines[s] < t /\ t <= line_no'[s]
                 /\ slave'[s] = "line" => t < line_no'[s]
    <3>1. t > 0 => printed_lines[s] < t /\ t <= line_no[s]
      BY <2>1 DEF Waiting
    <3> QED
      BY <1>4, <2>1, <3>1
  <2>5. t # Status!R => s \in known' \/ InQueue(s, Status!R)'
    BY <1>1, <1>5, <2>1 DEF Waiting
  <2> QED
    BY <1>1, <2>1, <2>2, <2>3, <2>4, <2>5 DEF Waiting
<1>9. Reported(s)'
  <2>1. slave'[s] \in {"msgget", "R"} => line_no'[s] = 0 /\ printed_lines'[s] = 0
    BY <1>1, <1>3, <1>4, <1>6 DEF Reported
  <2>2. slave'[s] \in {"fgets", "line", "F"} \/ InQueue(s, Status!F)'
            => s \in known' \/ InQueue(s, Status!R)'
    BY <1>1, <1>3, <1>5, <1>6 DEF Reported
  <2>3. s \in known' => slave'[s] \in {"fgets", "line", "F", "ended", "killed"}
    BY <1>1, <1>3, <1>6 DEF Reported
  <2>4. slave'[s] = "line" => printed_lines[s] < line_no'[s]
    <3> SUFFICES ASSUME slave'[s] = "line", ~InQueue(s, line_no[s]) \/ InQueue(s, line_no[s])
                 PROVE  printed_lines[s] < line_no[s] + 1
      BY <1>4
    <3>1. slave[s] = "fgets" \/ slave[s] = "line"
      BY <1>3
    <3>2. line_no[s] = printed_lines[s] \/ InQueue(s, line_no[s]) \/ printed_lines[s] < line_no[s]
      BY <1>6, <3>1 DEF Reported
    <3>3. line_no[s] \in Status!F .. StatusLines
      BY <1>2, Codes
    <3>4. ASSUME InQueue(s, line_no[s]) PROVE printed_lines[s] <= line_no[s]
      <4>1. Waiting(s, line_no[s])
        BY <1>7, <3>3, <3>4
      <4>2. CASE line_no[s] = 0
        BY <4>1, <4>2, Codes DEF Waiting
      <4>3. CASE line_no[s] > 0
        BY <1>4, <4>1, <4>3 DEF Waiting
      <4> QED
        BY <1>4, <4>2, <4>3
    <3> QED
      BY <1>4, <3>2, <3>4
  <2>5. slave'[s] \notin {"line", "killed"} =>
            line_no'[s] = printed_lines'[s] \/ InQueue(s, line_no[s])'
    <3> SUFFICES ASSUME slave'[s] \notin {"line", "killed"}
                 PROVE  line_no'[s] = printed_lines'[s] \/ InQueue(s, line_no[s])'
      OBVIOUS
    <3>1. PICK n : n = line_no[s]
      OBVIOUS
    <3>2. line_no'[s] = n /\ (n = printed_lines[s] \/ InQueue(s, n))
      BY <1>3, <1>4, <1>6, <3>1 DEF Reported
    <3>3. n = printed_lines[s] \/ InQueue(s, n)'
      BY <1>5, <3>2
    <3> QED
      BY <1>1, <3>2, <3>3
  <2>6. s \notin known' => printed_lines'[s] = 0
    BY <1>1, <1>6 DEF Reported
  <2> QED
    BY <1>1, <2>1, <2>2, <2>3, <2>4, <2>5, <2>6 DEF Reported
<1>10. Orderly'
  BY <1>6, <1>8, <1>9, OneSlave
<1>11. s \in Live' <=> s \in Live
  <2>1. slave'[s] # "ended"
    BY <1>3
  <2> QED
    BY <1>1, <2>1 DEF Live
<1>12. Counted'
  BY <1>1, <1>2, <1>6, <1>11, SameCount
<1> QED
  BY <1>10, <1>12

\* A slave sends, and goes on.
LEMMA SlaveSends ==
    ASSUME StatusTypes, Orderly, Counted, found, NEW s \in Reporters,
           Status!SendR(s) \/ Status!SendLine(s) \/ Status!SendF(s)
    PROVE  Orderly' /\ Counted'
<1>1. /\ slave \in [Reporters -> {"msgget", "R", "fgets", "line", "F", "ended", "killed"}]
      /\ line_no \in [Reporters -> 0 .. StatusLines] /\ queue \in Seq(Status!Messages)
      /\ printed_lines \in [Reporters -> 0 .. StatusLines] /\ known \subseteq Reporters
  BY DEF StatusTypes
<1>2. line_no[s] \in 0 .. StatusLines
  BY <1>1
<1>3. line_no[s] \in Status!F .. StatusLines
  BY <1>2, Codes
<1>4. PICK text \in Status!F .. StatusLines :
          /\ Status!Send(s, text)
          /\ \/ slave[s] = "R" /\ text = Status!R /\ slave' = [slave EXCEPT ![s] = "fgets"]
             \/ slave[s] = "line" /\ text = line_no[s] /\ slave' = [slave EXCEPT ![s] = "fgets"]
             \/ slave[s] = "F" /\ text = Status!F /\ slave' = [slave EXCEPT ![s] = "ended"]
  BY <1>3, Codes DEF Status!SendR, Status!SendLine, Status!SendF, Status!Go
<1>5. /\ queue' = Append(queue, [from |-> s, text |-> text]) /\ line_no' = line_no
      /\ printed_lines' = printed_lines /\ known' = known /\ alive' = alive
  BY <1>4 DEF Status!Send, Status!masterVars
<1>6. /\ \A r, t : InQueue(r, t)' <=> InQueue(r, t) \/ (r = s /\ t = text)
      /\ InOrder /\ (\A t \in Status!F .. StatusLines : InQueue(s, t) => Rank(t) < Rank(text))
             => InOrder'
  BY <1>1, <1>5, QueueGrows
<1>7. /\ \A r \in Reporters \ {s} : slave'[r] = slave[r]
      /\ \/ slave[s] = "R" /\ text = Status!R /\ slave'[s] = "fgets"
         \/ slave[s] = "line" /\ text = line_no[s] /\ slave'[s] = "fgets"
         \/ slave[s] = "F" /\ text = Status!F /\ slave'[s] = "ended"
  BY <1>1, <1>4
<1>8. Untouched(s) /\ InOrder /\ Reported(s)
  BY <1>5, <1>6, <1>7 DEF Untouched, Orderly
<1>9. \A t \in Status!F .. StatusLines : InQueue(s, t) => Waiting(s, t)
  BY DEF Orderly
<1>10. slave[s] = "line" => printed_lines[s] < line_no[s] /\ line_no[s] > 0
  BY <1>1, <1>8 DEF Reported
<1>11. ASSUME NEW t \in Status!F .. StatusLines, InQueue(s, t)
       PROVE  t # Status!F /\ Rank(t) < Rank(text)
  <2>1. Waiting(s, t) /\ slave[s] \in {"line", "F"}
    BY <1>7, <1>9, <1>11 DEF Waiting
  <2>2. t # Status!F
    BY <2>1 DEF Waiting
  <2>3. Rank(t) = t /\ t >= 0 /\ t \in Int /\ Rank(t) < Rank(Status!F) /\ (t = 0 \/ t > 0)
    BY <1>11, <2>2, Codes
  <2>4. CASE slave[s] = "F"
    BY <1>7, <2>2, <2>3, <2>4
  <2>5. CASE slave[s] = "line"
    <3>1. text = line_no[s] /\ text \in Int /\ text > 0 /\ text # Status!F
      BY <1>2, <1>7, <1>10, <2>5, Codes
    <3>2. Rank(text) = text
      BY <3>1 DEF Rank
    <3>3. t < text
      BY <2>1, <2>3, <2>5, <3>1 DEF Waiting
    <3> QED
      BY <2>2, <2>3, <3>2, <3>3
  <2> QED
    BY <2>1, <2>4, <2>5
<1>12. InOrder'
  BY <1>6, <1>8, <1>11
<1>13. ASSUME NEW t \in Status!F .. StatusLines, InQueue(s, t)' PROVE Waiting(s, t)'
  <2>1. slave'[s] = "ended" => text = Status!F /\ InQueue(s, Status!F)'
    BY <1>6, <1>7
  <2>2. slave'[s] \in {"fgets", "ended"}
    BY <1>7
  <2>5. text # Status!R => s \in known \/ InQueue(s, Status!R)'
    BY <1>6, <1>7, <1>8 DEF Reported
  <2>3. CASE InQueue(s, t)
    <3>1. Waiting(s, t) /\ t # Status!F
      BY <1>9, <1>11, <2>3
    <3>2. t # Status!R => s \in known \/ InQueue(s, Status!R)'
      BY <1>6, <3>1 DEF Waiting
    <3> QED
      BY <1>5, <2>1, <2>2, <3>1, <3>2 DEF Waiting
  <2>4. CASE t = text
    <3>1. CASE slave[s] = "R"
      <4>1. text = Status!R /\ Status!R = 0 /\ Status!R # Status!F /\ slave'[s] = "fgets"
        BY <1>7, <3>1, Codes
      <4>2. s \notin known /\ printed_lines[s] = 0
        BY <1>8, <3>1 DEF Reported
      <4> QED
        BY <1>5, <2>4, <4>1, <4>2 DEF Waiting
    <3>2. CASE slave[s] = "line"
      <4>1. text = line_no[s] /\ text > 0 /\ text # Status!R /\ text # Status!F
            /\ slave'[s] = "fgets" /\ printed_lines[s] < text /\ text \in Int
        BY <1>2, <1>7, <1>10, <3>2, Codes
      <4>2. text <= line_no[s]
        BY <4>1
      <4> QED
        BY <1>5, <2>4, <2>5, <4>1, <4>2 DEF Waiting
    <3>3. CASE slave[s] = "F"
      <4>1. text = Status!F /\ text # Status!R /\ ~(text > 0) /\ slave'[s] = "ended"
        BY <1>7, <3>3, Codes
      <4> QED
        BY <1>5, <2>1, <2>4, <2>5, <4>1 DEF Waiting
    <3> QED
      BY <1>7, <3>1, <3>2, <3>3
  <2> QED
    BY <1>6, <1>13, <2>3, <2>4
<1>14. Reported(s)'
  <2>1. s \in known \/ InQueue(s, Status!R)'
    BY <1>6, <1>7, <1>8 DEF Reported
  <2>2. slave'[s] \in {"fgets", "ended"}
    BY <1>7
  <2>3. line_no'[s] = printed_lines'[s] \/ InQueue(s, line_no[s])'
    <3>1. PICK n : n = line_no[s]
      OBVIOUS
    <3>2. n = printed_lines[s] \/ InQueue(s, n)'
      <4>1. CASE slave[s] = "line"
        BY <1>6, <1>7, <3>1, <4>1
      <4>2. CASE slave[s] \in {"R", "F"}
        BY <1>6, <1>8, <3>1, <4>2 DEF Reported
      <4> QED
        BY <1>7, <4>1, <4>2
    <3>3. line_no'[s] = n
      BY <1>5, <3>1
    <3> QED
      BY <1>5, <3>2, <3>3
  <2>4. s \notin known' => printed_lines'[s] = 0
    BY <1>5, <1>8 DEF Reported
  <2> QED
    BY <1>5, <2>1, <2>2, <2>3, <2>4 DEF Reported
<1>15. Orderly'
  BY <1>8, <1>12, <1>13, <1>14, OneSlave
<1>16. s \in Live' <=> s \in Live
  <2>1. slave'[s] = "ended" => InQueue(s, Status!F)'
    BY <1>6, <1>7
  <2> QED
    BY <1>5, <1>7, <2>1 DEF Live
<1>17. Counted'
  BY <1>1, <1>5, <1>8, <1>16, SameCount
<1> QED
  BY <1>15, <1>17

\* The master counts what it hears.
LEMMA MasterHears ==
    ASSUME StatusTypes, Orderly, Counted, Status!Receive
    PROVE  Orderly' /\ Counted' /\ (master' = "msgctl" => alive' = 0)
<1>1. /\ master = "msgrcv" /\ queue # <<>> /\ queue' = Tail(queue)
      /\ slave' = slave /\ line_no' = line_no
      /\ \/ Status!ReceiveF(Head(queue)) \/ Status!ReceiveR(Head(queue))
         \/ Status!ReceiveLine(Head(queue))
  BY DEF Status!Receive, Status!slaveVars
<1>2. PICK s, text : s = Head(queue).from /\ text = Head(queue).text
  OBVIOUS
<1>3. /\ s \in Reporters /\ text \in Status!F .. StatusLines /\ InQueue(s, text)
  BY <1>1, <1>2, FirstOfSlave
<1>4. IsFiniteSet(Live) /\ alive = Cardinality(Live) /\ alive \in Nat
  BY FS_CardinalityType DEF Counted
<1>5. CASE text = Status!F /\ alive # 0
  <2>1. Status!F # Status!R
    BY Codes
  <2>2. /\ alive' = alive - 1 /\ printed_lines' = printed_lines /\ known' = known
        /\ master' = IF alive' = 0 THEN "msgctl" ELSE master
    BY <1>1, <1>2, <1>5, <2>1 DEF Status!ReceiveF, Status!ReceiveR, Status!ReceiveLine
  <2>3. Orderly' /\ Live' = Live \ {s} /\ s \in Live
    BY <1>1, <1>2, <1>5, <2>2, HearF
  <2>4. IsFiniteSet(Live') /\ Cardinality(Live') = Cardinality(Live) - 1
    BY <1>4, <2>3, FS_RemoveElement
  <2> QED
    BY <1>1, <1>4, <2>2, <2>3, <2>4 DEF Counted
<1>6. CASE text = Status!R
  <2>1. Status!F # Status!R
    BY Codes
  <2>2. /\ alive' = alive + 1 /\ printed_lines' = printed_lines /\ known' = known \cup {s}
        /\ master' = master
    BY <1>1, <1>2, <1>6, <2>1
       DEF Status!ReceiveF, Status!ReceiveR, Status!ReceiveLine, Status!CountOneMore
  <2>3. Orderly' /\ Live' = Live \cup {s} /\ s \notin Live
    BY <1>1, <1>2, <1>6, <2>2, HearR
  <2>4. IsFiniteSet(Live') /\ Cardinality(Live') = Cardinality(Live) + 1
    BY <1>4, <2>3, FS_AddElement
  <2> QED
    BY <1>1, <1>4, <2>2, <2>3, <2>4 DEF Counted
<1>7. CASE text # Status!R /\ text # Status!F
  <2>1. /\ alive' = alive /\ known' = known /\ master' = master
        /\ printed_lines' = [printed_lines EXCEPT ![s] = text]
    BY <1>1, <1>2, <1>7 DEF Status!ReceiveF, Status!ReceiveR, Status!ReceiveLine
  <2>2. Orderly' /\ Counted'
    BY <1>1, <1>2, <1>7, <2>1, HearLine
  <2> QED
    BY <1>1, <2>1, <2>2
<1>8. CASE text = Status!F /\ alive = 0
  <2>1. Live = {}
    BY <1>4, <1>8, FS_EmptySet
  <2>2. Waiting(s, Status!F) /\ Reported(s)
    BY <1>3, <1>8 DEF Orderly
  <2>3. ~InQueue(s, Status!R)
    <3>1. Status!R \in Status!F .. StatusLines /\ Status!R # Status!F
      BY Codes
    <3>2. /\ ~InQueue(s, Status!R)'
          /\ \A t : t # text => (InQueue(s, t)' <=> InQueue(s, t))
      BY <1>1, <1>2, <1>8, <3>1, FirstOfSlave
    <3> QED
      BY <1>8, <3>1, <3>2
  <2>4. s \in Live
    BY <1>3, <1>8, <2>2, <2>3 DEF Live, Waiting, Reported
  <2> QED
    BY <2>1, <2>4
<1> QED
  BY <1>5, <1>6, <1>7, <1>8

LEMMA StatusStep == StatusInv /\ Status!Next => StatusInv'
<1> SUFFICES ASSUME StatusInv, Status!Next PROVE StatusInv'
  OBVIOUS
<1>1. StatusTypes'
  BY StatusTypesKept DEF StatusInv
<1> SUFFICES ASSUME stray' = {}, master' \in {"signal", "msgrcv", "msgctl"}
             PROVE  /\ Orderly' /\ Counted'
                    /\ master' = "msgctl" /\ ~interrupted' => alive' = 0
  BY <1>1 DEF StatusInv
<1>2. /\ StatusTypes /\ (master \in {"signal", "msgrcv", "msgctl"} => found)
  BY DEF StatusInv, StatusTypes
<1> DEFINE Before == /\ stray = {} /\ master \in {"signal", "msgrcv", "msgctl"}
           Same == /\ queue' = queue /\ alive' = alive /\ printed_lines' = printed_lines
                   /\ known' = known /\ slave' = slave /\ line_no' = line_no
<1>3. ASSUME Before
      PROVE  Orderly /\ Counted /\ found /\ (master = "msgctl" /\ ~interrupted => alive = 0)
  BY <1>2, <1>3 DEF StatusInv
<1>4. ASSUME Before, Same PROVE Orderly' /\ Counted'
  <2>1. Orderly' <=> Orderly
    BY <1>4 DEF Orderly, InOrder, Waiting, Reported, InQueue, Rank
  <2>2. Counted' <=> Counted
    BY <1>4 DEF Counted, Live, InQueue
  <2> QED
    BY <1>3, <1>4, <2>1, <2>2
<1>5. CASE Status!MakeQueue
  <2>1. /\ master = "msgget" /\ master' = "signal" /\ Same
    BY <1>5 DEF Status!MakeQueue, Status!slaveVars
  <2>2. /\ queue = <<>> /\ known = {} /\ alive = 0
        /\ \A s \in Reporters : /\ slave[s] \in {"msgget", "ended"}
                                /\ line_no[s] = 0 /\ printed_lines[s] = 0
    BY <1>2, <2>1 DEF StatusTypes
  <2>3. DOMAIN queue' = {} /\ \A s, t : ~InQueue(s, t)'
    BY <2>1, <2>2 DEF InQueue
  <2>4. Orderly'
    <3>1. \A s \in Reporters : Reported(s)'
      BY <2>1, <2>2, <2>3 DEF Reported
    <3>2. InOrder'
      BY <2>3 DEF InOrder
    <3> QED
      BY <2>3, <3>1, <3>2 DEF Orderly
  <2>5. Counted'
    <3>1. Live' = {} /\ alive' = 0
      BY <2>1, <2>2 DEF Live
    <3> QED
      BY <3>1, FS_EmptySet DEF Counted
  <2> QED
    BY <2>1, <2>4, <2>5
<1>6. CASE Status!InstallHandler
  <2>1. master = "signal" /\ master' = "msgrcv" /\ stray' = stray /\ Same
    BY <1>6 DEF Status!InstallHandler, Status!slaveVars, Status!queueVars
  <2> QED
    BY <1>4, <2>1
<1>7. CASE Status!Receive
  <2>1. master = "msgrcv" /\ stray' = stray
    BY <1>7 DEF Status!Receive, Status!slaveVars
  <2> QED
    BY <1>2, <1>3, <1>7, <2>1, MasterHears
<1>8. CASE Status!RemoveQueue
  BY <1>8 DEF Status!RemoveQueue
<1>9. CASE Status!Interrupt
  <2>1. master = "msgrcv" /\ interrupted' = TRUE /\ stray' = stray /\ Same
    BY <1>9 DEF Status!Interrupt, Status!slaveVars, Status!queueVars
  <2> QED
    BY <1>4, <2>1
<1>10. ASSUME NEW s \in Reporters,
              Status!FindQueue(s) \/ Status!SlaveWorks(s) \/ Status!Kill(s)
       PROVE  /\ Orderly' /\ Counted'
              /\ master' = "msgctl" /\ ~interrupted' => alive' = 0
  <2>1. master' = master /\ alive' = alive /\ interrupted' = interrupted
    BY <1>10 DEF Status!FindQueue, Status!SlaveWorks, Status!Kill, Status!SendR,
       Status!ReadLine, Status!SendLine, Status!SendStray, Status!SendF, Status!Send,
       Status!masterVars
  <2>2. ~Status!SendStray(s)
    BY DEF Status!SendStray
  <2>3. stray' = stray
    BY <1>10, <2>2 DEF Status!FindQueue, Status!SlaveWorks, Status!Kill, Status!SendR,
       Status!ReadLine, Status!SendLine, Status!SendF
  <2>4. Before
    BY <2>1, <2>3
  <2>5. Orderly' /\ Counted'
    BY <1>2, <1>3, <1>10, <2>2, <2>4, SlaveGoesOn, SlaveSends DEF Status!SlaveWorks
  <2> QED
    BY <1>3, <2>1, <2>4, <2>5
<1>11. CASE Status!Rest
  <2>1. master' = master /\ interrupted' = interrupted /\ stray' = stray /\ Same
    BY <1>11 DEF Status!Rest, Status!statusVars, Status!queueVars, Status!masterVars,
       Status!slaveVars
  <2> QED
    BY <1>3, <1>4, <2>1
<1> QED
  BY <1>5, <1>6, <1>7, <1>8, <1>9, <1>10, <1>11 DEF Status!Next, Status!MasterWorks

-----------------------------------------------------------------------------
(* The status queue: its size.                                             *)

LEMMA QueueInit == Status!Init => QueueFits
<1>1. Capacity \in Nat
  BY BoundsAssumption
<1> QED
  BY <1>1 DEF Status!Init, QueueFits

LEMMA QueueFrame == QueueFits /\ UNCHANGED statusVars => QueueFits'
BY DEF QueueFits, statusVars

\* A message is put where there is room, and the master only takes.
LEMMA QueueStep == StatusTypes /\ QueueFits /\ Status!Next => QueueFits'
<1> SUFFICES ASSUME StatusTypes, QueueFits, Status!Next PROVE QueueFits'
  OBVIOUS
<1>1. Capacity \in Nat /\ queue \in Seq(Status!Messages) /\ Len(queue) <= Capacity
  BY BoundsAssumption DEF StatusTypes, QueueFits
<1>2. CASE queue' = queue
  BY <1>1, <1>2 DEF QueueFits
<1>3. CASE queue' = <<>>
  BY <1>1, <1>3 DEF QueueFits
<1>4. CASE queue # <<>> /\ queue' = Tail(queue)
  <2>1. Len(Tail(queue)) = Len(queue) - 1 /\ Len(queue) \in Nat
    BY <1>1, <1>4
  <2> QED
    BY <1>1, <1>4, <2>1 DEF QueueFits
<1>5. ASSUME NEW s \in Reporters, NEW text, Status!Send(s, text) PROVE QueueFits'
  <2>1. CASE ~found
    BY <1>2, <1>5, <2>1 DEF Status!Send
  <2>2. CASE found
    <3>1. /\ queue' = Append(queue, [from |-> s, text |-> text]) /\ Len(queue) < Capacity
      BY <1>5, <2>2 DEF Status!Send
    <3>2. Len(queue') = Len(queue) + 1 /\ Len(queue) \in Nat
      BY <1>1, <3>1
    <3> QED
      BY <1>1, <3>1, <3>2 DEF QueueFits
  <2> QED
    BY <2>1, <2>2
<1>6. CASE Status!MasterWorks
  BY <1>2, <1>3, <1>4, <1>6 DEF Status!MasterWorks, Status!MakeQueue, Status!InstallHandler,
     Status!Receive, Status!RemoveQueue, Status!queueVars
<1>7. CASE Status!Interrupt
  BY <1>2, <1>7 DEF Status!Interrupt, Status!queueVars
<1>8. ASSUME NEW s \in Reporters, Status!FindQueue(s) \/ Status!Kill(s) PROVE QueueFits'
  BY <1>2, <1>8 DEF Status!FindQueue, Status!Kill, Status!queueVars
<1>9. ASSUME NEW s \in Reporters, Status!SlaveWorks(s) PROVE QueueFits'
  <2>1. CASE Status!ReadLine(s)
    BY <1>2, <2>1 DEF Status!ReadLine, Status!queueVars
  <2>2. CASE \E text : Status!Send(s, text)
    BY <1>5, <2>2
  <2> QED
    BY <1>9, <2>1, <2>2 DEF Status!SlaveWorks, Status!SendR, Status!SendLine,
       Status!SendStray, Status!SendF
<1>10. CASE Status!Rest
  BY <1>2, <1>10 DEF Status!Rest, Status!statusVars, Status!queueVars
<1> QED
  BY <1>6, <1>7, <1>8, <1>9, <1>10 DEF Status!Next

LEMMA QueueTypes == StatusTypes /\ QueueFits => Status!TypeOK
BY DEF StatusTypes, QueueFits, Status!TypeOK

-----------------------------------------------------------------------------
(* The sorted list.                                                        *)

LEMMA ListInit == List!Init => ListInv
<1> SUFFICES ASSUME List!Init PROVE ListInv
  OBVIOUS
<1>1. List!TypeOK
  <2>1. (CHOOSE l \in Lines : TRUE) \in Lines
    BY LinesAssumption
  <2>2. MaxNodes \in Nat
    BY BoundsAssumption
  <2>3. data \in [List!Nodes -> Lines]
    BY <2>1 DEF List!Init
  <2>4. next \in [List!Nodes -> List!Nodes \cup {List!NULL}]
    BY DEF List!Init
  <2>5. 0 \in 0 .. MaxNodes
    BY <2>2
  <2> QED
    BY <2>3, <2>4, <2>5 DEF List!Init, List!TypeOK
<1>2. ListControl
  BY DEF List!Init, ListControl
<1> DEFINE q == [k \in 1 .. 0 |-> 0]
<1>3. q \in [1 .. 0 -> List!Nodes] /\ 0 \in 0 .. pushed
  BY DEF List!Init
<1>4. Links(q, 0, head, next, (1 .. pushed) \ (freed \cup forgotten))
  BY <1>3 DEF Links, List!Init
<1>5. SortedSoFar(q, 0, data, sorting, out, in, first)
  BY DEF SortedSoFar, List!Init
<1> HIDE DEF q
<1> QED
  BY <1>1, <1>2, <1>3, <1>4, <1>5 DEF ListInv

LEMMA ListFrame == ListInv /\ UNCHANGED listVars => ListInv'
<1> SUFFICES ASSUME ListInv, UNCHANGED listVars PROVE ListInv'
  OBVIOUS
<1>1. List!TypeOK'
  BY DEF ListInv, List!TypeOK, listVars
<1>2. ListControl'
  BY DEF ListInv, ListControl, listVars
<1> QED
  BY <1>1, <1>2 DEF ListInv, listVars

-----------------------------------------------------------------------------
(* What the steps do to the order.                                         *)

\* A node in front.
LEMMA PushedFirst ==
    ASSUME NEW q, NEW n, NEW hd, NEW nx, NEW S, Links(q, n, hd, nx, S),
           nx \in [List!Nodes -> List!Nodes \cup {List!NULL}],
           NEW m \in List!Nodes \ S, NEW nx2, nx2 = [nx EXCEPT ![m] = hd], NEW T, T = S \cup {m}
    PROVE  \E r \in [1 .. n + 1 -> List!Nodes] : Links(r, n + 1, m, nx2, T)
<1> DEFINE r == [k \in 1 .. n + 1 |-> IF k = 1 THEN m ELSE q[k - 1]]
<1>0. n \in Nat /\ \A k \in 1 .. n : q[k] \in List!Nodes /\ q[k] # m
  BY DEF Links
<1>1. r \in [1 .. n + 1 -> List!Nodes]
  BY <1>0
<1>2. \A k \in 1 .. n + 1 : r[k] = IF k = 1 THEN m ELSE q[k - 1]
  BY <1>0
<1>3. \A k \in 2 .. n + 1 : k - 1 \in 1 .. n /\ k # 1
  BY <1>0
<1>8. 1 \in 1 .. n + 1 /\ r[1] = m /\ \A k \in 1 .. n : k + 1 \in 1 .. n + 1 /\ r[k + 1] = q[k]
  BY <1>0, <1>2
<1> HIDE DEF r
<1>4. \A k, j \in 1 .. n + 1 : r[k] = r[j] => k = j
  BY <1>0, <1>2, <1>3 DEF Links
<1>5. \A k \in 1 .. n + 1 : r[k] \in T
  BY <1>0, <1>2, <1>3 DEF Links
<1>6. \A x \in T : \E k \in 1 .. n + 1 : r[k] = x
  <2> SUFFICES ASSUME NEW x \in T PROVE \E k \in 1 .. n + 1 : r[k] = x
    OBVIOUS
  <2>1. CASE x = m
    BY <1>8, <2>1
  <2>2. CASE x # m
    <3>1. PICK k \in 1 .. n : q[k] = x
      BY <2>2 DEF Links
    <3> QED
      BY <1>8, <3>1
  <2> QED
    BY <2>1, <2>2
<1>7. \A k \in 1 .. n + 1 : nx2[r[k]] = IF k = n + 1 THEN List!NULL ELSE r[k + 1]
  <2> SUFFICES ASSUME NEW k \in 1 .. n + 1
               PROVE  nx2[r[k]] = IF k = n + 1 THEN List!NULL ELSE r[k + 1]
    OBVIOUS
  <2>1. CASE k = 1
    BY <1>0, <1>8, <2>1 DEF Links
  <2>2. CASE k # 1
    <3>1. k - 1 \in 1 .. n /\ k \in 1 .. n + 1 /\ r[k] = q[k - 1] /\ q[k - 1] # m
      BY <1>0, <1>2, <1>3, <2>2
    <3>2. nx2[q[k - 1]] = nx[q[k - 1]]
      BY <1>0, <3>1
    <3>3. nx[q[k - 1]] = IF k - 1 = n THEN List!NULL ELSE q[k - 1 + 1]
      BY <3>1 DEF Links
    <3>4. k # n + 1 => k \in 1 .. n /\ r[k + 1] = q[k]
      BY <1>0, <1>8
    <3> QED
      BY <1>0, <3>1, <3>2, <3>3, <3>4
  <2> QED
    BY <2>1, <2>2
<1>9. m = IF n + 1 = 0 THEN List!NULL ELSE r[1]
  BY <1>0, <1>8
<1>10. n + 1 \in Nat
  BY <1>0
<1> QED
  BY <1>1, <1>4, <1>5, <1>6, <1>7, <1>9, <1>10 DEF Links

\* The first node goes.
LEMMA ErasedFirst ==
    ASSUME NEW q, NEW n, NEW hd, NEW nx, NEW S, Links(q, n, hd, nx, S), hd # List!NULL,
           NEW T, T = S \ {hd}
    PROVE  /\ n - 1 \in Nat
           /\ hd \in S
           /\ \E r \in [1 .. n - 1 -> List!Nodes] : Links(r, n - 1, nx[hd], nx, T)
<1> DEFINE r == [k \in 1 .. n - 1 |-> q[k + 1]]
<1>0. n \in Nat \ {0} /\ 1 \in 1 .. n /\ hd = q[1]
  BY DEF Links
<1>1. \A k \in 1 .. n - 1 : k + 1 \in 1 .. n /\ r[k] = q[k + 1]
  BY <1>0
<1>2. r \in [1 .. n - 1 -> List!Nodes]
  BY <1>0, <1>1 DEF Links
<1> HIDE DEF r
<1>3. \A k \in 1 .. n - 1 : q[k + 1] # hd
  BY <1>0, <1>1 DEF Links
<1>4. \A k, j \in 1 .. n - 1 : r[k] = r[j] => k = j
  BY <1>0, <1>1 DEF Links
<1>5. \A k \in 1 .. n - 1 : r[k] \in T
  BY <1>0, <1>1, <1>3 DEF Links
<1>6. \A x \in T : \E k \in 1 .. n - 1 : r[k] = x
  <2> SUFFICES ASSUME NEW x \in T PROVE \E k \in 1 .. n - 1 : r[k] = x
    OBVIOUS
  <2>1. PICK k \in 1 .. n : q[k] = x
    BY DEF Links
  <2>2. k # 1
    BY <1>0, <2>1
  <2>3. k - 1 \in 1 .. n - 1 /\ k - 1 + 1 = k
    BY <1>0, <2>2
  <2> QED
    BY <1>1, <2>1, <2>3
<1>7. \A k \in 1 .. n - 1 : nx[r[k]] = IF k = n - 1 THEN List!NULL ELSE r[k + 1]
  <2> SUFFICES ASSUME NEW k \in 1 .. n - 1
               PROVE  nx[r[k]] = IF k = n - 1 THEN List!NULL ELSE r[k + 1]
    OBVIOUS
  <2>1. nx[q[k + 1]] = IF k + 1 = n THEN List!NULL ELSE q[k + 1 + 1]
    BY <1>1 DEF Links
  <2>2. k # n - 1 => k + 1 \in 1 .. n - 1 /\ r[k + 1] = q[k + 1 + 1]
    BY <1>0, <1>1
  <2> QED
    BY <1>0, <1>1, <2>1, <2>2
<1>8. nx[hd] = IF n - 1 = 0 THEN List!NULL ELSE r[1]
  <2>1. nx[q[1]] = IF 1 = n THEN List!NULL ELSE q[1 + 1]
    BY <1>0 DEF Links
  <2>2. n # 1 => 1 \in 1 .. n - 1
    BY <1>0
  <2> QED
    BY <1>0, <1>1, <2>1, <2>2
<1>9. n - 1 \in Nat
  BY <1>0
<1>10. hd \in S
  BY <1>0 DEF Links
<1> QED
  BY <1>2, <1>4, <1>5, <1>6, <1>7, <1>8, <1>9, <1>10 DEF Links

\* r is q with the nodes at places a and b exchanged.
Exchanged(q, r, n, a, b) ==
    /\ r \in [1 .. n -> List!Nodes]
    /\ r[a] = q[b] /\ r[b] = q[a]
    /\ \A k \in 1 .. n : k # a /\ k # b => r[k] = q[k]

\* r is q with its first node moved to place g.
Turned(q, r, n, g) ==
    /\ r \in [1 .. n -> List!Nodes]
    /\ \A k \in 1 .. n : r[k] = IF k < g THEN q[k + 1] ELSE IF k = g THEN q[1] ELSE q[k]

SwappedIn(nx, l, r) ==
    IF nx[l] = r THEN [nx EXCEPT ![l] = nx[r], ![r] = nx[nx[r]], ![nx[r]] = r]
    ELSE [nx EXCEPT ![l] = nx[r], ![nx[r]] = nx[nx[l]], ![r] = nx[l], ![nx[l]] = nx[nx[r]]]

\* The links after the swap, one by one.
SwappedLinks(q, n, nx, nx2, a, b) ==
    /\ nx2 \in [List!Nodes -> List!Nodes \cup {List!NULL}]
    /\ nx2[q[a]] = q[b + 1]
    /\ nx2[q[b + 1]] = IF b = a + 1 THEN q[a + 1] ELSE q[a + 2]
    /\ b # a + 1 => nx2[q[b]] = q[a + 1]
    /\ nx2[q[a + 1]] = IF b + 1 = n THEN List!NULL ELSE q[b + 2]
    /\ \A k \in 1 .. n : k \notin {a, a + 1, b, b + 1} => nx2[q[k]] = nx[q[k]]

LEMMA SwapLinks ==
    ASSUME NEW q, NEW n, NEW hd, NEW nx, NEW S, Links(q, n, hd, nx, S),
           nx \in [List!Nodes -> List!Nodes \cup {List!NULL}],
           NEW a \in 1 .. n, NEW b \in a + 1 .. n - 1,
           NEW nx2, nx2 = SwappedIn(nx, q[a], q[b])
    PROVE  SwappedLinks(q, n, nx, nx2, a, b)
<1>1. /\ n \in Nat /\ a \in Nat /\ b \in Nat /\ a + 1 \in 1 .. n /\ b \in 1 .. n
      /\ b + 1 \in 1 .. n /\ a # b /\ a + 1 # b + 1 /\ a # b + 1 /\ a # a + 1 /\ b # b + 1
      /\ a # n /\ b # n /\ a + 1 # n
  BY DEF Links
<1>2. PICK l \in List!Nodes : l = q[a]
  BY <1>1 DEF Links
<1>3. PICK m \in List!Nodes : m = q[a + 1]
  BY <1>1 DEF Links
<1>4. PICK r \in List!Nodes : r = q[b]
  BY <1>1 DEF Links
<1>5. PICK s \in List!Nodes : s = q[b + 1]
  BY <1>1 DEF Links
<1>6. nx[l] = m /\ nx[r] = s
  BY <1>1, <1>2, <1>3, <1>4, <1>5 DEF Links
<1>7. nx[m] = q[a + 2] /\ nx[s] = IF b + 1 = n THEN List!NULL ELSE q[b + 2]
  BY <1>1, <1>3, <1>5 DEF Links
<1>8. l # m /\ l # r /\ l # s /\ m # s /\ r # s /\ (m = r <=> b = a + 1)
  BY <1>1, <1>2, <1>3, <1>4, <1>5 DEF Links
<1>9. \A k \in 1 .. n : q[k] \in List!Nodes /\ (k \notin {a, a + 1, b, b + 1} => q[k] \notin {l, m, r, s})
  BY <1>1, <1>2, <1>3, <1>4, <1>5 DEF Links
<1>10. nx[m] \in List!Nodes \cup {List!NULL} /\ nx[s] \in List!Nodes \cup {List!NULL}
  OBVIOUS
<1>11. CASE b = a + 1
  <2>1. m = r
    BY <1>8, <1>11
  <2>2. SwappedIn(nx, l, r) = [nx EXCEPT ![l] = s, ![r] = nx[s], ![s] = r]
    BY <1>6, <2>1 DEF SwappedIn
  <2>3. nx2 = [nx EXCEPT ![l] = s, ![r] = nx[s], ![s] = r]
    BY <1>2, <1>4, <2>2
  <2>4. nx2 \in [List!Nodes -> List!Nodes \cup {List!NULL}]
    BY <1>10, <2>3
  <2>5. nx2[l] = s /\ nx2[s] = m /\ nx2[m] = nx[s]
    BY <1>8, <2>1, <2>3
  <2>6. \A x \in List!Nodes : x \notin {l, r, s} => nx2[x] = nx[x]
    BY <2>3
  <2>7. \A k \in 1 .. n : k \notin {a, a + 1, b, b + 1} => nx2[q[k]] = nx[q[k]]
    BY <1>9, <2>6
  <2> QED
    BY <1>2, <1>3, <1>5, <1>7, <1>11, <2>4, <2>5, <2>7 DEF SwappedLinks
<1>12. CASE b # a + 1
  <2>1. m # r
    BY <1>8, <1>12
  <2>2. SwappedIn(nx, l, r) = [nx EXCEPT ![l] = s, ![s] = nx[m], ![r] = m, ![m] = nx[s]]
    BY <1>6, <2>1 DEF SwappedIn
  <2>3. nx2 = [nx EXCEPT ![l] = s, ![s] = nx[m], ![r] = m, ![m] = nx[s]]
    BY <1>2, <1>4, <2>2
  <2>4. nx2 \in [List!Nodes -> List!Nodes \cup {List!NULL}]
    BY <1>10, <2>3
  <2>5. nx2[l] = s /\ nx2[s] = nx[m] /\ nx2[r] = m /\ nx2[m] = nx[s]
    BY <1>8, <2>1, <2>3
  <2>6. \A x \in List!Nodes : x \notin {l, m, r, s} => nx2[x] = nx[x]
    BY <2>3
  <2>7. \A k \in 1 .. n : k \notin {a, a + 1, b, b + 1} => nx2[q[k]] = nx[q[k]]
    BY <1>9, <2>6
  <2> QED
    BY <1>2, <1>3, <1>4, <1>5, <1>7, <1>12, <2>4, <2>5, <2>7 DEF SwappedLinks
<1> QED
  BY <1>11, <1>12

\* Swapping the children of the nodes at a and b exchanges what follows them.
LEMMA SwapExchanges ==
    ASSUME NEW q, NEW n, NEW hd, NEW nx, NEW S, Links(q, n, hd, nx, S),
           nx \in [List!Nodes -> List!Nodes \cup {List!NULL}],
           NEW a \in 1 .. n, NEW b \in a + 1 .. n - 1,
           NEW nx2, nx2 = SwappedIn(nx, q[a], q[b])
    PROVE  /\ SwappedLinks(q, n, nx, nx2, a, b)
           /\ \E r \in [1 .. n -> List!Nodes] :
                 Links(r, n, hd, nx2, S) /\ Exchanged(q, r, n, a + 1, b + 1)
<1>1. /\ n \in Nat /\ a \in Nat /\ b \in Nat /\ a + 1 \in 1 .. n /\ b \in 1 .. n
      /\ b + 1 \in 1 .. n /\ a # b /\ a + 1 # b + 1 /\ a # b + 1 /\ a # a + 1 /\ b # b + 1
      /\ a # n /\ b # n /\ a + 1 # n
  BY DEF Links
<1> DEFINE r == [k \in 1 .. n |-> IF k = a + 1 THEN q[b + 1] ELSE IF k = b + 1 THEN q[a + 1] ELSE q[k]]
<1>2. \A k \in 1 .. n : r[k] = IF k = a + 1 THEN q[b + 1] ELSE IF k = b + 1 THEN q[a + 1] ELSE q[k]
  OBVIOUS
<1>3. r \in [1 .. n -> List!Nodes]
  BY <1>1 DEF Links
<1> HIDE DEF r
<1>4. r[a + 1] = q[b + 1] /\ r[b + 1] = q[a + 1]
  BY <1>1, <1>2
<1>5. \A k \in 1 .. n : k # a + 1 /\ k # b + 1 => r[k] = q[k]
  BY <1>2
<1>6. Exchanged(q, r, n, a + 1, b + 1)
  BY <1>3, <1>4, <1>5 DEF Exchanged
<1>7. \A j, k \in 1 .. n : r[j] = r[k] => j = k
  BY <1>1, <1>2 DEF Links
<1>8. \A k \in 1 .. n : r[k] \in S
  BY <1>1, <1>2 DEF Links
<1>9. \A x \in S : \E k \in 1 .. n : r[k] = x
  <2> SUFFICES ASSUME NEW x \in S PROVE \E k \in 1 .. n : r[k] = x
    OBVIOUS
  <2>1. PICK k \in 1 .. n : q[k] = x
    BY DEF Links
  <2>2. CASE k = a + 1
    BY <1>1, <1>4, <2>1, <2>2
  <2>3. CASE k = b + 1
    BY <1>1, <1>4, <2>1, <2>3
  <2>4. CASE k # a + 1 /\ k # b + 1
    BY <1>5, <2>1, <2>4
  <2> QED
    BY <2>2, <2>3, <2>4
<1>10. hd = IF n = 0 THEN List!NULL ELSE r[1]
  <2>1. 1 \in 1 .. n /\ 1 # a + 1 /\ 1 # b + 1 /\ n # 0
    BY <1>1
  <2> QED
    BY <1>5, <2>1 DEF Links
<1>11. /\ nx2 \in [List!Nodes -> List!Nodes \cup {List!NULL}]
       /\ nx2[q[a]] = q[b + 1]
       /\ nx2[q[b + 1]] = IF b = a + 1 THEN q[a + 1] ELSE q[a + 2]
       /\ b # a + 1 => nx2[q[b]] = q[a + 1]
       /\ nx2[q[a + 1]] = IF b + 1 = n THEN List!NULL ELSE q[b + 2]
       /\ \A k \in 1 .. n : k \notin {a, a + 1, b, b + 1} => nx2[q[k]] = nx[q[k]]
  BY SwapLinks DEF SwappedLinks
<1>12. ASSUME NEW k \in 1 .. n PROVE nx2[r[k]] = IF k = n THEN List!NULL ELSE r[k + 1]
  <2>1. CASE k = a
    <3>1. r[k] = q[a]
      BY <1>1, <1>5, <2>1
    <3> QED
      BY <1>1, <1>4, <1>11, <2>1, <3>1
  <2>2. CASE k = a + 1
    <3>1. CASE b = a + 1
      BY <1>1, <1>4, <1>11, <2>2, <3>1
    <3>2. CASE b # a + 1
      <4>1. a + 2 \in 1 .. n /\ a + 2 # a + 1 /\ a + 2 # b + 1 /\ k + 1 = a + 2
        BY <1>1, <2>2, <3>2
      <4>2. r[a + 2] = q[a + 2]
        BY <1>5, <4>1
      <4> QED
        BY <1>1, <1>4, <1>11, <2>2, <3>2, <4>1, <4>2
    <3> QED
      BY <3>1, <3>2
  <2>3. CASE k = b /\ b # a + 1
    <3>1. r[b] = q[b]
      BY <1>1, <1>5, <2>3
    <3> QED
      BY <1>1, <1>4, <1>11, <2>3, <3>1
  <2>4. CASE k = b + 1
    <3>1. b + 1 # n => b + 2 \in 1 .. n /\ b + 2 # a + 1 /\ b + 2 # b + 1 /\ k + 1 = b + 2
      BY <1>1, <2>4
    <3>2. b + 1 # n => r[b + 2] = q[b + 2]
      BY <1>5, <3>1
    <3> QED
      BY <1>4, <1>11, <2>4, <3>1, <3>2
  <2>5. CASE k \notin {a, a + 1, b, b + 1}
    <3>1. r[k] = q[k] /\ nx2[q[k]] = nx[q[k]]
      BY <1>5, <1>11, <2>5
    <3>2. nx[q[k]] = IF k = n THEN List!NULL ELSE q[k + 1]
      BY DEF Links
    <3>3. k # n => k + 1 \in 1 .. n /\ k + 1 # a + 1 /\ k + 1 # b + 1
      BY <1>1, <2>5
    <3>4. k # n => r[k + 1] = q[k + 1]
      BY <1>5, <3>3
    <3> QED
      BY <3>1, <3>2, <3>4
  <2> QED
    BY <2>1, <2>2, <2>3, <2>4, <2>5
<1>13. Links(r, n, hd, nx2, S)
  BY <1>1, <1>3, <1>7, <1>8, <1>9, <1>10, <1>12 DEF Links
<1> QED
  BY <1>3, <1>6, <1>13, SwapLinks

\* Moving the first node to place g of the links moves it there in the order.
LEMMA MoveTurns ==
    ASSUME NEW q, NEW n, NEW hd, NEW nx, NEW S, Links(q, n, hd, nx, S),
           NEW g \in 2 .. n,
           NEW nx2, nx2[q[1]] = nx[q[g]], nx2[q[g]] = q[1],
           \A k \in 1 .. n : k \notin {1, g} => nx2[q[k]] = nx[q[k]]
    PROVE  \E r \in [1 .. n -> List!Nodes] : Links(r, n, nx[hd], nx2, S) /\ Turned(q, r, n, g)
<1> DEFINE p == [k \in 1 .. n |-> IF k < g THEN k + 1 ELSE IF k = g THEN 1 ELSE k]
           r == [k \in 1 .. n |-> q[p[k]]]
<1>1. /\ n \in Nat \ {0, 1} /\ g \in Nat /\ g \in 1 .. n /\ 1 \in 1 .. n /\ 2 \in 1 .. n
      /\ g # 1 /\ 1 < g
  BY DEF Links
<1>2. \A k \in 1 .. n : p[k] = IF k < g THEN k + 1 ELSE IF k = g THEN 1 ELSE k
  OBVIOUS
<1>3. \A k \in 1 .. n : p[k] \in 1 .. n
  BY <1>1, <1>2
<1>4. \A j, k \in 1 .. n : p[j] = p[k] => j = k
  BY <1>1, <1>2
<1>5. \A k \in 1 .. n : r[k] = q[p[k]]
  OBVIOUS
<1>6. r \in [1 .. n -> List!Nodes]
  BY <1>3 DEF Links
<1> HIDE DEF p, r
<1>7. \A k \in 1 .. n : r[k] = IF k < g THEN q[k + 1] ELSE IF k = g THEN q[1] ELSE q[k]
  BY <1>2, <1>5
<1>8. Turned(q, r, n, g)
  BY <1>6, <1>7 DEF Turned
<1>9. ASSUME NEW j \in 1 .. n, NEW k \in 1 .. n, r[j] = r[k] PROVE j = k
  <2>1. p[j] \in 1 .. n /\ p[k] \in 1 .. n /\ q[p[j]] = q[p[k]]
    BY <1>3, <1>5, <1>9
  <2>2. p[j] = p[k]
    BY <2>1 DEF Links
  <2> QED
    BY <1>4, <2>2
<1>10. \A k \in 1 .. n : r[k] \in S
  BY <1>3, <1>5 DEF Links
<1>11. \A x \in S : \E k \in 1 .. n : r[k] = x
  <2> SUFFICES ASSUME NEW x \in S PROVE \E k \in 1 .. n : r[k] = x
    OBVIOUS
  <2>1. PICK k \in 1 .. n : q[k] = x
    BY DEF Links
  <2>2. CASE k = 1
    BY <1>1, <1>7, <2>1, <2>2
  <2>3. CASE k \in 2 .. g
    <3>1. k - 1 \in 1 .. n /\ k - 1 < g /\ k - 1 + 1 = k
      BY <1>1, <2>3
    <3> QED
      BY <1>7, <2>1, <3>1
  <2>4. CASE k > g
    <3>1. ~(k < g) /\ k # g
      BY <1>1, <2>4
    <3> QED
      BY <1>7, <2>1, <3>1
  <2> QED
    BY <1>1, <2>2, <2>3, <2>4
<1>12. nx[hd] = IF n = 0 THEN List!NULL ELSE r[1]
  <2>1. hd = q[1] /\ nx[q[1]] = q[1 + 1]
    BY <1>1 DEF Links
  <2> QED
    BY <1>1, <1>7, <2>1
<1>13. ASSUME NEW k \in 1 .. n PROVE nx2[r[k]] = IF k = n THEN List!NULL ELSE r[k + 1]
  <2>0. \A j \in 1 .. n : nx[q[j]] = IF j = n THEN List!NULL ELSE q[j + 1]
    BY DEF Links
  <2>1. CASE k < g - 1
    <3>1. k + 1 \in 1 .. n /\ k + 1 \notin {1, g} /\ k < g /\ k + 1 < g /\ k # n /\ k + 1 # n
      BY <1>1, <2>1
    <3>2. r[k] = q[k + 1] /\ r[k + 1] = q[k + 1 + 1]
      BY <1>7, <3>1
    <3> QED
      BY <2>0, <3>1, <3>2
  <2>2. CASE k = g - 1
    <3>1. k < g /\ k + 1 = g /\ k # n
      BY <1>1, <2>2
    <3>2. r[k] = q[g] /\ r[k + 1] = q[1]
      BY <1>1, <1>7, <3>1
    <3> QED
      BY <3>1, <3>2
  <2>3. CASE k = g
    <3>1. k # n => k + 1 \in 1 .. n /\ ~(k + 1 < g) /\ k + 1 # g
      BY <1>1, <2>3
    <3>2. k # n => r[k + 1] = q[k + 1]
      BY <1>7, <3>1
    <3>3. r[k] = q[1]
      BY <1>1, <1>7, <2>3
    <3> QED
      BY <1>1, <2>0, <2>3, <3>2, <3>3
  <2>4. CASE k > g
    <3>1. k \notin {1, g} /\ ~(k < g) /\ k # g
      BY <1>1, <2>4
    <3>2. k # n => k + 1 \in 1 .. n /\ ~(k + 1 < g) /\ k + 1 # g
      BY <1>1, <2>4
    <3>3. r[k] = q[k] /\ (k # n => r[k + 1] = q[k + 1])
      BY <1>7, <3>1, <3>2
    <3> QED
      BY <2>0, <3>1, <3>3
  <2> QED
    BY <1>1, <2>1, <2>2, <2>3, <2>4
<1>14. Links(r, n, nx[hd], nx2, S)
  BY <1>1, <1>6, <1>9, <1>10, <1>11, <1>12, <1>13 DEF Links
<1> QED
  BY <1>6, <1>8, <1>14

-----------------------------------------------------------------------------
(* What the steps do to the lines.                                         *)

\* What the sort knows when it finds the line at b + 1 less than the one at a + 1.
ToSwap(q, n, d, a, b) ==
    /\ a \in 1 .. n
    /\ b \in a + 1 .. n - 1
    /\ Ascending(q, n, d, 2, a)
    /\ LeastAt(q, d, a + 1, b)
    /\ d[q[a + 1]] > d[q[b + 1]]

\* A swap brings a smaller line forward: what was in order stays so, and what is
\* now at place a + 1 is the least as far as b + 1.
LEMMA SwapOrders ==
    ASSUME NEW d \in [List!Nodes -> Int], NEW n \in Nat,
           NEW q \in [1 .. n -> List!Nodes], NEW r \in [1 .. n -> List!Nodes],
           NEW a, NEW b, ToSwap(q, n, d, a, b), Exchanged(q, r, n, a + 1, b + 1)
    PROVE  Ascending(r, n, d, 2, a) /\ LeastAt(r, d, a + 1, b + 1)
<1>0. /\ a \in 1 .. n /\ b \in a + 1 .. n - 1
      /\ Ascending(q, n, d, 2, a) /\ LeastAt(q, d, a + 1, b)
      /\ d[q[a + 1]] > d[q[b + 1]]
  BY DEF ToSwap
<1>1. /\ a + 1 \in 1 .. n /\ b \in 1 .. n /\ b + 1 \in 1 .. n /\ a # a + 1 /\ a # b + 1
      /\ a + 1 # b + 1
  BY <1>0
<1>2. r[a + 1] = q[b + 1] /\ r[b + 1] = q[a + 1]
      /\ \A k \in 1 .. n : k # a + 1 /\ k # b + 1 => r[k] = q[k]
  BY DEF Exchanged
<1>3. \A k \in 1 .. n : d[q[k]] \in Int /\ d[r[k]] \in Int
  OBVIOUS
<1>4. ASSUME NEW k \in 2 .. a, NEW j \in 1 .. n, k < j PROVE d[r[k]] <= d[r[j]]
  <2>1. k \in 1 .. n /\ k # a + 1 /\ k # b + 1 /\ k < a + 1 /\ k < b + 1
    BY <1>0
  <2>2. r[k] = q[k]
    BY <1>2, <2>1
  <2>3. \A x \in 1 .. n : k < x => d[q[k]] <= d[q[x]]
    BY <1>0 DEF Ascending
  <2>4. CASE j = a + 1
    BY <1>1, <1>2, <2>1, <2>2, <2>3, <2>4
  <2>5. CASE j = b + 1
    BY <1>1, <1>2, <2>1, <2>2, <2>3, <2>5
  <2>6. CASE j # a + 1 /\ j # b + 1
    BY <1>2, <1>4, <2>2, <2>3, <2>6
  <2> QED
    BY <2>4, <2>5, <2>6
<1>5. ASSUME NEW c \in a + 1 .. b + 1 PROVE d[r[a + 1]] <= d[r[c]]
  <2>1. CASE c = a + 1
    BY <1>1, <1>3, <2>1
  <2>2. CASE c = b + 1
    BY <1>0, <1>1, <1>2, <1>3, <2>2
  <2>3. CASE c # a + 1 /\ c # b + 1
    <3>1. c \in 1 .. n /\ c \in a + 1 .. b
      BY <1>0, <2>3
    <3>2. r[c] = q[c] /\ d[q[a + 1]] <= d[q[c]]
      BY <1>0, <1>2, <2>3, <3>1 DEF LeastAt
    <3> QED
      BY <1>0, <1>1, <1>2, <1>3, <3>1, <3>2
  <2> QED
    BY <2>1, <2>2, <2>3
<1> QED
  BY <1>4, <1>5 DEF Ascending, LeastAt

\* The first line goes behind those that are not bigger, and all is in order.
LEMMA TurnOrders ==
    ASSUME NEW d \in [List!Nodes -> Int], NEW n \in Nat,
           NEW q \in [1 .. n -> List!Nodes], NEW r, NEW g \in 1 .. n,
           Turned(q, r, n, g),
           Ascending(q, n, d, 2, n),
           \A c \in 2 .. g : d[q[c]] <= d[q[1]],
           g # n => d[q[1]] < d[q[g + 1]]
    PROVE  Ascending(r, n, d, 1, n)
<1>1. \A k \in 1 .. n : d[q[k]] \in Int
  OBVIOUS
<1>2. \A k \in 1 .. n : r[k] = IF k < g THEN q[k + 1] ELSE IF k = g THEN q[1] ELSE q[k]
  BY DEF Turned
<1>3. \A k \in 2 .. n : \A j \in 1 .. n : k < j => d[q[k]] <= d[q[j]]
  BY DEF Ascending
<1>4. ASSUME NEW k \in 1 .. n, NEW j \in 1 .. n, k < j PROVE d[r[k]] <= d[r[j]]
  <2>1. CASE j < g
    <3>1. k < g /\ k + 1 \in 2 .. n /\ j + 1 \in 1 .. n /\ k + 1 < j + 1
      BY <1>4, <2>1
    <3> QED
      BY <1>2, <1>3, <2>1, <3>1
  <2>2. CASE j = g
    <3>1. k < g /\ k + 1 \in 2 .. g /\ ~(j < g)
      BY <1>4, <2>2
    <3> QED
      BY <1>2, <2>2, <3>1
  <2>3. CASE j > g /\ k < g
    <3>1. k + 1 \in 2 .. n /\ k + 1 < j /\ ~(j < g) /\ j # g
      BY <1>4, <2>3
    <3> QED
      BY <1>2, <1>3, <2>3, <3>1
  <2>4. CASE k = g
    <3>1. g # n /\ g + 1 \in 2 .. n /\ g + 1 \in 1 .. n /\ ~(j < g) /\ j # g /\ ~(k < g)
      BY <1>4, <2>4
    <3>2. d[q[1]] < d[q[g + 1]] /\ r[k] = q[1] /\ r[j] = q[j] /\ 1 \in 1 .. n
      BY <1>2, <2>4, <3>1
    <3>3. CASE j = g + 1
      BY <1>1, <3>1, <3>2, <3>3
    <3>4. CASE j # g + 1
      <4>1. g + 1 < j
        BY <1>4, <2>4, <3>4
      <4>2. d[q[g + 1]] <= d[q[j]]
        BY <1>3, <3>1, <4>1
      <4> QED
        BY <1>1, <3>1, <3>2, <4>2
    <3> QED
      BY <3>3, <3>4
  <2>5. CASE k > g
    <3>1. k \in 2 .. n /\ ~(k < g) /\ k # g /\ ~(j < g) /\ j # g
      BY <1>4, <2>5
    <3> QED
      BY <1>2, <1>3, <1>4, <3>1
  <2> QED
    BY <1>4, <2>1, <2>2, <2>3, <2>4, <2>5
<1> QED
  BY <1>4 DEF Ascending

-----------------------------------------------------------------------------
(* The steps.                                                              *)

LEMMA ListTypes == List!TypeOK => /\ next \in [List!Nodes -> List!Nodes \cup {List!NULL}]
                                  /\ data \in [List!Nodes -> Int]
                                  /\ MaxNodes \in Nat /\ pushed \in Nat /\ pushed <= MaxNodes
                                  /\ List!NULL \notin List!Nodes
<1> SUFFICES ASSUME List!TypeOK
             PROVE  /\ next \in [List!Nodes -> List!Nodes \cup {List!NULL}]
                    /\ data \in [List!Nodes -> Int]
                    /\ MaxNodes \in Nat /\ pushed \in Nat /\ pushed <= MaxNodes
                    /\ List!NULL \notin List!Nodes
  OBVIOUS
<1>1. MaxNodes \in Nat
  BY BoundsAssumption
<1>2. pushed \in Nat /\ pushed <= MaxNodes
  BY <1>1 DEF List!TypeOK
<1>3. List!NULL \notin List!Nodes
  BY <1>1 DEF List!Nodes, List!NULL
<1>4. data \in [List!Nodes -> Int]
  BY LinesAssumption DEF List!TypeOK
<1> QED
  BY <1>1, <1>2, <1>3, <1>4 DEF List!TypeOK

\* Where the links and the lines stay, only the places of the pointers matter.
LEMMA ListQuiet ==
    ASSUME ListInv, UNCHANGED <<head, next, data, pushed, forgotten, freed>>,
           List!TypeOK', ListControl',
           \A q, n : Links(q, n, head, next, (1 .. pushed) \ (freed \cup forgotten))
                     /\ SortedSoFar(q, n, data, sorting, out, in, first)
                     => SortedSoFar(q, n, data, sorting', out', in', first')
    PROVE  ListInv'
<1>1. PICK n \in 0 .. pushed : \E q \in [1 .. n -> List!Nodes] :
             /\ Links(q, n, head, next, (1 .. pushed) \ (freed \cup forgotten))
             /\ SortedSoFar(q, n, data, sorting, out, in, first)
  BY DEF ListInv
<1>2. PICK q \in [1 .. n -> List!Nodes] :
             /\ Links(q, n, head, next, (1 .. pushed) \ (freed \cup forgotten))
             /\ SortedSoFar(q, n, data, sorting, out, in, first)
  BY <1>1
<1>3. SortedSoFar(q, n, data, sorting', out', in', first')
  BY <1>2
<1>4. SortedSoFar(q, n, data, sorting, out, in, first)'
  BY <1>3
<1>5. Links(q, n, head, next, (1 .. pushed) \ (freed \cup forgotten))'
  BY <1>2
<1> QED
  BY <1>4, <1>5 DEF ListInv

\* What main does.
LEMMA MainSteps ==
    ASSUME ListInv,
           \/ \E line \in Lines : List!l_push_front(line)
           \/ List!PushFails \/ List!Stop \/ List!l_erase \/ List!Ended
    PROVE  ListInv'
<1>0. List!TypeOK /\ ListControl
  BY DEF ListInv
<1>1. ASSUME NEW line \in Lines, List!l_push_front(line) PROVE ListInv'
  <2>1. /\ pushed' = pushed + 1 /\ pushed' \in 1 .. MaxNodes /\ freed = {} /\ freed' = {}
        /\ forgotten' = forgotten /\ forgotten \subseteq 1 .. pushed
    BY <1>0, <1>1, ListTypes DEF List!l_push_front, ListControl
  <2>2. sorting' = sorting /\ sorting \notin {"outer", "inner", "find", "unlock"}
    BY <1>0, <1>1 DEF List!l_push_front, ListControl, List!sortVars, List!nodeVars
  <2>3. List!TypeOK'
    BY <1>0, <1>1, <2>1 DEF List!TypeOK, List!l_push_front, List!sortVars, List!nodeVars, List!Nodes
  <2>4. ListControl'
    <3>1. input' = input /\ input = "read" /\ locked' = locked
      BY <1>1 DEF List!l_push_front
    <3>2. forgotten' \subseteq 1 .. pushed'
      BY <1>0, <2>1, ListTypes
    <3> QED
      BY <1>0, <2>1, <2>2, <3>1, <3>2 DEF ListControl
  <2>5. PICK n \in 0 .. pushed : \E q \in [1 .. n -> List!Nodes] :
                 Links(q, n, head, next, (1 .. pushed) \ (freed \cup forgotten))
    BY DEF ListInv
  <2>6. PICK q \in [1 .. n -> List!Nodes] : Links(q, n, head, next, (1 .. pushed) \ (freed \cup forgotten))
    BY <2>5
  <2>7. PICK m \in List!Nodes : m = pushed'
    BY <2>1 DEF List!Nodes
  <2>8. PICK nx2 : nx2 = [next EXCEPT ![m] = head]
    OBVIOUS
  <2>9. PICK T : T = ((1 .. pushed) \ (freed \cup forgotten)) \cup {m}
    OBVIOUS
  <2>10. m \in List!Nodes \ ((1 .. pushed) \ (freed \cup forgotten))
    BY <1>0, <2>1, <2>7, ListTypes
  <2>11. PICK r \in [1 .. n + 1 -> List!Nodes] : Links(r, n + 1, m, nx2, T)
    BY <1>0, <2>6, <2>8, <2>9, <2>10, ListTypes, PushedFirst
  <2>12. T = (1 .. pushed') \ (freed' \cup forgotten')
    <3>1. 1 .. pushed' = (1 .. pushed) \cup {m} /\ m \notin 1 .. pushed
      BY <1>0, <2>1, <2>7, ListTypes
    <3> QED
      BY <2>1, <2>9, <3>1
  <2>13. head' = m /\ next' = nx2
    BY <1>1, <2>7, <2>8 DEF List!l_push_front
  <2>14. Links(r, n + 1, head, next, (1 .. pushed) \ (freed \cup forgotten))'
    BY <2>11, <2>12, <2>13
  <2>15. SortedSoFar(r, n + 1, data, sorting, out, in, first)'
    BY <2>2 DEF SortedSoFar
  <2>16. n + 1 \in 0 .. pushed'
    BY <1>0, <2>1, ListTypes
  <2> QED
    BY <2>3, <2>4, <2>14, <2>15, <2>16 DEF ListInv
<1>2. CASE List!l_erase
  <2>1. input = "join" /\ sorting = "done" /\ UNCHANGED <<next, data, sorting, pushed, forgotten>>
    BY <1>2 DEF List!l_erase, List!sortVars, List!nodeVars
  <2>2. PICK n \in 0 .. pushed : \E q \in [1 .. n -> List!Nodes] :
                 Links(q, n, head, next, (1 .. pushed) \ (freed \cup forgotten))
    BY DEF ListInv
  <2>3. PICK q \in [1 .. n -> List!Nodes] : Links(q, n, head, next, (1 .. pushed) \ (freed \cup forgotten))
    BY <2>2
  <2>4. CASE head = List!NULL
    <3>1. head' = head /\ freed' = freed /\ input' = "done"
      BY <1>2, <2>4 DEF List!l_erase
    <3>2. n = 0
      <4>1. ASSUME n # 0 PROVE FALSE
        <5>1. 1 \in 1 .. n /\ q[1] \in List!Nodes /\ head = q[1]
          BY <2>3, <4>1 DEF Links
        <5> QED
          BY <1>0, <2>4, <5>1, ListTypes
      <4> QED
        BY <4>1
    <3>3. freed \cup forgotten = 1 .. pushed
      <4>1. \A m \in (1 .. pushed) \ (freed \cup forgotten) : \E k \in 1 .. n : q[k] = m
        BY <2>3 DEF Links
      <4>2. ~\E k \in 1 .. n : TRUE
        BY <3>2
      <4>3. \A m \in 1 .. pushed : m \in freed \cup forgotten
        BY <4>1, <4>2
      <4> QED
        BY <1>0, <4>3 DEF ListControl
    <3>4. List!TypeOK'
      BY <1>0, <1>2, <3>1 DEF List!TypeOK, List!l_erase, List!sortVars, List!nodeVars
    <3>5. ListControl'
      BY <1>0, <1>2, <2>1, <3>1, <3>3 DEF ListControl, List!l_erase
    <3>6. Links(q, n, head, next, (1 .. pushed) \ (freed \cup forgotten))'
      BY <2>1, <2>3, <3>1
    <3>7. SortedSoFar(q, n, data, sorting, out, in, first)'
      BY <2>1 DEF SortedSoFar
    <3>8. n \in 0 .. pushed'
      BY <2>1
    <3> QED
      BY <3>4, <3>5, <3>6, <3>7, <3>8 DEF ListInv
  <2>5. CASE head # List!NULL
    <3>1. head' = next[head] /\ freed' = freed \cup {head} /\ input' = "join"
      BY <1>2, <2>5 DEF List!l_erase
    <3>2. PICK T : T = ((1 .. pushed) \ (freed \cup forgotten)) \ {head}
      OBVIOUS
    <3>3. /\ n - 1 \in Nat
          /\ head \in (1 .. pushed) \ (freed \cup forgotten)
          /\ \E r \in [1 .. n - 1 -> List!Nodes] : Links(r, n - 1, next[head], next, T)
      <4>1. PICK S : S = (1 .. pushed) \ (freed \cup forgotten)
        OBVIOUS
      <4>2. Links(q, n, head, next, S) /\ T = S \ {head}
        BY <2>3, <3>2, <4>1
      <4>3. /\ n - 1 \in Nat
            /\ head \in S
            /\ \E r \in [1 .. n - 1 -> List!Nodes] : Links(r, n - 1, next[head], next, T)
        BY <2>5, <4>2, ErasedFirst
      <4> QED
        BY <4>1, <4>3
    <3>4. PICK r \in [1 .. n - 1 -> List!Nodes] : Links(r, n - 1, next[head], next, T)
      BY <3>3
    <3>5. T = (1 .. pushed') \ (freed' \cup forgotten')
      BY <2>1, <3>1, <3>2
    <3>6. Links(r, n - 1, head, next, (1 .. pushed) \ (freed \cup forgotten))'
      BY <2>1, <3>1, <3>4, <3>5
    <3>7. SortedSoFar(r, n - 1, data, sorting, out, in, first)'
      BY <2>1 DEF SortedSoFar
    <3>8. n - 1 \in 0 .. pushed'
      BY <1>0, <2>1, <3>3, ListTypes
    <3>9. next[head] \in List!Nodes \cup {List!NULL} /\ head \in List!Nodes
      BY <1>0, <2>5 DEF List!TypeOK
    <3>10. List!TypeOK'
      BY <1>0, <1>2, <3>1, <3>9 DEF List!TypeOK, List!l_erase, List!sortVars, List!nodeVars
    <3>11. ListControl'
      BY <1>0, <1>2, <2>1, <3>1, <3>3 DEF ListControl, List!l_erase
    <3> QED
      BY <3>6, <3>7, <3>8, <3>10, <3>11 DEF ListInv
  <2> QED
    BY <2>4, <2>5
<1>3. CASE List!Stop
  <2>1. UNCHANGED <<head, next, data, sorting, out, in, first, pushed, forgotten, freed>>
    BY <1>3 DEF List!Stop, List!sortVars, List!nodeVars
  <2>2. List!TypeOK' /\ ListControl'
    BY <1>0, <1>3 DEF List!TypeOK, ListControl, List!Stop, List!sortVars, List!nodeVars
  <2> QED
    BY <2>1, <2>2, ListQuiet
<1>5. CASE List!PushFails
  <2>1. /\ head' = List!NULL /\ forgotten' = 1 .. pushed /\ pushed' = pushed /\ input = "read"
        /\ UNCHANGED <<sorting, out, in, first, data>>
        /\ sorting \notin {"outer", "inner", "find", "unlock"}
    BY <1>0, <1>5 DEF List!PushFails, List!sortVars, List!nodeVars, ListControl
  <2>2. List!TypeOK'
    BY <1>0, <1>5, <2>1, ListTypes
       DEF List!TypeOK, List!PushFails, List!sortVars, List!nodeVars, List!Nodes
  <2>3. ListControl'
    BY <1>0, <1>5, <2>1 DEF ListControl, List!PushFails, List!sortVars, List!nodeVars
  <2>4. PICK q : q = [k \in 1 .. 0 |-> 0]
    OBVIOUS
  <2>5. q \in [1 .. 0 -> List!Nodes] /\ 0 \in 0 .. pushed'
    BY <1>0, <2>1, <2>4, ListTypes
  <2>6. Links(q, 0, head, next, (1 .. pushed) \ (freed \cup forgotten))'
    BY <2>1, <2>5 DEF Links
  <2>7. SortedSoFar(q, 0, data, sorting, out, in, first)'
    BY <2>1 DEF SortedSoFar
  <2> QED
    BY <2>2, <2>3, <2>5, <2>6, <2>7 DEF ListInv
<1>4. CASE List!Ended
  BY <1>4, ListFrame DEF List!Ended, List!listVars, List!sortVars, List!nodeVars, listVars
<1> QED
  BY <1>1, <1>2, <1>3, <1>4, <1>5

\* The sort that looks, waits, begins, goes on with a pointer or ends.
LEMMA SortGoesOn ==
    ASSUME ListInv,
           \/ List!Poll \/ List!NotYet \/ List!SortBegins \/ List!Outer \/ List!InnerEnds
           \/ List!LookOn \/ List!Unlock
    PROVE  ListInv'
<1>0. List!TypeOK /\ ListControl
  BY DEF ListInv
<1>1. UNCHANGED <<head, next, data, pushed, forgotten, freed, input>>
  BY DEF List!Poll, List!NotYet, List!SortBegins, List!Outer, List!InnerEnds, List!LookOn,
     List!Unlock, List!nodeVars
<1>2. ListControl'
  BY <1>0, <1>1 DEF ListControl, List!Poll, List!NotYet, List!SortBegins, List!Outer,
     List!InnerEnds, List!LookOn, List!Unlock
<1>3. SUFFICES /\ List!TypeOK'
               /\ \A q, n : Links(q, n, head, next, (1 .. pushed) \ (freed \cup forgotten))
                            /\ SortedSoFar(q, n, data, sorting, out, in, first)
                            => SortedSoFar(q, n, data, sorting', out', in', first')
  BY <1>1, <1>2, ListQuiet
<1> DEFINE Goal == \A q, n : Links(q, n, head, next, (1 .. pushed) \ (freed \cup forgotten))
                             /\ SortedSoFar(q, n, data, sorting, out, in, first)
                             => SortedSoFar(q, n, data, sorting', out', in', first')
<1>4. CASE List!Poll \/ List!NotYet \/ List!Unlock
  <2>1. sorting' \in {"poll", "delay", "done"} /\ UNCHANGED <<out, in, first, sort_status>>
        /\ locked' \in BOOLEAN
    BY <1>0, <1>4 DEF List!Poll, List!NotYet, List!Unlock, List!TypeOK
  <2>2. List!TypeOK'
    BY <1>0, <1>1, <2>1 DEF List!TypeOK
  <2>3. Goal
    BY <2>1 DEF SortedSoFar
  <2> QED
    BY <2>2, <2>3
<1>5. CASE List!SortBegins
  <2>1. List!TypeOK'
    BY <1>0, <1>1, <1>5 DEF List!TypeOK, List!SortBegins
  <2> SUFFICES ASSUME NEW q, NEW n, Links(q, n, head, next, (1 .. pushed) \ (freed \cup forgotten))
               PROVE  SortedSoFar(q, n, data, sorting', out', in', first')
    BY <2>1
  <2>2. n \in Nat /\ (n = 0 <=> head = List!NULL)
    <3>1. n # 0 => 1 \in 1 .. n /\ head = q[1] /\ q[1] \in List!Nodes
      BY DEF Links
    <3> QED
      BY <1>0, <3>1, ListTypes DEF Links
  <2>3. CASE head = List!NULL
    <3>1. sorting' = "unlock" /\ Ascending(q, n, data, 1, n)
      BY <1>5, <2>2, <2>3 DEF List!SortBegins, Ascending
    <3> QED
      BY <3>1 DEF SortedSoFar
  <2>4. CASE head # List!NULL
    <3>1. sorting' = "outer" /\ out' = q[1] /\ 1 \in 1 .. n
      BY <1>5, <2>2, <2>4 DEF List!SortBegins, Links
    <3>2. Ascending(q, n, data, 2, 1)
      BY DEF Ascending
    <3> QED
      BY <3>1, <3>2 DEF SortedSoFar
  <2> QED
    BY <2>3, <2>4
<1>6. CASE List!Outer
  <2>0. sorting = "outer" /\ out' = out
    BY <1>6 DEF List!Outer
  <2>1. ASSUME NEW q, NEW n, Links(q, n, head, next, (1 .. pushed) \ (freed \cup forgotten)),
               SortedSoFar(q, n, data, sorting, out, in, first)
        PROVE  SortedSoFar(q, n, data, sorting', out', in', first') /\ out \in List!Nodes
    <3>1. PICK a \in 1 .. n : out = q[a] /\ Ascending(q, n, data, 2, a)
      BY <2>0, <2>1 DEF SortedSoFar
    <3>2. out \in List!Nodes /\ next[out] = IF a = n THEN List!NULL ELSE q[a + 1]
      BY <2>1, <3>1 DEF Links
    <3>3. n \in Nat /\ (a # n => a + 1 \in 1 .. n /\ a + 1 \in a + 1 .. n)
      BY <2>1 DEF Links
    <3>4. a # n => q[a + 1] \in List!Nodes
      BY <2>1, <3>3 DEF Links
    <3>5. CASE a = n
      <4>1. sorting' = "find" /\ first' = head
        BY <1>6, <3>2, <3>5 DEF List!Outer
      <4>2. head = q[1] /\ 1 \in 1 .. n
        BY <2>1, <3>3 DEF Links
      <4>3. \A c \in 2 .. 1 : data[q[c]] <= data[q[1]]
        OBVIOUS
      <4> QED
        BY <3>1, <3>2, <3>5, <4>1, <4>2, <4>3 DEF SortedSoFar
    <3>6. CASE a # n
      <4>1. sorting' = "inner" /\ in' = q[a + 1]
        BY <1>0, <1>6, <3>2, <3>4, <3>6, ListTypes DEF List!Outer
      <4>2. data[q[a + 1]] \in Int
        BY <1>0, <3>4, <3>6, ListTypes
      <4>3. \A c \in a + 1 .. a + 1 : data[q[a + 1]] <= data[q[c]]
        BY <3>3, <4>2
      <4> QED
        BY <2>0, <3>1, <3>2, <3>3, <3>6, <4>1, <4>3 DEF SortedSoFar, LeastAt
    <3> QED
      BY <3>5, <3>6
  <2>2. out \in List!Nodes
    BY <2>1 DEF ListInv
  <2>3. next[out] \in List!Nodes \cup {List!NULL}
    BY <1>0, <2>2, ListTypes
  <2>4. List!TypeOK'
    BY <1>0, <1>1, <1>6, <2>3 DEF List!TypeOK, List!Outer
  <2> QED
    BY <2>1, <2>4
<1>7. CASE List!InnerEnds
  <2>0. sorting = "inner" /\ sorting' = "outer" /\ out' = next[out] /\ next[in] = List!NULL
    BY <1>7 DEF List!InnerEnds
  <2>1. ASSUME NEW q, NEW n, Links(q, n, head, next, (1 .. pushed) \ (freed \cup forgotten)),
               SortedSoFar(q, n, data, sorting, out, in, first)
        PROVE  SortedSoFar(q, n, data, sorting', out', in', first') /\ out \in List!Nodes
    <3>1. PICK a \in 1 .. n :
             /\ out = q[a] /\ Ascending(q, n, data, 2, a)
             /\ \E b \in a + 1 .. n : /\ in = q[b]
                                      /\ LeastAt(q, data, a + 1, b)
      BY <2>0, <2>1 DEF SortedSoFar
    <3>2. PICK b \in a + 1 .. n : /\ in = q[b]
                                  /\ LeastAt(q, data, a + 1, b)
      BY <3>1
    <3>3. n \in Nat /\ a # n /\ a + 1 \in 1 .. n /\ b \in 1 .. n
      BY <2>1 DEF Links
    <3>4. out \in List!Nodes /\ next[out] = q[a + 1]
      BY <2>1, <3>1, <3>3 DEF Links
    <3>5. b = n
      <4>1. next[in] = IF b = n THEN List!NULL ELSE q[b + 1]
        BY <2>1, <3>2, <3>3 DEF Links
      <4>2. b # n => b + 1 \in 1 .. n /\ q[b + 1] \in List!Nodes
        BY <2>1, <3>3 DEF Links
      <4> QED
        BY <1>0, <2>0, <4>1, <4>2, ListTypes
    <3>6. ASSUME NEW k \in 2 .. a + 1, NEW j \in 1 .. n, k < j
          PROVE  data[q[k]] <= data[q[j]]
      <4>1. CASE k = a + 1
        <5>1. j \in a + 1 .. b
          BY <3>3, <3>5, <3>6, <4>1
        <5> QED
          BY <3>2, <4>1, <5>1 DEF LeastAt
      <4>2. CASE k # a + 1
        <5>1. k \in 2 .. a
          BY <3>3, <4>2
        <5> QED
          BY <3>1, <3>6, <5>1 DEF Ascending
      <4> QED
        BY <4>1, <4>2
    <3>7. Ascending(q, n, data, 2, a + 1)
      BY <3>6 DEF Ascending
    <3> QED
      BY <2>0, <3>3, <3>4, <3>7 DEF SortedSoFar
  <2>2. out \in List!Nodes
    BY <2>1 DEF ListInv
  <2>3. next[out] \in List!Nodes \cup {List!NULL}
    BY <1>0, <2>2, ListTypes
  <2>4. List!TypeOK'
    BY <1>0, <1>1, <1>7, <2>3 DEF List!TypeOK, List!InnerEnds
  <2> QED
    BY <2>1, <2>4
<1>8. CASE List!LookOn
  <2>0. /\ sorting = "find" /\ sorting' = "find" /\ first' = next[first]
        /\ next[first] # List!NULL /\ data[head] >= data[next[first]]
    BY <1>8 DEF List!LookOn
  <2>1. ASSUME NEW q, NEW n, Links(q, n, head, next, (1 .. pushed) \ (freed \cup forgotten)),
               SortedSoFar(q, n, data, sorting, out, in, first)
        PROVE  SortedSoFar(q, n, data, sorting', out', in', first') /\ first \in List!Nodes
    <3>1. Ascending(q, n, data, 2, n)
      BY <2>0, <2>1 DEF SortedSoFar
    <3>2. PICK g \in 1 .. n : first = q[g] /\ \A c \in 2 .. g : data[q[c]] <= data[q[1]]
      BY <2>0, <2>1 DEF SortedSoFar
    <3>3. first \in List!Nodes /\ next[first] = IF g = n THEN List!NULL ELSE q[g + 1]
      BY <2>1, <3>2 DEF Links
    <3>4. n \in Nat /\ g # n /\ g + 1 \in 1 .. n /\ 1 \in 1 .. n /\ head = q[1]
      BY <2>0, <2>1, <3>3 DEF Links
    <3>5. data[q[g + 1]] \in Int /\ data[q[1]] \in Int
      <4>1. q[g + 1] \in List!Nodes /\ q[1] \in List!Nodes
        BY <2>1, <3>4 DEF Links
      <4> QED
        BY <1>0, <4>1, ListTypes
    <3>6. ASSUME NEW c \in 2 .. g + 1 PROVE data[q[c]] <= data[q[1]]
      <4>1. CASE c = g + 1
        BY <2>0, <3>3, <3>4, <3>5, <4>1
      <4>2. CASE c # g + 1
        <5>1. c \in 2 .. g
          BY <4>2
        <5> QED
          BY <3>2, <5>1
      <4> QED
        BY <4>1, <4>2
    <3> QED
      BY <2>0, <3>1, <3>3, <3>4, <3>6 DEF SortedSoFar
  <2>2. first \in List!Nodes
    BY <2>1 DEF ListInv
  <2>3. next[first] \in List!Nodes \cup {List!NULL}
    BY <1>0, <2>2, ListTypes
  <2>4. List!TypeOK'
    BY <1>0, <1>1, <1>8, <2>3 DEF List!TypeOK, List!LookOn
  <2> QED
    BY <2>1, <2>4
<1> QED
  BY <1>4, <1>5, <1>6, <1>7, <1>8

\* A comparison: what is out of order is swapped.
LEMMA InnerStep ==
    ASSUME ListInv, List!Inner
    PROVE  ListInv'
<1>0. List!TypeOK /\ ListControl
  BY DEF ListInv
<1>1. /\ UNCHANGED <<head, data, pushed, forgotten, freed, input, locked, sorting, out, first, sort_status>>
      /\ sorting = "inner" /\ next[in] # List!NULL
  BY DEF List!Inner, List!nodeVars
<1>2. ListControl'
  BY <1>0, <1>1 DEF ListControl
<1>3. PICK n \in 0 .. pushed : \E q \in [1 .. n -> List!Nodes] :
             /\ Links(q, n, head, next, (1 .. pushed) \ (freed \cup forgotten))
             /\ SortedSoFar(q, n, data, sorting, out, in, first)
  BY DEF ListInv
<1>4. PICK q \in [1 .. n -> List!Nodes] :
             /\ Links(q, n, head, next, (1 .. pushed) \ (freed \cup forgotten))
             /\ SortedSoFar(q, n, data, sorting, out, in, first)
  BY <1>3
<1>5. PICK a \in 1 .. n :
         /\ out = q[a] /\ Ascending(q, n, data, 2, a)
         /\ \E b \in a + 1 .. n : /\ in = q[b]
                                  /\ LeastAt(q, data, a + 1, b)
  BY <1>1, <1>4 DEF SortedSoFar
<1>6. PICK b \in a + 1 .. n : /\ in = q[b]
                              /\ LeastAt(q, data, a + 1, b)
  BY <1>5
<1>7. n \in Nat /\ a + 1 \in 1 .. n /\ b \in 1 .. n /\ a # n /\ a \in Nat /\ b \in Nat
  OBVIOUS
<1>8. next[in] = IF b = n THEN List!NULL ELSE q[b + 1]
  BY <1>4, <1>6, <1>7 DEF Links
<1>9. b # n /\ next[in] = q[b + 1] /\ b \in a + 1 .. n - 1 /\ b + 1 \in 1 .. n
      /\ b + 1 \in a + 1 .. n
  BY <1>1, <1>7, <1>8
<1>10. next[out] = q[a + 1]
  BY <1>4, <1>5, <1>7 DEF Links
<1>11. data \in [List!Nodes -> Int] /\ next \in [List!Nodes -> List!Nodes \cup {List!NULL}]
  BY <1>0, ListTypes
<1>12. q[a + 1] \in List!Nodes /\ q[b + 1] \in List!Nodes /\ q[b] \in List!Nodes
       /\ q[a] \in List!Nodes
  BY <1>7, <1>9
<1>13. CASE data[q[a + 1]] > data[q[b + 1]]
  <2>1. next' = SwappedIn(next, q[a], q[b])
    BY <1>5, <1>6, <1>9, <1>10, <1>13 DEF List!Inner, List!Swapped, SwappedIn
  <2>2. PICK nx2 : nx2 = next'
    OBVIOUS
  <2>3. nx2 = SwappedIn(next, q[a], q[b])
    BY <2>1, <2>2
  <2>4. /\ SwappedLinks(q, n, next, nx2, a, b)
        /\ \E r \in [1 .. n -> List!Nodes] :
              /\ Links(r, n, head, nx2, (1 .. pushed) \ (freed \cup forgotten))
              /\ Exchanged(q, r, n, a + 1, b + 1)
    BY <1>4, <1>9, <1>11, <2>3, SwapExchanges
  <2>5. PICK r \in [1 .. n -> List!Nodes] :
              /\ Links(r, n, head, nx2, (1 .. pushed) \ (freed \cup forgotten))
              /\ Exchanged(q, r, n, a + 1, b + 1)
    BY <2>4
  <2>6. r[a] = q[a] /\ r[b + 1] = q[a + 1]
    BY <1>7, <1>9, <2>5 DEF Exchanged
  <2>7. ToSwap(q, n, data, a, b)
    BY <1>5, <1>6, <1>9, <1>13 DEF ToSwap
  <2>8. Ascending(r, n, data, 2, a) /\ LeastAt(r, data, a + 1, b + 1)
    BY <1>7, <1>11, <2>5, <2>7, SwapOrders
  <2>9. in' = q[a + 1]
    <3>1. in' = nx2[IF next[out] = in THEN next[in] ELSE in]
      BY <1>9, <1>10, <1>13, <2>2 DEF List!Inner
    <3>2. next[out] = in <=> b = a + 1
      BY <1>4, <1>6, <1>7, <1>10 DEF Links
    <3> QED
      BY <1>6, <1>9, <2>4, <3>1, <3>2 DEF SwappedLinks
  <2>10. SortedSoFar(r, n, data, "inner", out, q[a + 1], first)
    BY <1>5, <1>9, <2>6, <2>8 DEF SortedSoFar
  <2>11. SortedSoFar(r, n, data, sorting, out, in, first)'
    BY <1>1, <2>9, <2>10
  <2>12. Links(r, n, head, next, (1 .. pushed) \ (freed \cup forgotten))'
    BY <1>1, <2>2, <2>5
  <2>13. List!TypeOK'
    BY <1>0, <1>1, <1>12, <2>2, <2>4, <2>9 DEF List!TypeOK, SwappedLinks
  <2>14. n \in 0 .. pushed'
    BY <1>1
  <2> QED
    BY <1>2, <2>11, <2>12, <2>13, <2>14 DEF ListInv
<1>14. CASE ~(data[q[a + 1]] > data[q[b + 1]])
  <2>1. next' = next /\ in' = q[b + 1]
    BY <1>9, <1>10, <1>14 DEF List!Inner
  <2>2. ASSUME NEW c \in a + 1 .. b + 1 PROVE data[q[a + 1]] <= data[q[c]]
    <3>1. CASE c = b + 1
      BY <1>11, <1>12, <1>14, <3>1
    <3>2. CASE c # b + 1
      <4>1. c \in a + 1 .. b
        BY <1>7, <3>2
      <4> QED
        BY <1>6, <4>1 DEF LeastAt
    <3> QED
      BY <3>1, <3>2
  <2>3. SortedSoFar(q, n, data, "inner", out, q[b + 1], first)
    BY <1>5, <1>9, <2>2 DEF SortedSoFar, LeastAt
  <2>4. SortedSoFar(q, n, data, sorting, out, in, first)'
    BY <1>1, <2>1, <2>3
  <2>5. Links(q, n, head, next, (1 .. pushed) \ (freed \cup forgotten))'
    BY <1>1, <1>4, <2>1
  <2>6. List!TypeOK'
    BY <1>0, <1>1, <1>12, <2>1 DEF List!TypeOK
  <2>7. n \in 0 .. pushed'
    BY <1>1
  <2> QED
    BY <1>2, <2>4, <2>5, <2>6, <2>7 DEF ListInv
<1> QED
  BY <1>13, <1>14

\* The first node moves to its place, and the list is in order.
LEMMA MoveStep ==
    ASSUME ListInv, List!MoveHead \/ List!MoveToEnd
    PROVE  ListInv'
<1>0. List!TypeOK /\ ListControl
  BY DEF ListInv
<1>1. /\ UNCHANGED <<data, pushed, forgotten, freed, input, locked, out, in, first, sort_status>>
      /\ sorting = "find" /\ sorting' = "unlock"
  BY DEF List!MoveHead, List!MoveToEnd, List!nodeVars
<1>2. ListControl'
  BY <1>0, <1>1 DEF ListControl
<1>3. PICK n \in 0 .. pushed : \E q \in [1 .. n -> List!Nodes] :
             /\ Links(q, n, head, next, (1 .. pushed) \ (freed \cup forgotten))
             /\ SortedSoFar(q, n, data, sorting, out, in, first)
  BY DEF ListInv
<1>4. PICK q \in [1 .. n -> List!Nodes] :
             /\ Links(q, n, head, next, (1 .. pushed) \ (freed \cup forgotten))
             /\ SortedSoFar(q, n, data, sorting, out, in, first)
  BY <1>3
<1>5. Ascending(q, n, data, 2, n)
  BY <1>1, <1>4 DEF SortedSoFar
<1>6. PICK g \in 1 .. n : first = q[g] /\ \A c \in 2 .. g : data[q[c]] <= data[q[1]]
  BY <1>1, <1>4 DEF SortedSoFar
<1>7. n \in Nat /\ 1 \in 1 .. n /\ head = q[1] /\ (g # n => g + 1 \in 1 .. n)
  BY <1>4 DEF Links
<1>8. next[q[g]] = IF g = n THEN List!NULL ELSE q[g + 1]
  BY <1>4, <1>6, <1>7 DEF Links
<1>9. data \in [List!Nodes -> Int] /\ next \in [List!Nodes -> List!Nodes \cup {List!NULL}]
      /\ List!NULL \notin List!Nodes
  BY <1>0, ListTypes
<1>10. q[1] \in List!Nodes /\ q[g] \in List!Nodes /\ (g # n => q[g + 1] \in List!Nodes)
  BY <1>7
<1>11. g # n => data[q[1]] < data[q[g + 1]]
  BY <1>6, <1>7, <1>8, <1>9, <1>10 DEF List!MoveHead, List!MoveToEnd
<1>12. g = n <=> next[first] = List!NULL
  BY <1>6, <1>8, <1>9, <1>10
<1>13. q[1] = q[g] <=> g = 1
  BY <1>4, <1>7 DEF Links
<1>14. CASE g = 1
  <2>1. head' = head /\ next' = next
    <3>1. CASE List!MoveHead
      BY <1>6, <1>7, <1>14, <3>1 DEF List!MoveHead
    <3>2. CASE List!MoveToEnd
      <4>1. next[q[1]] = List!NULL
        BY <1>6, <1>14, <3>2 DEF List!MoveToEnd
      <4>2. PICK joined : joined = [next EXCEPT ![q[1]] = q[1]]
        OBVIOUS
      <4>3. joined[q[1]] = q[1]
        BY <1>9, <1>10, <4>2
      <4>4. head' = joined[head] /\ next' = [joined EXCEPT ![joined[first]] = List!NULL]
        BY <1>6, <1>7, <1>14, <3>2, <4>2 DEF List!MoveToEnd
      <4>5. next' = [joined EXCEPT ![q[1]] = List!NULL]
        BY <1>6, <1>14, <4>3, <4>4
      <4>6. [joined EXCEPT ![q[1]] = List!NULL] = next
        BY <1>9, <1>10, <4>1, <4>2
      <4> QED
        BY <1>7, <4>3, <4>4, <4>5, <4>6
    <3> QED
      BY <3>1, <3>2
  <2>2. Turned(q, q, n, 1)
    BY DEF Turned
  <2>3. Ascending(q, n, data, 1, n)
    BY <1>5, <1>6, <1>7, <1>9, <1>11, <1>14, <2>2, TurnOrders
  <2>4. SortedSoFar(q, n, data, sorting, out, in, first)'
    BY <1>1, <2>3 DEF SortedSoFar
  <2>5. Links(q, n, head, next, (1 .. pushed) \ (freed \cup forgotten))'
    BY <1>1, <1>4, <2>1
  <2>6. List!TypeOK'
    BY <1>0, <1>1, <2>1 DEF List!TypeOK
  <2>7. n \in 0 .. pushed'
    BY <1>1
  <2> QED
    BY <1>2, <2>4, <2>5, <2>6, <2>7 DEF ListInv
<1>15. CASE g # 1
  <2>0. g \in 2 .. n
    BY <1>15
  <2>1. PICK nx2 : nx2 = [next EXCEPT ![q[1]] = next[q[g]], ![q[g]] = q[1]]
    OBVIOUS
  <2>2. next[q[g]] \in List!Nodes \cup {List!NULL} /\ next[q[1]] \in List!Nodes \cup {List!NULL}
    BY <1>9, <1>10
  <2>3. nx2 \in [List!Nodes -> List!Nodes \cup {List!NULL}]
    BY <1>9, <1>10, <2>1, <2>2
  <2>4. nx2[q[1]] = next[q[g]] /\ nx2[q[g]] = q[1]
    BY <1>9, <1>10, <1>13, <1>15, <2>1
  <2>5. \A x \in List!Nodes : x # q[1] /\ x # q[g] => nx2[x] = next[x]
    BY <1>9, <2>1
  <2>6. \A k \in 1 .. n : k \notin {1, g} => q[k] \in List!Nodes /\ q[k] # q[1] /\ q[k] # q[g]
    BY <1>4, <1>7 DEF Links
  <2>7. \A k \in 1 .. n : k \notin {1, g} => nx2[q[k]] = next[q[k]]
    BY <2>5, <2>6
  <2>8. head' = next[head] /\ next' = nx2
    <3>1. CASE List!MoveHead
      BY <1>6, <1>7, <1>13, <1>15, <2>1, <3>1 DEF List!MoveHead
    <3>2. CASE List!MoveToEnd
      <4>1. next[q[g]] = List!NULL
        BY <1>6, <3>2 DEF List!MoveToEnd
      <4>2. PICK joined : joined = [next EXCEPT ![q[g]] = q[1]]
        OBVIOUS
      <4>3. joined[q[g]] = q[1] /\ joined[q[1]] = next[q[1]]
        BY <1>9, <1>10, <1>13, <1>15, <4>2
      <4>4. head' = joined[head] /\ next' = [joined EXCEPT ![joined[first]] = List!NULL]
        BY <1>6, <1>7, <3>2, <4>2 DEF List!MoveToEnd
      <4>5. next' = [joined EXCEPT ![q[1]] = List!NULL]
        BY <1>6, <4>3, <4>4
      <4>6. [joined EXCEPT ![q[1]] = List!NULL] = nx2
        BY <1>9, <1>10, <1>13, <1>15, <2>1, <4>1, <4>2
      <4> QED
        BY <1>7, <4>3, <4>4, <4>5, <4>6
    <3> QED
      BY <3>1, <3>2
  <2>9. PICK r \in [1 .. n -> List!Nodes] :
           /\ Links(r, n, next[head], nx2, (1 .. pushed) \ (freed \cup forgotten))
           /\ Turned(q, r, n, g)
    BY <1>4, <2>0, <2>4, <2>7, MoveTurns
  <2>10. Ascending(r, n, data, 1, n)
    BY <1>5, <1>6, <1>7, <1>9, <1>11, <2>9, TurnOrders
  <2>11. SortedSoFar(r, n, data, sorting, out, in, first)'
    BY <1>1, <2>10 DEF SortedSoFar
  <2>12. Links(r, n, head, next, (1 .. pushed) \ (freed \cup forgotten))'
    BY <1>1, <2>8, <2>9
  <2>13. List!TypeOK'
    BY <1>0, <1>1, <1>7, <2>2, <2>3, <2>8 DEF List!TypeOK
  <2>14. n \in 0 .. pushed'
    BY <1>1
  <2> QED
    BY <1>2, <2>11, <2>12, <2>13, <2>14 DEF ListInv
<1> QED
  BY <1>14, <1>15

LEMMA ListStep == ListInv /\ List!Next => ListInv'
BY MainSteps, SortGoesOn, InnerStep, MoveStep DEF List!Next, List!l_sort

-----------------------------------------------------------------------------
(* The walk along the links.                                               *)

\* From the head the links lead through the nodes in order, and then to NULL.
LEMMA WalkInOrder ==
    ASSUME ListInv, NEW q, NEW n \in 0 .. pushed,
           Links(q, n, head, next, (1 .. pushed) \ (freed \cup forgotten))
    PROVE  \A k \in 0 .. MaxNodes : List!Walk[k] = IF k < n THEN q[k + 1] ELSE List!NULL
<1> DEFINE Turn(f, k) == IF k = 0 THEN head
                         ELSE IF f[k - 1] = List!NULL THEN List!NULL ELSE next[f[k - 1]]
           g == [k \in 0 .. MaxNodes |-> IF k < n THEN q[k + 1] ELSE List!NULL]
           w == CHOOSE f : f = [k \in 0 .. MaxNodes |-> Turn(f, k)]
<1>0. /\ MaxNodes \in Nat /\ n \in Nat /\ List!NULL \notin List!Nodes
      /\ \A k \in 1 .. n : q[k] \in List!Nodes /\ q[k] # List!NULL
  BY ListTypes DEF ListInv, Links
<1>1. List!Walk = w
  BY DEF List!Walk
<1>2. \A k \in 0 .. MaxNodes : g[k] = IF k < n THEN q[k + 1] ELSE List!NULL
  OBVIOUS
<1>3. ASSUME NEW k \in 0 .. MaxNodes PROVE g[k] = Turn(g, k)
  <2>1. CASE k = 0
    <3>1. g[0] = IF 0 < n THEN q[0 + 1] ELSE List!NULL
      BY <1>0, <1>2
    <3>2. head = IF n = 0 THEN List!NULL ELSE q[1]
      BY DEF Links
    <3> QED
      BY <1>0, <2>1, <3>1, <3>2
  <2>2. CASE k # 0 /\ k - 1 < n
    <3>1. k \in 1 .. n /\ k - 1 \in 0 .. MaxNodes
      BY <1>0, <2>2
    <3>2. g[k - 1] = q[k - 1 + 1]
      BY <1>2, <2>2, <3>1
    <3>3. next[q[k]] = IF k = n THEN List!NULL ELSE q[k + 1]
      BY <3>1 DEF Links
    <3>4. k - 1 + 1 = k /\ (k < n <=> k # n)
      BY <1>0, <3>1
    <3> QED
      BY <1>0, <1>2, <2>2, <3>1, <3>2, <3>3, <3>4
  <2>3. CASE k # 0 /\ ~(k - 1 < n)
    <3>1. k - 1 \in 0 .. MaxNodes /\ ~(k < n)
      BY <1>0, <2>3
    <3> QED
      BY <1>2, <2>3, <3>1
  <2> QED
    BY <1>0, <2>1, <2>2, <2>3
<1>4. g = [k \in 0 .. MaxNodes |-> g[k]]
  OBVIOUS
<1> HIDE DEF g
<1>5. g = [k \in 0 .. MaxNodes |-> Turn(g, k)]
  BY <1>3, <1>4
<1>6. w = [k \in 0 .. MaxNodes |-> Turn(w, k)]
  BY <1>5
<1> HIDE DEF w
<1>7. \A k \in 0 .. MaxNodes : w[k] = Turn(w, k)
  BY <1>6, Zenon
<1> DEFINE S == {k \in 0 .. MaxNodes : w[k] = g[k]}
<1>8. 0 \in S
  BY <1>0, <1>3, <1>7
<1>9. ASSUME NEW k \in 0 .. MaxNodes - 1, k \in S PROVE k + 1 \in S
  <2>1. k + 1 \in 0 .. MaxNodes /\ k + 1 # 0 /\ k + 1 - 1 = k
    BY <1>0
  <2>2. w[k] = g[k]
    BY <1>9
  <2>3. Turn(w, k + 1) = Turn(g, k + 1)
    BY <2>1, <2>2
  <2> QED
    BY <1>3, <1>7, <2>1, <2>3
<1> HIDE DEF S
<1>10. \A k \in 0 .. MaxNodes : k \in S
  BY <1>0, <1>8, <1>9, CountUp
<1> USE DEF S
<1> QED
  BY <1>1, <1>2, <1>10

\* The invariant says what the list keeps.
LEMMA ListInvImplies == ListInv => List!ListKeepsLines
<1> SUFFICES ASSUME ListInv PROVE List!ListKeepsLines
  OBVIOUS
<1>1. PICK n \in 0 .. pushed : \E q \in [1 .. n -> List!Nodes] :
             /\ Links(q, n, head, next, (1 .. pushed) \ (freed \cup forgotten))
             /\ SortedSoFar(q, n, data, sorting, out, in, first)
  BY DEF ListInv
<1>2. PICK q \in [1 .. n -> List!Nodes] :
             /\ Links(q, n, head, next, (1 .. pushed) \ (freed \cup forgotten))
             /\ SortedSoFar(q, n, data, sorting, out, in, first)
  BY <1>1
<1>3. /\ MaxNodes \in Nat /\ n \in Nat /\ n <= MaxNodes /\ List!NULL \notin List!Nodes
      /\ \A k \in 1 .. n : q[k] \in List!Nodes /\ q[k] # List!NULL
  BY <1>2, ListTypes DEF ListInv, Links
<1>4. \A k \in 0 .. MaxNodes : List!Walk[k] = IF k < n THEN q[k + 1] ELSE List!NULL
  BY <1>2, WalkInOrder
<1>5. List!Walk[MaxNodes] = List!NULL
  BY <1>3, <1>4
<1>6. {List!Walk[k] : k \in 0 .. MaxNodes} \ {List!NULL} = (1 .. pushed) \ (freed \cup forgotten)
  <2>1. ASSUME NEW k \in 0 .. MaxNodes, List!Walk[k] # List!NULL
        PROVE  List!Walk[k] \in (1 .. pushed) \ (freed \cup forgotten)
    <3>1. k < n /\ k + 1 \in 1 .. n /\ List!Walk[k] = q[k + 1]
      BY <1>3, <1>4, <2>1
    <3> QED
      BY <1>2, <3>1 DEF Links
  <2>2. ASSUME NEW m \in (1 .. pushed) \ (freed \cup forgotten)
        PROVE  m # List!NULL /\ \E k \in 0 .. MaxNodes : List!Walk[k] = m
    <3>1. PICK k \in 1 .. n : q[k] = m
      BY <1>2 DEF Links
    <3>2. k - 1 \in 0 .. MaxNodes /\ k - 1 < n /\ k - 1 + 1 = k
      BY <1>3, <3>1
    <3>3. List!Walk[k - 1] = m
      BY <1>4, <3>1, <3>2
    <3> QED
      BY <1>3, <3>1, <3>2, <3>3
  <2> QED
    BY <2>1, <2>2
<1>7. ASSUME sorting = "unlock", NEW k \in 0 .. MaxNodes - 1,
             List!Walk[k] # List!NULL, List!Walk[k + 1] # List!NULL
      PROVE  data[List!Walk[k]] <= data[List!Walk[k + 1]]
  <2>1. k \in 0 .. MaxNodes /\ k + 1 \in 0 .. MaxNodes
    BY <1>3
  <2>2. k + 1 < n /\ k < n
    BY <1>3, <1>4, <1>7, <2>1
  <2>3. List!Walk[k] = q[k + 1] /\ List!Walk[k + 1] = q[k + 1 + 1]
    BY <1>4, <2>1, <2>2
  <2>4. k + 1 \in 1 .. n /\ k + 1 + 1 \in 1 .. n /\ k + 1 < k + 1 + 1
    BY <1>3, <2>2
  <2>5. Ascending(q, n, data, 1, n)
    BY <1>2, <1>7 DEF SortedSoFar
  <2>6. data[q[k + 1]] <= data[q[k + 1 + 1]]
    BY <2>4, <2>5 DEF Ascending
  <2> QED
    BY <2>3, <2>6
<1>8. input = "done" => freed = (1 .. pushed) \ forgotten
  BY DEF ListInv, ListControl
<1> QED
  BY <1>5, <1>6, <1>7, <1>8 DEF List!ListKeepsLines

-----------------------------------------------------------------------------
(* The programs side by side.                                              *)

ProgramsInv == /\ PiInv /\ ListInv /\ TreeInv /\ OpenInv
               /\ CellInv /\ LinesInv /\ ValuesInv
               /\ WidgetsInv /\ TestInv /\ StatusInv /\ QueueFits

\* A step is one of its program, and no step of the others.
LEMMA OneProgramSteps ==
    ASSUME [MCNext]_allVars
    PROVE  /\ Next \/ UNCHANGED vars
           /\ List!Next \/ UNCHANGED listVars
           /\ Test!Next \/ UNCHANGED testVars
           /\ Parts!Next \/ UNCHANGED widgetVars
           /\ Tree!Next \/ UNCHANGED copyVars
           /\ Cell!Next \/ UNCHANGED cellVars
           /\ Status!Next \/ UNCHANGED statusVars
<1>1. CASE Pi /\ Next
  BY <1>1 DEF Pi, processVars
<1>2. CASE Sort /\ List!Next
  BY <1>2 DEF Sort, processVars
<1>3. CASE Copy /\ Tree!Next
  BY <1>3 DEF Copy, processVars
<1>4. CASE Exchange /\ Cell!Next
  BY <1>4 DEF Exchange, threadVars
<1>5. CASE Make /\ Parts!Next
  BY <1>5 DEF Make, threadVars
<1>6. CASE Try /\ Test!Next
  BY <1>6 DEF Try, threadVars
<1>7. CASE Report /\ Status!Next
  BY <1>7 DEF Report, threadVars
<1>8. CASE UNCHANGED allVars
  BY <1>8 DEF allVars, threadVars, processVars
<1> QED
  BY <1>1, <1>2, <1>3, <1>4, <1>5, <1>6, <1>7, <1>8 DEF MCNext

LEMMA ProgramsStart == MCInit => ProgramsInv
BY PiInit, ListInit, TestInit, WidgetsInit, TreeInit, OpenInit, CellInit, LinesInit, ValuesInit,
   StatusInit, QueueInit DEF MCInit, ProgramsInv

LEMMA ProgramsStep == ProgramsInv /\ [MCNext]_allVars => ProgramsInv'
<1> SUFFICES ASSUME ProgramsInv, [MCNext]_allVars PROVE ProgramsInv'
  OBVIOUS
<1>0. PiInv'
  BY OneProgramSteps, PiStep DEF ProgramsInv
<1>1. TestInv'
  BY OneProgramSteps, TestStep, TestFrame DEF ProgramsInv
<1>2. WidgetsInv'
  BY OneProgramSteps, WidgetsStep, WidgetsFrame DEF ProgramsInv
<1>3. TreeInv' /\ OpenInv'
  BY OneProgramSteps, TreeStep, TreeFrame, OpenStep, OpenFrame DEF ProgramsInv
<1>4. CellInv' /\ LinesInv'
  BY OneProgramSteps, CellStep, CellFrame, LinesStep, LinesFrame DEF ProgramsInv
<1>5. ValuesInv'
  BY OneProgramSteps, ValuesStep, ValuesFrame DEF ProgramsInv
<1>6. StatusInv'
  BY OneProgramSteps, StatusStep, StatusFrame DEF ProgramsInv
<1>7. QueueFits'
  BY OneProgramSteps, QueueStep, QueueFrame DEF ProgramsInv, StatusInv
<1>8. ListInv'
  BY OneProgramSteps, ListStep, ListFrame DEF ProgramsInv
<1> QED
  BY <1>0, <1>1, <1>2, <1>3, <1>4, <1>5, <1>6, <1>7, <1>8 DEF ProgramsInv

\* Whatever program runs, and whoever is killed, its invariant holds.
THEOREM ProgramsInvariant == MCSpec => []ProgramsInv
<1> QED
  BY ProgramsStart, ProgramsStep, PTL DEF MCSpec

\* Each program is at one of its calls with values of their types: no semaphore of
\* the cell grows beyond what the lines account for, whatever is undone, the copy
\* has no more descriptors open than there are, the queue no more messages than fit.
THEOREM ProgramsTypeCorrect == MCSpec => []ProgramsTypeOK
<1>1. PiInv => TypeOK
  BY DEF PiInv
<1>2. ListInv => List!TypeOK
  BY DEF ListInv
<1>3. WidgetsInv /\ TestInv => Parts!TypeOK /\ Test!TypeOK
  BY DEF WidgetsInv, TestInv
<1>4. StatusInv /\ QueueFits => Status!TypeOK
  BY QueueTypes DEF StatusInv
<1>5. ProgramsInv => ProgramsTypeOK
  BY <1>1, <1>2, <1>3, <1>4, TreeTypes, ValuesImply DEF ProgramsInv, ProgramsTypeOK
<1> QED
  BY <1>5, ProgramsInvariant, PTL

\* What semaphores count is not lost when processes are killed: the right to use
\* the cell, the details of the widgets, the five semaphores of the test - for any
\* number of processes and of kills.
THEOREM SemaphoresAreKept == MCSpec => []SemaphoresKept
<1>1. ProgramsInv => SemaphoresKept
  BY CellInvImplies DEF ProgramsInv, SemaphoresKept, WidgetsInv, TestInv
<1> QED
  BY <1>1, ProgramsInvariant, PTL

\* Every line that was pushed is in the list that main pushes to and erases, once,
\* and a sort that ends leaves the list in order - for any number of lines and any
\* lines.
THEOREM ListsKeepLines == MCSpec => []ListKeepsLines
<1>1. ProgramsInv => ListKeepsLines
  BY ListInvImplies DEF ProgramsInv, ListKeepsLines
<1> QED
  BY <1>1, ProgramsInvariant, PTL

\* A copy that has reported no error is complete, for any tree and any number of
\* descriptors.
THEOREM CopiesAreComplete == MCSpec => []CopyComplete
<1>1. ProgramsInv => CopyComplete
  BY DEF ProgramsInv, TreeInv, CopyComplete
<1> QED
  BY <1>1, ProgramsInvariant, PTL

\* Lines that are handed over are printed, and the master of the status queue
\* stops by itself only when it has heard all - for any number of consumers, slaves
\* and lines and a queue of any capacity.
THEOREM LinesAreDelivered == MCSpec => []LinesDelivered
<1>1. ProgramsInv => LinesDelivered
  BY LinesImplies, StatusImplies DEF ProgramsInv, LinesDelivered
<1> QED
  BY <1>1, ProgramsInvariant, PTL

\* For any number of threads and any moment of the signal, the threads' shares
\* of the sum that main prints end within one block of each other.
THEOREM PrintedSum == MCSpec => []PrintedSumIsPrefix
<1>1. PiInv => PrintedSumIsPrefix
  <2>1. SUFFICES ASSUME PiInv, main = "printed"
                 PROVE  /\ \A t \in Threads : pc[t] = "done"
                        /\ \E n \in 1..(MaxBlock + 1) :
                              \A t \in Threads : blocks[t] \in {n, n + 1}
    BY DEF PrintedSumIsPrefix
  <2>2. \A t \in Threads : pc[t] = "done"
    BY <2>1 DEF PiInv, CreatedAndJoined
  <2>3. \A t \in Threads : blocks[t] \in {global_iter_counter + 1, global_iter_counter + 1 + 1}
    BY <2>1, <2>2 DEF PiInv, TypeOK, BlocksMatchCounter, NearFinishLine
  <2>4. global_iter_counter + 1 \in 1..(MaxBlock + 1)
    BY <2>1, MaxBlockAssumption DEF PiInv, TypeOK
  <2> QED  BY <2>2, <2>3, <2>4
<1>2. ProgramsInv => PiInv
  BY DEF ProgramsInv
<1> QED  BY <1>1, <1>2, ProgramsInvariant, PTL

\* Threads that have ended are never more than one block apart.
THEOREM Spread == MCSpec => []SpreadAtMostOne
<1>1. PiInv => SpreadAtMostOne
  BY DEF PiInv, TypeOK, SpreadAtMostOne, BlocksMatchCounter, NearFinishLine
<1>2. ProgramsInv => PiInv
  BY DEF ProgramsInv
<1> QED  BY <1>1, <1>2, ProgramsInvariant, PTL
=============================================================================
