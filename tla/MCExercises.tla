----------------------------- MODULE MCExercises ----------------------------
(***************************************************************************)
(* Exercises, each a program of its own, of which one runs: with threads,  *)
(* pi until SIGINT (#8), the sorted list (#16) and the recursive copy (#6) *)
(* of a tree with two levels; with processes, the status queue (#32), the  *)
(* widget makers (#33), the shared cell (#34) and the test of SEM_UNDO.    *)
(***************************************************************************)
EXTENDS PiSignal, Integers, FiniteSets

CONSTANTS MaxNodes, Lines,
          Entries, Root, Parent, Kind, OpenMax,
          Consumers, Producer, CellLines, Kills,
          SEMVMX, DetailsMax,
          Master, Slaves,
          Reporters, Capacity, StatusLines

VARIABLES head, next, data, locked, sort_status, sorting, out, in, first, input, pushed,
          forgotten, freed,
          thread, copy_type, open, unread, made, copied, damaged, skipped, reported,
          at, shm, sems, val, undo, product, replaced, handed, output, kills, disturbed,
          maker, parts, count, detail_maker, details, lost, widgets,
          tester, flag, adj, locks, lockval, has,
          found, queue, master, alive, printed_lines, interrupted, known, slave,
          line_no, stray,
          program

\* The tree that is copied: its entries are "top", "dir" with "below" in it,
\* "file" and "link".
TreeKind == [e \in Entries |-> IF e \in {"top", "dir"} THEN "directory"
                               ELSE IF e = "link" THEN "other" ELSE "file"]
TreeParent == [e \in Entries \ {"top"} |-> IF e = "below" THEN "dir" ELSE "top"]

\* A tree: everything in it is found from its root, through directories.
ASSUME TreeAssumption ==
    /\ IsFiniteSet(Entries) /\ Root \in Entries
    /\ Kind \in [Entries -> {"file", "directory", "other"}]
    /\ Parent \in [Entries \ {Root} -> {e \in Entries : Kind[e] = "directory"}]
    /\ \A S \in SUBSET Entries :
          Root \in S /\ (\A e \in Entries \ {Root} : Parent[e] \in S => e \in S) => S = Entries
ASSUME ProcessesAssumption == Producer \notin Consumers /\ Master \notin Slaves
ASSUME BoundsAssumption ==
    {MaxNodes, OpenMax, CellLines, Kills, SEMVMX, DetailsMax, Capacity, StatusLines} \subseteq Nat
ASSUME LinesAssumption == Lines \subseteq Int /\ Lines # {}

List == INSTANCE SortedList
Tree == INSTANCE CopyTree
Cell == INSTANCE SharedCell
Parts == INSTANCE Widgets
Test == INSTANCE SemaphoreTest
Status == INSTANCE StatusQueue

listVars == <<head, next, data, locked, sort_status, sorting, out, in, first,
              input, pushed, forgotten, freed>>
copyVars == <<thread, copy_type, open, unread, made, copied, damaged, skipped, reported>>
cellVars == <<at, shm, sems, val, undo, product, replaced, handed, output, kills, disturbed>>
widgetVars == <<maker, parts, count, detail_maker, details, lost, widgets>>
testVars == <<tester, flag, adj, locks, lockval, has>>
statusVars == <<found, queue, master, alive, printed_lines, interrupted, known, slave,
                line_no, stray>>
threadVars == <<vars, listVars, copyVars>>
processVars == <<cellVars, widgetVars, testVars, statusVars>>
allVars == <<threadVars, processVars, program>>

\* A step of each program leaves the variables of the others alone.
Pi == program = "pi" /\ UNCHANGED <<listVars, copyVars, processVars, program>>
Sort == program = "sort" /\ UNCHANGED <<vars, copyVars, processVars, program>>
Copy == program = "copy" /\ UNCHANGED <<vars, listVars, processVars, program>>
Exchange == /\ program = "cell"
            /\ UNCHANGED <<threadVars, widgetVars, testVars, statusVars, program>>
Make == /\ program = "widgets"
        /\ UNCHANGED <<threadVars, cellVars, testVars, statusVars, program>>
Try == /\ program = "test"
       /\ UNCHANGED <<threadVars, cellVars, widgetVars, statusVars, program>>
Report == /\ program = "status"
          /\ UNCHANGED <<threadVars, cellVars, widgetVars, testVars, program>>

\* Only the copy has more than one initial state: they count when it runs.
MCInit == /\ program \in {"pi", "sort", "copy", "cell", "widgets", "test", "status"}
          /\ Init /\ List!Init /\ Tree!Init
          /\ program # "copy" => made = {} /\ copy_type["link"] = "file"
          /\ Cell!Init /\ Parts!Init /\ Test!Init /\ Status!Init

MCNext == \/ Pi /\ Next
          \/ Sort /\ List!Next
          \/ Copy /\ Tree!Next
          \/ Exchange /\ Cell!Next
          \/ Make /\ Parts!Next
          \/ Try /\ Test!Next
          \/ Report /\ Status!Next

\* The threads or processes of whichever program runs: the first, and the others.
First == \/ Pi /\ (Create \/ Join)
         \/ Sort /\ List!l_erase
         \/ Exchange /\ Cell!Produce
         \/ Make /\ Parts!AddWidget
         \/ Try /\ Test!MasterStep
         \/ Report /\ Status!MasterWorks
Other(n) == \/ Pi /\ n - 1 \in Threads /\ (Compute(n - 1) \/ Check(n - 1))
            \/ Sort /\ n = 1 /\ List!l_sort
            \/ Copy /\ Tree!copy(<<"top", "dir", "below", "file", "link">>[n])
            \/ Exchange /\ n \in Consumers /\ Cell!Consume(n)
            \/ Make /\ n <= 3 /\ LET k == <<"A", "B", "C">>[n]
                                 IN  Parts!AddDetail(k) \/ Parts!SemopFails(k)
            \/ Try /\ n \in Slaves /\ Test!SlaveStep(n)
            \/ Report /\ n \in Reporters /\ Status!SlaveWorks(n)

\* Threads and processes that were started go on, and their input comes; nobody
\* need be started, interrupted or killed.  The sorting thread polls without a
\* pause, and whether main gets the mutex to push or to stop it is not for the
\* code to say: that is not fair either.
MCSpec == /\ MCInit /\ [][MCNext]_allVars
          /\ WF_allVars(First) /\ \A n \in 1 .. 5 : WF_allVars(Other(n))

-----------------------------------------------------------------------------
\* The types of the programs.
ProgramsTypeOK == /\ TypeOK /\ List!TypeOK /\ Tree!TypeOK
                  /\ Cell!TypeOK /\ Parts!TypeOK /\ Test!TypeOK /\ Status!TypeOK

\* The list of #16 keeps its lines, until a push fails, and the sort puts them in
\* order.
ListKeepsLines == List!ListKeepsLines

\* A copy by #6 that reports no error is complete, and goes into directories
\* that are there.
CopyComplete == Tree!CopyComplete

\* The lines of the producer (#34) reach the output of the consumers, the last one,
\* too, as long as no kill takes whole rounds back and nobody is left on a segment
\* that was replaced; and those of the slaves (#32) that of their master, but for
\* slaves whose "R" comes after the last "F" it waits for.
LinesDelivered == Cell!LinesHandedOver /\ Status!AllHeard

\* What is counted by semaphores is not lost, whoever is killed at whatever
\* point: the right to use the shared cell; the details of the widgets, but for
\* those that a widget maker resets when it starts; the five semaphores of the
\* test, unless one ends with them that has taken them without SEM_UNDO.
SemaphoresKept == Cell!CellNotLost /\ Parts!PartsAddUp /\ Test!LockExclusive

\* The programs end: pi after SIGINT, the sort after the last line, the copy
\* unless every descriptor is with a thread that waits for another.  No process
\* waits for ever for one that has ended or that waits for it.
ProgramsEnd == []<>(/\ Settled /\ List!Settled
                    /\ program = "copy" => Tree!Settled
                    /\ Cell!Settled /\ Parts!Settled /\ Test!Settled /\ Status!Settled)
=============================================================================
