------------------------------ MODULE CopyTree ------------------------------
(***************************************************************************)
(* pthreads/laboratory_work_#6/main.c: a recursive copy with a thread for  *)
(* every entry.  A thread opens its source, then its destination, and      *)
(* tries again while the process has no descriptor left.                   *)
(*                                                                         *)
(* Entries are those of the source tree; a path in the destination has the *)
(* name of the entry it is made for.                                       *)
(***************************************************************************)
EXTENDS Integers, FiniteSets, FiniteSetsExt

CONSTANTS Entries, Root,
          Parent,    \* of each entry but the root
          Kind,      \* of each entry: "file", "directory", or "other"
          OpenMax    \* descriptors the process may have

VARIABLES thread,      \* of the thread of each entry: where it is
          copy_type,   \* of each task
          open,        \* descriptors each thread has
          unread,      \* what readdir has still to give
          made,        \* what is there in the destination
          copied,      \* files that were copied to their end
          damaged,     \* files of which the copy is another, and nobody has noticed
          skipped,     \* entries for which no thread was started, and nobody has noticed
          reported     \* entries a thread said goodbye to with an error

outcome == <<copied, damaged, skipped, reported>>
copyVars == <<thread, copy_type, open, unread, made, outcome>>

Children(e) == {c \in Entries \ {Root} : Parent[c] = e}
Open == FoldSet(LAMBDA e, n : n + open[e], 0, Entries)

\* For what is neither a file nor a directory (a link, say) copy_type is not set:
\* it is what malloc left there.
Types(e) == IF Kind[e] = "other" THEN {"file", "directory"} ELSE {Kind[e]}

\* main takes files and directories only.  The destination of a directory may
\* be there or not.
Init == /\ Kind[Root] # "other"
        /\ thread = [e \in Entries |-> IF e # Root THEN "none"
                                       ELSE IF Kind[Root] = "file" THEN "stat" ELSE "source"]
        /\ copy_type \in {f \in [Entries -> {"file", "directory"}] :
                              \A e \in Entries : f[e] \in Types(e)}
        /\ open = [e \in Entries |-> 0]
        /\ unread = [e \in Entries |-> Children(e)]
        /\ made \in SUBSET {Root}
        /\ copied = {} /\ damaged = {} /\ skipped = {} /\ reported = {}

Goto(e, there) == thread' = [thread EXCEPT ![e] = there]
Report(e) == reported' = reported \cup {e} /\ UNCHANGED <<copied, damaged, skipped>>

-----------------------------------------------------------------------------
Stat(e) == /\ thread[e] = "stat"
           /\ \/ Goto(e, "source") /\ UNCHANGED outcome
              \/ Goto(e, "ended") /\ Report(e)
           /\ UNCHANGED <<copy_type, open, unread, made>>

\* open and opendir of the source.
OpenSource(e) == /\ thread[e] = "source"
                 /\ Open < OpenMax
                 /\ open' = [open EXCEPT ![e] = 1]
                 /\ Goto(e, "destination")
                 /\ UNCHANGED <<copy_type, unread, made, outcome>>

\* A file is created; a directory has to be there.
OpenDestination(e) ==
    /\ thread[e] = "destination"
    /\ Open < OpenMax
    /\ copy_type[e] = "directory" => e \in made
    /\ open' = [open EXCEPT ![e] = 2]
    /\ made' = made \cup {e}
    /\ Goto(e, IF copy_type[e] = "file" THEN "copy" ELSE "read")
    /\ UNCHANGED <<copy_type, unread, outcome>>

\* Either fails with another error than EMFILE, for which the kernel looks
\* first; the source is closed.
OpenFails(e) == /\ thread[e] \in {"source", "destination"}
                /\ Open < OpenMax
                /\ Report(e)
                /\ open' = [open EXCEPT ![e] = 0]
                /\ Goto(e, "ended")
                /\ UNCHANGED <<copy_type, unread, made>>

\* EMFILE: the thread sleeps and tries again.
Retry(e) == /\ thread[e] \in {"source", "destination"}
            /\ Open >= OpenMax
            /\ UNCHANGED copyVars

\* The loop of read and write.  It ends with an error when either fails.  A write
\* that takes less than it was given goes unnoticed, and so does what is left of
\* a longer file that was there before.
CopyData(e) == /\ thread[e] = "copy"
               /\ \/ copied' = copied \cup {e} /\ UNCHANGED <<damaged, skipped, reported>>
                  \/ damaged' = damaged \cup {e} /\ UNCHANGED <<copied, skipped, reported>>
                  \/ Report(e)
               /\ Goto(e, "close")
               /\ UNCHANGED <<copy_type, open, unread, made>>

\* Mutant: the task of a directory is started before the directory is made.
EntryUnmade(e, c) == /\ thread[e] = "read" /\ c \in unread[e]
                     /\ unread' = [unread EXCEPT ![e] = @ \ {c}]
                     /\ UNCHANGED <<made, copy_type, copied, damaged>>

\* readdir gives entry c, and if it is a directory it is made.
Entry(e, c) == /\ thread[e] = "read" /\ c \in unread[e]
               /\ unread' = [unread EXCEPT ![e] = @ \ {c}]
               /\ made' = IF Kind[c] = "directory" THEN made \cup {c} ELSE made
               /\ UNCHANGED <<copy_type, copied, damaged>>

\* Its thread is started and detached.
Read(e) == \E c \in unread[e] :
               /\ Entry(e, c)
               /\ Goto(c, IF copy_type[c] = "file" THEN "stat" ELSE "source")
               /\ UNCHANGED <<open, skipped, reported>>

\* pthread_create fails: its error is a positive number, and goes unnoticed.
Unstarted(e, c) == Entry(e, c) /\ skipped' = skipped \cup {c}

\* pthread_detach then gets a handle nobody has set.  Nothing comes of it ...
ReadSkips(e) == \E c \in unread[e] : Unstarted(e, c) /\ UNCHANGED <<thread, open, reported>>

\* ... or the program crashes.
ReadCrashes(e) == \E c \in unread[e] :
    /\ Unstarted(e, c)
    /\ thread' = [d \in Entries |-> IF thread[d] = "none" THEN "none" ELSE "ended"]
    /\ open' = [d \in Entries |-> 0]
    /\ reported' = reported \cup {e}

\* malloc, lstat or mkdir fails, and the rest of the directory is left.
ReadFails(e) == /\ thread[e] = "read" /\ unread[e] # {}
                /\ Report(e)
                /\ Goto(e, "close")
                /\ UNCHANGED <<copy_type, open, unread, made>>

\* readdir gives NULL at the end, and also when it fails before.
ReadEnds(e) == /\ thread[e] = "read"
               /\ skipped' = skipped \cup unread[e]
               /\ Goto(e, "close")
               /\ UNCHANGED <<copy_type, open, unread, made, copied, damaged, reported>>

\* Mutant: only the destination is closed.
CloseOne(e) == /\ thread[e] = "close"
               /\ open' = [open EXCEPT ![e] = @ - 1]
               /\ Goto(e, "ended")
               /\ UNCHANGED <<copy_type, unread, made, outcome>>

\* Two calls, one after the other.
Close(e) == /\ thread[e] = "close"
            /\ open' = [open EXCEPT ![e] = @ - 1]
            /\ Goto(e, IF open[e] = 1 THEN "ended" ELSE "close")
            /\ UNCHANGED <<copy_type, unread, made, outcome>>

copy(e) == \/ Stat(e) \/ OpenSource(e) \/ OpenDestination(e) \/ OpenFails(e) \/ Retry(e)
           \/ CopyData(e) \/ Read(e) \/ ReadSkips(e) \/ ReadCrashes(e)
           \/ ReadFails(e) \/ ReadEnds(e) \/ Close(e)

AllEnded == \A e \in Entries : thread[e] \in {"none", "ended"}

Next == (\E e \in Entries : copy(e)) \/ (AllEnded /\ UNCHANGED copyVars)

-----------------------------------------------------------------------------
\* Threads hold two descriptors at most, and the process OpenMax.
TypeOK == /\ thread \in [Entries -> {"none", "stat", "source", "destination", "copy", "read",
                                     "close", "ended"}]
          /\ copy_type \in [Entries -> {"file", "directory"}]
          /\ open \in [Entries -> 0 .. 2] /\ Open <= OpenMax
          /\ \A e \in Entries : unread[e] \subseteq Children(e)
          /\ UNION {made, copied, damaged, skipped, reported} \subseteq Entries

Started == {e \in Entries : thread[e] # "none"}

\* When all threads have ended without an error, what was started is there, its
\* files have been gone through, and what was not started was passed over
\* unnoticed, or is below such an entry; where nothing was passed over, that is
\* the whole tree.  And a thread starts in a directory that has been made before.
CopyComplete ==
    /\ AllEnded /\ reported = {} =>
           /\ Started \subseteq made
           /\ copied \cup damaged = {e \in Started : Kind[e] # "directory"}
           /\ \A e \in Entries \ Started : e \in skipped \/ Parent[e] \notin Started
           /\ skipped = {} => Started = Entries
    /\ \A e \in Started \ {Root} : /\ Parent[e] \in made
                                   /\ Kind[e] = "directory" => e \in made

\* Where the copy may stay: the threads have ended, unless every descriptor is
\* held by a thread that waits for its second one, so that none will be closed.
Exhausted == /\ Cardinality({e \in Entries : thread[e] = "destination"}) = OpenMax
             /\ \A e \in Entries : thread[e] \in {"none", "source", "destination", "ended"}

Settled == AllEnded \/ Exhausted
=============================================================================
