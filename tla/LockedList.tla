----------------------------- MODULE LockedList -----------------------------
(***************************************************************************)
(* pthreads/laboratory_work_#17: main pushes lines to the front of a list, *)
(* and threads sort it, by locks on the list and on each node.  A step is  *)
(* what a thread does from one lock to the next; where list->head is used  *)
(* without the list's lock, a step is one line of the code.                *)
(*                                                                         *)
(* Nodes are numbered as they are pushed, and their lines are numbers.     *)
(* A thread that would follow a null pointer takes no step: what comes     *)
(* before the program is killed is all there is to see of it.              *)
(***************************************************************************)
EXTENDS Integers

CONSTANTS MaxNodes,   \* bound: lines main reads before it stops the threads
          Lines,      \* the lines, as strcmp orders them
          Sorters     \* the sorting threads

Nodes == 1 .. MaxNodes
NULL == 0
List == 0        \* the mutex of the list among those of the nodes
Nobody == 0
Main == 1

VARIABLES head, next, data,
          mutex,        \* who has the lock of the list and of each node
          sort_state,   \* of each task: has it been told to stop
          sorter,       \* of each thread: pc and local variables
          main,         \* what main is doing
          pushed,       \* nodes main has made
          current       \* main's: the node to print or to free

vars == <<head, next, data, mutex, sort_state, sorter, main, pushed, current>>
mainVars == <<main, pushed, current>>

Init == /\ head = NULL
        /\ next = [n \in Nodes |-> NULL]
        /\ data = [n \in Nodes |-> CHOOSE l \in Lines : TRUE]
        /\ mutex = [m \in {List} \cup Nodes |-> Nobody]
        /\ sort_state = [s \in Sorters |-> "START"]
        /\ sorter = [s \in Sorters |-> [pc |-> "sleep", out |-> NULL, out_next |-> NULL,
                                        in |-> NULL, in_next |-> NULL,
                                        first |-> NULL, new_head |-> NULL]]
        /\ main = "input"
        /\ pushed = 0
        /\ current = NULL

Free(m) == mutex[m] = Nobody
Lock(t, m) == Free(m) /\ mutex' = [mutex EXCEPT ![m] = t]
\* Whoever has it: unlocking a mutex of another thread just opens it.
Unlock(ms) == mutex' = [m \in DOMAIN mutex |-> IF m \in ms THEN Nobody ELSE mutex[m]]

-----------------------------------------------------------------------------
(* main                                                                    *)

\* l_push_front reads list->head under the lock of the list ...
PushBegins == /\ main = "input" /\ pushed < MaxNodes
              /\ Lock(Main, List)
              /\ pushed' = pushed + 1
              /\ next' = [next EXCEPT ![pushed'] = head]
              /\ \E l \in Lines : data' = [data EXCEPT ![pushed'] = l]
              /\ main' = "push"
              /\ UNCHANGED <<head, sort_state, sorter, current>>

\* ... and makes the new node the head.
PushEnds == /\ main = "push"
            /\ head' = pushed
            /\ Unlock({List})
            /\ main' = "input"
            /\ UNCHANGED <<next, data, sort_state, sorter, pushed, current>>

\* l_print keeps the list's lock and takes the node's one by one.
PrintBegins == /\ main = "input"
               /\ Lock(Main, List)
               /\ current' = head
               /\ main' = "print"
               /\ UNCHANGED <<head, next, data, sort_state, sorter, pushed>>

PrintNode == /\ main = "print" /\ current # NULL
             /\ Free(current)
             /\ current' = next[current]
             /\ UNCHANGED <<head, next, data, mutex, sort_state, sorter, main, pushed>>

PrintEnds == /\ main = "print" /\ current = NULL
             /\ Unlock({List})
             /\ main' = "input"
             /\ UNCHANGED <<head, next, data, sort_state, sorter, pushed, current>>

InputEnds == /\ main = "input"
             /\ main' = "stop"
             /\ UNCHANGED <<head, next, data, mutex, sort_state, sorter, pushed, current>>

StopTask(s) == /\ main = "stop" /\ sort_state[s] = "START"
               /\ Free(List)
               /\ sort_state' = [sort_state EXCEPT ![s] = "STOP"]
               /\ UNCHANGED <<head, next, data, mutex, sorter, mainVars>>

\* After pthread_join: l_erase takes the list's lock ...
EraseBegins == /\ main = "stop"
               /\ \A s \in Sorters : sort_state[s] = "STOP" /\ sorter[s].pc = "done"
               /\ Lock(Main, List)
               /\ current' = head
               /\ main' = "erase"
               /\ UNCHANGED <<head, next, data, sort_state, sorter, pushed>>

\* ... and that of each node, which it frees.
EraseNode == /\ main = "erase" /\ current # NULL
             /\ Free(current)
             /\ current' = next[current]
             /\ UNCHANGED <<head, next, data, mutex, sort_state, sorter, main, pushed>>

EraseEnds == /\ main = "erase" /\ current = NULL
             /\ Unlock({List})
             /\ main' = "done"
             /\ UNCHANGED <<head, next, data, sort_state, sorter, pushed, current>>

MainStep == \/ PushBegins \/ PushEnds
            \/ PrintBegins \/ PrintNode \/ PrintEnds
            \/ InputEnds \/ (\E s \in Sorters : StopTask(s))
            \/ EraseBegins \/ EraseNode \/ EraseEnds

-----------------------------------------------------------------------------
(* l_sort                                                                  *)

At(s, there) == sorter[s].pc = there
Goto(s, there) == sorter' = [sorter EXCEPT ![s].pc = there]

\* The sleep, the look at the task and at the clock.
Wake(s) == /\ At(s, "sleep")
           /\ Free(List)
           /\ \/ sort_state[s] = "STOP" /\ Goto(s, "done")
              \/ sort_state[s] = "START" /\ Goto(s, "sort")
           /\ UNCHANGED <<head, next, data, mutex>>

Start(s) == /\ At(s, "sort")
            /\ Free(List)
            /\ IF head = NULL THEN Goto(s, "sleep")
               ELSE sorter' = [sorter EXCEPT ![s].pc = "out_next", ![s].out = head]
            /\ UNCHANGED <<head, next, data, mutex>>

\* The heads of the two loops read the next node under the node's lock.
OutNext(s) == LET n == next[sorter[s].out]
              IN  /\ At(s, "out_next")
                  /\ Free(sorter[s].out)
                  /\ IF n = NULL
                     THEN sorter' = [sorter EXCEPT ![s].pc = "find", ![s].out_next = NULL]
                     ELSE sorter' = [sorter EXCEPT ![s].pc = "in_next", ![s].out_next = n,
                                                   ![s].in = n]
                  /\ UNCHANGED <<head, next, data, mutex>>

InNext(s) == LET n == next[sorter[s].in]
             IN  /\ At(s, "in_next")
                 /\ Free(sorter[s].in)
                 /\ IF n = NULL
                    THEN sorter' = [sorter EXCEPT ![s].pc = "out_next", ![s].in_next = NULL,
                                                  ![s].out = sorter[s].out_next]
                    ELSE sorter' = [sorter EXCEPT ![s].pc = "lock_out", ![s].in_next = n]
                 /\ UNCHANGED <<head, next, data, mutex>>

\* The four locks of a comparison; out and in may be neighbours.
LockOut(s) == /\ At(s, "lock_out")
              /\ Lock(s, sorter[s].out)
              /\ Goto(s, IF next[sorter[s].out] = sorter[s].in THEN "lock_in" ELSE "lock_child")
              /\ UNCHANGED <<head, next, data>>

LockChild(s) == /\ At(s, "lock_child")
                /\ next[sorter[s].out] # NULL
                /\ Lock(s, next[sorter[s].out])
                /\ Goto(s, "lock_in")
                /\ UNCHANGED <<head, next, data>>

LockIn(s) == /\ At(s, "lock_in")
             /\ Lock(s, sorter[s].in)
             /\ Goto(s, "lock_in_child")
             /\ UNCHANGED <<head, next, data>>

LockInChild(s) == /\ At(s, "lock_in_child")
                  /\ next[sorter[s].in] # NULL
                  /\ Lock(s, next[sorter[s].in])
                  /\ Goto(s, "compare")
                  /\ UNCHANGED <<head, next, data>>

swap_after(l, r) ==
    [next EXCEPT ![next[l]] = next[next[r]], ![l] = next[r],
                 ![next[r]] = next[next[l]], ![r] = next[l]]

swap_after_neighbours(l, r) ==
    [next EXCEPT ![l] = next[r], ![r] = next[next[r]], ![next[r]] = r]

\* The children change places if they are not in order; all is unlocked.
Compare(s) ==
    LET out == sorter[s].out
        in == sorter[s].in
    IN  /\ At(s, "compare")
        /\ next' = IF data[next[out]] <= data[next[in]] THEN next
                   ELSE IF next[out] = in THEN swap_after_neighbours(out, in)
                   ELSE swap_after(out, in)
        /\ Unlock({out, in, next[out], next[in]})
        /\ sorter' = [sorter EXCEPT ![s].pc = "in_next", ![s].in = sorter[s].in_next]
        /\ UNCHANGED <<head, data>>

\* A new place for the top element is looked up from the top.
Find(s) == /\ At(s, "find")
           /\ Free(List)
           /\ sorter' = [sorter EXCEPT ![s].pc = "lock_first", ![s].first = head]
           /\ UNCHANGED <<head, next, data, mutex>>

LockFirst(s) == /\ At(s, "lock_first")
                /\ Lock(s, sorter[s].first)
                /\ sorter' = [sorter EXCEPT ![s].pc = "look", ![s].out_next = next[sorter[s].first]]
                /\ UNCHANGED <<head, next, data>>

Look(s) == /\ At(s, "look") /\ sorter[s].out_next # NULL
           /\ next[sorter[s].first] # NULL
           /\ Lock(s, next[sorter[s].first])
           /\ Goto(s, "looked")
           /\ UNCHANGED <<head, next, data>>

\* The top element is compared with the next one ...
CompareTop(s) == /\ At(s, "looked")
                 /\ Goto(s, IF data[head] < data[next[sorter[s].first]] THEN "less"
                                                                     ELSE "not_less")
                 /\ UNCHANGED <<head, next, data, mutex>>

\* ... and when it is less, it is in its place already ...
InPlace(s) == LET first == sorter[s].first
              IN  /\ At(s, "less")
                  /\ IF head = first THEN Unlock({next[first]}) /\ Goto(s, "looked_up")
                                     ELSE UNCHANGED mutex /\ Goto(s, "take_head")
                  /\ UNCHANGED <<head, next, data>>

\* ... or to be moved, without the lock of the list ...
TakeHead(s) == /\ At(s, "take_head")
               /\ sorter' = [sorter EXCEPT ![s].pc = "move_head", ![s].new_head = next[head]]
               /\ UNCHANGED <<head, next, data, mutex>>

MoveHead(s) == /\ At(s, "move_head")
               /\ next' = [next EXCEPT ![head] = next[sorter[s].first]]
               /\ Goto(s, "move_first")
               /\ UNCHANGED <<head, data, mutex>>

MoveFirst(s) == /\ At(s, "move_first")
                /\ next' = [next EXCEPT ![sorter[s].first] = head]
                /\ Goto(s, "new_head")
                /\ UNCHANGED <<head, data, mutex>>

NewHead(s) == LET n == next[sorter[s].first]
              IN  /\ At(s, "new_head")
                  /\ head' = sorter[s].new_head
                  /\ Unlock({n, next[n]})
                  /\ Goto(s, "looked_up")
                  /\ UNCHANGED <<next, data>>

\* When it is not less, the lock moves on; that of the head is kept.
LookOn(s) == LET n == sorter[s].out_next
             IN  /\ At(s, "not_less")
                 /\ IF sorter[s].first # head THEN Unlock({sorter[s].first})
                                              ELSE UNCHANGED mutex
                 /\ sorter' = [sorter EXCEPT ![s].pc = "look", ![s].first = n,
                                             ![s].out_next = next[n]]
                 /\ UNCHANGED <<head, next, data>>

LookedUp(s) == /\ \/ At(s, "looked_up")
                  \/ At(s, "look") /\ sorter[s].out_next = NULL
               /\ Unlock({sorter[s].first})
               /\ Goto(s, "unlock")
               /\ UNCHANGED <<head, next, data>>

\* Whether the head was kept is looked up in list->head again, twice.
HeadKept(s) == /\ At(s, "unlock")
               /\ Goto(s, IF sorter[s].out_next = NULL /\ sorter[s].first # head
                          THEN "unlock_head" ELSE "last")
               /\ UNCHANGED <<head, next, data, mutex>>

UnlockHead(s) == /\ At(s, "unlock_head")
                 /\ Unlock({head})
                 /\ Goto(s, "last")
                 /\ UNCHANGED <<head, next, data>>

\* The walk reached the end: the top element goes there.
Last(s) == /\ At(s, "last")
           /\ IF sorter[s].out_next = NULL /\ sorter[s].first # head
              THEN Lock(s, List) /\ Goto(s, "to_end")
              ELSE Free(List) /\ UNCHANGED mutex /\ Goto(s, "sleep")
           /\ UNCHANGED <<head, next, data>>

ToEnd(s) == LET first == sorter[s].first
            IN  /\ At(s, "to_end")
                /\ Free(head)
                /\ head' = IF first = head THEN head ELSE next[head]
                /\ next' = [next EXCEPT ![first] = head, ![head] = NULL]
                /\ Unlock({List, head})
                /\ Goto(s, "sleep")
                /\ UNCHANGED data

l_sort(s) == /\ \/ Wake(s) \/ Start(s) \/ OutNext(s) \/ InNext(s)
                \/ LockOut(s) \/ LockChild(s) \/ LockIn(s) \/ LockInChild(s) \/ Compare(s)
                \/ Find(s) \/ LockFirst(s) \/ Look(s) \/ CompareTop(s) \/ InPlace(s)
                \/ TakeHead(s) \/ MoveHead(s) \/ MoveFirst(s) \/ NewHead(s) \/ LookOn(s)
                \/ LookedUp(s) \/ HeadKept(s) \/ UnlockHead(s) \/ Last(s) \/ ToEnd(s)
             /\ UNCHANGED <<sort_state, mainVars>>

Terminated == main = "done" /\ UNCHANGED vars

Next == Terminated \/ MainStep \/ \E s \in Sorters : l_sort(s)

Spec == Init /\ [][Next]_vars

-----------------------------------------------------------------------------
=============================================================================
