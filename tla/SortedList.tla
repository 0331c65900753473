----------------------------- MODULE SortedList -----------------------------
(***************************************************************************)
(* pthreads/laboratory_work_#16: main pushes lines to the front of a list, *)
(* and a thread sorts it now and then.  One mutex guards the list, so the  *)
(* sort is a series of steps only to show what it does with the links.     *)
(*                                                                         *)
(* Nodes are numbered as they are pushed, and their lines are numbers.     *)
(***************************************************************************)
EXTENDS Integers

CONSTANTS MaxNodes,   \* bound: lines main reads
          Lines       \* the lines, as strcmp orders them

Nodes == 1 .. MaxNodes
NULL == 0

VARIABLES head, next, data,
          locked,        \* the sorting thread has the list's mutex
          sort_status,
          sorting,       \* where the sorting thread is
          out, in, first,
          input,         \* what main is doing
          pushed,        \* nodes made
          forgotten,     \* nodes that were in the list when a push failed
          freed

sortVars == <<sorting, out, in, first>>
nodeVars == <<pushed, forgotten, freed>>
listVars == <<head, next, data, locked, sort_status, sortVars, input, nodeVars>>

Init == /\ head = NULL
        /\ next = [n \in Nodes |-> NULL]
        /\ data = [n \in Nodes |-> CHOOSE l \in Lines : TRUE]
        /\ locked = FALSE
        /\ sort_status = "START"
        /\ sorting = "poll"
        /\ out = NULL /\ in = NULL /\ first = NULL
        /\ input = "read"
        /\ pushed = 0
        /\ forgotten = {} /\ freed = {}

-----------------------------------------------------------------------------
(* main.  What it does with the mutex it does in one step.                 *)

l_push_front(line) ==
    /\ input = "read" /\ pushed < MaxNodes
    /\ ~locked
    /\ pushed' = pushed + 1
    /\ next' = [next EXCEPT ![pushed'] = head]
    /\ data' = [data EXCEPT ![pushed'] = line]
    /\ head' = pushed'
    /\ UNCHANGED <<locked, sort_status, sortVars, input, forgotten, freed>>

\* When there is no memory for the node the list is given up.
PushFails == /\ input = "read"
             /\ ~locked
             /\ head' = NULL
             /\ forgotten' = 1 .. pushed
             /\ UNCHANGED <<next, data, locked, sort_status, sortVars, input, pushed, freed>>

\* A line with a dot, or no more lines.
Stop == /\ input = "read"
        /\ ~locked
        /\ sort_status' = "STOP"
        /\ input' = "join"
        /\ UNCHANGED <<head, next, data, locked, sortVars, nodeVars>>

l_erase == /\ input = "join" /\ sorting = "done"
           /\ head' = IF head = NULL THEN NULL ELSE next[head]
           /\ freed' = freed \cup ({head} \ {NULL})
           /\ input' = IF head = NULL THEN "done" ELSE "join"
           /\ UNCHANGED <<next, data, locked, sort_status, sortVars, pushed, forgotten>>

-----------------------------------------------------------------------------
(* l_sort                                                                  *)

\* The status is looked at, and the clock.
Poll == /\ sorting = "poll" /\ ~locked
        /\ sorting' = IF sort_status = "STOP" THEN "done" ELSE "delay"
        /\ UNCHANGED <<head, next, data, locked, sort_status, out, in, first,
                       input, nodeVars>>

NotYet == /\ sorting = "delay"
          /\ sorting' = "poll"
          /\ UNCHANGED <<head, next, data, locked, sort_status, out, in, first,
                         input, nodeVars>>

SortBegins == /\ sorting = "delay" /\ ~locked
              /\ locked' = TRUE
              /\ out' = head
              /\ sorting' = IF head = NULL THEN "unlock" ELSE "outer"
              /\ UNCHANGED <<head, next, data, sort_status, in, first, input, nodeVars>>

Outer == /\ sorting = "outer"
         /\ IF next[out] = NULL
            THEN sorting' = "find" /\ first' = head /\ UNCHANGED in
            ELSE sorting' = "inner" /\ in' = next[out] /\ UNCHANGED first
         /\ UNCHANGED <<head, next, data, locked, sort_status, out, input, nodeVars>>

\* The children of l and r change places.
Swapped(l, r) ==
    IF next[l] = r THEN [next EXCEPT ![l] = next[r], ![r] = next[next[r]], ![next[r]] = r]
    ELSE [next EXCEPT ![l] = next[r], ![next[r]] = next[next[l]],
                      ![r] = next[l], ![next[l]] = next[next[r]]]

Inner == /\ sorting = "inner" /\ next[in] # NULL
         /\ IF data[next[out]] > data[next[in]]
            THEN /\ next' = Swapped(out, in)
                 /\ in' = next'[IF next[out] = in THEN next[in] ELSE in]
            ELSE in' = next[in] /\ UNCHANGED next
         /\ UNCHANGED <<head, data, locked, sort_status, sorting, out, first,
                        input, nodeVars>>

InnerEnds == /\ sorting = "inner" /\ next[in] = NULL
             /\ out' = next[out]
             /\ sorting' = "outer"
             /\ UNCHANGED <<head, next, data, locked, sort_status, in, first,
                            input, nodeVars>>

\* The first element is not sorted with the rest; its place is looked up.
LookOn == /\ sorting = "find" /\ next[first] # NULL
          /\ data[head] >= data[next[first]]
          /\ first' = next[first]
          /\ UNCHANGED <<head, next, data, locked, sort_status, sorting, out, in,
                         input, nodeVars>>

MoveHead == /\ sorting = "find" /\ next[first] # NULL
            /\ data[head] < data[next[first]]
            /\ IF first = head THEN UNCHANGED <<head, next>>
               ELSE /\ next' = [next EXCEPT ![head] = next[first], ![first] = head]
                    /\ head' = next[head]
            /\ sorting' = "unlock"
            /\ UNCHANGED <<data, locked, sort_status, out, in, first, input, nodeVars>>

\* Mutant: the new last element keeps its successor.
MoveToEndOpen == /\ sorting = "find" /\ next[first] = NULL
                 /\ next' = [next EXCEPT ![first] = head]
                 /\ head' = next'[head]
                 /\ sorting' = "unlock"
                 /\ UNCHANGED <<data, locked, sort_status, out, in, first,
                                input, nodeVars>>

\* The first element is the biggest; it may be the only one.
MoveToEnd == /\ sorting = "find" /\ next[first] = NULL
             /\ LET joined == [next EXCEPT ![first] = head]
                IN  /\ head' = joined[head]
                    /\ next' = [joined EXCEPT ![joined[first]] = NULL]
             /\ sorting' = "unlock"
             /\ UNCHANGED <<data, locked, sort_status, out, in, first, input, nodeVars>>

Unlock == /\ sorting = "unlock"
          /\ locked' = FALSE
          /\ sorting' = "poll"
          /\ UNCHANGED <<head, next, data, sort_status, out, in, first, input, nodeVars>>

l_sort == \/ Poll \/ NotYet \/ SortBegins \/ Outer \/ Inner \/ InnerEnds
          \/ LookOn \/ MoveHead \/ MoveToEnd \/ Unlock

Ended == input = "done" /\ UNCHANGED listVars

Next == \/ \E line \in Lines : l_push_front(line)
        \/ PushFails \/ Stop \/ l_erase \/ l_sort \/ Ended

-----------------------------------------------------------------------------
\* Links lead to nodes.
TypeOK == /\ head \in Nodes \cup {NULL}
          /\ next \in [Nodes -> Nodes \cup {NULL}]
          /\ data \in [Nodes -> Lines]
          /\ locked \in BOOLEAN
          /\ sort_status \in {"START", "STOP"}
          /\ sorting \in {"poll", "delay", "outer", "inner", "find", "unlock", "done"}
          /\ {out, in, first} \subseteq Nodes \cup {NULL}
          /\ input \in {"read", "join", "done"}
          /\ pushed \in 0 .. MaxNodes
          /\ forgotten \subseteq Nodes /\ freed \subseteq Nodes

\* The list from its head on, one place after the other.
Walk == LET at[n \in 0 .. MaxNodes] ==
                IF n = 0 THEN head ELSE IF at[n - 1] = NULL THEN NULL ELSE next[at[n - 1]]
        IN  at

\* Whoever gets the mutex finds every line pushed since a push failed for lack of
\* memory, which gives all lines up, once, in a list that ends; when a sort ends
\* the lines are in order; and in the end every node that was not given up has
\* been freed.
ListKeepsLines ==
    /\ ~locked => /\ {Walk[n] : n \in 0 .. MaxNodes} \ {NULL}
                         = (1 .. pushed) \ (freed \cup forgotten)
                  /\ Walk[MaxNodes] = NULL
    /\ sorting = "unlock" =>
           \A n \in 0 .. MaxNodes - 1 :
               Walk[n] # NULL /\ Walk[n + 1] # NULL => data[Walk[n]] <= data[Walk[n + 1]]
    /\ input = "done" => freed = (1 .. pushed) \ forgotten

\* Where the program may stay: one that is told to stop ends, in the middle of a
\* sort, too.
Settled == sort_status = "STOP" => input = "done"
=============================================================================
