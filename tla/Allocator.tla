------------------------------ MODULE Allocator -----------------------------
(***************************************************************************)
(* os-internals/allocator: first fit with boundary tags.  An area is       *)
(* preceded by its marker and its size and followed by its size again; the *)
(* chunks tile the memory given to mysetup, and myfree joins neighbours.   *)
(*                                                                         *)
(* Memory is modelled byte by byte: a size_t is its value at its address   *)
(* and Tail in the other bytes, so that writing over a part of it spoils   *)
(* it.  logical_memory_area is address 0.                                  *)
(***************************************************************************)
EXTENDS Integers

CONSTANTS logical_memory_area_size,
          RequestSizes   \* the sizes callers ask for

ALLOCATED == 1
NOT_ALLOCATED == 0
MARKER_INFO_SIZE == 1
SIZE_INFO_SIZE == 8
SPACE_BETWEEN_CHUNKS == MARKER_INFO_SIZE + 2 * SIZE_INFO_SIZE
logical_memory_area_start == MARKER_INFO_SIZE + SIZE_INFO_SIZE

Bytes == 0 .. logical_memory_area_size - 1

\* Bytes that are no size: the rest of one, the caller's data.
Tail == -1
Spoilt == -2

NoArea == -1

VARIABLES memory,
          blocks,       \* the areas the caller holds
          current_ptr   \* of a call of myfree, NoArea outside

heapVars == <<memory, blocks, current_ptr>>

-----------------------------------------------------------------------------
(* The macros, on the memory m.                                            *)

GET_SIZE(m, a) == IF \A b \in a + 1 .. a + SIZE_INFO_SIZE - 1 : m[b] = Tail
                  THEN m[a] ELSE Spoilt
WithSize(m, a, size) == [b \in Bytes |-> IF b = a THEN size
                                         ELSE IF b \in a + 1 .. a + SIZE_INFO_SIZE - 1
                                         THEN Tail ELSE m[b]]

GET_MARKER(m, p) == m[p - (MARKER_INFO_SIZE + SIZE_INFO_SIZE)]
WithMarker(m, p, marker) ==
    [m EXCEPT ![p - (MARKER_INFO_SIZE + SIZE_INFO_SIZE)] = marker]

HeadSize(m, p) == GET_SIZE(m, p - SIZE_INFO_SIZE)
GET_TAIL_SIZE(m, p) == p + HeadSize(m, p)
GET_PREV_AREA(m, p) == p - SPACE_BETWEEN_CHUNKS - GET_SIZE(m, p - SPACE_BETWEEN_CHUNKS)
GET_NEXT_AREA(m, p) == p + SPACE_BETWEEN_CHUNKS + HeadSize(m, p)

WithHead(m, p, size) == WithSize(m, p - SIZE_INFO_SIZE, size)
WithTail(m, p, size) == WithSize(m, GET_TAIL_SIZE(m, p), size)

\* mysetup: one area that is not allocated.
Init == /\ memory = LET size == logical_memory_area_size - SPACE_BETWEEN_CHUNKS
                        p == logical_memory_area_start
                        m == [b \in Bytes |-> Spoilt]
                    IN  WithTail(WithHead(WithMarker(m, p, NOT_ALLOCATED), p, size), p, size)
        /\ blocks = {}
        /\ current_ptr = NoArea

-----------------------------------------------------------------------------
\* The areas the loop of myalloc passes if it finds nothing.
Walk(m) ==
    LET at[n \in 0 .. logical_memory_area_size \div SPACE_BETWEEN_CHUNKS] ==
            IF n = 0 THEN logical_memory_area_start
            ELSE IF at[n - 1] >= logical_memory_area_size THEN at[n - 1]
            ELSE GET_NEXT_AREA(m, at[n - 1])
    IN  at

Areas(m) == {Walk(m)[n] : n \in DOMAIN Walk(m)} \cap Bytes

Fits(p, size) == GET_MARKER(memory, p) = NOT_ALLOCATED /\ HeadSize(memory, p) >= size

\* Mutant: the room for the tags of the rest is forgotten.
SplitShort(m, p, size) ==
    LET new_size == HeadSize(m, p) - size
        next == p + size + SPACE_BETWEEN_CHUNKS
    IN  IF new_size <= 0 \/ next >= logical_memory_area_size THEN m
        ELSE LET rest == WithMarker(WithHead(m, next, new_size), next, NOT_ALLOCATED)
             IN  WithTail(WithHead(rest, p, size), p, size)

\* What exceeds the request becomes an area of its own if it has room for the
\* tags and a byte.
Split(m, p, size) ==
    LET new_size == HeadSize(m, p) - size - SPACE_BETWEEN_CHUNKS
        next == p + size + SPACE_BETWEEN_CHUNKS
    IN  IF new_size <= 0 THEN m
        ELSE LET rest == WithMarker(WithHead(WithTail(m, p, new_size), next, new_size),
                                    next, NOT_ALLOCATED)
             IN  WithTail(WithHead(rest, p, size), p, size)

\* The caller writes to all of the block it gets.
Overwritten(m, p) == [b \in Bytes |-> IF b \in p .. GET_TAIL_SIZE(m, p) - 1
                                      THEN Spoilt ELSE m[b]]

\* The first area that fits.  (Otherwise NULL is returned and nothing changes.)
myalloc(size) ==
    /\ current_ptr = NoArea
    /\ \E p \in Areas(memory) :
          /\ Fits(p, size)
          /\ \A q \in Areas(memory) : q < p => ~Fits(q, size)
          /\ memory' = Overwritten(Split(WithMarker(memory, p, ALLOCATED), p, size), p)
          /\ blocks' = blocks \cup {p}
    /\ UNCHANGED current_ptr

-----------------------------------------------------------------------------
(* myfree: its loop joins the area with its neighbours until both are      *)
(* allocated or missing.  A joined area is marked as allocated meanwhile.  *)

FreeBegins(p) == /\ current_ptr = NoArea
                 /\ p \in blocks
                 /\ GET_MARKER(memory, p) # NOT_ALLOCATED
                 /\ blocks' = blocks \ {p}
                 /\ current_ptr' = p
                 /\ UNCHANGED memory

HasPrev(p) == p - (MARKER_INFO_SIZE + SIZE_INFO_SIZE) > 0
HasNext(p) == p + GET_SIZE(memory, GET_TAIL_SIZE(memory, p)) + SIZE_INFO_SIZE
                < logical_memory_area_size

PrevIsFree(p) == HasPrev(p) /\ GET_MARKER(memory, GET_PREV_AREA(memory, p)) = NOT_ALLOCATED
NextIsFree(p) == HasNext(p) /\ GET_MARKER(memory, GET_NEXT_AREA(memory, p)) = NOT_ALLOCATED

\* The area at left takes in the one at right, and gets its tail.
Joined(m, left, right) ==
    LET size == HeadSize(m, left) + HeadSize(m, right) + SPACE_BETWEEN_CHUNKS
    IN  WithMarker(WithTail(WithHead(m, left, size), right, size), left, ALLOCATED)

\* One turn of the loop; the next area is that of the area as it was.
Join ==
    LET p == current_ptr
        prev == GET_PREV_AREA(memory, p)
        left == IF PrevIsFree(p) THEN prev ELSE p
        m == IF PrevIsFree(p) THEN Joined(memory, prev, p) ELSE memory
    IN  /\ p # NoArea
        /\ PrevIsFree(p) \/ NextIsFree(p)
        /\ memory' = IF NextIsFree(p) THEN Joined(m, left, GET_NEXT_AREA(memory, p)) ELSE m
        /\ current_ptr' = left
        /\ UNCHANGED blocks

\* Mutant: the next area is not looked at.
FreeEndsEarly == /\ current_ptr # NoArea
                 /\ ~PrevIsFree(current_ptr)
                 /\ memory' = WithMarker(memory, current_ptr, NOT_ALLOCATED)
                 /\ current_ptr' = NoArea
                 /\ UNCHANGED blocks

\* No neighbour is free.
FreeEnds == /\ current_ptr # NoArea
            /\ ~PrevIsFree(current_ptr) /\ ~NextIsFree(current_ptr)
            /\ memory' = WithMarker(memory, current_ptr, NOT_ALLOCATED)
            /\ current_ptr' = NoArea
            /\ UNCHANGED blocks

Next == \/ \E size \in RequestSizes : myalloc(size)
        \/ \E p \in blocks : FreeBegins(p)
        \/ Join \/ FreeEnds

Spec == Init /\ [][Next]_heapVars

-----------------------------------------------------------------------------
\* Bytes, and areas within them.
TypeOK == /\ memory \in [Bytes -> Spoilt .. logical_memory_area_size]
          /\ blocks \subseteq Bytes
          /\ current_ptr \in Bytes \cup {NoArea}

\* The areas tile the memory: each ends where the next begins, the last one
\* with the memory, and has the same size before and behind it, whatever callers
\* write to their blocks.  Outside myfree the areas marked as allocated are the
\* caller's blocks, and no two others are neighbours; so when all is given back
\* there is one area as at the beginning.
HeapTiled ==
    LET areas == Areas(memory)
        at == Walk(memory)
        marked == {p \in areas : GET_MARKER(memory, p) = ALLOCATED}
    IN  /\ at[logical_memory_area_size \div SPACE_BETWEEN_CHUNKS]
              = logical_memory_area_size + logical_memory_area_start
        /\ \A p \in areas : GET_SIZE(memory, GET_TAIL_SIZE(memory, p)) = HeadSize(memory, p)
        /\ marked = blocks \cup ({current_ptr} \ {NoArea})
        /\ \A p \in areas : current_ptr = NoArea /\ p \notin blocks /\ HasNext(p)
                                => GET_NEXT_AREA(memory, p) \in blocks
=============================================================================
