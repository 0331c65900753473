---------------------------- MODULE MCAllocators ----------------------------
(***************************************************************************)
(* The two allocators of os-internals: a program uses one of them.  Slabs  *)
(* differ only by their addresses, which the code never compares; the heap *)
(* is so small that its addresses are enumerated.                          *)
(***************************************************************************)
EXTENDS SlabCache, TLC

CONSTANTS s1, s2, s3, logical_memory_area_size, RequestSizes

VARIABLES memory, blocks, current_ptr,
          used    \* the allocator of the program

heapVars == <<memory, blocks, current_ptr>>
Heap == INSTANCE Allocator

\* mysetup is given room for a marker and two sizes at least.
ASSUME HeapAssumption == /\ logical_memory_area_size \in Nat
                         /\ logical_memory_area_size >= Heap!SPACE_BETWEEN_CHUNKS
                         /\ RequestSizes \subseteq Nat

MCSlabs == {s1, s2, s3}
SlabSymmetry == Permutations(MCSlabs)

UsesSlabs == used = "slab" /\ Next /\ UNCHANGED <<used, heapVars>>
UsesHeap == used = "heap" /\ Heap!Next /\ UNCHANGED <<used, vars>>

MCInit == Init /\ Heap!Init /\ used \in {"slab", "heap"}
MCNext == UsesSlabs \/ UsesHeap
MCSpec == MCInit /\ [][MCNext]_<<used, vars, heapVars>>

-----------------------------------------------------------------------------
\* The types of both: slabs, chunks and counts; bytes and areas within them.
AllocatorsTypeOK == TypeOK /\ Heap!TypeOK

\* The areas of allocator.c tile its memory, as the module says.
HeapTiled == Heap!HeapTiled
=============================================================================
