------------------------------ MODULE SlabCache -----------------------------
(***************************************************************************)
(* os-internals/slab/src/slab.c: a cache of equal objects cut from slabs.  *)
(* Slabs are aligned blocks of pages; the header at a slab's end holds the *)
(* head and the length of the chain of its free chunks, which is threaded  *)
(* through the chunks themselves, and the links of the doubly linked list  *)
(* (free, partly or fully allocated) the slab is on.                       *)
(*                                                                         *)
(* A chunk is named by its slab and its index there.  What the caller      *)
(* keeps in a chunk, and what fresh memory holds, is Garbage, which is no  *)
(* chunk: who follows it reads through a null, as fresh pages hold, and    *)
(* the program has crashed.  (Whatever else recycled memory holds there,   *)
(* the program is outside the code's meaning from then on.)                *)
(***************************************************************************)
EXTENDS Integers, FiniteSets

CONSTANTS Slabs,        \* the addresses aligned_alloc may return
          ObjectSizes,  \* the sizes callers ask for
          SIZE_MAX,     \* the largest size_t
          NULL, Garbage

ASSUME SlabsAssumption == IsFiniteSet(Slabs) /\ NULL \notin Slabs
ASSUME SizesAssumption == ObjectSizes \subseteq Nat /\ SIZE_MAX \in Nat

PAGE_SIZE == 4096
MAX_PAGE_ORDER == 10
PTR_SIZE == 8
SLAB_HEADER_SIZE == PTR_SIZE * 3 + 8

-----------------------------------------------------------------------------
(* The geometry cache_setup computes.                                      *)

ObjectSize(asked) == IF asked < PTR_SIZE THEN PTR_SIZE ELSE asked

\* The size in pages, used as the exponent of the number of pages.
SlabOrder(size) ==
    LET order == IF size % PAGE_SIZE # 0 /\ size > PAGE_SIZE
                 THEN size \div PAGE_SIZE + 1 ELSE size \div PAGE_SIZE
    IN  IF order > MAX_PAGE_ORDER THEN MAX_PAGE_ORDER ELSE order

SlabObjects(size) == (PAGE_SIZE * 2 ^ SlabOrder(size) - SLAB_HEADER_SIZE) \div size

MostObjects == CHOOSE n \in {SlabObjects(ObjectSize(o)) : o \in ObjectSizes} :
                   \A o \in ObjectSizes : SlabObjects(ObjectSize(o)) <= n

Chunks == Slabs \X (0 .. MostObjects - 1)

ASSUME GarbageAssumption == Garbage \notin Chunks

VARIABLES
    slab_objects,            \* chunks in a slab; 0 before cache_setup
    free_slabs,              \* the heads of the three lists
    partly_allocated_slabs,
    fully_allocated_slabs,
    header,                  \* of each slab: [chunk, amount, next, prev]
    link,                    \* of each chunk: what its first word holds
    mapped,                  \* the slabs that were allocated and not freed
    owners,                  \* of each chunk: how often the caller holds it
    crashed                  \* a link was followed that leads to no chunk

lists == <<free_slabs, partly_allocated_slabs, fully_allocated_slabs>>
vars == <<slab_objects, lists, header, link, mapped, owners, crashed>>

\* Memory the cache has not got is as good as this.
NoHeader == [chunk |-> Garbage, amount |-> 0, next |-> NULL, prev |-> NULL]

Init == /\ slab_objects = 0
        /\ free_slabs = NULL
        /\ partly_allocated_slabs = NULL
        /\ fully_allocated_slabs = NULL
        /\ header = [s \in Slabs |-> NoHeader]
        /\ link = [p \in Chunks |-> Garbage]
        /\ mapped = {}
        /\ owners = [p \in Chunks \cup {Garbage} |-> 0]
        /\ crashed = FALSE

-----------------------------------------------------------------------------
(* The lists of slabs, as operators on the headers h.                      *)

\* delete_slab_from_list: the neighbours are joined, ...
Unlinked(h, s) ==
    [x \in Slabs |-> IF x = h[s].next THEN [h[x] EXCEPT !.prev = h[s].prev]
                     ELSE IF x = h[s].prev THEN [h[x] EXCEPT !.next = h[s].next]
                     ELSE h[x]]

\* ... and a slab without predecessor hands the head on.
HeadWithout(h, list, s) == IF h[s].prev = NULL THEN h[s].next ELSE list

\* Mutant: the old head keeps its prev.
LinkedOneWay(h, list, s) == [h EXCEPT ![s].next = list, ![s].prev = NULL]

\* insert_slab_to_list: s becomes the head.
Linked(h, list, s) ==
    [x \in Slabs |-> IF x = s THEN [h[x] EXCEPT !.next = list, !.prev = NULL]
                     ELSE IF x = list THEN [h[x] EXCEPT !.prev = s]
                     ELSE h[x]]

\* Mutant: the chain starts past the last chunk.
FreshPastEnd(h, s, n) ==
    [h EXCEPT ![s] = [chunk |-> <<s, n>>, amount |-> n, next |-> NULL, prev |-> NULL]]

\* initialize_new_free_slab: the chain starts at the last chunk; the first
\* chunk, its end, is left as it is.
Fresh(h, s, n) ==
    [h EXCEPT ![s] = [chunk |-> <<s, n - 1>>, amount |-> n, next |-> NULL, prev |-> NULL]]

FreshLinks(s, n) ==
    [p \in Chunks |-> IF p[1] # s THEN link[p]
                      ELSE IF p[2] \in 1 .. n - 1 THEN <<s, p[2] - 1>> ELSE Garbage]

-----------------------------------------------------------------------------
cache_setup(asked) ==
    LET n == SlabObjects(ObjectSize(asked))
    IN  /\ slab_objects = 0
        /\ slab_objects' = n
        /\ \E s \in Slabs : /\ mapped' = {s}
                            /\ free_slabs' = s
                            /\ header' = Fresh(header, s, n)
                            /\ link' = FreshLinks(s, n)
        /\ UNCHANGED <<partly_allocated_slabs, fully_allocated_slabs, owners, crashed>>

\* The caller gets p and writes to it.
HandOut(p) == owners' = [owners EXCEPT ![p] = @ + 1]
Overwritten(links, p) == [q \in Chunks |-> IF q = p THEN Garbage ELSE links[q]]

\* The word p points to.
Deref(links, p) == IF p \in Chunks THEN links[p] ELSE Garbage

Decremented(n) == IF n = 0 THEN SIZE_MAX ELSE n - 1

\* Mutant: the chain is not advanced.
AllocPartlyStuck ==
    LET s == partly_allocated_slabs
        left == Decremented(header[s].amount)
        h == [header EXCEPT ![s].amount = left]
    IN  /\ slab_objects # 0 /\ s # NULL
        /\ IF left = 0
           THEN /\ partly_allocated_slabs' = HeadWithout(h, s, s)
                /\ fully_allocated_slabs' = s
                /\ header' = Linked(Unlinked(h, s), fully_allocated_slabs, s)
           ELSE /\ header' = h
                /\ UNCHANGED <<partly_allocated_slabs, fully_allocated_slabs>>
        /\ HandOut(header[s].chunk)
        /\ link' = Overwritten(link, header[s].chunk)
        /\ UNCHANGED <<slab_objects, free_slabs, mapped, crashed>>

\* cache_alloc, first branch: the chunk comes from the first partly allocated
\* slab.  The last chunk, by the counter, leaves the head of the chain where it
\* was; any other is read for its successor, which crashes, before anything is
\* returned, when it is not there.
AllocPartly ==
    LET s == partly_allocated_slabs
        p == header[s].chunk
        left == Decremented(header[s].amount)
        h == [header EXCEPT ![s].amount = left]
    IN  /\ slab_objects # 0 /\ s # NULL
        /\ IF left # 0 /\ p \notin Chunks
           THEN crashed' = TRUE /\ UNCHANGED <<lists, header, link, owners>>
           ELSE /\ IF left = 0
                   THEN /\ partly_allocated_slabs' = HeadWithout(h, s, s)
                        /\ fully_allocated_slabs' = s
                        /\ header' = Linked(Unlinked(h, s), fully_allocated_slabs, s)
                   ELSE /\ header' = [h EXCEPT ![s].chunk = Deref(link, p)]
                        /\ UNCHANGED <<partly_allocated_slabs, fully_allocated_slabs>>
                /\ HandOut(p)
                /\ link' = Overwritten(link, p)
                /\ UNCHANGED <<free_slabs, crashed>>
        /\ UNCHANGED <<slab_objects, mapped>>

\* Second branch, with the headers h and the links ls: the slab s moves from
\* the free to the partly allocated slabs, and the chain is always advanced.
TakeFromFree(h, ls, s) ==
    LET p == h[s].chunk
        taken == [h EXCEPT ![s].amount = Decremented(@), ![s].chunk = Deref(ls, p)]
    IN  /\ free_slabs' = HeadWithout(taken, s, s)
        /\ partly_allocated_slabs' = s
        /\ header' = Linked(Unlinked(taken, s), partly_allocated_slabs, s)
        /\ HandOut(p)
        /\ link' = Overwritten(ls, p)
        /\ UNCHANGED <<slab_objects, fully_allocated_slabs, crashed>>

AllocFree == /\ slab_objects # 0
             /\ partly_allocated_slabs = NULL
             /\ free_slabs # NULL
             /\ TakeFromFree(header, link, free_slabs)
             /\ UNCHANGED mapped

\* Mutant: a new slab although a free one is there.
AllocNewEager ==
    /\ slab_objects # 0
    /\ partly_allocated_slabs = NULL
    /\ \E s \in Slabs \ mapped :
        /\ mapped' = mapped \cup {s}
        /\ TakeFromFree(Fresh(header, s, slab_objects), FreshLinks(s, slab_objects), s)

\* aligned_alloc is taken to succeed while an address is left.
AllocNew ==
    /\ slab_objects # 0
    /\ partly_allocated_slabs = NULL
    /\ free_slabs = NULL
    /\ \E s \in Slabs \ mapped :
        /\ mapped' = mapped \cup {s}
        /\ TakeFromFree(Fresh(header, s, slab_objects), FreshLinks(s, slab_objects), s)

cache_alloc == AllocPartly \/ AllocFree \/ AllocNew

\* The chunk becomes the head of its slab's chain.
Returned(p) == [header EXCEPT ![p[1]].chunk = p, ![p[1]].amount = @ + 1]

\* The caller gives back a chunk it holds; a slab that becomes free, or is no
\* longer full, changes its list.
cache_free(p) ==
    LET s == p[1]
        h == Returned(p)
    IN  /\ owners[p] > 0
        /\ owners' = [owners EXCEPT ![p] = @ - 1]
        /\ link' = [link EXCEPT ![p] = header[s].chunk]
        /\ IF h[s].amount = slab_objects
           THEN /\ partly_allocated_slabs' = HeadWithout(h, partly_allocated_slabs, s)
                /\ free_slabs' = s
                /\ header' = Linked(Unlinked(h, s), free_slabs, s)
                /\ UNCHANGED fully_allocated_slabs
           ELSE IF h[s].amount = 1
           THEN /\ fully_allocated_slabs' = HeadWithout(h, fully_allocated_slabs, s)
                /\ partly_allocated_slabs' = s
                /\ header' = Linked(Unlinked(h, s), partly_allocated_slabs, s)
                /\ UNCHANGED free_slabs
           ELSE header' = h /\ UNCHANGED lists
        /\ UNCHANGED <<slab_objects, mapped, crashed>>

-----------------------------------------------------------------------------
\* What a list holds: the slabs reached from its head by next.
At(list) ==
    LET at[n \in 0 .. Cardinality(Slabs)] ==
            IF n = 0 THEN list
            ELSE IF at[n - 1] = NULL THEN NULL ELSE header[at[n - 1]].next
    IN  at

Members(list) == {At(list)[n] : n \in 0 .. Cardinality(Slabs)} \ {NULL}

\* free_slab_chain of several chains: the slabs are the system's again.
Unmap(slabs) ==
    /\ mapped' = mapped \ slabs
    /\ header' = [s \in Slabs |-> IF s \in slabs THEN NoHeader ELSE header[s]]
    /\ link' = [p \in Chunks |-> IF p[1] \in slabs THEN Garbage ELSE link[p]]

\* Mutant: the partly allocated slabs are given to the system, too.
ShrinkPartly == /\ slab_objects # 0
                /\ Unmap(Members(free_slabs) \cup Members(partly_allocated_slabs))
                /\ free_slabs' = NULL
                /\ partly_allocated_slabs' = NULL
                /\ UNCHANGED <<slab_objects, fully_allocated_slabs, owners, crashed>>

cache_shrink == /\ slab_objects # 0
                /\ Unmap(Members(free_slabs))
                /\ free_slabs' = NULL
                /\ UNCHANGED <<slab_objects, partly_allocated_slabs,
                               fully_allocated_slabs, owners, crashed>>

\* What the caller still holds is gone with a released cache, which may be set
\* up again.
Forget == /\ free_slabs' = NULL
          /\ partly_allocated_slabs' = NULL
          /\ fully_allocated_slabs' = NULL
          /\ slab_objects' = 0
          /\ owners' = [p \in DOMAIN owners |-> 0]
          /\ UNCHANGED crashed

cache_release ==
    /\ slab_objects # 0
    /\ Unmap(UNION {Members(free_slabs), Members(partly_allocated_slabs),
                    Members(fully_allocated_slabs)})
    /\ Forget

Next == /\ ~crashed
        /\ \/ \E asked \in ObjectSizes : cache_setup(asked)
           \/ cache_alloc
           \/ \E p \in Chunks : cache_free(p)
           \/ cache_shrink
           \/ cache_release

Spec == Init /\ [][Next]_vars

-----------------------------------------------------------------------------
\* The state is made of slabs, chunks and counts.
TypeOK == /\ slab_objects \in Nat
          /\ {free_slabs, partly_allocated_slabs, fully_allocated_slabs}
                \subseteq Slabs \cup {NULL}
          /\ header \in [Slabs -> [chunk : Chunks \cup {Garbage}, amount : 0 .. SIZE_MAX,
                                   next : Slabs \cup {NULL}, prev : Slabs \cup {NULL}]]
          /\ link \in [Chunks -> Chunks \cup {Garbage}]
          /\ mapped \subseteq Slabs
          /\ owners \in [Chunks \cup {Garbage} -> Nat]
          /\ crashed \in BOOLEAN

\* The chunks of a slab that the caller holds, and the others.
Held(s) == {p \in Chunks : p[1] = s /\ owners[p] > 0}
Unheld(s) == {p \in Chunks : p[1] = s /\ p[2] < slab_objects} \ Held(s)

\* Where the links of a slab's chain lead.
FreeChain(s) == LET chain[n \in 1 .. MostObjects] ==
                        IF n = 1 THEN header[s].chunk ELSE Deref(link, chain[n - 1])
                IN  chain

\* Every allocated slab is on exactly one list, the one its amount of free
\* chunks calls for, and next and prev agree along it; so a slab can be taken
\* out of the middle of a list, and release finds all of them.
WellLinked(list, Amounts) ==
    LET at == At(list)
    IN  /\ at[Cardinality(Slabs)] = NULL
        /\ \A n \in DOMAIN at : at[n] # NULL =>
            /\ at[n] \in mapped
            /\ header[at[n]].amount \in Amounts
            /\ header[at[n]].prev = IF n = 0 THEN NULL ELSE at[n - 1]

ListsPartitionSlabs ==
    /\ WellLinked(free_slabs, {slab_objects})
    /\ WellLinked(partly_allocated_slabs, 1 .. slab_objects - 1)
    /\ WellLinked(fully_allocated_slabs, {0})
    /\ mapped = UNION {Members(free_slabs), Members(partly_allocated_slabs),
                       Members(fully_allocated_slabs)}

\* The counter in a header is the number of chunks of the slab that the caller
\* does not hold, and so many links of the chain lead through just these: what
\* lies behind them, the caller's data or a stale pointer, is never followed.
\* No slab goes back to the system while the caller has chunks of it.
FreeChainSound ==
    \A s \in Slabs :
        IF s \in mapped
        THEN /\ header[s].amount = Cardinality(Unheld(s))
             /\ {FreeChain(s)[n] : n \in 1 .. header[s].amount} = Unheld(s)
        ELSE Held(s) = {}

\* The system is asked for memory only when every slab is used up.
GrowsWhenFull ==
    [][\A s \in mapped' \ mapped : \A t \in mapped : header[t].amount = 0]_vars

-----------------------------------------------------------------------------
\* slab.h:54 "Allocate new SLAB cache entry": cache_alloc returns, and what it
\* returns is a chunk that the caller does not hold already.
NewEntry == ~crashed /\ owners[Garbage] = 0 /\ \A p \in Chunks : owners[p] <= 1
=============================================================================
