-------------------------- MODULE AllocatorsProofs --------------------------
(***************************************************************************)
(* Proofs about the slab cache, for any number of slabs and any sizes of   *)
(* which a slab holds at least two objects (with one, slab.c:154 files a   *)
(* full slab as partly allocated).  The invariant gives for each of the    *)
(* three lists the order in which next goes through it, and for each slab  *)
(* the order in which the chain goes through its free chunks; every        *)
(* operation moves one slab from a list to the head of another, or one     *)
(* chunk from or to the head of a chain.                                   *)
(*                                                                         *)
(* And about the heap with boundary tags, for any memory and requests: the *)
(* invariant gives the set of its areas with their sizes and markers, each *)
(* ending where the next begins, and no two neighbours free.               *)
(***************************************************************************)
EXTENDS MCAllocators, FiniteSetTheorems, WellFoundedInduction, TLAPS

\* The sizes for which slab.c keeps its lists.
SeveralObjects == \A o \in ObjectSizes : SlabObjects(ObjectSize(o)) \in 2 .. SIZE_MAX

-----------------------------------------------------------------------------
(* The invariant.                                                          *)

Headers == [chunk : Chunks \cup {Garbage}, amount : 0 .. SIZE_MAX,
            next : Slabs \cup {NULL}, prev : Slabs \cup {NULL}]

\* f goes through S, each element once.
Order(f, n, S) == /\ n \in Nat /\ f \in [1 .. n -> S]
                  /\ \A x \in S : \E i \in 1 .. n : f[i] = x
                  /\ \A i, j \in 1 .. n : f[i] = f[j] => i = j

\* In the headers h, next goes through q from list on, and prev back.
Chained(h, list, q, n) ==
    /\ list = IF n = 0 THEN NULL ELSE q[1]
    /\ \A i \in 1 .. n : /\ h[q[i]].prev = IF i = 1 THEN NULL ELSE q[i - 1]
                         /\ h[q[i]].next = IF i = n THEN NULL ELSE q[i + 1]

IsList(h, list, S) == \E n, q : Order(q, n, S) /\ Chained(h, list, q, n)

\* The links ls lead from the chunk head through the n chunks of S.
IsChain(head, ls, n, S) ==
    \E c : /\ Order(c, n, S)
           /\ n > 0 => head = c[1]
           /\ \A i \in 1 .. n - 1 : ls[c[i]] = c[i + 1]

\* The slabs of m with such an amount of free chunks.
WithAmount(h, m, Amounts) == {s \in m : h[s].amount \in Amounts}

ListsHold(h, m, n, free, partly, full) ==
    /\ IsList(h, free, WithAmount(h, m, {n}))
    /\ IsList(h, partly, WithAmount(h, m, 1 .. n - 1))
    /\ IsList(h, full, WithAmount(h, m, {0}))

\* The chunks of a slab of n that nobody holds, when o counts the holders.
FreeChunks(s, n, o) == {p \in Chunks : p[1] = s /\ p[2] < n /\ o[p] = 0}

ChainsHold(h, ls, m, n, o) ==
    \A s \in m : /\ h[s].amount <= n
                 /\ IsChain(h[s].chunk, ls, h[s].amount, FreeChunks(s, n, o))

HoldersHold(m, n, o) == /\ o[Garbage] = 0
                        /\ \A p \in Chunks : /\ o[p] <= 1
                                             /\ o[p] > 0 => p[1] \in m /\ p[2] < n

Links == [Chunks -> Chunks \cup {Garbage}]
Owners == [Chunks \cup {Garbage} -> Nat]

\* A cache of slabs of n chunks that is set up.
Sound(n, h, ls, m, o, free, partly, full) ==
    /\ n \in 2 .. SIZE_MAX /\ MostObjects \in Nat /\ n <= MostObjects
    /\ h \in [Slabs -> Headers] /\ ls \in Links /\ o \in Owners /\ m \in SUBSET Slabs
    /\ free \in Slabs \cup {NULL} /\ partly \in Slabs \cup {NULL} /\ full \in Slabs \cup {NULL}
    /\ HoldersHold(m, n, o)
    /\ ListsHold(h, m, n, free, partly, full)
    /\ ChainsHold(h, ls, m, n, o)

SlabInv ==
    /\ TypeOK
    /\ crashed = FALSE
    /\ IF slab_objects = 0
       THEN /\ mapped = {} /\ \A p \in Chunks \cup {Garbage} : owners[p] = 0
            /\ {free_slabs, partly_allocated_slabs, fully_allocated_slabs} = {NULL}
       ELSE Sound(slab_objects, header, link, mapped, owners,
                  free_slabs, partly_allocated_slabs, fully_allocated_slabs)

-----------------------------------------------------------------------------
(* The lists of slabs.                                                     *)

\* The empty list.
LEMMA EmptyList == \A h : IsList(h, NULL, {})
<1> SUFFICES ASSUME NEW h PROVE IsList(h, NULL, {})
  OBVIOUS
<1> DEFINE q == [i \in 1 .. 0 |-> NULL]
<1>1. Order(q, 0, {})
  BY DEF Order
<1>2. Chained(h, NULL, q, 0)
  BY DEF Chained
<1> QED
  BY <1>1, <1>2 DEF IsList

\* A slab without neighbours is a list.
LEMMA OneSlab ==
    ASSUME NEW h, NEW s, h[s].next = NULL, h[s].prev = NULL
    PROVE  IsList(h, s, {s})
<1> DEFINE q == [i \in 1 .. 1 |-> s]
<1>0. \A i \in 1 .. 1 : i = 1 /\ q[i] = s
  OBVIOUS
<1>1. Order(q, 1, {s})
  BY <1>0 DEF Order
<1>2. Chained(h, s, q, 1)
  BY <1>0 DEF Chained
<1> QED
  BY <1>1, <1>2 DEF IsList

\* What is not a header of the list does not matter to it.
LEMMA ListFrame ==
    ASSUME NEW h, NEW g, NEW list, NEW S, IsList(h, list, S),
           \A x \in S : g[x].next = h[x].next /\ g[x].prev = h[x].prev
    PROVE  IsList(g, list, S)
<1>1. PICK n, q : Order(q, n, S) /\ Chained(h, list, q, n)
  BY DEF IsList
<1>2. \A i \in 1 .. n : q[i] \in S
  BY <1>1 DEF Order
<1>3. Chained(g, list, q, n)
  BY <1>1, <1>2 DEF Chained
<1> QED
  BY <1>1, <1>3 DEF IsList

\* The head of a list is on it, unless it is empty, and has no predecessor; the
\* links of a list stay on it.
LEMMA ListHead ==
    ASSUME NEW h, NEW list, NEW S, NULL \notin S, IsList(h, list, S)
    PROVE  /\ list = NULL <=> S = {}
           /\ list # NULL => list \in S /\ h[list].prev = NULL
           /\ \A x \in S : h[x].next \in S \cup {NULL} /\ h[x].prev \in S \cup {NULL}
<1>1. PICK n, q : Order(q, n, S) /\ Chained(h, list, q, n)
  BY DEF IsList
<1>2. n \in Nat /\ \A i \in 1 .. n : q[i] \in S
  BY <1>1 DEF Order
<1>3. CASE n = 0
  <2>1. list = NULL /\ S = {}
    BY <1>1, <1>3 DEF Order, Chained
  <2> QED
    BY <2>1
<1>4. CASE n # 0
  <2>1. 1 \in 1 .. n /\ list = q[1]
    BY <1>1, <1>2, <1>4 DEF Chained
  <2>2. list \in S /\ h[list].prev = NULL /\ list # NULL
    BY <1>1, <1>2, <2>1 DEF Chained
  <2>3. ASSUME NEW x \in S PROVE h[x].next \in S \cup {NULL} /\ h[x].prev \in S \cup {NULL}
    <3>1. PICK i \in 1 .. n : q[i] = x
      BY <1>1 DEF Order
    <3>2. (i # n => i + 1 \in 1 .. n) /\ (i # 1 => i - 1 \in 1 .. n)
      BY <1>2
    <3>3. /\ h[x].next = IF i = n THEN NULL ELSE q[i + 1]
          /\ h[x].prev = IF i = 1 THEN NULL ELSE q[i - 1]
      BY <1>1, <3>1 DEF Chained
    <3> QED
      BY <1>2, <3>2, <3>3
  <2> QED
    BY <2>2, <2>3
<1> QED
  BY <1>3, <1>4

\* insert_slab_to_list: s in front of the list.
LEMMA ListLinked ==
    ASSUME NEW h \in [Slabs -> Headers], NEW S \in SUBSET Slabs, NEW list,
           IsList(h, list, S), NEW s \in Slabs \ S
    PROVE  IsList(Linked(h, list, s), s, S \cup {s})
<1> DEFINE g == Linked(h, list, s)
<1>1. PICK n, q : Order(q, n, S) /\ Chained(h, list, q, n)
  BY DEF IsList
<1>2. n \in Nat /\ \A i \in 1 .. n : q[i] \in S /\ q[i] \in Slabs /\ q[i] # s
  BY <1>1 DEF Order
<1>3. g[s].next = list /\ g[s].prev = NULL
  BY DEF Linked, Headers
<1>4. \A x \in Slabs : x # s => /\ g[x].next = h[x].next
                                /\ g[x].prev = IF x = list THEN s ELSE h[x].prev
  BY DEF Linked, Headers
<1> HIDE DEF g
<1> DEFINE r == [i \in 1 .. n + 1 |-> IF i = 1 THEN s ELSE q[i - 1]]
<1>5. /\ r[1] = s
      /\ \A i \in 1 .. n + 1 : i = 1 \/ (i - 1 \in 1 .. n /\ r[i] = q[i - 1])
      /\ \A i \in 1 .. n : i + 1 \in 1 .. n + 1 /\ r[i + 1] = q[i]
      /\ r \in [1 .. n + 1 -> S \cup {s}]
  BY <1>2
<1> HIDE DEF r
<1>6. Order(r, n + 1, S \cup {s})
  <2>1. ASSUME NEW x \in S \cup {s} PROVE \E i \in 1 .. n + 1 : r[i] = x
    <3>1. CASE x = s
      BY <1>2, <1>5, <3>1
    <3>2. CASE x \in S
      <4>1. PICK i \in 1 .. n : q[i] = x
        BY <1>1, <3>2 DEF Order
      <4> QED
        BY <1>5, <4>1
    <3> QED
      BY <3>1, <3>2
  <2>2. ASSUME NEW i \in 1 .. n + 1, NEW j \in 1 .. n + 1, r[i] = r[j] PROVE i = j
    <3>1. i = 1 <=> j = 1
      BY <1>2, <1>5, <2>2
    <3>2. ASSUME i # 1, j # 1 PROVE i = j
      <4>1. i - 1 \in 1 .. n /\ j - 1 \in 1 .. n /\ q[i - 1] = q[j - 1]
        BY <1>5, <2>2, <3>2
      <4>2. i - 1 = j - 1
        BY <1>1, <4>1 DEF Order
      <4> QED
        BY <1>2, <4>2
    <3> QED
      BY <3>1, <3>2
  <2> QED
    BY <1>2, <1>5, <2>1, <2>2 DEF Order
<1>7. Chained(g, s, r, n + 1)
  <2>1. n # 0 => list = q[1] /\ 1 \in 1 .. n
    BY <1>1, <1>2 DEF Chained
  <2>2. n = 0 => list = NULL
    BY <1>1 DEF Chained
  <2>3. ASSUME NEW i \in 1 .. n + 1
        PROVE  /\ g[r[i]].prev = IF i = 1 THEN NULL ELSE r[i - 1]
               /\ g[r[i]].next = IF i = n + 1 THEN NULL ELSE r[i + 1]
    <3>1. CASE i = 1
      <4>1. n # 0 => r[i + 1] = q[1]
        BY <1>5, <2>1, <3>1
      <4> QED
        BY <1>2, <1>3, <1>5, <2>1, <2>2, <3>1, <4>1
    <3>2. CASE i # 1
      <4> DEFINE k == i - 1
      <4>1. k \in 1 .. n /\ i = k + 1 /\ r[i] = q[k]
        BY <1>2, <1>5, <3>2
      <4> HIDE DEF k
      <4>2. /\ h[q[k]].prev = IF k = 1 THEN NULL ELSE q[k - 1]
            /\ h[q[k]].next = IF k = n THEN NULL ELSE q[k + 1]
        BY <1>1, <4>1 DEF Chained
      <4>3. q[k] = list <=> k = 1
        BY <1>1, <1>2, <2>1, <4>1 DEF Order
      <4>4. (k # 1 => r[k] = q[k - 1]) /\ (k # n => r[k + 2] = q[k + 1]) /\ (k = 1 => r[k] = s)
        BY <1>2, <1>5, <4>1
      <4>5. g[q[k]].next = h[q[k]].next /\ g[q[k]].prev = IF k = 1 THEN s ELSE h[q[k]].prev
        BY <1>2, <1>4, <4>1, <4>3
      <4>6. i - 1 = k /\ i + 1 = k + 2 /\ (i = n + 1 <=> k = n)
        BY <1>2, <4>1
      <4> QED
        BY <3>2, <4>1, <4>2, <4>4, <4>5, <4>6
    <3> QED
      BY <3>1, <3>2
  <2> QED
    BY <1>2, <1>5, <2>3 DEF Chained
<1> QED
  BY <1>6, <1>7 DEF IsList, g

\* delete_slab_from_list: s is taken out, wherever in the list it is; nothing
\* but its neighbours' links changes.
LEMMA ListUnlinked ==
    ASSUME NEW h \in [Slabs -> Headers], NEW S \in SUBSET Slabs, NEW list,
           IsList(h, list, S), NEW s \in S, NULL \notin Slabs
    PROVE  /\ IsList(Unlinked(h, s), HeadWithout(h, list, s), S \ {s})
           /\ \A x \in Slabs \ S : Unlinked(h, s)[x] = h[x]
<1> DEFINE g == Unlinked(h, s)
<1>1. PICK n, q : Order(q, n, S) /\ Chained(h, list, q, n)
  BY DEF IsList
<1>2. n \in Nat /\ \A i \in 1 .. n : q[i] \in S /\ q[i] \in Slabs /\ q[i] # NULL
  BY <1>1 DEF Order
<1>3. PICK k \in 1 .. n : q[k] = s
  BY <1>1 DEF Order
<1>4. /\ h[s].prev = IF k = 1 THEN NULL ELSE q[k - 1]
      /\ h[s].next = IF k = n THEN NULL ELSE q[k + 1]
  BY <1>1, <1>3 DEF Chained
<1>5. \A x \in Slabs :
         /\ g[x].next = IF x = h[s].prev /\ x # h[s].next THEN h[s].next ELSE h[x].next
         /\ g[x].prev = IF x = h[s].next THEN h[s].prev ELSE h[x].prev
         /\ x # h[s].prev /\ x # h[s].next => g[x] = h[x]
  BY DEF Unlinked, Headers
<1>6. \A x \in Slabs \ S : g[x] = h[x]
  <2>1. h[s].next \in S \cup {NULL} /\ h[s].prev \in S \cup {NULL}
    BY <1>1, ListHead
  <2> QED
    BY <1>5, <2>1
<1> HIDE DEF g
<1> DEFINE r == [i \in 1 .. n - 1 |-> IF i < k THEN q[i] ELSE q[i + 1]]
<1>7. \A i \in 1 .. n - 1 : /\ r[i] = IF i < k THEN q[i] ELSE q[i + 1]
                            /\ i \in 1 .. n /\ i + 1 \in 1 .. n
  BY <1>2
<1>8. \A i, j \in 1 .. n : q[i] = q[j] => i = j
  BY <1>1 DEF Order
<1>9. r \in [1 .. n - 1 -> S \ {s}]
  <2>1. ASSUME NEW i \in 1 .. n - 1 PROVE r[i] \in S \ {s}
    <3>1. CASE i < k
      <4>1. r[i] = q[i] /\ i \in 1 .. n /\ i # k
        BY <1>2, <1>7, <3>1
      <4> QED
        BY <1>2, <1>3, <1>8, <4>1
    <3>2. CASE ~(i < k)
      <4>1. r[i] = q[i + 1] /\ i + 1 \in 1 .. n /\ i + 1 # k
        BY <1>2, <1>7, <3>2
      <4> QED
        BY <1>2, <1>3, <1>8, <4>1
    <3> QED
      BY <3>1, <3>2
  <2>2. r = [i \in 1 .. n - 1 |-> r[i]]
    OBVIOUS
  <2> HIDE DEF r
  <2> QED
    BY <2>1, <2>2
<1> HIDE DEF r
<1>10. Order(r, n - 1, S \ {s})
  <2>1. ASSUME NEW x \in S \ {s} PROVE \E i \in 1 .. n - 1 : r[i] = x
    <3>1. PICK i \in 1 .. n : q[i] = x
      BY <1>1 DEF Order
    <3>2. CASE i < k
      <4>1. i \in 1 .. n - 1 /\ r[i] = q[i]
        BY <1>2, <1>7, <3>2
      <4> QED
        BY <3>1, <4>1
    <3>3. CASE i > k
      <4>1. i - 1 \in 1 .. n - 1 /\ ~(i - 1 < k) /\ (i - 1) + 1 = i
        BY <1>2, <3>3
      <4>2. r[i - 1] = q[i]
        BY <1>7, <4>1
      <4> QED
        BY <3>1, <4>1, <4>2
    <3>4. i # k
      BY <1>3, <3>1
    <3> QED
      BY <1>2, <3>2, <3>3, <3>4
  <2>2. ASSUME NEW i \in 1 .. n - 1, NEW j \in 1 .. n - 1, r[i] = r[j] PROVE i = j
    <3> DEFINE up(a) == IF a < k THEN a ELSE a + 1
    <3>1. r[i] = q[up(i)] /\ r[j] = q[up(j)] /\ up(i) \in 1 .. n /\ up(j) \in 1 .. n
      BY <1>7
    <3>2. up(i) = up(j)
      BY <1>8, <2>2, <3>1
    <3> QED
      BY <1>2, <3>2
  <2>3. n - 1 \in Nat
    BY <1>2
  <2> QED
    BY <1>9, <2>1, <2>2, <2>3 DEF Order
<1>11. Chained(g, HeadWithout(h, list, s), r, n - 1)
  <2>1. list = q[1]
    BY <1>1, <1>2 DEF Chained
  <2>2. HeadWithout(h, list, s) = IF n - 1 = 0 THEN NULL ELSE r[1]
    <3>1. CASE k = 1
      <4>1. h[s].prev = NULL
        BY <1>4, <3>1
      <4>2. n # 1 => 1 \in 1 .. n - 1 /\ r[1] = q[2]
        BY <1>2, <1>7, <3>1
      <4>3. h[s].next = IF n = 1 THEN NULL ELSE q[2]
        BY <1>2, <1>4, <3>1
      <4> QED
        BY <1>2, <4>1, <4>2, <4>3 DEF HeadWithout
    <3>2. CASE k # 1
      <4>1. k - 1 \in 1 .. n /\ n # 1 /\ 1 \in 1 .. n - 1 /\ 1 < k
        BY <1>2, <3>2
      <4>2. h[s].prev # NULL /\ r[1] = q[1]
        BY <1>2, <1>4, <1>7, <3>2, <4>1
      <4> QED
        BY <1>2, <2>1, <4>1, <4>2 DEF HeadWithout
    <3> QED
      BY <3>1, <3>2
  <2>3. ASSUME NEW i \in 1 .. n - 1
        PROVE  /\ g[r[i]].prev = IF i = 1 THEN NULL ELSE r[i - 1]
               /\ g[r[i]].next = IF i = n - 1 THEN NULL ELSE r[i + 1]
    <3> DEFINE up(a) == IF a < k THEN a ELSE a + 1
               u == up(i)
    <3>1. /\ u \in 1 .. n /\ r[i] = q[u] /\ u # k
          /\ i # 1 => up(i - 1) \in 1 .. n /\ r[i - 1] = q[up(i - 1)]
          /\ i # n - 1 => up(i + 1) \in 1 .. n /\ r[i + 1] = q[up(i + 1)]
      <4>1. i # 1 => i - 1 \in 1 .. n - 1
        BY <1>2
      <4>2. i # n - 1 => i + 1 \in 1 .. n - 1
        BY <1>2
      <4> QED
        BY <1>2, <1>7, <4>1, <4>2
    <3>2. /\ h[q[u]].prev = IF u = 1 THEN NULL ELSE q[u - 1]
          /\ h[q[u]].next = IF u = n THEN NULL ELSE q[u + 1]
      BY <1>1, <3>1 DEF Chained
    <3>3. /\ q[u] = h[s].prev <=> u = k - 1
          /\ q[u] = h[s].next <=> u = k + 1
      <4>1. k # 1 => k - 1 \in 1 .. n
        BY <1>2
      <4>2. k # n => k + 1 \in 1 .. n
        BY <1>2
      <4>3. (k = 1 => u # k - 1) /\ (k = n => u # k + 1) /\ q[u] # NULL
        BY <1>2, <3>1
      <4> QED
        BY <1>4, <1>8, <3>1, <4>1, <4>2, <4>3
    <3>4. g[q[u]].prev = IF u = k + 1 THEN h[s].prev ELSE h[q[u]].prev
      BY <1>2, <1>5, <3>1, <3>3
    <3>5. g[q[u]].next = IF u = k - 1 THEN h[s].next ELSE h[q[u]].next
      <4>1. u = k - 1 => u # k + 1
        BY <1>2, <3>1
      <4> QED
        BY <1>2, <1>5, <3>1, <3>3, <4>1
    <3>6. g[r[i]].prev = IF i = 1 THEN NULL ELSE r[i - 1]
      <4>1. CASE u = k + 1
        <5>1. i = k /\ (i # 1 => up(i - 1) = k - 1)
          BY <1>2, <4>1
        <5> QED
          BY <1>4, <3>1, <3>4, <4>1, <5>1
      <4>2. CASE u # k + 1
        <5>1. (u = 1 <=> i = 1) /\ (i # 1 => up(i - 1) = u - 1)
          BY <1>2, <4>2
        <5> QED
          BY <3>1, <3>2, <3>4, <4>2, <5>1
      <4> QED
        BY <4>1, <4>2
    <3>7. g[r[i]].next = IF i = n - 1 THEN NULL ELSE r[i + 1]
      <4>1. CASE u = k - 1
        <5>1. i = k - 1 /\ (k = n <=> i = n - 1) /\ (i # n - 1 => up(i + 1) = k + 1)
          BY <1>2, <4>1
        <5> QED
          BY <1>4, <3>1, <3>5, <4>1, <5>1
      <4>2. CASE u # k - 1
        <5>1. (u = n <=> i = n - 1) /\ (i # n - 1 => up(i + 1) = u + 1)
          BY <1>2, <4>2
        <5> QED
          BY <3>1, <3>2, <3>5, <4>2, <5>1
      <4> QED
        BY <4>1, <4>2
    <3> QED
      BY <3>6, <3>7
  <2> QED
    BY <2>2, <2>3 DEF Chained
<1>12. IsList(g, HeadWithout(h, list, s), S \ {s})
  BY <1>10, <1>11 DEF IsList
<1> QED
  BY <1>6, <1>12 DEF g

\* Setting the links of a header.
WithLinks(r, a, b) == [r EXCEPT !.next = a, !.prev = b]
WithPrev(r, b) == [r EXCEPT !.prev = b]

\* They are all that changes.
LEMMA HeaderLinked ==
    \A r \in Headers : \A a, b \in Slabs \cup {NULL} :
        /\ WithLinks(r, a, b) \in Headers
        /\ WithLinks(r, a, b).amount = r.amount /\ WithLinks(r, a, b).chunk = r.chunk
        /\ WithPrev(r, b) \in Headers
        /\ WithPrev(r, b).amount = r.amount /\ WithPrev(r, b).chunk = r.chunk
  BY DEF Headers, WithLinks, WithPrev

\* Three lists of different slabs.
ThreeLists(h, l1, S1, l2, S2, l3, S3) ==
    /\ S1 \subseteq Slabs /\ S2 \subseteq Slabs /\ S3 \subseteq Slabs
    /\ S1 \cap S2 = {} /\ S1 \cap S3 = {} /\ S2 \cap S3 = {}
    /\ IsList(h, l1, S1) /\ IsList(h, l2, S2) /\ IsList(h, l3, S3)

\* The headers after s has been taken from its list and put in front of list.
Refiled(h, list, s) == Linked(Unlinked(h, s), list, s)

\* The headers g and h of every slab have the same chain.
SameChains(g, h) == \A x \in Slabs : g[x].amount = h[x].amount /\ g[x].chunk = h[x].chunk

\* A slab goes from the first list to the head of the second; the third stays.
LEMMA SlabMoves ==
    ASSUME NEW h \in [Slabs -> Headers], NEW l1, NEW S1, NEW l2, NEW S2, NEW l3, NEW S3,
           ThreeLists(h, l1, S1, l2, S2, l3, S3), NEW s \in S1
    PROVE  /\ Refiled(h, l2, s) \in [Slabs -> Headers]
           /\ HeadWithout(h, l1, s) \in Slabs \cup {NULL}
           /\ SameChains(Refiled(h, l2, s), h)
           /\ ThreeLists(Refiled(h, l2, s), HeadWithout(h, l1, s), S1 \ {s},
                         s, S2 \cup {s}, l3, S3)
<1> DEFINE u == Unlinked(h, s)
           g == Refiled(h, l2, s)
<1>0. NULL \notin Slabs /\ s \in Slabs
  BY SlabsAssumption DEF ThreeLists
<1>a. /\ S1 \subseteq Slabs /\ S2 \subseteq Slabs /\ S3 \subseteq Slabs
      /\ S1 \cap S2 = {} /\ S1 \cap S3 = {} /\ S2 \cap S3 = {}
      /\ IsList(h, l1, S1) /\ IsList(h, l2, S2) /\ IsList(h, l3, S3)
  BY DEF ThreeLists
<1>1. /\ h[s].next \in Slabs \cup {NULL} /\ h[s].prev \in Slabs \cup {NULL}
      /\ l1 \in Slabs \cup {NULL} /\ l2 \in Slabs \cup {NULL}
      /\ l2 \in S2 \cup {NULL}
  BY <1>0, <1>a, ListHead DEF Headers
<1>2. u \in [Slabs -> Headers] /\ \A x \in Slabs : u[x].amount = h[x].amount /\ u[x].chunk = h[x].chunk
  BY <1>0, <1>1 DEF Unlinked, Headers
<1>3. IsList(u, HeadWithout(h, l1, s), S1 \ {s}) /\ \A x \in Slabs \ S1 : u[x] = h[x]
  BY <1>0, <1>a, ListUnlinked
<1>4. \A x \in S2 \cup S3 : u[x] = h[x]
  BY <1>3, <1>a
<1> HIDE DEF u, g
<1>5. IsList(u, l2, S2) /\ IsList(u, l3, S3)
  BY <1>4, <1>a, ListFrame
<1>6. IsList(g, s, S2 \cup {s})
  <2>1. S2 \in SUBSET Slabs /\ s \in Slabs \ S2
    BY <1>0, <1>a
  <2>2. IsList(Linked(u, l2, s), s, S2 \cup {s})
    BY <1>2, <1>5, <2>1, ListLinked, Zenon
  <2> QED
    BY <2>2 DEF u, g, Refiled
<1>7. g \in [Slabs -> Headers] /\ \A x \in Slabs : g[x].amount = u[x].amount /\ g[x].chunk = u[x].chunk
  <2>1. \A x \in Slabs : u[x] \in Headers
    BY <1>2
  <2>2. ASSUME NEW x \in Slabs
        PROVE  g[x] \in Headers /\ g[x].amount = u[x].amount /\ g[x].chunk = u[x].chunk
    <3>1. g[x] = IF x = s THEN WithLinks(u[x], l2, NULL)
                 ELSE IF x = l2 THEN WithPrev(u[x], s) ELSE u[x]
      BY DEF Linked, WithLinks, WithPrev, Refiled, g, u
    <3>2. u[x] \in Headers
      BY <2>1
    <3>3. l2 \in Slabs \cup {NULL} /\ s \in Slabs \cup {NULL} /\ NULL \in Slabs \cup {NULL}
      BY <1>0, <1>1
    <3>4. CASE x = s
      <4>1. g[x] = WithLinks(u[x], l2, NULL)
        BY <3>1, <3>4
      <4> DEFINE r == WithLinks(u[x], l2, NULL)
      <4>0. ASSUME NEW y \in Headers, NEW a \in Slabs \cup {NULL}, NEW b \in Slabs \cup {NULL}
            PROVE  /\ WithLinks(y, a, b) \in Headers
                   /\ WithLinks(y, a, b).amount = y.amount
                   /\ WithLinks(y, a, b).chunk = y.chunk
        BY HeaderLinked, Zenon
      <4>2. r \in Headers /\ r.amount = u[x].amount /\ r.chunk = u[x].chunk
        BY <3>2, <3>3, <4>0, Zenon
      <4> HIDE DEF r
      <4> QED
        BY <4>1, <4>2 DEF r
    <3>5. CASE x # s /\ x = l2
      <4>1. g[x] = WithPrev(u[x], s)
        BY <3>1, <3>5
      <4> DEFINE r == WithPrev(u[x], s)
      <4>2. r \in Headers /\ r.amount = u[x].amount /\ r.chunk = u[x].chunk
        BY <3>2, <3>3, HeaderLinked, Zenon
      <4> HIDE DEF r
      <4> QED
        BY <4>1, <4>2 DEF r
    <3>6. CASE x # s /\ x # l2
      <4>1. g[x] = u[x]
        BY <3>1, <3>6
      <4> QED
        BY <3>2, <4>1
    <3> QED
      BY <3>4, <3>5, <3>6
  <2>3. g = [x \in Slabs |-> g[x]]
    BY DEF Linked, Refiled, g, u
  <2> QED
    BY <2>2, <2>3
<1>8. \A x \in Slabs : x # s /\ x # l2 => g[x] = u[x]
  BY DEF Linked, Refiled, g, u
<1>9. IsList(g, HeadWithout(h, l1, s), S1 \ {s})
  <2>1. \A x \in S1 \ {s} : g[x] = u[x]
    BY <1>0, <1>1, <1>8, <1>a
  <2> QED
    BY <1>3, <2>1, ListFrame
<1>10. IsList(g, l3, S3)
  <2>1. \A x \in S3 : g[x] = u[x]
    BY <1>0, <1>1, <1>8, <1>a
  <2> QED
    BY <1>5, <2>1, ListFrame
<1>11. HeadWithout(h, l1, s) \in Slabs \cup {NULL}
  BY <1>1 DEF HeadWithout
<1>12. ThreeLists(g, HeadWithout(h, l1, s), S1 \ {s}, s, S2 \cup {s}, l3, S3)
  <2>1. /\ S1 \ {s} \subseteq Slabs /\ S2 \cup {s} \subseteq Slabs
        /\ (S1 \ {s}) \cap (S2 \cup {s}) = {} /\ (S1 \ {s}) \cap S3 = {}
        /\ (S2 \cup {s}) \cap S3 = {}
    BY <1>a
  <2> QED
    BY <1>6, <1>9, <1>10, <1>a, <2>1 DEF ThreeLists
<1>13. SameChains(g, h)
  BY <1>2, <1>7 DEF SameChains
<1> QED
  BY <1>7, <1>11, <1>12, <1>13 DEF g

\* Numbers have a least one.
LEMMA Least ==
    ASSUME NEW R \in SUBSET Nat, R # {}
    PROVE  \E k \in R : \A j \in R : k <= j
<1> DEFINE less == OpToRel(<, Nat)
<1>1. \A x, y \in Nat : x < y => <<x, y>> \in less
  BY DEF OpToRel
<1> HIDE DEF less
<1>2. PICK k \in R : \A j \in R : <<j, k>> \notin less
  BY WFMin, NatLessThanWellFounded DEF less
<1>3. ASSUME NEW j \in R PROVE k <= j
  <2>1. k \in Nat /\ j \in Nat
    OBVIOUS
  <2>2. ~(j < k)
    BY <1>1, <1>2, <2>1
  <2> QED
    BY <2>1, <2>2
<1> QED
  BY <1>3

\* Counting from 0 to m.
LEMMA UpTo ==
    ASSUME NEW m \in Nat, NEW S, 0 \in S,
           \A i \in 0 .. m - 1 : i \in S => i + 1 \in S
    PROVE  \A i \in 0 .. m : i \in S
<1> DEFINE R == {i \in 0 .. m : i \notin S}
<1>1. ASSUME R # {} PROVE FALSE
  <2>0. R \in SUBSET Nat
    OBVIOUS
  <2> HIDE DEF R
  <2>1. PICK k \in R : \A j \in R : k <= j
    BY <1>1, <2>0, Least
  <2> USE DEF R
  <2>2. k \in 1 .. m
    BY <2>1
  <2>3. k - 1 \in 0 .. m - 1 /\ k - 1 \notin R
    BY <2>1, <2>2
  <2>4. (k - 1) + 1 = k /\ k - 1 \in S
    BY <2>2, <2>3
  <2> QED
    BY <2>1, <2>3, <2>4
<1> QED
  BY <1>1

\* An order counts its set.
LEMMA OrderCounts ==
    ASSUME NEW f, NEW n, NEW S, Order(f, n, S)
    PROVE  IsFiniteSet(S) /\ Cardinality(S) = n
<1>1. n \in Nat /\ f \in Bijection(1 .. n, S)
  BY DEF Order, Bijection, Injection, Surjection, IsInjective
<1>2. ExistsBijection(1 .. n, S)
  BY <1>1 DEF ExistsBijection
<1> QED
  BY <1>1, <1>2, FS_CountingElements, FS_NatBijection

\* What a walk from the head of a list finds is the list, and then nothing.
LEMMA Walked ==
    ASSUME TypeOK, NEW list, NEW S \in SUBSET Slabs, IsList(header, list, S)
    PROVE  /\ Members(list) = S
           /\ At(list)[Cardinality(Slabs)] = NULL
           /\ DOMAIN At(list) = 0 .. Cardinality(Slabs)
           /\ \A n \in DOMAIN At(list) : At(list)[n] # NULL =>
                 /\ At(list)[n] \in S
                 /\ header[At(list)[n]].prev = IF n = 0 THEN NULL ELSE At(list)[n - 1]
<1>1. PICK n, q : Order(q, n, S) /\ Chained(header, list, q, n)
  BY DEF IsList
<1> DEFINE N == Cardinality(Slabs)
<1>2. n \in Nat /\ N \in Nat /\ n <= N /\ NULL \notin Slabs
  <2>1. Cardinality(S) = n
    BY <1>1, OrderCounts
  <2>2. N \in Nat /\ IsFiniteSet(Slabs) /\ NULL \notin Slabs
    BY SlabsAssumption, FS_CardinalityType
  <2>3. Cardinality(S) <= N
    BY <2>2, FS_Subset
  <2> QED
    BY <1>1, <2>1, <2>2, <2>3 DEF Order
<1> HIDE DEF N
<1>3. \A i \in 1 .. n : q[i] \in S /\ q[i] # NULL
  BY <1>1, <1>2 DEF Order
<1> DEFINE Turn(f, i) == IF i = 0 THEN list
                         ELSE IF f[i - 1] = NULL THEN NULL ELSE header[f[i - 1]].next
           walk == [i \in 0 .. N |-> IF i < n THEN q[i + 1] ELSE NULL]
           at == CHOOSE f : f = [i \in 0 .. N |-> Turn(f, i)]
<1>4. \A i \in 0 .. N : /\ walk[i] = IF i < n THEN q[i + 1] ELSE NULL
                        /\ i < n => i + 1 \in 1 .. n
                        /\ i # 0 => i - 1 \in 0 .. N
  BY <1>2
<1>5. \A i \in 0 .. N : walk[i] = Turn(walk, i)
  <2> SUFFICES ASSUME NEW i \in 0 .. N PROVE walk[i] = Turn(walk, i)
    OBVIOUS
  <2>1. CASE i = 0
    <3>1. n # 0 => 0 < n /\ list = q[0 + 1]
      BY <1>1, <1>2 DEF Chained
    <3>2. n = 0 => ~(0 < n) /\ list = NULL
      BY <1>1 DEF Chained
    <3> HIDE DEF walk
    <3> QED
      BY <1>4, <2>1, <3>1, <3>2
  <2>2. CASE i # 0
    <3>1. i - 1 \in 0 .. N /\ (i - 1) + 1 = i
      BY <1>2, <2>2
    <3>2. walk[i - 1] = IF i - 1 < n THEN q[i] ELSE NULL
      BY <1>4, <3>1
    <3> HIDE DEF walk
    <3>3. CASE i <= n
      <4>1. i \in 1 .. n /\ i - 1 < n /\ (i = n <=> ~(i < n))
        BY <1>2, <2>2, <3>3
      <4>2. header[q[i]].next = IF i = n THEN NULL ELSE q[i + 1]
        BY <1>1, <4>1 DEF Chained
      <4> QED
        BY <1>3, <1>4, <2>2, <3>2, <4>1, <4>2
    <3>4. CASE ~(i <= n)
      <4>1. ~(i - 1 < n) /\ ~(i < n)
        BY <1>2, <3>4
      <4> QED
        BY <1>4, <2>2, <3>2, <4>1
    <3> QED
      BY <3>3, <3>4
  <2> QED
    BY <2>1, <2>2
<1>6. walk = [i \in 0 .. N |-> Turn(walk, i)]
  <2>1. walk = [i \in 0 .. N |-> walk[i]]
    OBVIOUS
  <2> HIDE DEF walk
  <2> QED
    BY <1>5, <2>1
<1> HIDE DEF walk
<1>7. At(list) = at
  BY DEF At, N
<1>8. at = [i \in 0 .. N |-> Turn(at, i)]
  BY <1>6
<1> HIDE DEF at
<1>9. DOMAIN at = 0 .. N /\ \A i \in 0 .. N : at[i] = Turn(at, i)
  BY <1>8
<1>10. \A i \in 0 .. N : at[i] = walk[i]
  <2> DEFINE R == {i \in 0 .. N : at[i] = walk[i]}
  <2>1. 0 \in R
    BY <1>2, <1>5, <1>9
  <2>2. ASSUME NEW i \in 0 .. N - 1, i \in R PROVE i + 1 \in R
    <3>1. i + 1 \in 0 .. N /\ i + 1 # 0 /\ (i + 1) - 1 = i /\ at[i] = walk[i]
      BY <1>2, <2>2
    <3> QED
      BY <1>5, <1>9, <3>1
  <2> HIDE DEF R
  <2>3. \A i \in 0 .. N : i \in R
    BY <1>2, <2>1, <2>2, UpTo
  <2> QED
    BY <2>3 DEF R
<1> HIDE DEF Turn
<1>11. \A x \in S : \E i \in 0 .. N : at[i] = x
  <2> SUFFICES ASSUME NEW x \in S PROVE \E i \in 0 .. N : at[i] = x
    OBVIOUS
  <2>1. PICK i \in 1 .. n : q[i] = x
    BY <1>1 DEF Order
  <2>2. i - 1 \in 0 .. N /\ i - 1 < n /\ (i - 1) + 1 = i
    BY <1>2
  <2> QED
    BY <1>4, <1>10, <2>1, <2>2
<1>12. \A i \in 0 .. N : at[i] # NULL => at[i] \in S
  BY <1>3, <1>4, <1>10
<1>13. Members(list) = S
  <2>1. Members(list) = {at[i] : i \in 0 .. N} \ {NULL}
    BY <1>7 DEF Members, N
  <2> QED
    BY <1>2, <1>11, <1>12, <2>1
<1>14. at[N] = NULL
  <2>1. N \in 0 .. N /\ ~(N < n)
    BY <1>2
  <2> QED
    BY <1>4, <1>10, <2>1
<1>15. ASSUME NEW i \in 0 .. N, at[i] # NULL
       PROVE  header[at[i]].prev = IF i = 0 THEN NULL ELSE at[i - 1]
  <2>1. i < n /\ at[i] = q[i + 1] /\ i + 1 \in 1 .. n
    BY <1>4, <1>10, <1>15
  <2>2. header[q[i + 1]].prev = IF i + 1 = 1 THEN NULL ELSE q[(i + 1) - 1]
    BY <1>1, <2>1 DEF Chained
  <2>3. (i + 1) - 1 = i /\ (i + 1 = 1 <=> i = 0)
    OBVIOUS
  <2>4. i # 0 => at[i - 1] = q[i]
    <3>1. i # 0 => i - 1 \in 0 .. N /\ i - 1 < n /\ (i - 1) + 1 = i
      BY <1>2, <2>1
    <3> QED
      BY <1>4, <1>10, <3>1
  <2> QED
    BY <2>1, <2>2, <2>3, <2>4
<1> QED
  BY <1>7, <1>9, <1>12, <1>13, <1>14, <1>15 DEF N

-----------------------------------------------------------------------------
(* The chains of free chunks.                                              *)

\* Only the words of the chunks on a chain matter to it.
LEMMA ChainFrame ==
    ASSUME NEW head, NEW ls, NEW ms, NEW n, NEW S, IsChain(head, ls, n, S),
           \A x \in S : ms[x] = ls[x]
    PROVE  IsChain(head, ms, n, S)
<1>1. PICK c : /\ Order(c, n, S)
               /\ n > 0 => head = c[1]
               /\ \A i \in 1 .. n - 1 : ls[c[i]] = c[i + 1]
  BY DEF IsChain
<1>2. \A i \in 1 .. n - 1 : c[i] \in S
  BY <1>1 DEF Order
<1>3. \A i \in 1 .. n - 1 : ms[c[i]] = c[i + 1]
  BY <1>1, <1>2
<1> QED
  BY <1>1, <1>3 DEF IsChain

\* A chain is as long as its set is large, and starts in it.
LEMMA ChainFirst ==
    ASSUME NEW head, NEW ls, NEW n, NEW S, IsChain(head, ls, n, S)
    PROVE  /\ n \in Nat /\ IsFiniteSet(S) /\ n = Cardinality(S)
           /\ n = 0 <=> S = {}
           /\ n > 0 => head \in S
<1>1. PICK c : /\ Order(c, n, S)
               /\ n > 0 => head = c[1]
               /\ \A i \in 1 .. n - 1 : ls[c[i]] = c[i + 1]
  BY DEF IsChain
<1>2. n \in Nat /\ IsFiniteSet(S) /\ n = Cardinality(S)
  <2>1. Order(c, n, S)
    BY <1>1
  <2>2. IsFiniteSet(S) /\ Cardinality(S) = n
    BY <2>1, OrderCounts, Zenon
  <2> QED
    BY <2>1, <2>2 DEF Order
<1>3. n > 0 => 1 \in 1 .. n /\ c[1] \in S
  BY <1>1, <1>2 DEF Order
<1>4. n = 0 => S = {}
  BY <1>1 DEF Order
<1> QED
  BY <1>1, <1>2, <1>3, <1>4

\* The first chunk is taken, and overwritten.
LEMMA ChainTaken ==
    ASSUME NEW head, NEW ls, NEW ms, NEW n, NEW S, IsChain(head, ls, n, S), n > 0,
           \A x \in S \ {head} : ms[x] = ls[x],
           NEW first, n # 1 => first = ls[head]
    PROVE  IsChain(first, ms, n - 1, S \ {head})
<1>1. PICK c : /\ Order(c, n, S)
               /\ n > 0 => head = c[1]
               /\ \A i \in 1 .. n - 1 : ls[c[i]] = c[i + 1]
  BY DEF IsChain
<1>2. n \in Nat /\ 1 \in 1 .. n /\ head = c[1] /\ n - 1 \in Nat
  BY <1>1 DEF Order
<1>3. \A i \in 1 .. n : c[i] \in S
  BY <1>1 DEF Order
<1>4. \A i, j \in 1 .. n : c[i] = c[j] => i = j
  BY <1>1 DEF Order
<1> DEFINE d == [i \in 1 .. n - 1 |-> c[i + 1]]
<1>5. \A i \in 1 .. n - 1 : i + 1 \in 1 .. n /\ i + 1 # 1 /\ d[i] = c[i + 1]
  BY <1>2
<1>6. d = [i \in 1 .. n - 1 |-> d[i]]
  OBVIOUS
<1> HIDE DEF d
<1>7. \A i \in 1 .. n - 1 : d[i] \in S \ {head}
  <2> SUFFICES ASSUME NEW i \in 1 .. n - 1 PROVE d[i] \in S \ {head}
    OBVIOUS
  <2>1. d[i] = c[i + 1] /\ i + 1 \in 1 .. n /\ i + 1 # 1
    BY <1>5
  <2>2. c[i + 1] # c[1]
    BY <1>2, <1>4, <2>1
  <2> QED
    BY <1>2, <1>3, <2>1, <2>2
<1>8. Order(d, n - 1, S \ {head})
  <2>1. ASSUME NEW x \in S \ {head} PROVE \E i \in 1 .. n - 1 : d[i] = x
    <3>1. PICK i \in 1 .. n : c[i] = x
      BY <1>1 DEF Order
    <3>2. i # 1
      BY <1>2, <3>1
    <3>3. i - 1 \in 1 .. n - 1 /\ (i - 1) + 1 = i
      BY <1>2, <3>2
    <3> QED
      BY <1>5, <3>1, <3>3
  <2>2. ASSUME NEW i \in 1 .. n - 1, NEW j \in 1 .. n - 1, d[i] = d[j] PROVE i = j
    <3>1. i + 1 = j + 1
      BY <1>4, <1>5, <2>2
    <3> QED
      BY <1>2, <3>1
  <2>3. d \in [1 .. n - 1 -> S \ {head}]
    BY <1>6, <1>7
  <2> QED
    BY <1>2, <2>1, <2>2, <2>3 DEF Order
<1>9. n - 1 > 0 => first = d[1]
  <2> SUFFICES ASSUME n - 1 > 0 PROVE first = d[1]
    OBVIOUS
  <2>1. n # 1 /\ 1 \in 1 .. n - 1 /\ 1 + 1 = 2
    BY <1>2
  <2>2. ls[c[1]] = c[1 + 1] /\ d[1] = c[1 + 1]
    BY <1>1, <1>5, <2>1
  <2> QED
    BY <1>2, <2>1, <2>2
<1>10. \A i \in 1 .. (n - 1) - 1 : ms[d[i]] = d[i + 1]
  <2> SUFFICES ASSUME NEW i \in 1 .. (n - 1) - 1 PROVE ms[d[i]] = d[i + 1]
    OBVIOUS
  <2>1. i \in 1 .. n - 1 /\ i + 1 \in 1 .. n - 1
    BY <1>2
  <2>2. d[i] = c[i + 1] /\ d[i + 1] = c[(i + 1) + 1] /\ d[i] \in S \ {head}
    BY <1>5, <1>7, <2>1
  <2>3. ls[c[i + 1]] = c[(i + 1) + 1]
    BY <1>1, <2>1
  <2> QED
    BY <2>2, <2>3
<1> QED
  BY <1>8, <1>9, <1>10 DEF IsChain

\* A chunk is put in front of a chain.
LEMMA ChainGiven ==
    ASSUME NEW head, NEW ls, NEW ms, NEW n, NEW S, IsChain(head, ls, n, S),
           NEW p, p \notin S, ms[p] = head, \A x \in S : ms[x] = ls[x]
    PROVE  IsChain(p, ms, n + 1, S \cup {p})
<1>1. PICK c : /\ Order(c, n, S)
               /\ n > 0 => head = c[1]
               /\ \A i \in 1 .. n - 1 : ls[c[i]] = c[i + 1]
  BY DEF IsChain
<1>2. n \in Nat /\ \A i \in 1 .. n : c[i] \in S
  BY <1>1 DEF Order
<1>3. \A i, j \in 1 .. n : c[i] = c[j] => i = j
  BY <1>1 DEF Order
<1> DEFINE d == [i \in 1 .. n + 1 |-> IF i = 1 THEN p ELSE c[i - 1]]
<1>4. /\ d[1] = p
      /\ \A i \in 1 .. n + 1 : i = 1 \/ (i - 1 \in 1 .. n /\ d[i] = c[i - 1])
      /\ \A i \in 1 .. n : i + 1 \in 1 .. n + 1 /\ d[i + 1] = c[i]
      /\ d \in [1 .. n + 1 -> S \cup {p}]
  BY <1>2
<1> HIDE DEF d
<1>5. Order(d, n + 1, S \cup {p})
  <2>1. ASSUME NEW x \in S \cup {p} PROVE \E i \in 1 .. n + 1 : d[i] = x
    <3>1. CASE x = p
      BY <1>2, <1>4, <3>1
    <3>2. CASE x \in S
      <4>1. PICK i \in 1 .. n : c[i] = x
        BY <1>1, <3>2 DEF Order
      <4> QED
        BY <1>4, <4>1
    <3> QED
      BY <3>1, <3>2
  <2>2. ASSUME NEW i \in 1 .. n + 1, NEW j \in 1 .. n + 1, d[i] = d[j] PROVE i = j
    <3>1. i = 1 <=> j = 1
      BY <1>2, <1>4, <2>2
    <3>2. ASSUME i # 1, j # 1 PROVE i = j
      <4>1. i - 1 \in 1 .. n /\ j - 1 \in 1 .. n /\ c[i - 1] = c[j - 1]
        BY <1>4, <2>2, <3>2
      <4>2. i - 1 = j - 1
        BY <1>3, <4>1
      <4> QED
        BY <1>2, <4>2
    <3> QED
      BY <3>1, <3>2
  <2> QED
    BY <1>2, <1>4, <2>1, <2>2 DEF Order
<1>6. \A i \in 1 .. (n + 1) - 1 : ms[d[i]] = d[i + 1]
  <2> SUFFICES ASSUME NEW i \in 1 .. (n + 1) - 1 PROVE ms[d[i]] = d[i + 1]
    OBVIOUS
  <2>1. i \in 1 .. n /\ d[i + 1] = c[i]
    BY <1>2, <1>4
  <2>2. CASE i = 1
    BY <1>1, <1>2, <1>4, <2>1, <2>2
  <2>3. CASE i # 1
    <3>1. i - 1 \in 1 .. n - 1 /\ i - 1 \in 1 .. n /\ (i - 1) + 1 = i /\ d[i] = c[i - 1]
      BY <1>2, <1>4, <2>1, <2>3
    <3>2. ls[c[i - 1]] = c[i] /\ c[i - 1] \in S
      BY <1>1, <1>2, <3>1
    <3> QED
      BY <2>1, <3>1, <3>2
  <2> QED
    BY <2>2, <2>3
<1> QED
  BY <1>4, <1>5, <1>6 DEF IsChain

\* The first n chunks of a slab.
SlabChunks(s, n) == {<<s, i>> : i \in 0 .. n - 1}

\* The chain of a new slab goes down from the last chunk.
LEMMA ChainFresh ==
    ASSUME NEW s, NEW n \in Nat, n > 0, NEW ms,
           \A i \in 1 .. n - 1 : ms[<<s, i>>] = <<s, i - 1>>
    PROVE  IsChain(<<s, n - 1>>, ms, n, SlabChunks(s, n))
<1> DEFINE c == [k \in 1 .. n |-> <<s, n - k>>]
           S == SlabChunks(s, n)
<1> USE DEF SlabChunks
<1>1. \A k \in 1 .. n : c[k] = <<s, n - k>> /\ n - k \in 0 .. n - 1
  OBVIOUS
<1>2. \A i \in 0 .. n - 1 : n - i \in 1 .. n /\ n - (n - i) = i
  OBVIOUS
<1>3. c = [k \in 1 .. n |-> c[k]]
  OBVIOUS
<1> HIDE DEF c
<1>4. \A k \in 1 .. n : c[k] \in S
  BY <1>1
<1>5. \A x \in S : \E k \in 1 .. n : c[k] = x
  <2> SUFFICES ASSUME NEW i \in 0 .. n - 1 PROVE \E k \in 1 .. n : c[k] = <<s, i>>
    OBVIOUS
  <2> QED
    BY <1>1, <1>2
<1>6. ASSUME NEW k \in 1 .. n, NEW l \in 1 .. n, c[k] = c[l] PROVE k = l
  <2>1. n - k = n - l
    BY <1>1, <1>6
  <2> QED
    BY <2>1
<1> HIDE DEF S, SlabChunks
<1>7. Order(c, n, S)
  BY <1>3, <1>4, <1>5, <1>6 DEF Order
<1>8. c[1] = <<s, n - 1>>
  BY <1>1
<1>9. \A k \in 1 .. n - 1 : ms[c[k]] = c[k + 1]
  <2> SUFFICES ASSUME NEW k \in 1 .. n - 1 PROVE ms[c[k]] = c[k + 1]
    OBVIOUS
  <2>1. k \in 1 .. n /\ k + 1 \in 1 .. n /\ n - k \in 1 .. n - 1 /\ (n - k) - 1 = n - (k + 1)
    OBVIOUS
  <2> QED
    BY <1>1, <2>1
<1>10. IsChain(<<s, n - 1>>, ms, n, S)
  BY <1>7, <1>8, <1>9 DEF IsChain
<1> QED
  BY <1>10 DEF S

\* One step along the links.
Turn(f, head, ls, n) == IF n = 1 THEN head ELSE Deref(ls, f[n - 1])

\* Links can be followed for any number of steps.
LEMMA WalkExists ==
    ASSUME NEW m \in Nat, NEW head, NEW ls
    PROVE  \E f : f = [i \in 1 .. m |-> Turn(f, head, ls, i)]
<1> DEFINE S == {k \in 0 .. m : \E f : f = [i \in 1 .. k |-> Turn(f, head, ls, i)]}
<1>1. 0 \in S
  <2> DEFINE f == [i \in 1 .. 0 |-> head]
  <2>1. \A i \in 1 .. 0 : Turn(f, head, ls, i) = head
    BY DEF Turn
  <2>2. f = [i \in 1 .. 0 |-> Turn(f, head, ls, i)]
    BY <2>1
  <2>3. 0 \in 0 .. m
    OBVIOUS
  <2> HIDE DEF f
  <2> QED
    BY <2>2, <2>3
<1>2. ASSUME NEW k \in 0 .. m - 1, k \in S PROVE k + 1 \in S
  <2>1. PICK f : f = [i \in 1 .. k |-> Turn(f, head, ls, i)]
    BY <1>2
  <2> DEFINE g == [i \in 1 .. k + 1 |-> IF i = k + 1 THEN Turn(f, head, ls, i) ELSE f[i]]
  <2>2. \A i \in 1 .. k : g[i] = f[i] /\ f[i] = Turn(f, head, ls, i)
    <3>1. \A i \in 1 .. k : i \in 1 .. k + 1 /\ i # k + 1
      OBVIOUS
    <3>2. \A i \in 1 .. k : g[i] = f[i]
      BY <3>1
    <3>3. \A i \in 1 .. k : f[i] = Turn(f, head, ls, i)
      BY <2>1, Zenon
    <3> QED
      BY <3>2, <3>3
  <2>3. k + 1 \in 1 .. k + 1 /\ g[k + 1] = Turn(f, head, ls, k + 1)
    OBVIOUS
  <2>4. g = [i \in 1 .. k + 1 |-> g[i]]
    OBVIOUS
  <2> HIDE DEF g
  <2>5. ASSUME NEW i \in 1 .. k + 1 PROVE g[i] = Turn(g, head, ls, i)
    <3>1. i # 1 => i - 1 \in 1 .. k
      OBVIOUS
    <3>2. Turn(g, head, ls, i) = Turn(f, head, ls, i)
      BY <2>2, <3>1 DEF Turn
    <3>3. CASE i = k + 1
      BY <2>3, <3>2, <3>3
    <3>4. CASE i # k + 1
      <4>1. i \in 1 .. k
        BY <3>4
      <4> QED
        BY <2>2, <3>2, <4>1
    <3> QED
      BY <3>3, <3>4
  <2>6. g = [i \in 1 .. k + 1 |-> Turn(g, head, ls, i)]
    BY <2>4, <2>5
  <2>7. k + 1 \in 0 .. m
    OBVIOUS
  <2> QED
    BY <2>6, <2>7
<1> HIDE DEF S
<1>3. \A k \in 0 .. m : k \in S
  BY <1>1, <1>2, UpTo
<1>4. m \in S
  BY <1>3
<1> QED
  BY <1>4 DEF S

\* Following the links of a slab's chain finds just the chunks of the chain.
LEMMA ChainWalked ==
    ASSUME NEW s, NEW S \in SUBSET Chunks, MostObjects \in Nat,
           IsChain(header[s].chunk, link, header[s].amount, S),
           header[s].amount <= MostObjects
    PROVE  {FreeChain(s)[n] : n \in 1 .. header[s].amount} = S
<1> DEFINE a == header[s].amount
           head == header[s].chunk
           chain == CHOOSE f : f = [i \in 1 .. MostObjects |-> Turn(f, head, link, i)]
<1>1. PICK c : /\ Order(c, a, S)
               /\ a > 0 => head = c[1]
               /\ \A i \in 1 .. a - 1 : link[c[i]] = c[i + 1]
  BY DEF IsChain
<1>2. a \in Nat /\ a <= MostObjects
  BY <1>1 DEF Order
<1>3. FreeChain(s) = chain
  BY DEF FreeChain, Turn
<1>4. chain = [i \in 1 .. MostObjects |-> Turn(chain, head, link, i)]
  BY WalkExists
<1> HIDE DEF chain
<1>5. \A i \in 1 .. MostObjects : chain[i] = Turn(chain, head, link, i)
  BY <1>4
<1> HIDE DEF a, head
<1> DEFINE R == {0} \cup {i \in 1 .. a : chain[i] = c[i]}
<1>6. ASSUME NEW i \in 0 .. a - 1, i \in R PROVE i + 1 \in R
  <2>1. i + 1 \in 1 .. a /\ i + 1 \in 1 .. MostObjects /\ (i + 1) - 1 = i
    BY <1>2
  <2>2. CASE i = 0
    <3>1. chain[1] = head /\ head = c[1] /\ 1 = i + 1
      BY <1>1, <1>2, <1>5, <2>1, <2>2 DEF Turn
    <3> QED
      BY <2>1, <3>1
  <2>3. CASE i # 0
    <3>1. chain[i] = c[i] /\ i \in 1 .. a - 1 /\ i \in 1 .. a /\ i + 1 # 1
      BY <1>2, <1>6, <2>3
    <3>2. c[i] \in Chunks
      BY <1>1, <3>1 DEF Order
    <3>3. chain[i + 1] = Deref(link, c[i])
      BY <1>5, <2>1, <3>1 DEF Turn
    <3>4. chain[i + 1] = c[i + 1]
      BY <1>1, <3>1, <3>2, <3>3 DEF Deref
    <3> QED
      BY <2>1, <3>4
  <2> QED
    BY <2>2, <2>3
<1>7. 0 \in R
  OBVIOUS
<1> HIDE DEF R
<1>8. \A i \in 0 .. a : i \in R
  BY <1>2, <1>6, <1>7, UpTo
<1>9. \A i \in 1 .. a : chain[i] = c[i]
  <2> SUFFICES ASSUME NEW i \in 1 .. a PROVE chain[i] = c[i]
    OBVIOUS
  <2>1. i \in R /\ i # 0
    BY <1>2, <1>8
  <2> QED
    BY <2>1 DEF R
<1>10. {chain[i] : i \in 1 .. a} = S
  <2>1. \A i \in 1 .. a : c[i] \in S
    BY <1>1 DEF Order
  <2>2. \A x \in S : \E i \in 1 .. a : c[i] = x
    BY <1>1 DEF Order
  <2> QED
    BY <1>9, <2>1, <2>2
<1> QED
  BY <1>3, <1>10 DEF a

\* The number of chunks of any slab has a largest value.
LEMMA Most ==
    ASSUME SeveralObjects, ObjectSizes # {}
    PROVE  /\ MostObjects \in 2 .. SIZE_MAX
           /\ \A o \in ObjectSizes : SlabObjects(ObjectSize(o)) <= MostObjects
<1> DEFINE N == {SlabObjects(ObjectSize(o)) : o \in ObjectSizes}
           R == {SIZE_MAX - n : n \in N}
<1>1. \A n \in N : n \in 2 .. SIZE_MAX
  BY DEF SeveralObjects
<1>2. \A o \in ObjectSizes : SlabObjects(ObjectSize(o)) \in N
  OBVIOUS
<1>3. N # {}
  OBVIOUS
<1>4. \A n \in N : \E o \in ObjectSizes : n = SlabObjects(ObjectSize(o))
  OBVIOUS
<1> HIDE DEF N
<1>5. R \in SUBSET Nat /\ R # {}
  BY <1>1, <1>3, SizesAssumption
<1>6. PICK r \in R : \A j \in R : r <= j
  <2> HIDE DEF R
  <2> QED
    BY <1>5, Least
<1>7. PICK n \in N : r = SIZE_MAX - n
  BY <1>6
<1>8. \A m \in N : m <= n
  <2> SUFFICES ASSUME NEW m \in N PROVE m <= n
    OBVIOUS
  <2>1. SIZE_MAX - m \in R
    OBVIOUS
  <2>2. SIZE_MAX - n <= SIZE_MAX - m
    BY <1>6, <1>7, <2>1
  <2>3. m \in 2 .. SIZE_MAX /\ n \in 2 .. SIZE_MAX
    BY <1>1
  <2> QED
    BY <2>2, <2>3, SizesAssumption
<1>9. \A o \in ObjectSizes : SlabObjects(ObjectSize(o)) <= n
  BY <1>2, <1>8
<1>10. MostObjects \in N /\ \A o \in ObjectSizes : SlabObjects(ObjectSize(o)) <= MostObjects
  <2> USE DEF N
  <2>1. \E m \in N : \A o \in ObjectSizes : SlabObjects(ObjectSize(o)) <= m
    BY <1>9
  <2> QED
    BY <2>1 DEF MostObjects
<1> QED
  BY <1>1, <1>10

-----------------------------------------------------------------------------
(* A chunk is handed out, and given back.                                  *)

\* There are n chunks of a slab with an index below n.
LEMMA SlabCount ==
    ASSUME NEW s, NEW n \in Nat
    PROVE  IsFiniteSet(SlabChunks(s, n)) /\ Cardinality(SlabChunks(s, n)) = n
<1> DEFINE f == [k \in 1 .. n |-> <<s, k - 1>>]
           S == SlabChunks(s, n)
<1> USE DEF SlabChunks
<1>1. \A k \in 1 .. n : f[k] = <<s, k - 1>> /\ k - 1 \in 0 .. n - 1
  OBVIOUS
<1>2. \A i \in 0 .. n - 1 : i + 1 \in 1 .. n /\ (i + 1) - 1 = i
  OBVIOUS
<1>3. f = [k \in 1 .. n |-> f[k]]
  OBVIOUS
<1> HIDE DEF f
<1>4. \A k \in 1 .. n : f[k] \in S
  BY <1>1
<1>5. \A x \in S : \E k \in 1 .. n : f[k] = x
  <2> SUFFICES ASSUME NEW i \in 0 .. n - 1 PROVE \E k \in 1 .. n : f[k] = <<s, i>>
    OBVIOUS
  <2> QED
    BY <1>1, <1>2
<1>6. ASSUME NEW k \in 1 .. n, NEW l \in 1 .. n, f[k] = f[l] PROVE k = l
  <2>1. k - 1 = l - 1
    BY <1>1, <1>6
  <2> QED
    BY <2>1
<1> HIDE DEF S
<1>7. Order(f, n, S)
  BY <1>3, <1>4, <1>5, <1>6 DEF Order
<1>8. IsFiniteSet(S) /\ Cardinality(S) = n
  BY <1>7, OrderCounts, Zenon
<1> HIDE DEF SlabChunks
<1> QED
  BY <1>8 DEF S

\* A slab some chunk of which is held has not all its chunks free.
LEMMA NotAllFree ==
    ASSUME NEW s, NEW n \in Nat, NEW o, NEW S, S \subseteq FreeChunks(s, n, o),
           NEW p \in Chunks, p[1] = s, p[2] < n, o[p] # 0
    PROVE  Cardinality(S) < n
<1> DEFINE T == SlabChunks(s, n)
<1>1. \A q \in Chunks : q[1] = s /\ q[2] < n => q \in T
  <2> SUFFICES ASSUME NEW q \in Chunks, q[1] = s, q[2] < n PROVE q \in T
    OBVIOUS
  <2>1. q = <<q[1], q[2]>> /\ q[2] \in Nat
    BY DEF Chunks
  <2>2. q[2] \in 0 .. n - 1
    BY <2>1
  <2> QED
    BY <2>1, <2>2 DEF SlabChunks
<1> HIDE DEF T
<1>2. IsFiniteSet(T) /\ Cardinality(T) = n
  BY SlabCount DEF T
<1>3. S \subseteq T /\ p \in T /\ p \notin S
  BY <1>1 DEF FreeChunks
<1>4. Cardinality(S) <= Cardinality(T) /\ (Cardinality(S) = Cardinality(T) => S = T)
  BY <1>2, <1>3, FS_Subset
<1>5. IsFiniteSet(S)
  BY <1>2, <1>3, FS_Subset
<1>6. Cardinality(S) \in Nat
  BY <1>5, FS_CardinalityType
<1> QED
  BY <1>2, <1>3, <1>4, <1>6

\* The first chunk of the slab s is handed out; h and g are the headers before
\* and after.
LEMMA ChunkTaken ==
    ASSUME NEW h, NEW g, NEW ls \in Links, NEW m, NEW n, NEW o \in Owners,
           ChainsHold(h, ls, m, n, o), HoldersHold(m, n, o),
           NEW s \in m, h[s].amount > 0,
           \A x \in m \ {s} : g[x].amount = h[x].amount /\ g[x].chunk = h[x].chunk,
           g[s].amount = h[s].amount - 1,
           h[s].amount # 1 => g[s].chunk = Deref(ls, h[s].chunk),
           n \in Nat
    PROVE  /\ h[s].chunk \in Chunks
           /\ Overwritten(ls, h[s].chunk) \in Links
           /\ [o EXCEPT ![h[s].chunk] = @ + 1] \in Owners
           /\ HoldersHold(m, n, [o EXCEPT ![h[s].chunk] = @ + 1])
           /\ ChainsHold(g, Overwritten(ls, h[s].chunk), m, n,
                         [o EXCEPT ![h[s].chunk] = @ + 1])
<1> DEFINE p == h[s].chunk
           a == h[s].amount
           ms == Overwritten(ls, p)
           w == [o EXCEPT ![p] = @ + 1]
<1>1. IsChain(p, ls, a, FreeChunks(s, n, o)) /\ a <= n
  BY DEF ChainsHold
<1>2. p \in FreeChunks(s, n, o) /\ a \in Nat
  BY <1>1, ChainFirst
<1>3. p \in Chunks /\ p[1] = s /\ p[2] < n /\ o[p] = 0
  BY <1>2 DEF FreeChunks
<1> HIDE DEF p
<1>4. ms \in Links /\ \A q \in Chunks : q # p => ms[q] = ls[q]
  BY DEF Overwritten, Links
<1>5. w \in Owners /\ w[p] = 1 /\ \A q \in Chunks \cup {Garbage} : q # p => w[q] = o[q]
  BY <1>3 DEF Owners
<1> HIDE DEF ms, w, a
<1>6. HoldersHold(m, n, w)
  BY <1>3, <1>5, GarbageAssumption DEF HoldersHold
<1>7. FreeChunks(s, n, w) = FreeChunks(s, n, o) \ {p}
  BY <1>3, <1>5 DEF FreeChunks
<1>8. \A x \in m \ {s} : FreeChunks(x, n, w) = FreeChunks(x, n, o)
  BY <1>3, <1>5 DEF FreeChunks
<1>9. ASSUME NEW x \in m
      PROVE  /\ g[x].amount <= n
             /\ IsChain(g[x].chunk, ms, g[x].amount, FreeChunks(x, n, w))
  <2>1. CASE x = s
    <3>1. \A q \in FreeChunks(s, n, o) \ {p} : ms[q] = ls[q]
      BY <1>4 DEF FreeChunks
    <3>2. a # 1 => g[s].chunk = ls[p]
      BY <1>3 DEF Deref, p, a
    <3>3. a > 0 /\ g[s].amount = a - 1
      BY DEF a
    <3>4. IsChain(g[s].chunk, ms, a - 1, FreeChunks(s, n, o) \ {p})
      BY <1>1, <3>1, <3>2, <3>3, ChainTaken
    <3>5. a - 1 <= n
      BY <1>1, <1>2 DEF a
    <3> QED
      BY <1>7, <2>1, <3>3, <3>4, <3>5
  <2>2. CASE x # s
    <3>1. h[x].amount <= n /\ IsChain(h[x].chunk, ls, h[x].amount, FreeChunks(x, n, o))
      BY DEF ChainsHold
    <3>2. \A q \in FreeChunks(x, n, o) : ms[q] = ls[q]
      BY <1>3, <1>4, <2>2 DEF FreeChunks
    <3>3. IsChain(h[x].chunk, ms, h[x].amount, FreeChunks(x, n, o))
      BY <3>1, <3>2, ChainFrame
    <3> QED
      BY <1>8, <2>2, <3>1, <3>3
  <2> QED
    BY <2>1, <2>2
<1>10. ChainsHold(g, ms, m, n, w)
  BY <1>9 DEF ChainsHold
<1> QED
  BY <1>3, <1>4, <1>5, <1>6, <1>10 DEF p, ms, w

\* A held chunk is of a slab of the cache, and not all its chunks are free.
LEMMA HeldHere ==
    ASSUME NEW h, NEW ls, NEW m, NEW n \in Nat, NEW o \in Owners,
           ChainsHold(h, ls, m, n, o), HoldersHold(m, n, o), NEW p \in Chunks, o[p] > 0
    PROVE  p[1] \in m /\ h[p[1]].amount \in 0 .. n - 1
<1> DEFINE s == p[1]
           a == h[s].amount
           S == FreeChunks(s, n, o)
<1>1. s \in m /\ p[2] < n /\ o[p] # 0
  BY DEF HoldersHold, Owners
<1>2. IsChain(h[s].chunk, ls, a, S) /\ a <= n
  BY <1>1 DEF ChainsHold
<1>3. S \subseteq FreeChunks(s, n, o)
  OBVIOUS
<1> HIDE DEF S, a
<1>4. a \in Nat /\ a = Cardinality(S)
  BY <1>2, ChainFirst
<1>5. Cardinality(S) < n
  BY <1>1, <1>3, NotAllFree
<1>6. a \in 0 .. n - 1
  BY <1>4, <1>5
<1> QED
  BY <1>1, <1>6 DEF a

\* In the headers g the chain of s starts with one chunk more than in h, p.
OneMore(h, g, m, s, p) ==
    /\ \A x \in m \ {s} : g[x].amount = h[x].amount /\ g[x].chunk = h[x].chunk
    /\ g[s].amount = h[s].amount + 1 /\ g[s].chunk = p

\* The held chunk p of the slab s is given back.
LEMMA ChunkGiven ==
    ASSUME NEW h, NEW g, NEW ls \in Links, NEW m, NEW n \in Nat, NEW o \in Owners,
           ChainsHold(h, ls, m, n, o), HoldersHold(m, n, o),
           NEW s, NEW p \in Chunks, p[1] = s, o[p] > 0,
           h[s].chunk \in Chunks \cup {Garbage},
           OneMore(h, g, m, s, p)
    PROVE  /\ [ls EXCEPT ![p] = h[s].chunk] \in Links
           /\ [o EXCEPT ![p] = @ - 1] \in Owners
           /\ HoldersHold(m, n, [o EXCEPT ![p] = @ - 1])
           /\ ChainsHold(g, [ls EXCEPT ![p] = h[s].chunk], m, n, [o EXCEPT ![p] = @ - 1])
<1> DEFINE a == h[s].amount
           ms == [ls EXCEPT ![p] = h[s].chunk]
           w == [o EXCEPT ![p] = @ - 1]
<1>0. /\ \A x \in m \ {s} : g[x].amount = h[x].amount /\ g[x].chunk = h[x].chunk
      /\ g[s].amount = h[s].amount + 1 /\ g[s].chunk = p
  BY DEF OneMore
<1>1. s \in m /\ p[2] < n /\ o[p] = 1
  BY DEF HoldersHold, Owners
<1>2. IsChain(h[s].chunk, ls, a, FreeChunks(s, n, o)) /\ a <= n
  BY <1>1 DEF ChainsHold
<1>3. a \in Nat /\ a = Cardinality(FreeChunks(s, n, o))
  BY <1>2, ChainFirst
<1>4. a < n
  <2>1. h[p[1]].amount \in 0 .. n - 1
    BY HeldHere
  <2>2. h[s].amount \in 0 .. n - 1
    BY <2>1
  <2> QED
    BY <2>2 DEF a
<1>5. /\ ms \in Links /\ ms[p] = h[s].chunk
      /\ \A q \in Chunks : q # p => ms[q] = ls[q]
  BY DEF Links
<1>6. w \in Owners /\ w[p] = 0 /\ \A q \in Chunks \cup {Garbage} : q # p => w[q] = o[q]
  BY <1>1 DEF Owners
<1> HIDE DEF ms, w, a
<1>7. HoldersHold(m, n, w)
  BY <1>6, GarbageAssumption DEF HoldersHold
<1>8. FreeChunks(s, n, w) = FreeChunks(s, n, o) \cup {p} /\ p \notin FreeChunks(s, n, o)
  BY <1>1, <1>6 DEF FreeChunks
<1>9. \A x \in m \ {s} : FreeChunks(x, n, w) = FreeChunks(x, n, o)
  BY <1>6 DEF FreeChunks
<1>10. ASSUME NEW x \in m
       PROVE  /\ g[x].amount <= n
              /\ IsChain(g[x].chunk, ms, g[x].amount, FreeChunks(x, n, w))
  <2>1. CASE x = s
    <3>1. \A q \in FreeChunks(s, n, o) : ms[q] = ls[q]
      BY <1>5, <1>8 DEF FreeChunks
    <3>2. IsChain(p, ms, a + 1, FreeChunks(s, n, o) \cup {p})
      BY <1>2, <1>5, <1>8, <3>1, ChainGiven
    <3>3. g[s].amount = a + 1 /\ a + 1 <= n
      BY <1>0, <1>3, <1>4 DEF a
    <3> QED
      BY <1>0, <1>8, <2>1, <3>2, <3>3
  <2>2. CASE x # s
    <3>1. h[x].amount <= n /\ IsChain(h[x].chunk, ls, h[x].amount, FreeChunks(x, n, o))
      BY DEF ChainsHold
    <3>2. \A q \in FreeChunks(x, n, o) : ms[q] = ls[q]
      BY <1>5, <2>2 DEF FreeChunks
    <3>3. IsChain(h[x].chunk, ms, h[x].amount, FreeChunks(x, n, o))
      BY <3>1, <3>2, ChainFrame
    <3> QED
      BY <1>0, <1>9, <2>2, <3>1, <3>3
  <2> QED
    BY <2>1, <2>2
<1>11. ChainsHold(g, ms, m, n, w)
  BY <1>10 DEF ChainsHold
<1> QED
  BY <1>5, <1>6, <1>7, <1>11 DEF ms, w

-----------------------------------------------------------------------------
(* A slab changes its list.                                                *)

\* Headers h with the same links and, but for the slab s, the same amounts as k.
SameBut(h, k, s) == /\ \A x \in Slabs : k[x].next = h[x].next /\ k[x].prev = h[x].prev
                    /\ \A x \in Slabs \ {s} : k[x].amount = h[x].amount

\* The amount of s may change within the range of its list.
LEMMA SlabStays ==
    ASSUME NEW h, NEW k, NEW m \in SUBSET Slabs, NEW s \in m, SameBut(h, k, s),
           NEW X, NEW list, IsList(h, list, WithAmount(h, m, X)),
           h[s].amount \in X <=> k[s].amount \in X
    PROVE  IsList(k, list, WithAmount(k, m, X))
<1>1. WithAmount(k, m, X) = WithAmount(h, m, X)
  BY DEF WithAmount, SameBut
<1>2. \A x \in WithAmount(h, m, X) : k[x].next = h[x].next /\ k[x].prev = h[x].prev
  BY DEF WithAmount, SameBut
<1>3. IsList(k, list, WithAmount(h, m, X))
  BY <1>2, ListFrame
<1> QED
  BY <1>1, <1>3

\* Lists for three ranges of amounts.
ListsFor(h, m, l1, X, l2, Y, l3, Z) ==
    /\ X \cap Y = {} /\ X \cap Z = {} /\ Y \cap Z = {}
    /\ IsList(h, l1, WithAmount(h, m, X)) /\ IsList(h, l2, WithAmount(h, m, Y))
    /\ IsList(h, l3, WithAmount(h, m, Z))

\* The amount of the slab s of m has gone from the range X to the range Y, ...
Recounted(h, k, m, s, X, Y) ==
    /\ k \in [Slabs -> Headers] /\ m \in SUBSET Slabs /\ s \in m
    /\ SameBut(h, k, s) /\ h[s].amount \in X /\ k[s].amount \in Y

\* ... and it is moved to the list for Y.
LEMMA SlabFiled ==
    ASSUME NEW h, NEW k, NEW m, NEW s, NEW l1, NEW X, NEW l2, NEW Y, NEW l3, NEW Z,
           Recounted(h, k, m, s, X, Y), ListsFor(h, m, l1, X, l2, Y, l3, Z)
    PROVE  /\ Refiled(k, l2, s) \in [Slabs -> Headers]
           /\ HeadWithout(k, l1, s) \in Slabs \cup {NULL}
           /\ SameChains(Refiled(k, l2, s), k)
           /\ ListsFor(Refiled(k, l2, s), m, HeadWithout(k, l1, s), X, s, Y, l3, Z)
<1> DEFINE A == WithAmount(h, m, X)
           B == WithAmount(h, m, Y)
           C == WithAmount(h, m, Z)
           g == Refiled(k, l2, s)
<1>a. /\ k \in [Slabs -> Headers] /\ m \in SUBSET Slabs /\ s \in m
      /\ SameBut(h, k, s) /\ h[s].amount \in X /\ k[s].amount \in Y
  BY DEF Recounted
<1>0. X \cap Y = {} /\ X \cap Z = {} /\ Y \cap Z = {}
  BY DEF ListsFor
<1>1. /\ A \in SUBSET Slabs /\ B \in SUBSET Slabs /\ C \in SUBSET Slabs
      /\ A \cap B = {} /\ A \cap C = {} /\ B \cap C = {} /\ s \in A
  BY <1>a DEF WithAmount, ListsFor
<1>2. \A x \in Slabs : k[x].next = h[x].next /\ k[x].prev = h[x].prev
  BY <1>a DEF SameBut
<1> HIDE DEF A, B, C
<1>3. IsList(k, l1, A) /\ IsList(k, l2, B) /\ IsList(k, l3, C)
  <2>1. IsList(h, l1, A) /\ IsList(h, l2, B) /\ IsList(h, l3, C)
    BY DEF A, B, C, ListsFor
  <2>2. \A x \in A : k[x].next = h[x].next /\ k[x].prev = h[x].prev
    BY <1>1, <1>2
  <2>3. \A x \in B : k[x].next = h[x].next /\ k[x].prev = h[x].prev
    BY <1>1, <1>2
  <2>4. \A x \in C : k[x].next = h[x].next /\ k[x].prev = h[x].prev
    BY <1>1, <1>2
  <2>5. IsList(k, l1, A)
    BY <2>1, <2>2, ListFrame
  <2>6. IsList(k, l2, B)
    BY <2>1, <2>3, ListFrame
  <2>7. IsList(k, l3, C)
    BY <2>1, <2>4, ListFrame
  <2> QED
    BY <2>5, <2>6, <2>7
<1>4. /\ g \in [Slabs -> Headers] /\ HeadWithout(k, l1, s) \in Slabs \cup {NULL}
      /\ SameChains(g, k)
      /\ ThreeLists(g, HeadWithout(k, l1, s), A \ {s}, s, B \cup {s}, l3, C)
  <2>1. ThreeLists(k, l1, A, l2, B, l3, C) /\ s \in A
    BY <1>1, <1>3 DEF ThreeLists
  <2> QED
    BY <1>a, <2>1, SlabMoves, Zenon
<1>9. IsList(g, HeadWithout(k, l1, s), A \ {s}) /\ IsList(g, s, B \cup {s}) /\ IsList(g, l3, C)
  BY <1>4 DEF ThreeLists
<1> HIDE DEF g
<1>5. \A x \in Slabs : g[x].amount = IF x = s THEN k[s].amount ELSE h[x].amount
  BY <1>a, <1>4 DEF SameBut, SameChains
<1>6. WithAmount(g, m, X) = A \ {s}
  BY <1>a, <1>0, <1>5 DEF WithAmount, A
<1>7. WithAmount(g, m, Y) = B \cup {s}
  BY <1>a, <1>0, <1>5 DEF WithAmount, B
<1>8. WithAmount(g, m, Z) = C
  BY <1>a, <1>0, <1>5 DEF WithAmount, C
<1>10. ListsFor(g, m, HeadWithout(k, l1, s), X, s, Y, l3, Z)
  BY <1>6, <1>7, <1>8, <1>9 DEF ListsFor
<1> QED
  BY <1>4, <1>10 DEF g

\* A new slab is a list of its own, and its chain is all of it.
LEMMA Grown ==
    ASSUME NEW h \in [Slabs -> Headers], link \in Links, NEW m \in SUBSET Slabs,
           NEW n \in 2 .. SIZE_MAX, MostObjects \in Nat, n <= MostObjects,
           NEW o \in Owners, HoldersHold(m, n, o), ChainsHold(h, link, m, n, o),
           WithAmount(h, m, {n}) = {}, WithAmount(h, m, 1 .. n - 1) = {},
           NEW full, IsList(h, full, WithAmount(h, m, {0})), NEW s \in Slabs \ m
    PROVE  /\ Fresh(h, s, n) \in [Slabs -> Headers]
           /\ FreshLinks(s, n) \in Links
           /\ HoldersHold(m \cup {s}, n, o)
           /\ ChainsHold(Fresh(h, s, n), FreshLinks(s, n), m \cup {s}, n, o)
           /\ ListsHold(Fresh(h, s, n), m \cup {s}, n, s, NULL, full)
<1> DEFINE g == Fresh(h, s, n)
           ms == FreshLinks(s, n)
           new == [chunk |-> <<s, n - 1>>, amount |-> n, next |-> NULL, prev |-> NULL]
<1>0. n \in Nat /\ n > 0 /\ n - 1 \in 0 .. MostObjects - 1 /\ n \in 0 .. SIZE_MAX
  BY SizesAssumption
<1>1. <<s, n - 1>> \in Chunks
  BY <1>0 DEF Chunks
<1>2. new \in Headers
  BY <1>0, <1>1 DEF Headers
<1>3. /\ new.chunk = <<s, n - 1>> /\ new.amount = n
      /\ new.next = NULL /\ new.prev = NULL
  OBVIOUS
<1>4. g = [h EXCEPT ![s] = new]
  BY DEF Fresh
<1> HIDE DEF new
<1>5. g \in [Slabs -> Headers] /\ g[s] = new /\ \A x \in Slabs : x # s => g[x] = h[x]
  BY <1>2, <1>4
<1>6. ms \in Links
  <2>1. ASSUME NEW p \in Chunks PROVE ms[p] \in Chunks \cup {Garbage}
    <3>1. /\ ms[p] = IF p[1] # s THEN link[p]
                     ELSE IF p[2] \in 1 .. n - 1 THEN <<s, p[2] - 1>> ELSE Garbage
          /\ link[p] \in Chunks \cup {Garbage}
      BY DEF FreshLinks, Links
    <3>2. p[2] \in 1 .. n - 1 => <<s, p[2] - 1>> \in Chunks
      BY <1>0 DEF Chunks
    <3> HIDE DEF ms
    <3> QED
      BY <3>1, <3>2
  <2>2. ms = [p \in Chunks |-> ms[p]]
    BY DEF FreshLinks
  <2> HIDE DEF ms
  <2> QED
    BY <2>1, <2>2 DEF Links
<1>7. \A p \in Chunks : p[1] # s => ms[p] = link[p]
  BY DEF FreshLinks
<1>8. \A i \in 1 .. n - 1 : ms[<<s, i>>] = <<s, i - 1>>
  <2> SUFFICES ASSUME NEW i \in 1 .. n - 1 PROVE ms[<<s, i>>] = <<s, i - 1>>
    OBVIOUS
  <2>1. <<s, i>> \in Chunks
    BY <1>0 DEF Chunks
  <2> QED
    BY <2>1 DEF FreshLinks
<1> HIDE DEF g, ms
<1>9. IsChain(<<s, n - 1>>, ms, n, SlabChunks(s, n))
  BY <1>0, <1>8, ChainFresh
<1>10. FreeChunks(s, n, o) = SlabChunks(s, n)
  <2>1. ASSUME NEW p \in FreeChunks(s, n, o) PROVE p \in SlabChunks(s, n)
    <3>1. p = <<p[1], p[2]>> /\ p[1] = s /\ p[2] \in 0 .. n - 1
      BY <1>0 DEF FreeChunks, Chunks
    <3> QED
      BY <3>1 DEF SlabChunks
  <2>2. ASSUME NEW i \in 0 .. n - 1 PROVE <<s, i>> \in FreeChunks(s, n, o)
    <3>1. <<s, i>> \in Chunks /\ i < n
      BY <1>0 DEF Chunks
    <3>2. <<s, i>>[1] = s /\ <<s, i>>[2] = i /\ s \notin m
      OBVIOUS
    <3>3. ~(o[<<s, i>>] > 0) /\ o[<<s, i>>] \in Nat
      BY <3>1, <3>2 DEF HoldersHold, Owners
    <3>4. o[<<s, i>>] = 0
      BY <3>3
    <3> QED
      BY <3>1, <3>2, <3>4 DEF FreeChunks
  <2>3. \A q \in SlabChunks(s, n) : q \in FreeChunks(s, n, o)
    BY <2>2 DEF SlabChunks
  <2> QED
    BY <2>1, <2>3
<1>11. ASSUME NEW x \in m \cup {s}
       PROVE  /\ g[x].amount <= n
              /\ IsChain(g[x].chunk, ms, g[x].amount, FreeChunks(x, n, o))
  <2>1. CASE x = s
    BY <1>0, <1>3, <1>5, <1>9, <1>10, <2>1
  <2>2. CASE x # s
    <3>1. x \in m /\ g[x] = h[x]
      BY <1>5, <2>2
    <3>2. h[x].amount <= n /\ IsChain(h[x].chunk, link, h[x].amount, FreeChunks(x, n, o))
      BY <3>1 DEF ChainsHold
    <3>3. \A q \in FreeChunks(x, n, o) : ms[q] = link[q]
      BY <1>7, <2>2 DEF FreeChunks
    <3>4. IsChain(h[x].chunk, ms, h[x].amount, FreeChunks(x, n, o))
      BY <3>2, <3>3, ChainFrame
    <3> QED
      BY <3>1, <3>2, <3>4
  <2> QED
    BY <2>1, <2>2
<1>12. ChainsHold(g, ms, m \cup {s}, n, o)
  BY <1>11 DEF ChainsHold
<1>13. WithAmount(g, m \cup {s}, {n}) = {s}
  BY <1>3, <1>5 DEF WithAmount
<1>14. WithAmount(g, m \cup {s}, 1 .. n - 1) = {}
  <2>1. n \notin 1 .. n - 1
    BY <1>0
  <2> QED
    BY <1>3, <1>5, <2>1 DEF WithAmount
<1>15. WithAmount(g, m \cup {s}, {0}) = WithAmount(h, m, {0})
  BY <1>0, <1>3, <1>5 DEF WithAmount
<1>16. IsList(g, full, WithAmount(h, m, {0}))
  <2>1. \A x \in WithAmount(h, m, {0}) : g[x].next = h[x].next /\ g[x].prev = h[x].prev
    BY <1>5 DEF WithAmount
  <2> QED
    BY <2>1, ListFrame
<1>17. IsList(g, s, {s}) /\ IsList(g, NULL, {})
  <2>1. g[s].next = NULL /\ g[s].prev = NULL
    BY <1>3, <1>5
  <2> QED
    BY <2>1, OneSlab, EmptyList
<1>18. ListsHold(g, m \cup {s}, n, s, NULL, full)
  BY <1>13, <1>14, <1>15, <1>16, <1>17 DEF ListsHold
<1>19. HoldersHold(m \cup {s}, n, o)
  BY DEF HoldersHold
<1> QED
  BY <1>5, <1>6, <1>12, <1>18, <1>19 DEF g, ms

-----------------------------------------------------------------------------
(* The operations.                                                         *)

\* What SlabInv says of a cache that is set up.
LEMMA SlabFacts ==
    ASSUME SlabInv, slab_objects # 0
    PROVE  /\ slab_objects \in 2 .. SIZE_MAX /\ slab_objects \in Nat /\ slab_objects >= 2
           /\ MostObjects \in Nat /\ slab_objects <= MostObjects
           /\ header \in [Slabs -> Headers] /\ link \in Links /\ owners \in Owners
           /\ mapped \in SUBSET Slabs /\ NULL \notin Slabs
           /\ free_slabs \in Slabs \cup {NULL}
           /\ partly_allocated_slabs \in Slabs \cup {NULL}
           /\ fully_allocated_slabs \in Slabs \cup {NULL}
           /\ HoldersHold(mapped, slab_objects, owners)
           /\ ListsHold(header, mapped, slab_objects,
                        free_slabs, partly_allocated_slabs, fully_allocated_slabs)
           /\ ChainsHold(header, link, mapped, slab_objects, owners)
<1>1. Sound(slab_objects, header, link, mapped, owners,
            free_slabs, partly_allocated_slabs, fully_allocated_slabs)
  BY DEF SlabInv
<1>2. slab_objects \in 2 .. SIZE_MAX
  BY <1>1 DEF Sound
<1>3. slab_objects \in Nat /\ slab_objects >= 2
  BY <1>2, SizesAssumption
<1> QED
  BY <1>1, <1>3, SlabsAssumption DEF Sound

\* A sound cache after a step keeps the invariant.
LEMMA SlabNext ==
    ASSUME Sound(slab_objects, header, link, mapped, owners,
                 free_slabs, partly_allocated_slabs, fully_allocated_slabs)',
           crashed' = FALSE
    PROVE  SlabInv'
<1>1. slab_objects' \in 2 .. SIZE_MAX
  BY DEF Sound
<1>2. slab_objects' \in Nat /\ slab_objects' # 0
  BY <1>1, SizesAssumption
<1>3. TypeOK'
  BY <1>2 DEF Sound, TypeOK, Headers, Links, Owners
<1> QED
  BY <1>2, <1>3 DEF SlabInv

\* Setting the amount of a slab, and the head of its chain.
Counted(h, s, a) == [h EXCEPT ![s].amount = a]
Headed(h, s, p) == [h EXCEPT ![s].chunk = p]

SameHeads(h, k) == \A x \in Slabs : k[x].chunk = h[x].chunk
OtherHeads(h, k, s) == \A x \in Slabs \ {s} : k[x].chunk = h[x].chunk
SameAmounts(h, k) == \A x \in Slabs : k[x].amount = h[x].amount

\* The rest of the header stays.
LEMMA HeaderCounted ==
    ASSUME NEW h \in [Slabs -> Headers], NEW s \in Slabs, NEW a \in 0 .. SIZE_MAX
    PROVE  /\ Counted(h, s, a) \in [Slabs -> Headers] /\ SameBut(h, Counted(h, s, a), s)
           /\ Counted(h, s, a)[s].amount = a /\ SameHeads(h, Counted(h, s, a))
<1> DEFINE r == [h[s] EXCEPT !.amount = a]
           k == Counted(h, s, a)
<1>1. h[s] \in Headers
  OBVIOUS
<1>2. /\ r \in Headers /\ r.amount = a /\ r.chunk = h[s].chunk
      /\ r.next = h[s].next /\ r.prev = h[s].prev
  BY <1>1 DEF Headers
<1>3. k = [h EXCEPT ![s] = r]
  BY DEF Counted
<1> HIDE DEF r, k
<1>4. k \in [Slabs -> Headers] /\ k[s] = r /\ \A x \in Slabs : x # s => k[x] = h[x]
  BY <1>2, <1>3
<1> QED
  BY <1>2, <1>4 DEF SameBut, SameHeads, k

\* Nor do the amounts change here.
LEMMA HeaderHeaded ==
    ASSUME NEW h \in [Slabs -> Headers], NEW s \in Slabs, NEW p \in Chunks \cup {Garbage}
    PROVE  /\ Headed(h, s, p) \in [Slabs -> Headers] /\ SameBut(h, Headed(h, s, p), s)
           /\ Headed(h, s, p)[s].chunk = p /\ SameAmounts(h, Headed(h, s, p))
           /\ OtherHeads(h, Headed(h, s, p), s)
<1> DEFINE r == [h[s] EXCEPT !.chunk = p]
           k == Headed(h, s, p)
<1>1. h[s] \in Headers
  OBVIOUS
<1>2. /\ r \in Headers /\ r.chunk = p /\ r.amount = h[s].amount
      /\ r.next = h[s].next /\ r.prev = h[s].prev
  BY <1>1 DEF Headers
<1>3. k = [h EXCEPT ![s] = r]
  BY DEF Headed
<1> HIDE DEF r, k
<1>4. k \in [Slabs -> Headers] /\ k[s] = r /\ \A x \in Slabs : x # s => k[x] = h[x]
  BY <1>2, <1>3
<1> QED
  BY <1>2, <1>4 DEF SameBut, SameAmounts, OtherHeads, k

\* A chunk of a partly allocated slab is handed out.
LEMMA AllocPartlyKeeps ==
    ASSUME SlabInv, AllocPartly
    PROVE  SlabInv'
<1> DEFINE s == partly_allocated_slabs
           p == header[s].chunk
           a == header[s].amount
           n == slab_objects
           k == Counted(header, s, a - 1)
<1>0. slab_objects # 0 /\ s # NULL
  BY DEF AllocPartly
<1>1. /\ slab_objects \in 2 .. SIZE_MAX /\ slab_objects \in Nat /\ slab_objects >= 2
      /\ MostObjects \in Nat /\ slab_objects <= MostObjects
      /\ header \in [Slabs -> Headers] /\ link \in Links /\ owners \in Owners
      /\ mapped \in SUBSET Slabs /\ NULL \notin Slabs
      /\ free_slabs \in Slabs \cup {NULL}
      /\ partly_allocated_slabs \in Slabs \cup {NULL}
      /\ fully_allocated_slabs \in Slabs \cup {NULL}
      /\ HoldersHold(mapped, slab_objects, owners)
      /\ ChainsHold(header, link, mapped, slab_objects, owners)
  BY <1>0, SlabFacts
<1>2. /\ IsList(header, free_slabs, WithAmount(header, mapped, {n}))
      /\ IsList(header, s, WithAmount(header, mapped, 1 .. n - 1))
      /\ IsList(header, fully_allocated_slabs, WithAmount(header, mapped, {0}))
  BY <1>0, SlabFacts DEF ListsHold
<1>3. s \in mapped /\ s \in Slabs /\ a \in 1 .. n - 1
  <2>1. NULL \notin WithAmount(header, mapped, 1 .. n - 1)
    BY <1>1 DEF WithAmount
  <2>2. s \in WithAmount(header, mapped, 1 .. n - 1)
    BY <1>0, <1>2, <2>1, ListHead
  <2> QED
    BY <1>1, <2>2 DEF WithAmount
<1>4. Decremented(a) = a - 1 /\ a - 1 \in 0 .. SIZE_MAX /\ a > 0 /\ a \in Nat
  <2>1. a # 0 /\ a - 1 \in 0 .. SIZE_MAX /\ a > 0 /\ a \in Nat
    BY <1>1, <1>3, SizesAssumption
  <2> QED
    BY <2>1 DEF Decremented
<1>5. /\ k \in [Slabs -> Headers] /\ SameBut(header, k, s)
      /\ k[s].amount = a - 1 /\ \A x \in Slabs : k[x].chunk = header[x].chunk
  <2> HIDE DEF a, s
  <2>1. /\ k \in [Slabs -> Headers] /\ SameBut(header, k, s)
        /\ k[s].amount = a - 1 /\ SameHeads(header, k)
    BY <1>1, <1>3, <1>4, HeaderCounted, Zenon
  <2> HIDE DEF k
  <2> QED
    BY <2>1 DEF SameHeads
<1>5a. p \in Chunks
  <2>1. IsChain(header[s].chunk, link, header[s].amount, FreeChunks(s, slab_objects, owners))
    BY <1>1, <1>3 DEF ChainsHold
  <2>2. p \in FreeChunks(s, slab_objects, owners)
    BY <1>4, <2>1, ChainFirst
  <2> QED
    BY <2>2 DEF FreeChunks
<1>6. /\ IF a - 1 = 0
         THEN /\ partly_allocated_slabs' = HeadWithout(k, s, s)
              /\ fully_allocated_slabs' = s
              /\ header' = Refiled(k, fully_allocated_slabs, s)
         ELSE /\ header' = Headed(k, s, Deref(link, p))
              /\ UNCHANGED <<partly_allocated_slabs, fully_allocated_slabs>>
      /\ owners' = [owners EXCEPT ![p] = @ + 1]
      /\ link' = Overwritten(link, p)
      /\ slab_objects' = slab_objects /\ free_slabs' = free_slabs /\ mapped' = mapped
      /\ crashed' = FALSE
  BY <1>4, <1>5a DEF AllocPartly, HandOut, Refiled, Counted, Headed, SlabInv
<1> HIDE DEF s, p, a, k, n
<1>7. n = slab_objects
  BY DEF n
<1>8. \A x \in Slabs \ {s} : k[x].amount = header[x].amount
  BY <1>5 DEF SameBut
<1>9. ASSUME NEW g,
             \A x \in mapped \ {s} : g[x].amount = header[x].amount /\ g[x].chunk = header[x].chunk,
             g[s].amount = a - 1, a # 1 => g[s].chunk = Deref(link, p)
      PROVE  /\ p \in Chunks
             /\ Overwritten(link, p) \in Links
             /\ [owners EXCEPT ![p] = @ + 1] \in Owners
             /\ HoldersHold(mapped, n, [owners EXCEPT ![p] = @ + 1])
             /\ ChainsHold(g, Overwritten(link, p), mapped, n, [owners EXCEPT ![p] = @ + 1])
  <2>1. header[s].amount = a /\ header[s].chunk = p
    BY DEF a, p
  <2>2. /\ header[s].chunk \in Chunks
        /\ Overwritten(link, header[s].chunk) \in Links
        /\ [owners EXCEPT ![header[s].chunk] = @ + 1] \in Owners
        /\ HoldersHold(mapped, n, [owners EXCEPT ![header[s].chunk] = @ + 1])
        /\ ChainsHold(g, Overwritten(link, header[s].chunk), mapped, n,
                      [owners EXCEPT ![header[s].chunk] = @ + 1])
    <3>1. /\ header[s].amount > 0 /\ g[s].amount = header[s].amount - 1
          /\ header[s].amount # 1 => g[s].chunk = Deref(link, header[s].chunk)
      BY <1>4, <1>9, <2>1
    <3>2. ChainsHold(header, link, mapped, n, owners) /\ HoldersHold(mapped, n, owners) /\ n \in Nat
      BY <1>1, <1>7
    <3> QED
      BY <1>1, <1>3, <1>9, <3>1, <3>2, ChunkTaken
  <2> QED
    BY <2>1, <2>2
<1>10. CASE a - 1 = 0
  <2> DEFINE g == Refiled(k, fully_allocated_slabs, s)
  <2>1. /\ g \in [Slabs -> Headers]
        /\ HeadWithout(k, s, s) \in Slabs \cup {NULL}
        /\ SameChains(g, k)
        /\ ListsFor(g, mapped, HeadWithout(k, s, s), 1 .. n - 1, s, {0}, free_slabs, {n})
    <3>1. header[s].amount \in 1 .. n - 1 /\ k[s].amount \in {0}
      BY <1>3, <1>5, <1>10 DEF a
    <3>2. (1 .. n - 1) \cap {0} = {} /\ (1 .. n - 1) \cap {n} = {} /\ {0} \cap {n} = {}
      BY <1>1, <1>7
    <3>3. ListsFor(header, mapped, s, 1 .. n - 1, fully_allocated_slabs, {0}, free_slabs, {n})
      BY <1>2, <3>2 DEF ListsFor
    <3> QED
      <4>1. Recounted(header, k, mapped, s, 1 .. n - 1, {0})
        BY <1>1, <1>3, <1>5, <3>1 DEF Recounted
      <4> QED
        BY <3>3, <4>1, SlabFiled, Zenon
  <2> HIDE DEF g
  <2>2. ListsHold(g, mapped, n, free_slabs, HeadWithout(k, s, s), s)
    BY <2>1 DEF ListsHold, ListsFor
  <2>3. /\ \A x \in mapped \ {s} : g[x].amount = header[x].amount /\ g[x].chunk = header[x].chunk
        /\ g[s].amount = a - 1 /\ a = 1
    BY <1>1, <1>3, <1>4, <1>5, <1>8, <1>10, <2>1 DEF SameChains
  <2>4. /\ Overwritten(link, p) \in Links
        /\ [owners EXCEPT ![p] = @ + 1] \in Owners
        /\ HoldersHold(mapped, n, [owners EXCEPT ![p] = @ + 1])
        /\ ChainsHold(g, Overwritten(link, p), mapped, n, [owners EXCEPT ![p] = @ + 1])
    BY <1>9, <2>3
  <2>5. /\ header' = g /\ partly_allocated_slabs' = HeadWithout(k, s, s)
        /\ fully_allocated_slabs' = s
    BY <1>6, <1>10 DEF g
  <2>6. slab_objects' = n /\ free_slabs' = free_slabs /\ mapped' = mapped
    BY <1>6, <1>7
  <2>7. link' = Overwritten(link, p) /\ owners' = [owners EXCEPT ![p] = @ + 1]
    BY <1>6
  <2>8. Sound(n, g, Overwritten(link, p), mapped, [owners EXCEPT ![p] = @ + 1],
              free_slabs, HeadWithout(k, s, s), s)
    BY <1>1, <1>3, <1>7, <2>1, <2>2, <2>4 DEF Sound
  <2> QED
    BY <1>6, <2>5, <2>6, <2>7, <2>8, SlabNext
<1>11. CASE a - 1 # 0
  <2> DEFINE f == Deref(link, p)
             g == Headed(k, s, f)
  <2>1. f \in Chunks \cup {Garbage}
    BY <1>1 DEF Deref, Links
  <2> HIDE DEF f
  <2>2. /\ g \in [Slabs -> Headers] /\ SameBut(k, g, s) /\ g[s].chunk = f
        /\ SameAmounts(k, g) /\ OtherHeads(k, g, s)
    BY <1>3, <1>5, <2>1, HeaderHeaded, Zenon
  <2>3. header' = g
    BY <1>6, <1>11 DEF f
  <2> HIDE DEF g
  <2>4. /\ \A x \in mapped \ {s} : g[x].amount = header[x].amount /\ g[x].chunk = header[x].chunk
        /\ g[s].amount = a - 1
    BY <1>1, <1>3, <1>5, <1>8, <2>2 DEF SameAmounts, OtherHeads
  <2>5. /\ p \in Chunks
        /\ Overwritten(link, p) \in Links
        /\ [owners EXCEPT ![p] = @ + 1] \in Owners
        /\ HoldersHold(mapped, n, [owners EXCEPT ![p] = @ + 1])
        /\ ChainsHold(g, Overwritten(link, p), mapped, n, [owners EXCEPT ![p] = @ + 1])
    BY <1>9, <2>2, <2>4 DEF f
  <2>6. SameBut(header, g, s)
    BY <1>5, <2>2 DEF SameBut
  <2>7. a \in 1 .. n - 1 /\ a - 1 \in 1 .. n - 1 /\ a \notin {0, n} /\ a - 1 \notin {0, n}
    BY <1>1, <1>3, <1>7, <1>11
  <2>8. header[s].amount = a
    BY DEF a
  <2>9. ListsHold(g, mapped, n, free_slabs, s, fully_allocated_slabs)
    <3>1. IsList(g, free_slabs, WithAmount(g, mapped, {n}))
      <4>1. header[s].amount \in {n} <=> g[s].amount \in {n}
        BY <2>4, <2>7, <2>8
      <4> QED
        BY <1>1, <1>2, <1>3, <2>6, <4>1, SlabStays
    <3>2. IsList(g, s, WithAmount(g, mapped, 1 .. n - 1))
      <4>1. header[s].amount \in 1 .. n - 1 <=> g[s].amount \in 1 .. n - 1
        BY <2>4, <2>7, <2>8
      <4> QED
        BY <1>1, <1>2, <1>3, <2>6, <4>1, SlabStays
    <3>3. IsList(g, fully_allocated_slabs, WithAmount(g, mapped, {0}))
      <4>1. header[s].amount \in {0} <=> g[s].amount \in {0}
        BY <2>4, <2>7, <2>8
      <4> QED
        BY <1>1, <1>2, <1>3, <2>6, <4>1, SlabStays
    <3> QED
      BY <3>1, <3>2, <3>3 DEF ListsHold
  <2>10. Sound(n, g, Overwritten(link, p), mapped, [owners EXCEPT ![p] = @ + 1],
               free_slabs, s, fully_allocated_slabs)
    BY <1>1, <1>3, <1>7, <2>2, <2>5, <2>9 DEF Sound
  <2>11. partly_allocated_slabs' = s /\ fully_allocated_slabs' = fully_allocated_slabs
    BY <1>6, <1>11 DEF s
  <2>12. /\ slab_objects' = n /\ free_slabs' = free_slabs /\ mapped' = mapped
         /\ link' = Overwritten(link, p) /\ owners' = [owners EXCEPT ![p] = @ + 1]
    BY <1>6, <1>7
  <2> QED
    BY <1>6, <2>3, <2>10, <2>11, <2>12, SlabNext
<1> QED
  BY <1>10, <1>11

\* The header of s after its first chunk was taken, with the links ls.
Advanced(h, ls, s) == Headed(Counted(h, s, h[s].amount - 1), s, Deref(ls, h[s].chunk))

\* The first chunk of the first free slab is handed out while there is no partly
\* allocated slab.
LEMMA FreeTaken ==
    ASSUME NEW n, NEW h, NEW ls, NEW m, NEW o, NEW s, NEW full,
           Sound(n, h, ls, m, o, s, NULL, full), s # NULL
    PROVE  /\ Decremented(h[s].amount) = h[s].amount - 1
           /\ Sound(n, Refiled(Advanced(h, ls, s), NULL, s), Overwritten(ls, h[s].chunk), m,
                    [o EXCEPT ![h[s].chunk] = @ + 1],
                    HeadWithout(Advanced(h, ls, s), s, s), s, full)
<1> DEFINE p == h[s].chunk
           f == Deref(ls, p)
           k1 == Counted(h, s, n - 1)
           k == Advanced(h, ls, s)
           g == Refiled(k, NULL, s)
<1>1. /\ n \in 2 .. SIZE_MAX /\ MostObjects \in Nat /\ n <= MostObjects
      /\ h \in [Slabs -> Headers] /\ ls \in Links /\ o \in Owners /\ m \in SUBSET Slabs
      /\ NULL \notin Slabs /\ full \in Slabs \cup {NULL}
      /\ HoldersHold(m, n, o) /\ ChainsHold(h, ls, m, n, o)
  BY SlabsAssumption DEF Sound
<1>2. /\ IsList(h, s, WithAmount(h, m, {n}))
      /\ IsList(h, NULL, WithAmount(h, m, 1 .. n - 1))
      /\ IsList(h, full, WithAmount(h, m, {0}))
  BY DEF Sound, ListsHold
<1>3. n \in Nat /\ n >= 2 /\ n - 1 \in 1 .. n - 1 /\ n - 1 \in 0 .. SIZE_MAX /\ n # 1
  BY <1>1, SizesAssumption
<1>4. s \in m /\ s \in Slabs /\ h[s].amount = n
  <2>1. NULL \notin WithAmount(h, m, {n})
    BY <1>1 DEF WithAmount
  <2>2. s \in WithAmount(h, m, {n})
    BY <1>2, <2>1, ListHead
  <2> QED
    BY <1>1, <2>2 DEF WithAmount
<1>5. k = Headed(k1, s, f)
  BY <1>4 DEF Advanced
<1>6. f \in Chunks \cup {Garbage}
  BY <1>1 DEF Deref, Links
<1> HIDE DEF p, f, k1, k
<1>7. /\ k1 \in [Slabs -> Headers] /\ SameBut(h, k1, s)
      /\ k1[s].amount = n - 1 /\ SameHeads(h, k1)
  BY <1>1, <1>3, <1>4, HeaderCounted, Zenon DEF k1
<1>8. /\ k \in [Slabs -> Headers] /\ SameBut(k1, k, s)
      /\ k[s].chunk = f /\ SameAmounts(k1, k) /\ OtherHeads(k1, k, s)
  <2>1. /\ Headed(k1, s, f) \in [Slabs -> Headers] /\ SameBut(k1, Headed(k1, s, f), s)
        /\ Headed(k1, s, f)[s].chunk = f /\ SameAmounts(k1, Headed(k1, s, f))
        /\ OtherHeads(k1, Headed(k1, s, f), s)
    BY <1>4, <1>6, <1>7, HeaderHeaded, Zenon
  <2> QED
    BY <1>5, <2>1
<1>9. /\ SameBut(h, k, s) /\ k[s].amount = n - 1
      /\ \A x \in Slabs \ {s} : k[x].amount = h[x].amount /\ k[x].chunk = h[x].chunk
  BY <1>4, <1>7, <1>8 DEF SameBut, SameHeads, SameAmounts, OtherHeads
<1>10. /\ g \in [Slabs -> Headers]
       /\ HeadWithout(k, s, s) \in Slabs \cup {NULL}
       /\ SameChains(g, k)
       /\ ListsFor(g, m, HeadWithout(k, s, s), {n}, s, 1 .. n - 1, full, {0})
  <2>1. h[s].amount \in {n} /\ k[s].amount \in 1 .. n - 1
    BY <1>3, <1>4, <1>9
  <2>2. {n} \cap (1 .. n - 1) = {} /\ {n} \cap {0} = {} /\ (1 .. n - 1) \cap {0} = {}
    BY <1>3
  <2>3. ListsFor(h, m, s, {n}, NULL, 1 .. n - 1, full, {0})
    BY <1>2, <2>2 DEF ListsFor
  <2>4. Recounted(h, k, m, s, {n}, 1 .. n - 1)
    BY <1>1, <1>4, <1>8, <1>9, <2>1 DEF Recounted
  <2> QED
    BY <2>3, <2>4, SlabFiled, Zenon
<1> HIDE DEF g
<1>11. ListsHold(g, m, n, HeadWithout(k, s, s), s, full)
  BY <1>10 DEF ListsHold, ListsFor
<1>12. /\ p \in Chunks
       /\ Overwritten(ls, p) \in Links
       /\ [o EXCEPT ![p] = @ + 1] \in Owners
       /\ HoldersHold(m, n, [o EXCEPT ![p] = @ + 1])
       /\ ChainsHold(g, Overwritten(ls, p), m, n, [o EXCEPT ![p] = @ + 1])
  <2>1. /\ \A x \in m \ {s} : g[x].amount = h[x].amount /\ g[x].chunk = h[x].chunk
        /\ g[s].amount = h[s].amount - 1 /\ h[s].amount > 0 /\ g[s].chunk = Deref(ls, h[s].chunk)
    BY <1>1, <1>3, <1>4, <1>8, <1>9, <1>10 DEF SameChains, f, p
  <2>2. /\ h[s].chunk \in Chunks
        /\ Overwritten(ls, h[s].chunk) \in Links
        /\ [o EXCEPT ![h[s].chunk] = @ + 1] \in Owners
        /\ HoldersHold(m, n, [o EXCEPT ![h[s].chunk] = @ + 1])
        /\ ChainsHold(g, Overwritten(ls, h[s].chunk), m, n, [o EXCEPT ![h[s].chunk] = @ + 1])
    <3>1. /\ s \in m /\ n \in Nat /\ ls \in Links /\ o \in Owners
          /\ HoldersHold(m, n, o) /\ ChainsHold(h, ls, m, n, o)
      BY <1>1, <1>3, <1>4
    <3>2. h[s].amount # 1 => g[s].chunk = Deref(ls, h[s].chunk)
      BY <2>1
    <3> QED
      BY <2>1, <3>1, <3>2, ChunkTaken
  <2> QED
    BY <2>2 DEF p
<1>13. Sound(n, g, Overwritten(ls, p), m, [o EXCEPT ![p] = @ + 1],
             HeadWithout(k, s, s), s, full)
  BY <1>1, <1>4, <1>10, <1>11, <1>12 DEF Sound
<1>14. Decremented(h[s].amount) = h[s].amount - 1
  BY <1>3, <1>4 DEF Decremented
<1> QED
  BY <1>13, <1>14 DEF g, k, p

\* As the code does it.
LEMMA TakeKeeps ==
    ASSUME NEW n, NEW h, NEW ls, NEW m, NEW s,
           Sound(n, h, ls, m, owners, s, NULL, fully_allocated_slabs), s # NULL,
           partly_allocated_slabs = NULL, slab_objects = n, mapped' = m, crashed = FALSE,
           TakeFromFree(h, ls, s)
    PROVE  SlabInv'
<1> DEFINE p == h[s].chunk
           k == Advanced(h, ls, s)
           w == [owners EXCEPT ![p] = @ + 1]
<1>1. /\ Decremented(h[s].amount) = h[s].amount - 1
      /\ Sound(n, Refiled(k, NULL, s), Overwritten(ls, p), m, w,
               HeadWithout(k, s, s), s, fully_allocated_slabs)
  BY FreeTaken, Zenon
<1>2. [h EXCEPT ![s].amount = Decremented(@), ![s].chunk = Deref(ls, p)] = k
  BY <1>1 DEF Advanced, Counted, Headed
<1>3. /\ free_slabs' = HeadWithout(k, s, s) /\ partly_allocated_slabs' = s
      /\ header' = Refiled(k, NULL, s) /\ owners' = w /\ link' = Overwritten(ls, p)
      /\ slab_objects' = n /\ fully_allocated_slabs' = fully_allocated_slabs /\ crashed' = FALSE
  BY <1>2 DEF TakeFromFree, HandOut, Refiled
<1> HIDE DEF p, k, w
<1> QED
  BY <1>1, <1>3, SlabNext

\* A chunk of a free slab is handed out.
LEMMA AllocFreeKeeps ==
    ASSUME SlabInv, AllocFree
    PROVE  SlabInv'
<1>1. /\ slab_objects # 0 /\ partly_allocated_slabs = NULL /\ free_slabs # NULL
      /\ TakeFromFree(header, link, free_slabs) /\ mapped' = mapped
  BY DEF AllocFree
<1>2. Sound(slab_objects, header, link, mapped, owners,
            free_slabs, NULL, fully_allocated_slabs) /\ crashed = FALSE
  BY <1>1 DEF SlabInv
<1> QED
  BY <1>1, <1>2, TakeKeeps

\* A chunk of a new slab is handed out.
LEMMA AllocNewKeeps ==
    ASSUME SlabInv, AllocNew
    PROVE  SlabInv'
<1>1. slab_objects # 0 /\ partly_allocated_slabs = NULL /\ free_slabs = NULL /\ crashed = FALSE
  BY DEF AllocNew, SlabInv
<1>2. PICK s \in Slabs \ mapped :
        /\ mapped' = mapped \cup {s}
        /\ TakeFromFree(Fresh(header, s, slab_objects), FreshLinks(s, slab_objects), s)
  BY DEF AllocNew
<1> DEFINE n == slab_objects
           h == Fresh(header, s, n)
           ls == FreshLinks(s, n)
           m == mapped \cup {s}
<1>3. /\ n \in 2 .. SIZE_MAX /\ MostObjects \in Nat /\ n <= MostObjects
      /\ header \in [Slabs -> Headers] /\ link \in Links /\ owners \in Owners
      /\ mapped \in SUBSET Slabs /\ NULL \notin Slabs
      /\ fully_allocated_slabs \in Slabs \cup {NULL}
      /\ HoldersHold(mapped, n, owners)
      /\ ChainsHold(header, link, mapped, n, owners)
  BY <1>1, SlabFacts
<1>4. /\ IsList(header, NULL, WithAmount(header, mapped, {n}))
      /\ IsList(header, NULL, WithAmount(header, mapped, 1 .. n - 1))
      /\ IsList(header, fully_allocated_slabs, WithAmount(header, mapped, {0}))
  BY <1>1, SlabFacts DEF ListsHold
<1>5. WithAmount(header, mapped, {n}) = {} /\ WithAmount(header, mapped, 1 .. n - 1) = {}
  <2>1. /\ NULL \notin WithAmount(header, mapped, {n})
        /\ NULL \notin WithAmount(header, mapped, 1 .. n - 1)
    BY <1>3 DEF WithAmount
  <2> QED
    BY <1>4, <2>1, ListHead
<1> HIDE DEF n
<1>6. /\ h \in [Slabs -> Headers] /\ ls \in Links /\ HoldersHold(m, n, owners)
      /\ ChainsHold(h, ls, m, n, owners)
      /\ ListsHold(h, m, n, s, NULL, fully_allocated_slabs)
  BY <1>3, <1>4, <1>5, Grown, Zenon
<1> HIDE DEF h, ls, m
<1>7. m \in SUBSET Slabs /\ s \in Slabs /\ s # NULL
  BY <1>3 DEF m
<1>8. Sound(n, h, ls, m, owners, s, NULL, fully_allocated_slabs)
  BY <1>3, <1>6, <1>7 DEF Sound
<1>9. mapped' = m /\ TakeFromFree(h, ls, s) /\ slab_objects = n
  BY <1>2 DEF m, h, ls, n
<1> QED
  BY <1>1, <1>7, <1>8, <1>9, TakeKeeps

\* The same chains, in headers with other links.
LEMMA ChainsSame ==
    ASSUME NEW g, NEW h, SameChains(g, h), NEW m \in SUBSET Slabs, NEW ls, NEW n, NEW o,
           ChainsHold(h, ls, m, n, o)
    PROVE  ChainsHold(g, ls, m, n, o)
<1>1. \A x \in m : g[x].amount = h[x].amount /\ g[x].chunk = h[x].chunk
  BY DEF SameChains
<1> QED
  BY <1>1 DEF ChainsHold

\* A chunk is given back.
LEMMA FreeKeeps ==
    ASSUME SlabInv, NEW p \in Chunks, cache_free(p)
    PROVE  SlabInv'
<1> DEFINE s == p[1]
           a == header[s].amount
           n == slab_objects
           k1 == Headed(header, s, p)
           k == Returned(p)
           ms == [link EXCEPT ![p] = header[s].chunk]
           w == [owners EXCEPT ![p] = @ - 1]
           free == free_slabs
           partly == partly_allocated_slabs
           full == fully_allocated_slabs
<1>1. owners[p] > 0 /\ p \in Chunks
  BY DEF cache_free
<1>2. slab_objects # 0 /\ crashed = FALSE /\ crashed' = FALSE
  BY <1>1 DEF SlabInv, cache_free
<1>3. /\ n \in 2 .. SIZE_MAX /\ n \in Nat /\ n >= 2 /\ MostObjects \in Nat /\ n <= MostObjects
      /\ header \in [Slabs -> Headers] /\ link \in Links /\ owners \in Owners
      /\ mapped \in SUBSET Slabs
      /\ free \in Slabs \cup {NULL} /\ partly \in Slabs \cup {NULL}
      /\ full \in Slabs \cup {NULL}
      /\ HoldersHold(mapped, n, owners) /\ ChainsHold(header, link, mapped, n, owners)
  BY <1>2, SlabFacts
<1>4. /\ IsList(header, free, WithAmount(header, mapped, {n}))
      /\ IsList(header, partly, WithAmount(header, mapped, 1 .. n - 1))
      /\ IsList(header, full, WithAmount(header, mapped, {0}))
  BY <1>2, SlabFacts DEF ListsHold
<1>5. /\ s \in mapped /\ s \in Slabs /\ a \in 0 .. n - 1 /\ a + 1 \in 0 .. SIZE_MAX
      /\ header[s].chunk \in Chunks \cup {Garbage}
  <2>1. s \in mapped /\ a \in 0 .. n - 1
    BY <1>1, <1>3, HeldHere
  <2>2. s \in Slabs /\ a + 1 \in 0 .. SIZE_MAX
    BY <1>3, <2>1, SizesAssumption
  <2>3. header[s] \in Headers
    BY <1>3, <2>2
  <2> QED
    BY <2>1, <2>2, <2>3 DEF Headers
<1>6. k = Counted(k1, s, a + 1)
  <2>1. k1[s].amount = a
    BY <1>3, <1>5 DEF Headed, Headers
  <2> QED
    BY <2>1 DEF Returned, Counted, Headed
<1> HIDE DEF k, k1, a, s, ms, w, n
<1>7. /\ k1 \in [Slabs -> Headers] /\ SameBut(header, k1, s)
      /\ k1[s].chunk = p /\ SameAmounts(header, k1) /\ OtherHeads(header, k1, s)
  <2>1. p \in Chunks \cup {Garbage}
    OBVIOUS
  <2> QED
    BY <1>3, <1>5, <2>1, HeaderHeaded, Zenon DEF k1
<1>8. /\ k \in [Slabs -> Headers] /\ SameBut(k1, k, s)
      /\ k[s].amount = a + 1 /\ SameHeads(k1, k)
  <2>1. /\ Counted(k1, s, a + 1) \in [Slabs -> Headers]
        /\ SameBut(k1, Counted(k1, s, a + 1), s)
        /\ Counted(k1, s, a + 1)[s].amount = a + 1 /\ SameHeads(k1, Counted(k1, s, a + 1))
    BY <1>5, <1>7, HeaderCounted, Zenon
  <2> QED
    BY <1>6, <2>1
<1>9. /\ SameBut(header, k, s) /\ k[s].amount = a + 1 /\ k[s].chunk = p
      /\ \A x \in Slabs \ {s} : k[x].amount = header[x].amount /\ k[x].chunk = header[x].chunk
  BY <1>5, <1>7, <1>8 DEF SameBut, SameHeads, SameAmounts, OtherHeads
<1>10. /\ ms \in Links /\ w \in Owners
       /\ HoldersHold(mapped, n, w) /\ ChainsHold(k, ms, mapped, n, w)
  <2>1. OneMore(header, k, mapped, s, p) /\ p[1] = s
    BY <1>3, <1>9 DEF a, s, OneMore
  <2>2. /\ [link EXCEPT ![p] = header[s].chunk] \in Links
        /\ [owners EXCEPT ![p] = @ - 1] \in Owners
        /\ HoldersHold(mapped, n, [owners EXCEPT ![p] = @ - 1])
        /\ ChainsHold(k, [link EXCEPT ![p] = header[s].chunk], mapped, n,
                      [owners EXCEPT ![p] = @ - 1])
    <3>1. /\ link \in Links /\ n \in Nat /\ owners \in Owners /\ owners[p] > 0
          /\ ChainsHold(header, link, mapped, n, owners) /\ HoldersHold(mapped, n, owners)
          /\ header[s].chunk \in Chunks \cup {Garbage}
      BY <1>1, <1>3, <1>5
    <3> QED
      BY <2>1, <3>1, ChunkGiven, Zenon
  <2> QED
    BY <2>2 DEF ms, w
<1>11. /\ owners' = w /\ link' = ms /\ slab_objects' = n /\ mapped' = mapped
       /\ IF a + 1 = n
          THEN /\ partly_allocated_slabs' = HeadWithout(k, partly, s)
               /\ free_slabs' = s
               /\ header' = Refiled(k, free, s)
               /\ fully_allocated_slabs' = full
          ELSE IF a + 1 = 1
          THEN /\ fully_allocated_slabs' = HeadWithout(k, full, s)
               /\ partly_allocated_slabs' = s
               /\ header' = Refiled(k, partly, s)
               /\ free_slabs' = free
          ELSE header' = k /\ free_slabs' = free /\ partly_allocated_slabs' = partly
               /\ fully_allocated_slabs' = full
  <2>1. Returned(p)[s].amount = a + 1
    BY <1>8 DEF k
  <2> QED
    BY <2>1 DEF cache_free, lists, Refiled, k, s, ms, w, n
<1>12. header[s].amount = a
  BY DEF a
<1>13. /\ {n} \cap (1 .. n - 1) = {} /\ {n} \cap {0} = {} /\ (1 .. n - 1) \cap {0} = {}
       /\ (1 .. n - 1) \cap {n} = {} /\ {0} \cap (1 .. n - 1) = {} /\ {0} \cap {n} = {}
  BY <1>3
<1>14. CASE a + 1 = n
  <2> DEFINE g == Refiled(k, free, s)
  <2>1. /\ g \in [Slabs -> Headers] /\ HeadWithout(k, partly, s) \in Slabs \cup {NULL}
        /\ SameChains(g, k)
        /\ ListsFor(g, mapped, HeadWithout(k, partly, s), 1 .. n - 1, s, {n}, full, {0})
    <3>1. header[s].amount \in 1 .. n - 1 /\ k[s].amount \in {n}
      BY <1>3, <1>5, <1>8, <1>12, <1>14
    <3>2. ListsFor(header, mapped, partly, 1 .. n - 1, free, {n}, full, {0})
      BY <1>4, <1>13 DEF ListsFor
    <3>3. Recounted(header, k, mapped, s, 1 .. n - 1, {n})
      BY <1>3, <1>5, <1>8, <1>9, <3>1 DEF Recounted
    <3> QED
      BY <3>2, <3>3, SlabFiled, Zenon
  <2> HIDE DEF g
  <2>2. ListsHold(g, mapped, n, s, HeadWithout(k, partly, s), full)
    BY <2>1 DEF ListsHold, ListsFor
  <2>3. ChainsHold(g, ms, mapped, n, w)
    BY <1>3, <1>10, <2>1, ChainsSame
  <2>4. Sound(n, g, ms, mapped, w, s, HeadWithout(k, partly, s), full)
    BY <1>3, <1>5, <1>10, <2>1, <2>2, <2>3 DEF Sound
  <2>5. /\ header' = g /\ free_slabs' = s /\ partly_allocated_slabs' = HeadWithout(k, partly, s)
        /\ fully_allocated_slabs' = full
    BY <1>11, <1>14 DEF g
  <2> QED
    BY <1>2, <1>11, <2>4, <2>5, SlabNext
<1>15. CASE a + 1 # n /\ a + 1 = 1
  <2> DEFINE g == Refiled(k, partly, s)
  <2>1. /\ g \in [Slabs -> Headers] /\ HeadWithout(k, full, s) \in Slabs \cup {NULL}
        /\ SameChains(g, k)
        /\ ListsFor(g, mapped, HeadWithout(k, full, s), {0}, s, 1 .. n - 1, free, {n})
    <3>1. header[s].amount \in {0} /\ k[s].amount \in 1 .. n - 1
      BY <1>3, <1>5, <1>8, <1>12, <1>15
    <3>2. ListsFor(header, mapped, full, {0}, partly, 1 .. n - 1, free, {n})
      BY <1>4, <1>13 DEF ListsFor
    <3>3. Recounted(header, k, mapped, s, {0}, 1 .. n - 1)
      BY <1>3, <1>5, <1>8, <1>9, <3>1 DEF Recounted
    <3> QED
      BY <3>2, <3>3, SlabFiled, Zenon
  <2> HIDE DEF g
  <2>2. ListsHold(g, mapped, n, free, s, HeadWithout(k, full, s))
    BY <2>1 DEF ListsHold, ListsFor
  <2>3. ChainsHold(g, ms, mapped, n, w)
    BY <1>3, <1>10, <2>1, ChainsSame
  <2>4. Sound(n, g, ms, mapped, w, free, s, HeadWithout(k, full, s))
    BY <1>3, <1>5, <1>10, <2>1, <2>2, <2>3 DEF Sound
  <2>5. /\ header' = g /\ free_slabs' = free /\ partly_allocated_slabs' = s
        /\ fully_allocated_slabs' = HeadWithout(k, full, s)
    BY <1>11, <1>15 DEF g
  <2> QED
    BY <1>2, <1>11, <2>4, <2>5, SlabNext
<1>16. CASE a + 1 # n /\ a + 1 # 1
  <2>1. a \in 1 .. n - 1 /\ a + 1 \in 1 .. n - 1 /\ a \notin {0, n} /\ a + 1 \notin {0, n}
    BY <1>3, <1>5, <1>16
  <2>2. mapped \in SUBSET Slabs /\ s \in mapped /\ SameBut(header, k, s)
    BY <1>3, <1>5, <1>9
  <2>3. ListsHold(k, mapped, n, free, partly, full)
    <3>1. IsList(k, free, WithAmount(k, mapped, {n}))
      <4>1. header[s].amount \in {n} <=> k[s].amount \in {n}
        BY <1>8, <1>12, <2>1
      <4> QED
        BY <1>4, <2>2, <4>1, SlabStays
    <3>2. IsList(k, partly, WithAmount(k, mapped, 1 .. n - 1))
      <4>1. header[s].amount \in 1 .. n - 1 <=> k[s].amount \in 1 .. n - 1
        BY <1>8, <1>12, <2>1
      <4> QED
        BY <1>4, <2>2, <4>1, SlabStays
    <3>3. IsList(k, full, WithAmount(k, mapped, {0}))
      <4>1. header[s].amount \in {0} <=> k[s].amount \in {0}
        BY <1>8, <1>12, <2>1
      <4> QED
        BY <1>4, <2>2, <4>1, SlabStays
    <3> QED
      BY <3>1, <3>2, <3>3 DEF ListsHold
  <2>4. Sound(n, k, ms, mapped, w, free, partly, full)
    BY <1>3, <1>8, <1>10, <2>3 DEF Sound
  <2>5. /\ header' = k /\ free_slabs' = free /\ partly_allocated_slabs' = partly
        /\ fully_allocated_slabs' = full
    BY <1>11, <1>16
  <2> QED
    BY <1>2, <1>11, <2>4, <2>5, SlabNext
<1> QED
  BY <1>14, <1>15, <1>16

\* The cache is set up.
LEMMA SetupKeeps ==
    ASSUME SeveralObjects, SlabInv, NEW asked \in ObjectSizes, cache_setup(asked)
    PROVE  SlabInv'
<1> DEFINE n == SlabObjects(ObjectSize(asked))
<1>1. /\ slab_objects = 0 /\ slab_objects' = n
      /\ partly_allocated_slabs' = partly_allocated_slabs
      /\ fully_allocated_slabs' = fully_allocated_slabs /\ owners' = owners /\ crashed' = FALSE
  BY DEF cache_setup, SlabInv
<1>2. PICK s \in Slabs : /\ mapped' = {s} /\ free_slabs' = s
                         /\ header' = Fresh(header, s, n) /\ link' = FreshLinks(s, n)
  BY DEF cache_setup
<1>3. /\ mapped = {} /\ \A p \in Chunks \cup {Garbage} : owners[p] = 0
      /\ partly_allocated_slabs = NULL /\ fully_allocated_slabs = NULL
      /\ header \in [Slabs -> Headers] /\ link \in Links /\ owners \in Owners
  BY <1>1 DEF SlabInv, TypeOK, Headers, Links, Owners
<1>4. n \in 2 .. SIZE_MAX /\ MostObjects \in Nat /\ n <= MostObjects
  <2>1. MostObjects \in 2 .. SIZE_MAX /\ n <= MostObjects
    BY Most
  <2> QED
    BY <2>1, SizesAssumption DEF SeveralObjects
<1> HIDE DEF n
<1> DEFINE m == mapped
<1>5. /\ HoldersHold(m, n, owners) /\ ChainsHold(header, link, m, n, owners)
      /\ WithAmount(header, m, {n}) = {} /\ WithAmount(header, m, 1 .. n - 1) = {}
      /\ WithAmount(header, m, {0}) = {} /\ m \in SUBSET Slabs /\ s \in Slabs \ m
  BY <1>3 DEF HoldersHold, ChainsHold, WithAmount
<1>6. IsList(header, NULL, WithAmount(header, m, {0}))
  BY <1>5, EmptyList
<1> HIDE DEF m
<1>7. /\ Fresh(header, s, n) \in [Slabs -> Headers]
      /\ FreshLinks(s, n) \in Links
      /\ HoldersHold(m \cup {s}, n, owners)
      /\ ChainsHold(Fresh(header, s, n), FreshLinks(s, n), m \cup {s}, n, owners)
      /\ ListsHold(Fresh(header, s, n), m \cup {s}, n, s, NULL, NULL)
  BY <1>3, <1>4, <1>5, <1>6, Grown, Zenon
<1>8. m \cup {s} = {s}
  BY <1>3 DEF m
<1>9. Sound(n, Fresh(header, s, n), FreshLinks(s, n), {s}, owners, s, NULL, NULL)
  BY <1>3, <1>4, <1>7, <1>8 DEF Sound
<1> QED
  BY <1>1, <1>2, <1>3, <1>9, SlabNext

\* The free slabs are given to the system.
LEMMA ShrinkKeeps ==
    ASSUME SlabInv, cache_shrink
    PROVE  SlabInv'
<1> DEFINE n == slab_objects
           D == WithAmount(header, mapped, {n})
           m == mapped \ D
           partly == partly_allocated_slabs
           full == fully_allocated_slabs
           g == [x \in Slabs |-> IF x \in D THEN NoHeader ELSE header[x]]
           ms == [p \in Chunks |-> IF p[1] \in D THEN Garbage ELSE link[p]]
<1>1. slab_objects # 0
  BY DEF cache_shrink
<1>2. /\ n \in 2 .. SIZE_MAX /\ n \in Nat /\ n >= 2 /\ MostObjects \in Nat /\ n <= MostObjects
      /\ header \in [Slabs -> Headers] /\ link \in Links /\ owners \in Owners
      /\ mapped \in SUBSET Slabs /\ TypeOK
      /\ partly \in Slabs \cup {NULL} /\ full \in Slabs \cup {NULL}
      /\ HoldersHold(mapped, n, owners) /\ ChainsHold(header, link, mapped, n, owners)
  BY <1>1, SlabFacts DEF SlabInv
<1>3. /\ IsList(header, free_slabs, D)
      /\ IsList(header, partly, WithAmount(header, mapped, 1 .. n - 1))
      /\ IsList(header, full, WithAmount(header, mapped, {0}))
  BY <1>1, SlabFacts DEF ListsHold
<1>4. D \in SUBSET Slabs /\ \A x \in mapped : x \in D <=> header[x].amount = n
  BY <1>2 DEF WithAmount
<1>5. Members(free_slabs) = D
  <2> HIDE DEF D
  <2> QED
    BY <1>2, <1>3, <1>4, Walked
<1>6. /\ mapped' = m /\ header' = g /\ link' = ms
      /\ free_slabs' = NULL /\ slab_objects' = n /\ partly_allocated_slabs' = partly
      /\ fully_allocated_slabs' = full /\ owners' = owners /\ crashed' = FALSE
  BY <1>5 DEF cache_shrink, Unmap, SlabInv
<1> HIDE DEF D
<1>7. /\ g \in [Slabs -> Headers]
      /\ \A x \in m : g[x] = header[x]
  <2>1. NoHeader \in Headers
    BY SizesAssumption DEF NoHeader, Headers
  <2> QED
    BY <1>2, <2>1
<1>8. ms \in Links /\ \A p \in Chunks : p[1] \in m => ms[p] = link[p]
  BY <1>2 DEF Links
<1>9. m \in SUBSET Slabs
  BY <1>2
<1>10. \A x \in m : x \in mapped /\ header[x].amount # n
  BY <1>4
<1>11. \A x \in mapped : header[x].amount # n => x \in m
  BY <1>4
<1> HIDE DEF g, ms, m, n
<1>12. HoldersHold(m, n, owners)
  <2> SUFFICES ASSUME NEW p \in Chunks
               PROVE  owners[p] <= 1 /\ (owners[p] > 0 => p[1] \in m /\ p[2] < n)
    BY <1>2 DEF HoldersHold
  <2>1. owners[p] <= 1 /\ (owners[p] > 0 => p[2] < n)
    BY <1>2 DEF HoldersHold
  <2>2. ASSUME owners[p] > 0 PROVE p[1] \in m
    <3>1. p[1] \in mapped /\ header[p[1]].amount \in 0 .. n - 1
      BY <1>2, <2>2, HeldHere
    <3>2. header[p[1]].amount # n
      BY <1>2, <3>1
    <3> QED
      BY <1>11, <3>1, <3>2
  <2> QED
    BY <2>1, <2>2
<1>13. ChainsHold(g, ms, m, n, owners)
  <2> SUFFICES ASSUME NEW x \in m
               PROVE  /\ g[x].amount <= n
                      /\ IsChain(g[x].chunk, ms, g[x].amount, FreeChunks(x, n, owners))
    BY DEF ChainsHold
  <2>1. /\ header[x].amount <= n /\ g[x] = header[x]
        /\ IsChain(header[x].chunk, link, header[x].amount, FreeChunks(x, n, owners))
    BY <1>2, <1>7, <1>10 DEF ChainsHold
  <2>2. \A q \in FreeChunks(x, n, owners) : ms[q] = link[q]
    BY <1>8 DEF FreeChunks
  <2>3. IsChain(header[x].chunk, ms, header[x].amount, FreeChunks(x, n, owners))
    BY <2>1, <2>2, ChainFrame
  <2> QED
    BY <2>1, <2>3
<1>14. ASSUME NEW X, n \notin X, NEW list, IsList(header, list, WithAmount(header, mapped, X))
       PROVE  IsList(g, list, WithAmount(g, m, X))
  <2>1. WithAmount(g, m, X) = WithAmount(header, mapped, X)
    BY <1>7, <1>10, <1>11, <1>14 DEF WithAmount
  <2>2. \A x \in WithAmount(header, mapped, X) : g[x].next = header[x].next /\ g[x].prev = header[x].prev
    BY <1>7, <1>11, <1>14 DEF WithAmount
  <2>3. IsList(g, list, WithAmount(header, mapped, X))
    BY <1>14, <2>2, ListFrame
  <2> QED
    BY <2>1, <2>3
<1>15. ListsHold(g, m, n, NULL, partly, full)
  <2>1. WithAmount(g, m, {n}) = {}
    BY <1>7, <1>10 DEF WithAmount
  <2>2. n \notin 1 .. n - 1 /\ n \notin {0}
    BY <1>2
  <2>3. IsList(g, NULL, WithAmount(g, m, {n}))
    BY <2>1, EmptyList
  <2>4. IsList(g, partly, WithAmount(g, m, 1 .. n - 1)) /\ IsList(g, full, WithAmount(g, m, {0}))
    BY <1>3, <1>14, <2>2
  <2> QED
    BY <2>3, <2>4 DEF ListsHold
<1>16. Sound(n, g, ms, m, owners, NULL, partly, full)
  BY <1>2, <1>7, <1>8, <1>9, <1>12, <1>13, <1>15 DEF Sound
<1> QED
  BY <1>6, <1>16, SlabNext

\* All of them are, and the cache may be set up again.
LEMMA ReleaseKeeps ==
    ASSUME SlabInv, cache_release
    PROVE  SlabInv'
<1>1. slab_objects # 0 /\ TypeOK
  BY DEF cache_release, SlabInv
<1> DEFINE D == UNION {Members(free_slabs), Members(partly_allocated_slabs),
                       Members(fully_allocated_slabs)}
<1>2. D = mapped
  <2> DEFINE n == slab_objects
             A == WithAmount(header, mapped, {n})
             B == WithAmount(header, mapped, 1 .. n - 1)
             C == WithAmount(header, mapped, {0})
  <2>1. /\ n \in Nat /\ mapped \in SUBSET Slabs /\ ChainsHold(header, link, mapped, n, owners)
    BY <1>1, SlabFacts
  <2>2. /\ IsList(header, free_slabs, A) /\ IsList(header, partly_allocated_slabs, B)
        /\ IsList(header, fully_allocated_slabs, C)
    BY <1>1, SlabFacts DEF ListsHold
  <2>3. A \in SUBSET Slabs /\ B \in SUBSET Slabs /\ C \in SUBSET Slabs
    BY <2>1 DEF WithAmount
  <2>4. \A x \in mapped : header[x].amount \in 0 .. n
    <3> SUFFICES ASSUME NEW x \in mapped PROVE header[x].amount \in 0 .. n
      OBVIOUS
    <3>1. header[x].amount <= n /\ header[x].amount \in Nat
      BY <2>1, ChainFirst DEF ChainsHold
    <3> QED
      BY <2>1, <3>1
  <2>5. A \cup B \cup C = mapped
    BY <2>1, <2>4 DEF WithAmount
  <2> HIDE DEF A, B, C
  <2>6. Members(free_slabs) = A
    BY <1>1, <2>2, <2>3, Walked
  <2>7. Members(partly_allocated_slabs) = B
    BY <1>1, <2>2, <2>3, Walked
  <2>8. Members(fully_allocated_slabs) = C
    BY <1>1, <2>2, <2>3, Walked
  <2> QED
    BY <2>5, <2>6, <2>7, <2>8
<1>3. /\ mapped' = mapped \ D
      /\ header' = [s \in Slabs |-> IF s \in D THEN NoHeader ELSE header[s]]
      /\ link' = [p \in Chunks |-> IF p[1] \in D THEN Garbage ELSE link[p]]
      /\ free_slabs' = NULL /\ partly_allocated_slabs' = NULL /\ fully_allocated_slabs' = NULL
      /\ slab_objects' = 0 /\ owners' = [p \in DOMAIN owners |-> 0] /\ crashed' = FALSE
  BY DEF cache_release, Unmap, Forget, SlabInv
<1> HIDE DEF D
<1>4. /\ header \in [Slabs -> Headers] /\ link \in Links /\ owners \in Owners
  BY <1>1 DEF TypeOK, Headers, Links, Owners
<1>5. header' \in [Slabs -> Headers]
  <2>1. NoHeader \in Headers
    BY SizesAssumption DEF NoHeader, Headers
  <2> QED
    BY <1>3, <1>4, <2>1
<1>6. link' \in Links
  BY <1>3, <1>4 DEF Links
<1>7. owners' \in Owners /\ \A p \in Chunks \cup {Garbage} : owners'[p] = 0
  BY <1>3, <1>4 DEF Owners
<1>8. mapped' = {}
  BY <1>2, <1>3
<1>9. TypeOK'
  BY <1>3, <1>5, <1>6, <1>7, <1>8 DEF TypeOK, Headers, Links, Owners
<1> QED
  BY <1>3, <1>7, <1>8, <1>9 DEF SlabInv

-----------------------------------------------------------------------------
(* The invariant, and what it says.                                        *)

LEMMA SlabsInit ==
    ASSUME Init
    PROVE  SlabInv
<1>0. crashed \in BOOLEAN
  BY DEF Init
<1>1. TypeOK
  BY <1>0, SizesAssumption DEF Init, TypeOK, NoHeader
<1> QED
  BY <1>1 DEF Init, SlabInv

LEMMA SlabsNext ==
    ASSUME SeveralObjects, SlabInv, [Next]_vars
    PROVE  SlabInv'
<1>1. CASE \E asked \in ObjectSizes : cache_setup(asked)
  BY <1>1, SetupKeeps
<1>2. CASE cache_alloc
  BY <1>2, AllocPartlyKeeps, AllocFreeKeeps, AllocNewKeeps DEF cache_alloc
<1>3. CASE \E p \in Chunks : cache_free(p)
  BY <1>3, FreeKeeps
<1>4. CASE cache_shrink
  BY <1>4, ShrinkKeeps
<1>5. CASE cache_release
  BY <1>5, ReleaseKeeps
<1>6. CASE UNCHANGED vars
  BY <1>6 DEF vars, lists, SlabInv, TypeOK
<1> QED
  BY <1>1, <1>2, <1>3, <1>4, <1>5, <1>6 DEF Next

\* The lists, and the amounts of the slabs, whether or not the cache is set up.
LEMMA ListsGiven ==
    ASSUME SlabInv
    PROVE  /\ TypeOK /\ mapped \in SUBSET Slabs
           /\ IsList(header, free_slabs, WithAmount(header, mapped, {slab_objects}))
           /\ IsList(header, partly_allocated_slabs,
                     WithAmount(header, mapped, 1 .. slab_objects - 1))
           /\ IsList(header, fully_allocated_slabs, WithAmount(header, mapped, {0}))
           /\ \A s \in mapped : /\ slab_objects # 0
                                /\ header[s].amount \in 0 .. slab_objects
<1>1. TypeOK /\ mapped \in SUBSET Slabs
  BY DEF SlabInv, TypeOK
<1>2. CASE slab_objects = 0
  <2>1. /\ mapped = {} /\ free_slabs = NULL /\ partly_allocated_slabs = NULL
        /\ fully_allocated_slabs = NULL
    BY <1>2 DEF SlabInv
  <2>2. \A X : WithAmount(header, mapped, X) = {}
    BY <2>1 DEF WithAmount
  <2> QED
    BY <1>1, <2>1, <2>2, EmptyList
<1>3. CASE slab_objects # 0
  <2>1. /\ ListsHold(header, mapped, slab_objects,
                     free_slabs, partly_allocated_slabs, fully_allocated_slabs)
        /\ ChainsHold(header, link, mapped, slab_objects, owners) /\ slab_objects \in Nat
    BY <1>3, SlabFacts
  <2>2. \A s \in mapped : header[s].amount \in 0 .. slab_objects
    <3> SUFFICES ASSUME NEW s \in mapped PROVE header[s].amount \in 0 .. slab_objects
      OBVIOUS
    <3>1. header[s].amount <= slab_objects /\ header[s].amount \in Nat
      BY <2>1, ChainFirst DEF ChainsHold
    <3> QED
      BY <2>1, <3>1
  <2> QED
    BY <1>1, <1>3, <2>1, <2>2 DEF ListsHold
<1> QED
  BY <1>2, <1>3

\* A list of the slabs with such amounts is well linked, and its members are just
\* these.
LEMMA ListSound ==
    ASSUME TypeOK, mapped \in SUBSET Slabs, NEW list, NEW X,
           IsList(header, list, WithAmount(header, mapped, X))
    PROVE  WellLinked(list, X) /\ Members(list) = WithAmount(header, mapped, X)
<1> DEFINE S == WithAmount(header, mapped, X)
           N == Cardinality(Slabs)
           at == At(list)
<1>1. S \in SUBSET Slabs /\ \A x \in S : x \in mapped /\ header[x].amount \in X
  BY DEF WithAmount
<1> HIDE DEF S
<1>2. IsList(header, list, S)
  BY DEF S
<1>3. /\ Members(list) = S
      /\ At(list)[Cardinality(Slabs)] = NULL
      /\ DOMAIN At(list) = 0 .. Cardinality(Slabs)
      /\ \A n \in DOMAIN At(list) : At(list)[n] # NULL =>
            /\ At(list)[n] \in S
            /\ header[At(list)[n]].prev = IF n = 0 THEN NULL ELSE At(list)[n - 1]
  BY <1>1, <1>2, Walked
<1>4. WellLinked(list, X)
  BY <1>1, <1>3 DEF WellLinked
<1> QED
  BY <1>3, <1>4 DEF S

LEMMA InvListsPartition == SlabInv => ListsPartitionSlabs
<1> SUFFICES ASSUME SlabInv PROVE ListsPartitionSlabs
  OBVIOUS
<1>1. /\ TypeOK /\ mapped \in SUBSET Slabs
      /\ IsList(header, free_slabs, WithAmount(header, mapped, {slab_objects}))
      /\ IsList(header, partly_allocated_slabs,
                WithAmount(header, mapped, 1 .. slab_objects - 1))
      /\ IsList(header, fully_allocated_slabs, WithAmount(header, mapped, {0}))
      /\ \A s \in mapped : slab_objects # 0 /\ header[s].amount \in 0 .. slab_objects
  BY ListsGiven
<1>2. /\ WellLinked(free_slabs, {slab_objects})
      /\ Members(free_slabs) = WithAmount(header, mapped, {slab_objects})
  BY <1>1, ListSound
<1>3. /\ WellLinked(partly_allocated_slabs, 1 .. slab_objects - 1)
      /\ Members(partly_allocated_slabs) = WithAmount(header, mapped, 1 .. slab_objects - 1)
  BY <1>1, ListSound
<1>4. /\ WellLinked(fully_allocated_slabs, {0})
      /\ Members(fully_allocated_slabs) = WithAmount(header, mapped, {0})
  BY <1>1, ListSound
<1>5. mapped = UNION {WithAmount(header, mapped, {slab_objects}),
                      WithAmount(header, mapped, 1 .. slab_objects - 1),
                      WithAmount(header, mapped, {0})}
  <2>1. slab_objects \in Nat
    BY <1>1 DEF TypeOK
  <2>2. \A s \in mapped : \/ header[s].amount = slab_objects \/ header[s].amount = 0
                          \/ header[s].amount \in 1 .. slab_objects - 1
    BY <1>1, <2>1
  <2> QED
    BY <2>2 DEF WithAmount
<1> QED
  BY <1>2, <1>3, <1>4, <1>5 DEF ListsPartitionSlabs

LEMMA InvFreeChain == SlabInv => FreeChainSound
<1> SUFFICES ASSUME SlabInv, NEW s \in Slabs
             PROVE  IF s \in mapped
                    THEN /\ header[s].amount = Cardinality(Unheld(s))
                         /\ {FreeChain(s)[n] : n \in 1 .. header[s].amount} = Unheld(s)
                    ELSE Held(s) = {}
  BY DEF FreeChainSound
<1>1. owners \in Owners /\ mapped \in SUBSET Slabs /\ slab_objects \in Nat
  BY DEF SlabInv, TypeOK, Owners
<1>2. CASE s \in mapped
  <2>1. slab_objects # 0
    BY <1>2 DEF SlabInv
  <2>2. /\ header[s].amount <= slab_objects /\ slab_objects <= MostObjects
        /\ MostObjects \in Nat
        /\ IsChain(header[s].chunk, link, header[s].amount, FreeChunks(s, slab_objects, owners))
    BY <1>2, <2>1, SlabFacts DEF ChainsHold
  <2>3. Unheld(s) = FreeChunks(s, slab_objects, owners)
    BY <1>1 DEF Unheld, Held, FreeChunks, Owners
  <2>4. header[s].amount = Cardinality(Unheld(s)) /\ header[s].amount \in Nat
    BY <2>2, <2>3, ChainFirst
  <2>5. header[s].amount <= MostObjects
    BY <1>1, <2>2, <2>4
  <2>6. Unheld(s) \in SUBSET Chunks
    BY DEF Unheld
  <2>7. {FreeChain(s)[n] : n \in 1 .. header[s].amount} = Unheld(s)
    BY <2>2, <2>3, <2>5, <2>6, ChainWalked
  <2> QED
    BY <1>2, <2>4, <2>7
<1>3. CASE s \notin mapped
  <2>1. \A p \in Chunks : owners[p] > 0 => p[1] \in mapped
    <3>1. CASE slab_objects = 0
      BY <3>1 DEF SlabInv
    <3>2. CASE slab_objects # 0
      BY <3>2, SlabFacts DEF HoldersHold
    <3> QED
      BY <3>1, <3>2
  <2> QED
    BY <1>3, <2>1 DEF Held
<1> QED
  BY <1>2, <1>3

LEMMA GrowsStep ==
    ASSUME SlabInv, [Next]_vars, NEW s \in mapped' \ mapped, NEW t \in mapped
    PROVE  header[t].amount = 0
<1>0. /\ mapped \in SUBSET Slabs
      /\ IsList(header, free_slabs, WithAmount(header, mapped, {slab_objects}))
      /\ IsList(header, partly_allocated_slabs,
                WithAmount(header, mapped, 1 .. slab_objects - 1))
      /\ slab_objects # 0 /\ header[t].amount \in 0 .. slab_objects
  BY ListsGiven
<1>1. CASE AllocNew
  <2>1. free_slabs = NULL /\ partly_allocated_slabs = NULL
    BY <1>1 DEF AllocNew
  <2>2. /\ NULL \notin WithAmount(header, mapped, {slab_objects})
        /\ NULL \notin WithAmount(header, mapped, 1 .. slab_objects - 1)
    BY <1>0, SlabsAssumption DEF WithAmount
  <2>3. /\ WithAmount(header, mapped, {slab_objects}) = {}
        /\ WithAmount(header, mapped, 1 .. slab_objects - 1) = {}
    BY <1>0, <2>1, <2>2, ListHead
  <2>4. header[t].amount # slab_objects /\ header[t].amount \notin 1 .. slab_objects - 1
    BY <2>3 DEF WithAmount
  <2>5. slab_objects \in Nat
    BY DEF SlabInv, TypeOK
  <2> QED
    BY <1>0, <2>4, <2>5
<1>2. ASSUME mapped' \subseteq mapped PROVE FALSE
  BY <1>2
<1>3. CASE AllocPartly \/ AllocFree \/ \E p \in Chunks : cache_free(p)
  BY <1>2, <1>3 DEF AllocPartly, AllocFree, cache_free
<1>4. CASE cache_shrink \/ cache_release
  BY <1>2, <1>4 DEF cache_shrink, cache_release, Unmap
<1>5. CASE \E asked \in ObjectSizes : cache_setup(asked)
  BY <1>0, <1>5 DEF cache_setup
<1>6. CASE UNCHANGED vars
  BY <1>2, <1>6 DEF vars
<1> QED
  BY <1>1, <1>3, <1>4, <1>5, <1>6 DEF Next, cache_alloc

-----------------------------------------------------------------------------
(* The heap: sizes and markers in the bytes of the memory.                 *)

Memories == [Heap!Bytes -> Heap!Spoilt .. logical_memory_area_size]

\* The 8 bytes of a size are in the memory.
SizePlace(a) == a \in Nat /\ a + 8 <= logical_memory_area_size

LEMMA HeapNumbers ==
    /\ logical_memory_area_size \in Nat /\ logical_memory_area_size >= 17
    /\ Heap!Bytes = 0 .. logical_memory_area_size - 1
    /\ Heap!SPACE_BETWEEN_CHUNKS = 17 /\ Heap!logical_memory_area_start = 9
    /\ Heap!MARKER_INFO_SIZE = 1 /\ Heap!SIZE_INFO_SIZE = 8
    /\ Heap!ALLOCATED = 1 /\ Heap!NOT_ALLOCATED = 0
    /\ Heap!Tail = -1 /\ Heap!Spoilt = -2 /\ Heap!NoArea = -1
  BY HeapAssumption DEF Heap!Bytes, Heap!SPACE_BETWEEN_CHUNKS, Heap!logical_memory_area_start,
     Heap!MARKER_INFO_SIZE, Heap!SIZE_INFO_SIZE, Heap!ALLOCATED, Heap!NOT_ALLOCATED,
     Heap!Tail, Heap!Spoilt, Heap!NoArea

\* The macros with their numbers.
LEMMA HeapMacros ==
    ASSUME NEW m, NEW p \in Int
    PROVE  /\ Heap!GET_MARKER(m, p) = m[p - 9]
           /\ Heap!HeadSize(m, p) = Heap!GET_SIZE(m, p - 8)
           /\ Heap!GET_TAIL_SIZE(m, p) = p + Heap!HeadSize(m, p)
           /\ Heap!GET_PREV_AREA(m, p) = p - 17 - Heap!GET_SIZE(m, p - 17)
           /\ Heap!GET_NEXT_AREA(m, p) = p + 17 + Heap!HeadSize(m, p)
  BY HeapNumbers DEF Heap!GET_MARKER, Heap!HeadSize, Heap!GET_TAIL_SIZE, Heap!GET_PREV_AREA,
     Heap!GET_NEXT_AREA

LEMMA WritingMacros ==
    ASSUME NEW m, NEW p \in Int, NEW v
    PROVE  /\ Heap!WithHead(m, p, v) = Heap!WithSize(m, p - 8, v)
           /\ Heap!WithTail(m, p, v) = Heap!WithSize(m, p + Heap!GET_SIZE(m, p - 8), v)
           /\ Heap!WithMarker(m, p, v) = [m EXCEPT ![p - 9] = v]
  BY HeapNumbers DEF Heap!HeadSize, Heap!GET_TAIL_SIZE, Heap!WithHead, Heap!WithTail,
     Heap!WithMarker

\* What a written size leaves in the bytes.
LEMMA SizeWritten ==
    ASSUME NEW m \in Memories, NEW a, SizePlace(a), NEW size \in 0 .. logical_memory_area_size
    PROVE  /\ Heap!WithSize(m, a, size) \in Memories
           /\ Heap!GET_SIZE(Heap!WithSize(m, a, size), a) = size
           /\ \A b \in Heap!Bytes : b < a \/ b > a + 7 =>
                 Heap!WithSize(m, a, size)[b] = m[b]
<1> DEFINE w == Heap!WithSize(m, a, size)
<1>1. \A b \in Heap!Bytes : w[b] = IF b = a THEN size ELSE IF b \in a + 1 .. a + 7 THEN -1 ELSE m[b]
  BY HeapNumbers DEF Heap!WithSize
<1>2. w = [b \in Heap!Bytes |-> w[b]]
  BY DEF Heap!WithSize
<1>3. a \in Heap!Bytes /\ \A b \in a + 1 .. a + 7 : b \in Heap!Bytes /\ b # a
  BY HeapNumbers DEF SizePlace
<1> HIDE DEF w
<1>4. w \in Memories
  <2>0. Memories = [Heap!Bytes -> -2 .. logical_memory_area_size]
    BY HeapNumbers DEF Memories
  <2>1. ASSUME NEW b \in Heap!Bytes PROVE w[b] \in -2 .. logical_memory_area_size
    <3>1. /\ m[b] \in -2 .. logical_memory_area_size
          /\ size \in -2 .. logical_memory_area_size
          /\ -1 \in -2 .. logical_memory_area_size
      BY <2>0, HeapNumbers
    <3>2. w[b] = size \/ w[b] = -1 \/ w[b] = m[b]
      BY <1>1
    <3> QED
      BY <3>1, <3>2
  <2> QED
    BY <1>2, <2>0, <2>1
<1>5. w[a] = size /\ \A b \in a + 1 .. a + 7 : w[b] = -1
  BY <1>1, <1>3
<1>6. Heap!GET_SIZE(w, a) = size
  BY <1>5, HeapNumbers DEF Heap!GET_SIZE
<1>7. \A b \in Heap!Bytes : b < a \/ b > a + 7 => w[b] = m[b]
  BY <1>1, HeapNumbers DEF SizePlace
<1> QED
  BY <1>4, <1>6, <1>7 DEF w

\* A size is in its 8 bytes.
LEMMA SizeKept ==
    ASSUME NEW m, NEW w, NEW a, SizePlace(a), \A b \in a .. a + 7 : w[b] = m[b]
    PROVE  Heap!GET_SIZE(w, a) = Heap!GET_SIZE(m, a)
<1>1. a \in a .. a + 7 /\ a + 1 .. a + 8 - 1 \subseteq a .. a + 7
  BY DEF SizePlace
<1>2. w[a] = m[a] /\ \A b \in a + 1 .. a + 8 - 1 : w[b] = m[b]
  BY <1>1
<1> QED
  BY <1>2, HeapNumbers DEF Heap!GET_SIZE

LEMMA MarkerWritten ==
    ASSUME NEW m \in Memories, NEW p \in Int, p - 9 \in Heap!Bytes, NEW v \in {0, 1}
    PROVE  /\ Heap!WithMarker(m, p, v) \in Memories
           /\ Heap!WithMarker(m, p, v)[p - 9] = v
           /\ \A b \in Heap!Bytes : b # p - 9 => Heap!WithMarker(m, p, v)[b] = m[b]
<1>1. Heap!WithMarker(m, p, v) = [m EXCEPT ![p - 9] = v]
  BY WritingMacros
<1>2. v \in -2 .. logical_memory_area_size
  BY HeapNumbers
<1> QED
  BY <1>1, <1>2, HeapNumbers DEF Memories

\* The area at p has such a size, before and behind it, and such a marker.
IsArea(m, p, size, marker) ==
    /\ p \in Nat /\ size \in Nat /\ p >= 9 /\ p + size + 8 <= logical_memory_area_size
    /\ m[p - 9] = marker
    /\ Heap!GET_SIZE(m, p - 8) = size
    /\ Heap!GET_SIZE(m, p + size) = size

\* Bytes between low and high (exclusive) may change.
SameOutside(w, m, low, high) ==
    \A b \in Heap!Bytes : b < low \/ b >= high => w[b] = m[b]

LEMMA AreaKept ==
    ASSUME NEW m, NEW w, NEW p, NEW size, NEW marker, IsArea(m, p, size, marker),
           NEW low \in Int, NEW high \in Int, SameOutside(w, m, low, high),
           \/ p + size + 8 <= low
           \/ high <= p - 9
           \/ p <= low /\ high <= p + size
    PROVE  IsArea(w, p, size, marker)
<1>1. /\ p \in Nat /\ size \in Nat /\ p >= 9 /\ p + size + 8 <= logical_memory_area_size
      /\ m[p - 9] = marker
      /\ Heap!GET_SIZE(m, p - 8) = size
      /\ Heap!GET_SIZE(m, p + size) = size
  BY DEF IsArea
<1>2. /\ p - 9 \in Heap!Bytes /\ (p - 9 < low \/ p - 9 >= high)
      /\ \A b \in p - 8 .. p - 8 + 7 : b \in Heap!Bytes /\ (b < low \/ b >= high)
      /\ \A b \in p + size .. p + size + 7 : b \in Heap!Bytes /\ (b < low \/ b >= high)
  BY <1>1, HeapNumbers
<1>3. /\ w[p - 9] = m[p - 9]
      /\ \A b \in p - 8 .. p - 8 + 7 : w[b] = m[b]
      /\ \A b \in p + size .. p + size + 7 : w[b] = m[b]
  BY <1>2 DEF SameOutside
<1>4. SizePlace(p - 8) /\ SizePlace(p + size)
  BY <1>1, HeapNumbers DEF SizePlace
<1>5. Heap!GET_SIZE(w, p - 8) = Heap!GET_SIZE(m, p - 8)
  BY <1>3, <1>4, SizeKept
<1>6. Heap!GET_SIZE(w, p + size) = Heap!GET_SIZE(m, p + size)
  BY <1>3, <1>4, SizeKept
<1> QED
  BY <1>1, <1>3, <1>5, <1>6 DEF IsArea

\* Marking an area.
LEMMA AreaMarked ==
    ASSUME NEW m \in Memories, NEW p, NEW size, NEW marker, IsArea(m, p, size, marker),
           NEW v \in {0, 1}
    PROVE  /\ Heap!WithMarker(m, p, v) \in Memories
           /\ IsArea(Heap!WithMarker(m, p, v), p, size, v)
           /\ SameOutside(Heap!WithMarker(m, p, v), m, p - 9, p - 8)
<1> DEFINE w == Heap!WithMarker(m, p, v)
<1>1. /\ p \in Nat /\ size \in Nat /\ p >= 9 /\ p + size + 8 <= logical_memory_area_size
      /\ Heap!GET_SIZE(m, p - 8) = size
      /\ Heap!GET_SIZE(m, p + size) = size
  BY DEF IsArea
<1>2. p - 9 \in Heap!Bytes /\ p \in Int
  BY <1>1, HeapNumbers
<1>3. w \in Memories /\ w[p - 9] = v /\ \A b \in Heap!Bytes : b # p - 9 => w[b] = m[b]
  BY <1>2, MarkerWritten
<1> HIDE DEF w
<1>4. SameOutside(w, m, p - 9, p - 8)
  BY <1>1, <1>3, HeapNumbers DEF SameOutside
<1>5. SizePlace(p - 8) /\ SizePlace(p + size)
  BY <1>1, HeapNumbers DEF SizePlace
<1>6. \A b \in p - 8 .. p - 8 + 7 : w[b] = m[b]
  BY <1>1, <1>3, HeapNumbers
<1>7. \A b \in p + size .. p + size + 7 : w[b] = m[b]
  BY <1>1, <1>3, HeapNumbers
<1>8. Heap!GET_SIZE(w, p - 8) = size /\ Heap!GET_SIZE(w, p + size) = size
  BY <1>1, <1>5, <1>6, <1>7, SizeKept
<1> QED
  BY <1>1, <1>3, <1>4, <1>8 DEF IsArea, w

\* What the caller writes to.
LEMMA AreaOverwritten ==
    ASSUME NEW m \in Memories, NEW p, NEW size, NEW marker, IsArea(m, p, size, marker)
    PROVE  /\ Heap!Overwritten(m, p) \in Memories
           /\ SameOutside(Heap!Overwritten(m, p), m, p, p + size)
<1>1. p \in Nat /\ size \in Nat /\ Heap!GET_TAIL_SIZE(m, p) = p + size
  <2>1. p \in Nat /\ size \in Nat /\ Heap!GET_SIZE(m, p - 8) = size
    BY DEF IsArea
  <2> QED
    BY <2>1, HeapMacros
<1>2. \A b \in Heap!Bytes : Heap!Overwritten(m, p)[b] = IF b \in p .. p + size - 1 THEN -2 ELSE m[b]
  BY <1>1, HeapNumbers DEF Heap!Overwritten
<1>3. Heap!Overwritten(m, p) = [b \in Heap!Bytes |-> Heap!Overwritten(m, p)[b]]
  BY DEF Heap!Overwritten
<1>4. \A b \in Heap!Bytes : Heap!Overwritten(m, p)[b] \in -2 .. logical_memory_area_size
  BY <1>2, HeapNumbers DEF Memories
<1>5. Heap!Overwritten(m, p) \in Memories
  BY <1>3, <1>4, HeapNumbers DEF Memories
<1>6. SameOutside(Heap!Overwritten(m, p), m, p, p + size)
  BY <1>1, <1>2, HeapNumbers DEF SameOutside
<1> QED
  BY <1>5, <1>6

\* A size that is written elsewhere leaves a size alone.
LEMMA SizeElsewhere ==
    ASSUME NEW m \in Memories, NEW a, SizePlace(a), NEW size \in 0 .. logical_memory_area_size,
           NEW b, SizePlace(b), b + 8 <= a \/ a + 8 <= b
    PROVE  Heap!GET_SIZE(Heap!WithSize(m, a, size), b) = Heap!GET_SIZE(m, b)
<1>1. \A x \in b .. b + 7 : x \in Heap!Bytes /\ (x < a \/ x > a + 7)
  BY HeapNumbers DEF SizePlace
<1>2. \A x \in b .. b + 7 : Heap!WithSize(m, a, size)[x] = m[x]
  BY <1>1, SizeWritten
<1> QED
  BY <1>2, SizeKept

\* The two sizes of an area are written.
LEMMA SizesWritten ==
    ASSUME NEW m \in Memories, NEW p \in Nat, NEW size \in Nat,
           p >= 9, p + size + 8 <= logical_memory_area_size
    PROVE  LET w == Heap!WithSize(Heap!WithSize(m, p - 8, size), p + size, size)
           IN  /\ w \in Memories /\ IsArea(w, p, size, m[p - 9])
               /\ SameOutside(w, m, p - 8, p + size + 8)
<1> DEFINE w1 == Heap!WithSize(m, p - 8, size)
           w == Heap!WithSize(w1, p + size, size)
<1>1. /\ SizePlace(p - 8) /\ SizePlace(p + size) /\ size \in 0 .. logical_memory_area_size
      /\ p - 9 \in Heap!Bytes
  BY HeapNumbers DEF SizePlace
<1>2. /\ w1 \in Memories /\ Heap!GET_SIZE(w1, p - 8) = size /\ w1[p - 9] = m[p - 9]
      /\ \A b \in Heap!Bytes : b < p - 8 \/ b > p - 1 => w1[b] = m[b]
  BY <1>1, SizeWritten
<1> HIDE DEF w1
<1>3. /\ w \in Memories /\ Heap!GET_SIZE(w, p + size) = size /\ w[p - 9] = w1[p - 9]
      /\ \A b \in Heap!Bytes : b < p + size \/ b > p + size + 7 => w[b] = w1[b]
  BY <1>1, <1>2, SizeWritten
<1>4. Heap!GET_SIZE(w, p - 8) = Heap!GET_SIZE(w1, p - 8)
  <2>1. p - 8 + 8 <= p + size
    OBVIOUS
  <2> QED
    BY <1>1, <1>2, <2>1, SizeElsewhere
<1> HIDE DEF w
<1>5. w \in Memories /\ IsArea(w, p, size, m[p - 9])
  BY <1>2, <1>3, <1>4 DEF IsArea
<1>6. SameOutside(w, m, p - 8, p + size + 8)
  BY <1>2, <1>3, HeapNumbers DEF SameOutside
<1> QED
  BY <1>5, <1>6 DEF w, w1

\* Two areas where there was one.
LEMMA AreaSplit ==
    ASSUME NEW m \in Memories, NEW p, NEW z, IsArea(m, p, z, 1), NEW size \in Nat,
           z - size - 17 > 0
    PROVE  /\ Heap!Split(m, p, size) \in Memories
           /\ IsArea(Heap!Split(m, p, size), p, size, 1)
           /\ IsArea(Heap!Split(m, p, size), p + size + 17, z - size - 17, 0)
           /\ SameOutside(Heap!Split(m, p, size), m, p - 9, p + z + 8)
<1> DEFINE n == z - size - 17
           next == p + size + 17
           m2 == Heap!WithSize(m, p + z, n)
           m3 == Heap!WithSize(m2, next - 8, n)
           m4 == Heap!WithMarker(m3, next, 0)
           m6 == Heap!WithSize(Heap!WithSize(m4, p - 8, size), p + size, size)
<1>1. /\ p \in Nat /\ z \in Nat /\ p >= 9 /\ p + z + 8 <= logical_memory_area_size
      /\ m[p - 9] = 1 /\ Heap!GET_SIZE(m, p - 8) = z
  BY DEF IsArea
<1>2. /\ n \in Nat /\ n > 0 /\ next \in Nat /\ next = p + size + 17 /\ next + n = p + z
      /\ n \in 0 .. logical_memory_area_size
      /\ SizePlace(p + z) /\ SizePlace(next - 8)
  BY <1>1, HeapNumbers DEF SizePlace
<1>3. Heap!Split(m, p, size) = m6
  <2>1. p \in Int /\ Heap!HeadSize(m, p) = z
    BY <1>1, HeapMacros
  <2>2. Heap!WithTail(m, p, n) = m2
    BY <1>1, WritingMacros
  <2>3. Heap!WithHead(m2, next, n) = m3
    BY <1>2, WritingMacros
  <2>4. Heap!WithHead(m4, p, size) = Heap!WithSize(m4, p - 8, size)
    BY <1>1, WritingMacros
  <2>5. Heap!GET_SIZE(Heap!WithSize(m4, p - 8, size), p - 8) = size
    <3>1. m2 \in Memories
      BY <1>2, SizeWritten
    <3> HIDE DEF m2
    <3>2. m3 \in Memories
      BY <1>2, <3>1, SizeWritten
    <3> HIDE DEF m3
    <3>3. m4 \in Memories
      <4>1. next \in Int /\ next - 9 \in Heap!Bytes
        BY <1>1, <1>2, HeapNumbers
      <4> QED
        BY <3>2, <4>1, MarkerWritten
    <3> HIDE DEF m4
    <3>4. SizePlace(p - 8) /\ size \in 0 .. logical_memory_area_size
      BY <1>1, HeapNumbers DEF SizePlace
    <3> QED
      BY <3>3, <3>4, SizeWritten
  <2>6. Heap!WithTail(Heap!WithSize(m4, p - 8, size), p, size) = m6
    <3> HIDE DEF m4
    <3> QED
      BY <1>1, <2>5, WritingMacros
  <2>7. Heap!Split(m, p, size)
          = Heap!WithTail(Heap!WithHead(Heap!WithMarker(Heap!WithHead(Heap!WithTail(m, p, n),
                next, n), next, 0), p, size), p, size)
    BY <1>2, <2>1, HeapNumbers DEF Heap!Split
  <2> QED
    BY <2>2, <2>3, <2>4, <2>6, <2>7
<1>4. /\ m2 \in Memories /\ Heap!GET_SIZE(m2, p + z) = n
      /\ \A b \in Heap!Bytes : b < p + z \/ b > p + z + 7 => m2[b] = m[b]
  BY <1>2, SizeWritten
<1> HIDE DEF m2
<1>5. /\ m3 \in Memories /\ Heap!GET_SIZE(m3, next - 8) = n
      /\ \A b \in Heap!Bytes : b < next - 8 \/ b > next - 8 + 7 => m3[b] = m2[b]
  BY <1>2, <1>4, SizeWritten
<1>6. Heap!GET_SIZE(m3, p + z) = n
  <2>1. next - 8 + 8 <= p + z
    BY <1>1, <1>2
  <2> QED
    BY <1>2, <1>4, <2>1, SizeElsewhere
<1> HIDE DEF m3
<1>7. IsArea(m3, next, n, m3[next - 9])
  BY <1>1, <1>2, <1>5, <1>6 DEF IsArea
<1>8. m4 \in Memories /\ IsArea(m4, next, n, 0) /\ SameOutside(m4, m3, next - 9, next - 8)
  BY <1>5, <1>7, AreaMarked
<1> HIDE DEF m4
<1>9. m6 \in Memories /\ IsArea(m6, p, size, m4[p - 9]) /\ SameOutside(m6, m4, p - 8, p + size + 8)
  <2>1. p + size + 8 <= logical_memory_area_size
    BY <1>1, <1>2, HeapNumbers
  <2> QED
    BY <1>1, <1>8, <2>1, SizesWritten
<1> HIDE DEF m6
<1>10. m4[p - 9] = 1
  <2>1. p - 9 \in Heap!Bytes /\ p - 9 < next - 9 /\ p - 9 < next - 8 /\ p - 9 < p + z
    BY <1>1, <1>2, HeapNumbers
  <2> QED
    BY <1>1, <1>4, <1>5, <1>8, <2>1 DEF SameOutside
<1>11. IsArea(m6, next, n, 0)
  <2>1. p - 8 \in Int /\ p + size + 8 \in Int /\ p + size + 8 <= next - 9
    BY <1>1, <1>2
  <2> QED
    BY <1>8, <1>9, <2>1, AreaKept
<1>12. SameOutside(m6, m, p - 9, p + z + 8)
  <2> SUFFICES ASSUME NEW b \in Heap!Bytes, b < p - 9 \/ b >= p + z + 8 PROVE m6[b] = m[b]
    BY DEF SameOutside
  <2>1. m6[b] = m4[b]
    BY <1>1, <1>2, <1>9, HeapNumbers DEF SameOutside
  <2>2. m4[b] = m3[b]
    BY <1>1, <1>2, <1>8, HeapNumbers DEF SameOutside
  <2>3. m3[b] = m2[b]
    BY <1>1, <1>2, <1>5, HeapNumbers
  <2>4. m2[b] = m[b]
    BY <1>1, <1>2, <1>4, HeapNumbers
  <2> QED
    BY <2>1, <2>2, <2>3, <2>4
<1> QED
  BY <1>3, <1>9, <1>10, <1>11, <1>12

\* One area where there were two.
LEMMA AreaJoined ==
    ASSUME NEW m \in Memories, NEW p, NEW x, NEW k, IsArea(m, p, x, k),
           NEW r, NEW y, NEW j, IsArea(m, r, y, j), r = p + x + 17
    PROVE  /\ Heap!Joined(m, p, r) \in Memories
           /\ IsArea(Heap!Joined(m, p, r), p, x + y + 17, 1)
           /\ SameOutside(Heap!Joined(m, p, r), m, p - 9, r + y + 8)
<1> DEFINE size == x + y + 17
           m1 == Heap!WithSize(m, p - 8, size)
           m2 == Heap!WithSize(m1, p + size, size)
           m3 == Heap!WithMarker(m2, p, 1)
<1>1. /\ p \in Nat /\ x \in Nat /\ p >= 9 /\ Heap!GET_SIZE(m, p - 8) = x
      /\ r \in Nat /\ y \in Nat /\ Heap!GET_SIZE(m, r - 8) = y
      /\ r + y + 8 <= logical_memory_area_size
  BY DEF IsArea
<1>2. /\ size \in Nat /\ p + size = r + y /\ p + size + 8 <= logical_memory_area_size
      /\ size \in 0 .. logical_memory_area_size
      /\ SizePlace(p - 8) /\ SizePlace(r - 8) /\ p - 8 + 8 <= r - 8
  BY <1>1, HeapNumbers DEF SizePlace
<1>3. Heap!Joined(m, p, r) = m3
  <2>1. Heap!HeadSize(m, p) = x /\ Heap!HeadSize(m, r) = y
    BY <1>1, HeapMacros
  <2>2. Heap!WithHead(m, p, size) = m1
    BY <1>1, WritingMacros
  <2>3. Heap!GET_SIZE(m1, r - 8) = y
    BY <1>1, <1>2, SizeElsewhere
  <2> HIDE DEF m1
  <2>4. Heap!WithTail(m1, r, size) = m2
    BY <1>1, <1>2, <2>3, WritingMacros
  <2>5. Heap!Joined(m, p, r)
          = Heap!WithMarker(Heap!WithTail(Heap!WithHead(m, p, size), r, size), p, 1)
    BY <2>1, HeapNumbers DEF Heap!Joined
  <2> QED
    BY <2>2, <2>4, <2>5
<1>4. m2 \in Memories /\ IsArea(m2, p, size, m[p - 9]) /\ SameOutside(m2, m, p - 8, p + size + 8)
  BY <1>1, <1>2, SizesWritten
<1> HIDE DEF m2
<1>5. m3 \in Memories /\ IsArea(m3, p, size, 1) /\ SameOutside(m3, m2, p - 9, p - 8)
  BY <1>4, AreaMarked
<1> HIDE DEF m3
<1>6. SameOutside(m3, m, p - 9, r + y + 8)
  BY <1>1, <1>2, <1>4, <1>5, HeapNumbers DEF SameOutside
<1> QED
  BY <1>3, <1>5, <1>6

-----------------------------------------------------------------------------
(* The areas: each ends where the next begins.                             *)

Tiling(A, z) ==
    /\ A \subseteq Nat /\ 9 \in A /\ z \in [A -> Nat]
    /\ \A p \in A : /\ p >= 9 /\ p + z[p] + 8 <= logical_memory_area_size
                    /\ p + z[p] + 8 = logical_memory_area_size \/ p + z[p] + 17 \in A
    /\ \A p \in A : p = 9 \/ \E q \in A : q + z[q] + 17 = p
    /\ \A p, q \in A : p < q => p + z[p] + 17 <= q

Shows(m, A, z, k) == \A p \in A : IsArea(m, p, z[p], k[p])

\* Such areas, of which bs are the caller's and cur is being freed.
HeapHolds(m, bs, cur, A, z, k) ==
    /\ m \in Memories /\ Tiling(A, z) /\ k \in [A -> {0, 1}] /\ Shows(m, A, z, k)
    /\ bs \subseteq A /\ cur \in A \cup {-1} /\ cur \notin bs
    /\ \A p \in A : k[p] = 1 <=> p \in bs \/ p = cur
    /\ \A p \in A : p + z[p] + 17 \in A => k[p] = 1 \/ k[p + z[p] + 17] = 1

HeapState(m, bs, cur) == \E A, z, k : HeapHolds(m, bs, cur, A, z, k)

HeapInv == HeapState(memory, blocks, current_ptr)

\* The area at p becomes one of such a size and one at n.
Splits(A, z, p, size, n, B, y) ==
    /\ p \in A /\ size \in Nat /\ z[p] - size - 17 > 0
    /\ n = p + size + 17 /\ B = A \cup {n} /\ y \in [B -> Nat]
    /\ y[p] = size /\ y[n] = z[p] - size - 17
    /\ \A q \in A : q # p => y[q] = z[q]

\* The areas at p and r become one.
Joins(A, z, p, r, B, y) ==
    /\ p \in A /\ r \in A /\ r = p + z[p] + 17
    /\ B = A \ {r} /\ y \in [B -> Nat]
    /\ y[p] = z[p] + z[r] + 17
    /\ \A q \in B : q # p => y[q] = z[q]

LEMMA SplitTiling ==
    ASSUME NEW A, NEW z, Tiling(A, z), NEW p, NEW size, NEW n, NEW B, NEW y,
           Splits(A, z, p, size, n, B, y)
    PROVE  Tiling(B, y)
<1>0. /\ p \in A /\ size \in Nat /\ z[p] - size - 17 > 0
      /\ n = p + size + 17 /\ B = A \cup {n} /\ y \in [B -> Nat]
      /\ y[p] = size /\ y[n] = z[p] - size - 17
      /\ \A q \in A : q # p => y[q] = z[q]
  BY DEF Splits
<1>1. /\ A \subseteq Nat /\ 9 \in A /\ z \in [A -> Nat] /\ p \in Nat /\ z[p] \in Nat
      /\ n \in Nat /\ n > p /\ n < p + z[p] + 17
  BY <1>0 DEF Tiling
<1>2. n \notin A
  BY <1>0, <1>1 DEF Tiling
<1>3. /\ y[p] = size /\ y[n] = z[p] - size - 17
      /\ \A q \in A : q # p => y[q] = z[q] /\ q # n
  BY <1>0, <1>1, <1>2
<1>4. y \in [B -> Nat] /\ B \subseteq Nat /\ 9 \in B
  BY <1>0, <1>1
<1>5. ASSUME NEW q \in B
      PROVE  /\ q >= 9 /\ q + y[q] + 8 <= logical_memory_area_size
             /\ q + y[q] + 8 = logical_memory_area_size \/ q + y[q] + 17 \in B
  <2>1. p >= 9 /\ p + z[p] + 8 <= logical_memory_area_size
    BY <1>0 DEF Tiling
  <2>2. p + z[p] + 8 = logical_memory_area_size \/ p + z[p] + 17 \in A
    BY <1>0 DEF Tiling
  <2>3. CASE q = p
    <3>1. y[q] = size /\ q >= 9 /\ q + size + 17 \in B
      BY <1>0, <2>1, <2>3
    <3>2. /\ p \in Nat /\ z[p] \in Nat /\ size \in Nat /\ z[p] - size - 17 > 0
          /\ logical_memory_area_size \in Nat
      BY <1>0, <1>1, HeapNumbers
    <3>3. q + size + 8 <= logical_memory_area_size
      BY <2>1, <2>3, <3>2
    <3> QED
      BY <3>1, <3>3
  <2>4. CASE q = n
    <3>1. q + y[q] = p + z[p]
      BY <1>0, <1>1, <1>3, <2>4
    <3> QED
      BY <1>0, <1>1, <2>1, <2>2, <2>4, <3>1, HeapNumbers
  <2>5. CASE q # p /\ q # n
    <3>1. q \in A /\ y[q] = z[q]
      BY <1>0, <1>3, <2>5
    <3> QED
      BY <1>0, <3>1 DEF Tiling
  <2> QED
    BY <2>3, <2>4, <2>5
<1>6. ASSUME NEW q \in B, q # 9 PROVE \E r \in B : r + y[r] + 17 = q
  <2>1. CASE q = n
    BY <1>0, <1>1, <1>3, <2>1
  <2>2. CASE q # n
    <3>1. PICK r \in A : r + z[r] + 17 = q
      BY <1>0, <1>6, <2>2 DEF Tiling
    <3>2. CASE r = p
      <4>1. n + y[n] + 17 = q
        BY <1>0, <1>1, <1>3, <3>1, <3>2
      <4> QED
        BY <1>0, <4>1
    <3>3. CASE r # p
      BY <1>0, <1>3, <3>1, <3>3
    <3> QED
      BY <3>2, <3>3
  <2> QED
    BY <2>1, <2>2
<1>7. ASSUME NEW q \in B, NEW r \in B, q < r PROVE q + y[q] + 17 <= r
  <2>0. \A a, b \in A : a < b => a + z[a] + 17 <= b
    BY <1>0 DEF Tiling
  <2>1. CASE q = p /\ r = n
    BY <1>0, <1>1, <1>3, <2>1
  <2>2. CASE q = p /\ r # n
    <3>1. p + z[p] + 17 <= r /\ r \in Nat
      BY <1>0, <1>1, <1>7, <2>0, <2>2
    <3> QED
      BY <1>0, <1>1, <1>3, <2>2, <3>1
  <2>3. CASE q = n
    <3>1. r \in A /\ r \in Nat /\ r > p
      BY <1>0, <1>1, <1>7, <2>3
    <3>2. p + z[p] + 17 <= r
      BY <1>0, <2>0, <3>1
    <3> QED
      BY <1>0, <1>1, <1>3, <2>3, <3>1, <3>2
  <2>4. CASE q # p /\ q # n /\ r # n
    <3>1. q \in A /\ r \in A /\ y[q] = z[q]
      BY <1>0, <1>3, <2>4
    <3> QED
      BY <1>0, <1>7, <2>0, <3>1
  <2>5. CASE q # p /\ q # n /\ r = n
    <3>1. q \in A /\ y[q] = z[q] /\ q \in Nat /\ z[q] \in Nat
      BY <1>0, <1>1, <1>3, <2>5
    <3>2. CASE q < p
      BY <1>0, <1>1, <2>0, <2>5, <3>1, <3>2
    <3>3. CASE q > p
      <4>1. p + z[p] + 17 <= q
        BY <1>0, <2>0, <3>1, <3>3
      <4> QED
        BY <1>0, <1>1, <1>7, <2>5, <3>1, <4>1
    <3> QED
      BY <1>0, <1>1, <2>5, <3>1, <3>2, <3>3
  <2> QED
    BY <2>1, <2>2, <2>3, <2>4, <2>5
<1> QED
  BY <1>0, <1>1, <1>2, <1>4, <1>5, <1>6, <1>7 DEF Tiling

LEMMA JoinTiling ==
    ASSUME NEW A, NEW z, Tiling(A, z), NEW p, NEW r, NEW B, NEW y, Joins(A, z, p, r, B, y)
    PROVE  Tiling(B, y)
<1>0. /\ p \in A /\ r \in A /\ r = p + z[p] + 17
      /\ B = A \ {r} /\ y \in [B -> Nat]
      /\ y[p] = z[p] + z[r] + 17
      /\ \A q \in B : q # p => y[q] = z[q]
  BY DEF Joins
<1>1. /\ A \subseteq Nat /\ 9 \in A /\ z \in [A -> Nat] /\ p \in Nat /\ z[p] \in Nat
      /\ r \in Nat /\ z[r] \in Nat /\ r > p /\ p >= 9
  BY <1>0 DEF Tiling
<1>2. /\ y[p] = z[p] + z[r] + 17 /\ p \in B /\ p + y[p] = r + z[r]
      /\ \A q \in B : q # p => y[q] = z[q]
  BY <1>0, <1>1
<1>3. y \in [B -> Nat] /\ B \subseteq Nat /\ 9 \in B
  <2>1. r # 9
    BY <1>0, <1>1
  <2> QED
    BY <1>0, <1>1, <2>1, Zenon
<1>4. \A a, b \in A : a < b => a + z[a] + 17 <= b
  BY <1>0 DEF Tiling
\* No other area leads to r.
<1>5. ASSUME NEW q \in A, q + z[q] + 17 = r PROVE q = p
  BY <1>0, <1>1, <1>4, <1>5
<1>6. ASSUME NEW q \in B
      PROVE  /\ q >= 9 /\ q + y[q] + 8 <= logical_memory_area_size
             /\ q + y[q] + 8 = logical_memory_area_size \/ q + y[q] + 17 \in B
  <2>1. CASE q = p
    <3>1. /\ r + z[r] + 8 <= logical_memory_area_size
          /\ r + z[r] + 8 = logical_memory_area_size \/ r + z[r] + 17 \in A
      BY <1>0 DEF Tiling
    <3>2. r + z[r] + 17 # r
      BY <1>0, <1>1
    <3>3. q + y[q] = r + z[r]
      BY <1>0, <1>2, <2>1
    <3> QED
      BY <1>0, <1>1, <2>1, <3>1, <3>2, <3>3
  <2>2. CASE q # p
    <3>1. q \in A /\ y[q] = z[q] /\ q + z[q] + 17 # r
      BY <1>0, <1>2, <1>5, <2>2
    <3> QED
      BY <1>0, <3>1 DEF Tiling
  <2> QED
    BY <2>1, <2>2
<1>7. ASSUME NEW q \in B, q # 9 PROVE \E t \in B : t + y[t] + 17 = q
  <2>1. PICK t \in A : t + z[t] + 17 = q
    BY <1>0, <1>7 DEF Tiling
  <2>2. CASE t = r
    <3>1. p + y[p] + 17 = q
      BY <1>0, <1>2, <2>1, <2>2
    <3> QED
      BY <1>0, <1>2, <3>1
  <2>3. CASE t # r
    <3>1. t \in B /\ t # p
      BY <1>0, <1>7, <2>1, <2>3
    <3> QED
      BY <1>0, <1>2, <2>1, <3>1
  <2> QED
    BY <2>2, <2>3
<1>8. ASSUME NEW q \in B, NEW t \in B, q < t PROVE q + y[q] + 17 <= t
  <2>1. CASE q = p
    <3>1. p + z[p] + 17 <= t /\ t # r /\ t \in Nat
      BY <1>0, <1>1, <1>4, <1>8, <2>1
    <3>2. r < t
      BY <1>0, <1>1, <3>1
    <3>3. r + z[r] + 17 <= t
      BY <1>0, <1>4, <3>2
    <3> QED
      BY <1>0, <1>2, <2>1, <3>3
  <2>2. CASE q # p
    BY <1>0, <1>2, <1>4, <1>8, <2>2
  <2> QED
    BY <2>1, <2>2
<1> QED
  BY <1>3, <1>6, <1>7, <1>8 DEF Tiling

\* What the macros read at an area.
LEMMA Reading ==
    ASSUME NEW m, NEW bs, NEW cur, NEW A, NEW z, NEW k, HeapHolds(m, bs, cur, A, z, k),
           NEW p \in A
    PROVE  /\ p \in Nat /\ z[p] \in Nat /\ p >= 9 /\ p + z[p] + 8 <= logical_memory_area_size
           /\ k[p] \in {0, 1}
           /\ IsArea(m, p, z[p], k[p])
           /\ Heap!GET_MARKER(m, p) = k[p]
           /\ Heap!HeadSize(m, p) = z[p]
           /\ Heap!GET_TAIL_SIZE(m, p) = p + z[p]
           /\ Heap!GET_NEXT_AREA(m, p) = p + z[p] + 17
           /\ Heap!GET_SIZE(m, p + z[p]) = z[p]
<1>1. p \in Nat /\ z[p] \in Nat /\ IsArea(m, p, z[p], k[p]) /\ k[p] \in {0, 1}
  BY DEF HeapHolds, Tiling, Shows
<1>2. /\ p >= 9 /\ p + z[p] + 8 <= logical_memory_area_size
      /\ m[p - 9] = k[p]
      /\ Heap!GET_SIZE(m, p - 8) = z[p]
      /\ Heap!GET_SIZE(m, p + z[p]) = z[p]
  BY <1>1 DEF IsArea
<1>3. /\ Heap!GET_MARKER(m, p) = m[p - 9]
      /\ Heap!HeadSize(m, p) = Heap!GET_SIZE(m, p - 8)
      /\ Heap!GET_TAIL_SIZE(m, p) = p + Heap!HeadSize(m, p)
      /\ Heap!GET_NEXT_AREA(m, p) = p + 17 + Heap!HeadSize(m, p)
  BY <1>1, HeapMacros
<1> QED
  BY <1>1, <1>2, <1>3

\* Areas do not overlap.
LEMMA Apart ==
    ASSUME NEW A, NEW z, Tiling(A, z), NEW p \in A, NEW q \in A, q # p
    PROVE  q + z[q] + 8 <= p - 9 \/ p + z[p] + 8 <= q - 9
<1>1. p \in Nat /\ q \in Nat /\ z[p] \in Nat /\ z[q] \in Nat
  BY DEF Tiling
<1>2. q < p => q + z[q] + 17 <= p
  BY DEF Tiling
<1>3. p < q => p + z[p] + 17 <= q
  BY DEF Tiling
<1> QED
  BY <1>1, <1>2, <1>3

LEMMA FreeAreaMarked ==
    ASSUME NEW m, NEW bs, NEW A, NEW z, NEW k, HeapHolds(m, bs, -1, A, z, k),
           NEW p \in A, k[p] = 0, NEW w \in Memories, IsArea(w, p, z[p], 1),
           SameOutside(w, m, p - 9, p + z[p])
    PROVE  HeapState(w, bs \cup {p}, -1)
<1> DEFINE j == [k EXCEPT ![p] = 1]
<1>0. Tiling(A, z) /\ A \subseteq Nat /\ k \in [A -> {0, 1}] /\ bs \subseteq A
  BY DEF HeapHolds, Tiling
<1>1. j \in [A -> {0, 1}] /\ j[p] = 1 /\ \A q \in A : q # p => j[q] = k[q]
  BY <1>0
<1> HIDE DEF j
<1>2. ASSUME NEW q \in A PROVE IsArea(w, q, z[q], j[q])
  <2>1. CASE q = p
    BY <1>1, <2>1
  <2>2. CASE q # p
    <3>1. IsArea(m, q, z[q], k[q]) /\ p \in Int /\ p + z[p] \in Int /\ q \in Nat /\ z[q] \in Nat
      BY Reading
    <3>2. q + z[q] + 8 <= p - 9 \/ p + z[p] + 8 <= q - 9
      BY <1>0, <2>2, Apart
    <3>3. q + z[q] + 8 <= p - 9 \/ p + z[p] <= q - 9
      BY <3>1, <3>2
    <3>4. p - 9 \in Int
      BY <3>1
    <3> QED
      BY <1>1, <2>2, <3>1, <3>3, <3>4, AreaKept
  <2> QED
    BY <2>1, <2>2
<1>3. \A q \in A : j[q] = 1 <=> q \in bs \cup {p} \/ q = -1
  BY <1>0, <1>1 DEF HeapHolds
<1>4. \A q \in A : q + z[q] + 17 \in A => j[q] = 1 \/ j[q + z[q] + 17] = 1
  BY <1>1 DEF HeapHolds
<1>5. -1 \notin bs \cup {p} /\ bs \cup {p} \subseteq A
  BY <1>0
<1>6. HeapHolds(w, bs \cup {p}, -1, A, z, j)
  BY <1>0, <1>1, <1>2, <1>3, <1>4, <1>5 DEF HeapHolds, Shows
<1> QED
  BY <1>6 DEF HeapState

LEMMA FreeAreaSplit ==
    ASSUME NEW m, NEW bs, NEW A, NEW z, NEW k, HeapHolds(m, bs, -1, A, z, k),
           NEW p \in A, k[p] = 0, NEW size \in Nat, z[p] - size - 17 > 0,
           NEW w \in Memories, IsArea(w, p, size, 1),
           IsArea(w, p + size + 17, z[p] - size - 17, 0),
           SameOutside(w, m, p - 9, p + z[p] + 8)
    PROVE  HeapState(w, bs \cup {p}, -1)
<1>n. PICK n : n = p + size + 17
  OBVIOUS
<1>B. PICK B : B = A \cup {n}
  OBVIOUS
<1>y. PICK y : y = [q \in B |-> IF q = p THEN size
                                ELSE IF q = n THEN z[p] - size - 17 ELSE z[q]]
  OBVIOUS
<1>j. PICK j : j = [q \in B |-> IF q = p THEN 1 ELSE IF q = n THEN 0 ELSE k[q]]
  OBVIOUS
<1>0. Tiling(A, z) /\ A \subseteq Nat /\ k \in [A -> {0, 1}] /\ bs \subseteq A
  BY DEF HeapHolds, Tiling
<1>1. /\ y \in [B -> Nat] /\ y[p] = size /\ y[n] = z[p] - size - 17
      /\ n \notin A /\ n # p /\ \A q \in A : q # p => y[q] = z[q]
  <2>1. p \in Nat /\ z[p] \in Nat /\ z[p] - size - 17 \in Nat /\ z \in [A -> Nat]
    BY <1>0 DEF Tiling
  <2>2. n \notin A /\ n # p
    <3>1. \A q \in A : p < q => p + z[p] + 17 <= q
      BY <1>0 DEF Tiling
    <3> QED
      BY <1>n, <2>1, <3>1
  <2> QED
    BY <1>B, <1>y, <2>1, <2>2
<1>t. Tiling(B, y)
  <2>1. Splits(A, z, p, size, n, B, y)
    BY <1>1, <1>n, <1>B DEF Splits
  <2> QED
    BY <1>0, <2>1, SplitTiling
<1>2. /\ y[p] = size /\ y[n] = z[p] - size - 17 /\ \A q \in A : q # p => y[q] = z[q]
      /\ j[p] = 1 /\ j[n] = 0 /\ \A q \in A : q # p => j[q] = k[q]
      /\ p \in B /\ n \in B /\ \A q \in B : q \in A \/ q = n
      /\ p \in Nat /\ z[p] \in Nat /\ n = p + size + 17
  <2>1. p \in Nat /\ z[p] \in Nat
    BY <1>0 DEF Tiling
  <2> QED
    BY <1>1, <1>n, <1>B, <1>y, <1>j, <2>1
<1>3. j \in [B -> {0, 1}]
  BY <1>0, <1>B, <1>j
<1>4. B \subseteq Nat
  BY <1>t DEF Tiling
<1>5. ASSUME NEW q \in B PROVE IsArea(w, q, y[q], j[q])
  <2>1. CASE q = p
    BY <1>2, <2>1
  <2>2. CASE q = n
    BY <1>2, <2>2
  <2>3. CASE q # p /\ q # n
    <3>0. q \in A
      BY <1>2, <2>3
    <3>1. IsArea(m, q, z[q], k[q]) /\ q \in Nat /\ z[q] \in Nat
      BY <3>0, Reading
    <3>2. q + z[q] + 8 <= p - 9 \/ p + z[p] + 8 <= q - 9
      BY <1>0, <2>3, <3>0, Apart
    <3>3. p - 9 \in Int /\ p + z[p] + 8 \in Int
      BY <1>2
    <3>4. IsArea(w, q, z[q], k[q])
      BY <3>1, <3>2, <3>3, AreaKept
    <3> QED
      BY <1>2, <2>3, <3>0, <3>4
  <2> QED
    BY <2>1, <2>2, <2>3
<1>6. ASSUME NEW q \in B PROVE j[q] = 1 <=> q \in bs \cup {p} \/ q = -1
  <2>1. CASE q = n
    BY <1>0, <1>1, <1>2, <2>1
  <2>2. CASE q # n
    <3>1. q \in A
      BY <1>2, <2>2
    <3>2. k[q] = 1 <=> q \in bs \/ q = -1
      BY <3>1 DEF HeapHolds
    <3> QED
      BY <1>0, <1>2, <3>1, <3>2
  <2> QED
    BY <2>1, <2>2
<1>7. ASSUME NEW q \in B, q + y[q] + 17 \in B PROVE j[q] = 1 \/ j[q + y[q] + 17] = 1
  <2>0. \A a \in A : a + z[a] + 17 \in A => k[a] = 1 \/ k[a + z[a] + 17] = 1
    BY DEF HeapHolds
  <2>1. CASE q = p
    BY <1>2, <2>1
  <2>2. CASE q = n
    <3>1. q + y[q] + 17 = p + z[p] + 17
      BY <1>2, <2>2
    <3>2. p + z[p] + 17 # n /\ p + z[p] + 17 # p
      BY <1>2
    <3>3. p + z[p] + 17 \in A
      BY <1>2, <1>7, <3>1, <3>2
    <3> QED
      BY <1>2, <2>0, <3>1, <3>2, <3>3
  <2>3. CASE q # p /\ q # n
    <3>1. q \in A /\ y[q] = z[q] /\ j[q] = k[q] /\ q \in Nat /\ z[q] \in Nat
      BY <1>2, <2>3, Reading
    <3>2. q + z[q] + 8 <= p - 9 \/ p + z[p] + 8 <= q - 9
      BY <1>0, <2>3, <3>1, Apart
    <3>3. q + z[q] + 17 # n
      BY <1>2, <3>1, <3>2
    <3>4. q + z[q] + 17 \in A
      BY <1>2, <1>7, <3>1, <3>3
    <3>5. CASE q + z[q] + 17 = p
      BY <1>2, <3>1, <3>5
    <3>6. CASE q + z[q] + 17 # p
      BY <1>2, <2>0, <3>1, <3>4, <3>6
    <3> QED
      BY <3>5, <3>6
  <2> QED
    BY <2>1, <2>2, <2>3
<1>8. -1 \notin bs \cup {p} /\ bs \cup {p} \subseteq B
  BY <1>0, <1>2, <1>B
<1>9. HeapHolds(w, bs \cup {p}, -1, B, y, j)
  BY <1>t, <1>3, <1>5, <1>6, <1>7, <1>8 DEF HeapHolds, Shows
<1> QED
  BY <1>9 DEF HeapState

\* myalloc.
LEMMA AllocHolds ==
    ASSUME NEW m, NEW bs, NEW A, NEW z, NEW k, HeapHolds(m, bs, -1, A, z, k),
           NEW p \in A, k[p] = 0, NEW size \in Nat, z[p] >= size
    PROVE  HeapState(Heap!Overwritten(Heap!Split(Heap!WithMarker(m, p, 1), p, size), p),
                     bs \cup {p}, -1)
<1> DEFINE m1 == Heap!WithMarker(m, p, 1)
           m2 == Heap!Split(m1, p, size)
           w == Heap!Overwritten(m2, p)
<1>0. m \in Memories /\ p \in Nat /\ z[p] \in Nat /\ IsArea(m, p, z[p], k[p])
  BY Reading DEF HeapHolds
<1>1. m1 \in Memories /\ IsArea(m1, p, z[p], 1) /\ SameOutside(m1, m, p - 9, p - 8)
  BY <1>0, AreaMarked
<1> HIDE DEF m1
<1>2. CASE z[p] - size - 17 > 0
  <2>1. /\ m2 \in Memories /\ IsArea(m2, p, size, 1)
        /\ IsArea(m2, p + size + 17, z[p] - size - 17, 0)
        /\ SameOutside(m2, m1, p - 9, p + z[p] + 8)
    BY <1>1, <1>2, AreaSplit
  <2> HIDE DEF m2
  <2>2. w \in Memories /\ SameOutside(w, m2, p, p + size)
    BY <2>1, AreaOverwritten
  <2> HIDE DEF w
  <2>3. p \in Int /\ p + size \in Int /\ p + size <= p + size + 17 - 9 /\ p <= p /\ p + size <= p + size
    BY <1>0
  <2>4. IsArea(w, p, size, 1)
    BY <2>1, <2>2, <2>3, AreaKept
  <2>5. IsArea(w, p + size + 17, z[p] - size - 17, 0)
    BY <2>1, <2>2, <2>3, AreaKept
  <2>6. SameOutside(w, m, p - 9, p + z[p] + 8)
    BY <1>0, <1>1, <1>2, <2>1, <2>2, HeapNumbers DEF SameOutside
  <2>7. HeapState(w, bs \cup {p}, -1)
    BY <1>2, <2>2, <2>4, <2>5, <2>6, FreeAreaSplit
  <2> QED
    BY <2>7 DEF w, m2, m1
<1>3. CASE ~(z[p] - size - 17 > 0)
  <2>1. m2 = m1
    <3>1. Heap!GET_SIZE(m1, p - 8) = z[p] /\ z[p] - size - 17 <= 0
      BY <1>0, <1>1, <1>3 DEF IsArea
    <3>2. Heap!HeadSize(m1, p) = z[p]
      BY <1>0, <3>1, HeapMacros
    <3> QED
      BY <3>1, <3>2, HeapNumbers DEF Heap!Split
  <2> HIDE DEF m2
  <2>2. w \in Memories /\ SameOutside(w, m1, p, p + z[p])
    BY <1>1, <2>1, AreaOverwritten
  <2> HIDE DEF w
  <2>3. p \in Int /\ p + z[p] \in Int /\ p <= p /\ p + z[p] <= p + z[p]
    BY <1>0
  <2>4. IsArea(w, p, z[p], 1)
    BY <1>1, <2>2, <2>3, AreaKept
  <2>5. SameOutside(w, m, p - 9, p + z[p])
    BY <1>0, <1>1, <2>2, HeapNumbers DEF SameOutside
  <2>6. HeapState(w, bs \cup {p}, -1)
    BY <2>2, <2>4, <2>5, FreeAreaMarked
  <2> QED
    BY <2>6 DEF w, m2, m1
<1> QED
  BY <1>2, <1>3

\* The areas at p and r have become one, at p, which is being freed.
HeapJoined(w, bs, A, z, k, p, r) ==
    \E B, y, j : /\ HeapHolds(w, bs, p, B, y, j)
                 /\ Joins(A, z, p, r, B, y)
                 /\ \A q \in B : q # p => j[q] = k[q]

\* One of the two areas is being freed, and the other is free.
OneIsFreed(cur, k, p, r) ==
    \/ cur = p /\ k[r] = 0
    \/ cur = r /\ k[p] = 0

\* A turn of the loop of myfree joins the area that is being freed with one
\* that is free, in front of it or behind it.
LEMMA JoinHolds ==
    ASSUME NEW m, NEW bs, NEW cur, NEW A, NEW z, NEW k, HeapHolds(m, bs, cur, A, z, k),
           NEW p \in A, NEW r \in A, r = p + z[p] + 17,
           OneIsFreed(cur, k, p, r)
    PROVE  HeapJoined(Heap!Joined(m, p, r), bs, A, z, k, p, r)
<1>0. Tiling(A, z) /\ A \subseteq Nat /\ k \in [A -> {0, 1}] /\ bs \subseteq A /\ m \in Memories
  BY DEF HeapHolds, Tiling
<1>1. PICK w : w = Heap!Joined(m, p, r)
  OBVIOUS
<1>B. PICK B : B = A \ {r}
  OBVIOUS
<1>y. PICK y : y = [q \in B |-> IF q = p THEN z[p] + z[r] + 17 ELSE z[q]]
  OBVIOUS
<1>j. PICK j : j = [q \in B |-> IF q = p THEN 1 ELSE k[q]]
  OBVIOUS
<1>2. /\ p \in Nat /\ z[p] \in Nat /\ r \in Nat /\ z[r] \in Nat /\ p # r
      /\ IsArea(m, p, z[p], k[p]) /\ IsArea(m, r, z[r], k[r])
  <2>1. /\ p \in Nat /\ z[p] \in Nat /\ r \in Nat /\ z[r] \in Nat
        /\ IsArea(m, p, z[p], k[p]) /\ IsArea(m, r, z[r], k[r])
    BY Reading
  <2> QED
    BY <2>1
<1>3. w \in Memories /\ IsArea(w, p, z[p] + z[r] + 17, 1) /\ SameOutside(w, m, p - 9, r + z[r] + 8)
  BY <1>0, <1>1, <1>2, AreaJoined
<1>4. /\ y \in [B -> Nat] /\ y[p] = z[p] + z[r] + 17 /\ p \in B
      /\ \A q \in B : q # p => y[q] = z[q]
  <2>1. z \in [A -> Nat] /\ z[p] + z[r] + 17 \in Nat
    BY <1>0, <1>2 DEF Tiling
  <2> QED
    BY <1>2, <1>B, <1>y, <2>1
<1>5. j \in [B -> {0, 1}] /\ j[p] = 1 /\ \A q \in B : q # p => j[q] = k[q]
  BY <1>0, <1>2, <1>B, <1>j
<1>6. Joins(A, z, p, r, B, y)
  BY <1>4, <1>B DEF Joins
<1>7. Tiling(B, y)
  BY <1>0, <1>6, JoinTiling
<1>8. ASSUME NEW q \in B PROVE IsArea(w, q, y[q], j[q])
  <2>1. CASE q = p
    BY <1>3, <1>4, <1>5, <2>1
  <2>2. CASE q # p
    <3>0. q \in A /\ q # r
      BY <1>B
    <3>1. IsArea(m, q, z[q], k[q]) /\ q \in Nat /\ z[q] \in Nat
      BY <3>0, Reading
    <3>2. q + z[q] + 8 <= p - 9 \/ p + z[p] + 8 <= q - 9
      BY <1>0, <2>2, <3>0, Apart
    <3>3. q + z[q] + 8 <= r - 9 \/ r + z[r] + 8 <= q - 9
      BY <1>0, <3>0, Apart
    <3>4. q + z[q] + 8 <= p - 9 \/ r + z[r] + 8 <= q - 9
      BY <1>2, <3>1, <3>2, <3>3
    <3>5. p - 9 \in Int /\ r + z[r] + 8 \in Int
      BY <1>2
    <3>6. IsArea(w, q, z[q], k[q])
      BY <1>3, <3>1, <3>4, <3>5, AreaKept
    <3> QED
      BY <1>4, <1>5, <2>2, <3>6
  <2> QED
    BY <2>1, <2>2
<1>9. /\ cur \notin bs /\ \A q \in A : k[q] = 1 <=> q \in bs \/ q = cur
      /\ \A q \in A : q + z[q] + 17 \in A => k[q] = 1 \/ k[q + z[q] + 17] = 1
  BY DEF HeapHolds
<1>10. p \notin bs /\ r \notin bs
  BY <1>2, <1>9 DEF OneIsFreed
<1>11. \A q \in B : j[q] = 1 <=> q \in bs \/ q = p
  BY <1>5, <1>9, <1>B DEF OneIsFreed
<1>12. ASSUME NEW q \in B, q + y[q] + 17 \in B PROVE j[q] = 1 \/ j[q + y[q] + 17] = 1
  <2>1. CASE q = p
    BY <1>5, <2>1
  <2>2. CASE q # p
    <3>1. q \in A /\ y[q] = z[q] /\ j[q] = k[q] /\ q + z[q] + 17 \in A
      BY <1>4, <1>5, <1>12, <1>B, <2>2
    <3>2. k[q] = 1 \/ k[q + z[q] + 17] = 1
      BY <1>9, <3>1
    <3>3. CASE q + z[q] + 17 = p
      BY <1>5, <3>1, <3>3
    <3>4. CASE q + z[q] + 17 # p
      BY <1>5, <1>12, <3>1, <3>2, <3>4
    <3> QED
      BY <3>3, <3>4
  <2> QED
    BY <2>1, <2>2
<1>13. bs \subseteq B /\ p \in B \cup {-1}
  BY <1>0, <1>4, <1>10, <1>B
<1>14. HeapHolds(w, bs, p, B, y, j)
  BY <1>3, <1>5, <1>7, <1>8, <1>10, <1>11, <1>12, <1>13 DEF HeapHolds, Shows
<1> QED
  BY <1>1, <1>5, <1>6, <1>14 DEF HeapJoined

\* myfree ends: no neighbour is free.
LEMMA EndHolds ==
    ASSUME NEW m, NEW bs, NEW A, NEW z, NEW k, NEW p \in A, HeapHolds(m, bs, p, A, z, k),
           p + z[p] + 17 \in A => k[p + z[p] + 17] = 1,
           \A q \in A : q + z[q] + 17 = p => k[q] = 1
    PROVE  HeapState(Heap!WithMarker(m, p, 0), bs, -1)
<1>0. Tiling(A, z) /\ A \subseteq Nat /\ k \in [A -> {0, 1}] /\ bs \subseteq A /\ m \in Memories
  BY DEF HeapHolds, Tiling
<1>1. PICK w : w = Heap!WithMarker(m, p, 0)
  OBVIOUS
<1>2. p \in Nat /\ z[p] \in Nat /\ IsArea(m, p, z[p], k[p])
  BY Reading
<1>3. w \in Memories /\ IsArea(w, p, z[p], 0) /\ SameOutside(w, m, p - 9, p - 8)
  BY <1>0, <1>1, <1>2, AreaMarked
<1>j. PICK j : j = [k EXCEPT ![p] = 0]
  OBVIOUS
<1>4. j \in [A -> {0, 1}] /\ j[p] = 0 /\ \A q \in A : q # p => j[q] = k[q]
  BY <1>0, <1>j
<1>5. ASSUME NEW q \in A PROVE IsArea(w, q, z[q], j[q])
  <2>1. CASE q = p
    BY <1>3, <1>4, <2>1
  <2>2. CASE q # p
    <3>1. IsArea(m, q, z[q], k[q]) /\ q \in Nat /\ z[q] \in Nat
      BY Reading
    <3>2. q + z[q] + 8 <= p - 9 \/ p + z[p] + 8 <= q - 9
      BY <1>0, <2>2, Apart
    <3>3. q + z[q] + 8 <= p - 9 \/ p - 8 <= q - 9
      BY <1>2, <3>1, <3>2
    <3>4. p - 9 \in Int /\ p - 8 \in Int
      BY <1>2
    <3> QED
      BY <1>3, <1>4, <2>2, <3>1, <3>3, <3>4, AreaKept
  <2> QED
    BY <2>1, <2>2
<1>6. /\ p \notin bs /\ \A q \in A : k[q] = 1 <=> q \in bs \/ q = p
      /\ \A q \in A : q + z[q] + 17 \in A => k[q] = 1 \/ k[q + z[q] + 17] = 1
  BY DEF HeapHolds
<1>7. -1 \notin A
  BY <1>0
<1>8. \A q \in A : j[q] = 1 <=> q \in bs \/ q = -1
  BY <1>4, <1>6, <1>7
<1>9. ASSUME NEW q \in A, q + z[q] + 17 \in A PROVE j[q] = 1 \/ j[q + z[q] + 17] = 1
  <2>0. q \in Nat /\ z[q] \in Nat
    BY Reading
  <2>1. CASE q = p
    <3>1. q + z[q] + 17 # p
      BY <1>2, <2>1
    <3> QED
      BY <1>4, <1>9, <2>1, <3>1
  <2>2. CASE q # p
    <3>1. CASE q + z[q] + 17 = p
      BY <1>4, <2>2, <3>1
    <3>2. CASE q + z[q] + 17 # p
      BY <1>4, <1>6, <1>9, <2>2, <3>2
    <3> QED
      BY <3>1, <3>2
  <2> QED
    BY <2>1, <2>2
<1>10. HeapHolds(w, bs, -1, A, z, j)
  BY <1>0, <1>3, <1>4, <1>5, <1>7, <1>8, <1>9 DEF HeapHolds, Shows
<1> QED
  BY <1>1, <1>10 DEF HeapState

-----------------------------------------------------------------------------
(* The areas that the loop of myalloc passes.                              *)

\* One step of the loop.
HeapTurn(m, f, n) ==
    IF n = 0 THEN Heap!logical_memory_area_start
    ELSE IF f[n - 1] >= logical_memory_area_size THEN f[n - 1]
    ELSE Heap!GET_NEXT_AREA(m, f[n - 1])

Steps == logical_memory_area_size \div Heap!SPACE_BETWEEN_CHUNKS

LEMMA StepsBound == Steps \in Nat /\ logical_memory_area_size < 17 * Steps + 17
  BY HeapNumbers DEF Steps

LEMMA HeapWalkExists ==
    ASSUME NEW m, NEW t \in Nat
    PROVE  \E f : f = [i \in 0 .. t |-> HeapTurn(m, f, i)]
<1> DEFINE S == {b \in 0 .. t : \E f : f = [i \in 0 .. b |-> HeapTurn(m, f, i)]}
<1>1. 0 \in S
  <2> DEFINE f == [i \in 0 .. 0 |-> Heap!logical_memory_area_start]
  <2>1. \A i \in 0 .. 0 : HeapTurn(m, f, i) = Heap!logical_memory_area_start
    BY DEF HeapTurn
  <2>2. f = [i \in 0 .. 0 |-> HeapTurn(m, f, i)]
    BY <2>1
  <2>3. 0 \in 0 .. t
    OBVIOUS
  <2> HIDE DEF f
  <2> QED
    BY <2>2, <2>3
<1>2. ASSUME NEW b \in 0 .. t - 1, b \in S PROVE b + 1 \in S
  <2>1. PICK f : f = [i \in 0 .. b |-> HeapTurn(m, f, i)]
    BY <1>2
  <2> DEFINE g == [i \in 0 .. b + 1 |-> IF i = b + 1 THEN HeapTurn(m, f, i) ELSE f[i]]
  <2>2. \A i \in 0 .. b : g[i] = f[i] /\ f[i] = HeapTurn(m, f, i)
    <3>1. \A i \in 0 .. b : i \in 0 .. b + 1 /\ i # b + 1
      OBVIOUS
    <3>2. \A i \in 0 .. b : g[i] = f[i]
      BY <3>1
    <3>3. \A i \in 0 .. b : f[i] = HeapTurn(m, f, i)
      BY <2>1, Zenon
    <3> QED
      BY <3>2, <3>3
  <2>3. b + 1 \in 0 .. b + 1 /\ g[b + 1] = HeapTurn(m, f, b + 1)
    OBVIOUS
  <2>4. g = [i \in 0 .. b + 1 |-> g[i]]
    OBVIOUS
  <2> HIDE DEF g
  <2>5. ASSUME NEW i \in 0 .. b + 1 PROVE g[i] = HeapTurn(m, g, i)
    <3>1. i # 0 => i - 1 \in 0 .. b
      OBVIOUS
    <3>2. HeapTurn(m, g, i) = HeapTurn(m, f, i)
      BY <2>2, <3>1 DEF HeapTurn
    <3>3. CASE i = b + 1
      BY <2>3, <3>2, <3>3
    <3>4. CASE i # b + 1
      <4>1. i \in 0 .. b
        BY <3>4
      <4> QED
        BY <2>2, <3>2, <4>1
    <3> QED
      BY <3>3, <3>4
  <2>6. g = [i \in 0 .. b + 1 |-> HeapTurn(m, g, i)]
    BY <2>4, <2>5
  <2>7. b + 1 \in 0 .. t
    OBVIOUS
  <2> QED
    BY <2>6, <2>7
<1> HIDE DEF S
<1>3. \A b \in 0 .. t : b \in S
  BY <1>1, <1>2, UpTo
<1>4. t \in S
  BY <1>3
<1> QED
  BY <1>4 DEF S

\* The walk from tag to tag finds just the areas, and ends with the memory.
LEMMA AreasFound ==
    ASSUME NEW m, NEW bs, NEW cur, NEW A, NEW z, NEW k, HeapHolds(m, bs, cur, A, z, k)
    PROVE  /\ Heap!Areas(m) = A
           /\ Heap!Walk(m)[Steps] = logical_memory_area_size + 9
<1> DEFINE w == CHOOSE f : f = [i \in 0 .. Steps |-> HeapTurn(m, f, i)]
<1>1. Heap!Walk(m) = w
  BY DEF Heap!Walk, HeapTurn, Steps
<1>2. w = [i \in 0 .. Steps |-> HeapTurn(m, w, i)]
  BY StepsBound, HeapWalkExists
<1> HIDE DEF w
<1>3. \A i \in 0 .. Steps : w[i] = HeapTurn(m, w, i)
  BY <1>2, Zenon
<1>4. DOMAIN w = 0 .. Steps
  BY <1>2
<1>5. /\ A \subseteq Nat /\ 9 \in A /\ z \in [A -> Nat]
      /\ \A p \in A : /\ p >= 9 /\ p + z[p] + 8 <= logical_memory_area_size
                      /\ p + z[p] + 8 = logical_memory_area_size \/ p + z[p] + 17 \in A
      /\ \A p, q \in A : p < q => p + z[p] + 17 <= q
  BY DEF HeapHolds, Tiling
<1>6. w[0] = 9
  BY <1>3, StepsBound, HeapNumbers DEF HeapTurn
\* From an area the walk goes on to the next.
<1>7. ASSUME NEW i \in 0 .. Steps - 1, w[i] \in A
      PROVE  w[i + 1] = w[i] + z[w[i]] + 17
  <2>1. i + 1 \in 0 .. Steps /\ i + 1 # 0 /\ i + 1 - 1 = i
    BY StepsBound
  <2>2. Heap!GET_NEXT_AREA(m, w[i]) = w[i] + z[w[i]] + 17
    BY <1>7, Reading
  <2>3. ~(w[i] >= logical_memory_area_size)
    <3>1. /\ w[i] \in Nat /\ z[w[i]] \in Nat
          /\ w[i] + z[w[i]] + 8 <= logical_memory_area_size
      BY <1>5, <1>7
    <3> QED
      BY <3>1, HeapNumbers
  <2>4. w[i + 1] = HeapTurn(m, w, i + 1)
    BY <1>3, <2>1
  <2> QED
    BY <2>1, <2>2, <2>3, <2>4 DEF HeapTurn
<1>8. ASSUME NEW i \in 0 .. Steps - 1, w[i] = logical_memory_area_size + 9
      PROVE  w[i + 1] = logical_memory_area_size + 9
  <2>1. i + 1 \in 0 .. Steps /\ i + 1 # 0 /\ i + 1 - 1 = i
    BY StepsBound
  <2>2. w[i] >= logical_memory_area_size
    BY <1>8, HeapNumbers
  <2>3. w[i + 1] = HeapTurn(m, w, i + 1)
    BY <1>3, <2>1
  <2> QED
    BY <1>8, <2>1, <2>2, <2>3 DEF HeapTurn
\* It goes over areas, then stays behind the memory.
<1> DEFINE P == {i \in 0 .. Steps : \/ w[i] \in A /\ w[i] >= 9 + 17 * i
                                    \/ w[i] = logical_memory_area_size + 9}
<1>9. \A i \in 0 .. Steps : i \in P
  <2>1. 0 \in P
    BY <1>5, <1>6, StepsBound
  <2>2. ASSUME NEW i \in 0 .. Steps - 1, i \in P PROVE i + 1 \in P
    <3>1. i + 1 \in 0 .. Steps /\ i \in Nat
      BY StepsBound
    <3>2. CASE w[i] \in A /\ w[i] >= 9 + 17 * i
      <4>1. w[i + 1] = w[i] + z[w[i]] + 17 /\ w[i] \in Nat /\ z[w[i]] \in Nat
        BY <1>5, <1>7, <3>2
      <4>2. \/ w[i] + z[w[i]] + 8 = logical_memory_area_size
            \/ w[i] + z[w[i]] + 17 \in A
        BY <1>5, <3>2
      <4>3. w[i + 1] >= 9 + 17 * (i + 1)
        BY <3>1, <3>2, <4>1
      <4>4. w[i + 1] = logical_memory_area_size + 9 \/ w[i + 1] \in A
        BY <4>1, <4>2, HeapNumbers
      <4> QED
        BY <3>1, <4>3, <4>4
    <3>3. CASE w[i] = logical_memory_area_size + 9
      BY <1>8, <3>1, <3>3
    <3> QED
      BY <2>2, <3>2, <3>3
  <2> HIDE DEF P
  <2> QED
    BY <2>1, <2>2, StepsBound, UpTo
<1>10. \A i \in 0 .. Steps : w[i] \in A \/ w[i] = logical_memory_area_size + 9
  BY <1>9
<1>11. w[Steps] \notin A
  <2>1. SUFFICES ASSUME w[Steps] \in A PROVE FALSE
    OBVIOUS
  <2>2. Steps \in P /\ Steps \in Nat
    BY <1>9, StepsBound
  <2>3. w[Steps] \in Nat /\ w[Steps] + 8 <= logical_memory_area_size
    <3>1. w[Steps] \in Nat /\ z[w[Steps]] \in Nat /\ w[Steps] + z[w[Steps]] + 8 <= logical_memory_area_size
      BY <1>5, <2>1
    <3> QED
      BY <3>1, HeapNumbers
  <2>4. w[Steps] >= 9 + 17 * Steps
    <3>1. w[Steps] # logical_memory_area_size + 9
      BY <2>3, HeapNumbers
    <3> QED
      BY <2>2, <3>1
  <2> HIDE DEF P
  <2> QED
    BY <2>2, <2>3, <2>4, StepsBound, HeapNumbers
<1>12. w[Steps] = logical_memory_area_size + 9
  BY <1>10, <1>11, StepsBound
<1> HIDE DEF P
\* No area is passed over.
<1>13. ASSUME NEW a \in A PROVE \E i \in 0 .. Steps : w[i] = a
  <2>0. a \in Nat /\ a >= 9 /\ a + z[a] + 8 <= logical_memory_area_size /\ z[a] \in Nat
    BY <1>5
  <2> DEFINE Q == {n \in 0 .. Steps : \/ \E i \in 0 .. Steps : w[i] = a
                                      \/ w[n] < a /\ w[n] \in A}
  <2>1. 0 \in Q
    <3>1. 0 \in 0 .. Steps
      BY StepsBound
    <3> QED
      BY <1>5, <1>6, <2>0, <3>1
  <2>2. ASSUME NEW n \in 0 .. Steps - 1, n \in Q PROVE n + 1 \in Q
    <3>1. n + 1 \in 0 .. Steps
      BY StepsBound
    <3>2. CASE w[n] < a /\ w[n] \in A
      <4>1. w[n] + z[w[n]] + 17 <= a
        BY <1>5, <3>2
      <4>2. w[n + 1] = w[n] + z[w[n]] + 17 /\ w[n] \in Nat /\ z[w[n]] \in Nat
        BY <1>5, <1>7, <3>2
      <4>3. w[n + 1] # logical_memory_area_size + 9
        BY <2>0, <4>1, <4>2, HeapNumbers
      <4>4. w[n + 1] \in A /\ (w[n + 1] = a \/ w[n + 1] < a)
        BY <1>10, <2>0, <3>1, <4>1, <4>2, <4>3
      <4> QED
        BY <3>1, <4>4
    <3>3. CASE \E i \in 0 .. Steps : w[i] = a
      BY <3>1, <3>3
    <3> QED
      BY <2>2, <3>2, <3>3
  <2>3. \A n \in 0 .. Steps : n \in Q
    <3> HIDE DEF Q
    <3> QED
      BY <2>1, <2>2, StepsBound, UpTo
  <2>4. Steps \in Q
    BY <2>3, StepsBound
  <2> QED
    BY <1>11, <2>4
<1>14. logical_memory_area_size + 9 \notin Heap!Bytes /\ A \subseteq Heap!Bytes
  <2>1. ASSUME NEW p \in A PROVE p \in Heap!Bytes
    <3>1. p \in Nat /\ z[p] \in Nat /\ p + z[p] + 8 <= logical_memory_area_size
      BY <1>5
    <3> QED
      BY <3>1, HeapNumbers
  <2> QED
    BY <2>1, HeapNumbers
<1>15. Heap!Areas(m) = {w[i] : i \in 0 .. Steps} \cap Heap!Bytes
  BY <1>1, <1>4 DEF Heap!Areas
<1>16. {w[i] : i \in 0 .. Steps} \cap Heap!Bytes = A
  BY <1>10, <1>13, <1>14
<1> QED
  BY <1>1, <1>12, <1>15, <1>16

-----------------------------------------------------------------------------
(* The heap's steps.                                                       *)

LEMMA HeapInit ==
    ASSUME Heap!Init
    PROVE  HeapInv
<1>s. PICK size : size = logical_memory_area_size - 17
  OBVIOUS
<1>m. PICK m0 : m0 = [b \in Heap!Bytes |-> -2]
  OBVIOUS
<1>1. size \in Nat /\ 9 + size + 8 = logical_memory_area_size /\ 9 - 9 \in Heap!Bytes
  BY <1>s, HeapNumbers
<1>2. m0 \in Memories
  BY <1>m, HeapNumbers DEF Memories
<1>3. PICK m1 : m1 = Heap!WithMarker(m0, 9, 0)
  OBVIOUS
<1>4. m1 \in Memories /\ m1[9 - 9] = 0
  BY <1>1, <1>2, <1>3, MarkerWritten
<1>5. /\ Heap!WithSize(Heap!WithSize(m1, 9 - 8, size), 9 + size, size) \in Memories
      /\ IsArea(Heap!WithSize(Heap!WithSize(m1, 9 - 8, size), 9 + size, size), 9, size, 0)
  <2>1. 9 + size + 8 <= logical_memory_area_size /\ 9 \in Nat /\ 9 >= 9
    BY <1>1, HeapNumbers
  <2> QED
    BY <1>1, <1>4, <2>1, SizesWritten
<1>6. memory = Heap!WithSize(Heap!WithSize(m1, 9 - 8, size), 9 + size, size)
  <2>1. memory = Heap!WithTail(Heap!WithHead(m1, 9, size), 9, size)
    BY <1>s, <1>m, <1>3, HeapNumbers DEF Heap!Init
  <2>2. Heap!WithHead(m1, 9, size) = Heap!WithSize(m1, 9 - 8, size)
    BY WritingMacros
  <2>3. Heap!GET_SIZE(Heap!WithSize(m1, 9 - 8, size), 9 - 8) = size
    <3>1. SizePlace(9 - 8) /\ size \in 0 .. logical_memory_area_size
      BY <1>1, HeapNumbers DEF SizePlace
    <3> QED
      BY <1>4, <3>1, SizeWritten
  <2>4. Heap!WithTail(Heap!WithSize(m1, 9 - 8, size), 9, size)
           = Heap!WithSize(Heap!WithSize(m1, 9 - 8, size), 9 + size, size)
    BY <2>3, WritingMacros
  <2> QED
    BY <2>1, <2>2, <2>4
<1>z. PICK z : z = [p \in {9} |-> size]
  OBVIOUS
<1>k. PICK k : k = [p \in {9} |-> 0]
  OBVIOUS
<1>7. z \in [{9} -> Nat] /\ z[9] = size /\ k \in [{9} -> {0, 1}] /\ k[9] = 0
  BY <1>1, <1>z, <1>k
<1>8. Tiling({9}, z)
  BY <1>1, <1>7, HeapNumbers DEF Tiling
<1>9. \A p \in {9} : p + z[p] + 17 \notin {9}
  BY <1>1, <1>7
<1>10. blocks = {} /\ current_ptr = -1
  BY HeapNumbers DEF Heap!Init
<1>11. HeapHolds(memory, {}, -1, {9}, z, k)
  BY <1>5, <1>6, <1>7, <1>8, <1>9 DEF HeapHolds, Shows
<1> QED
  BY <1>10, <1>11 DEF HeapInv, HeapState

LEMMA AllocStep ==
    ASSUME HeapInv, NEW size \in RequestSizes, Heap!myalloc(size)
    PROVE  HeapInv'
<1>1. current_ptr = -1 /\ current_ptr' = -1 /\ size \in Nat
  BY HeapNumbers, HeapAssumption DEF Heap!myalloc
<1>2. PICK A, z, k : HeapHolds(memory, blocks, -1, A, z, k)
  BY <1>1 DEF HeapInv, HeapState
<1>3. Heap!Areas(memory) = A
  BY <1>2, AreasFound
<1>4. PICK p \in A :
         /\ Heap!Fits(p, size)
         /\ memory' = Heap!Overwritten(Heap!Split(Heap!WithMarker(memory, p, 1), p, size), p)
         /\ blocks' = blocks \cup {p}
  BY <1>3, HeapNumbers DEF Heap!myalloc
<1>5. k[p] = 0 /\ z[p] >= size
  BY <1>2, <1>4, Reading, HeapNumbers DEF Heap!Fits
<1>6. HeapState(Heap!Overwritten(Heap!Split(Heap!WithMarker(memory, p, 1), p, size), p),
                blocks \cup {p}, -1)
  BY <1>1, <1>2, <1>5, AllocHolds
<1>7. HeapState(memory', blocks', current_ptr')
  BY <1>1, <1>4, <1>6
<1> QED
  BY <1>7 DEF HeapInv, HeapState

LEMMA FreeBeginsStep ==
    ASSUME HeapInv, NEW p \in blocks, Heap!FreeBegins(p)
    PROVE  HeapInv'
<1>1. /\ current_ptr = -1 /\ current_ptr' = p /\ blocks' = blocks \ {p} /\ memory' = memory
  BY HeapNumbers DEF Heap!FreeBegins
<1>2. PICK A, z, k : HeapHolds(memory, blocks, -1, A, z, k)
  BY <1>1 DEF HeapInv, HeapState
<1>3. -1 \notin A /\ p \in A
  BY <1>2 DEF HeapHolds, Tiling
<1>4. \A q \in A : k[q] = 1 <=> q \in blocks \ {p} \/ q = p
  BY <1>2, <1>3 DEF HeapHolds
<1>5. HeapHolds(memory, blocks \ {p}, p, A, z, k)
  BY <1>2, <1>3, <1>4 DEF HeapHolds
<1>6. HeapState(memory', blocks', current_ptr')
  BY <1>1, <1>5 DEF HeapState
<1> QED
  BY <1>6 DEF HeapInv, HeapState

\* What the loop of myfree reads behind and in front of an area.
LEMMA Neighbours ==
    ASSUME NEW bs, NEW cur, NEW A, NEW z, NEW k, HeapHolds(memory, bs, cur, A, z, k),
           NEW p \in A
    PROVE  /\ \A q \in A : q + z[q] + 17 = p => Heap!GET_PREV_AREA(memory, p) = q
           /\ Heap!PrevIsFree(p) <=> \E q \in A : q + z[q] + 17 = p /\ k[q] = 0
           /\ Heap!HasNext(p) <=> p + z[p] + 17 \in A
           /\ Heap!NextIsFree(p) <=> p + z[p] + 17 \in A /\ k[p + z[p] + 17] = 0
<1>1. /\ p \in Nat /\ z[p] \in Nat /\ p >= 9
      /\ Heap!GET_TAIL_SIZE(memory, p) = p + z[p]
      /\ Heap!GET_SIZE(memory, p + z[p]) = z[p]
      /\ Heap!GET_NEXT_AREA(memory, p) = p + z[p] + 17
  BY Reading
<1>2. /\ p = 9 \/ \E q \in A : q + z[q] + 17 = p
      /\ p + z[p] + 8 <= logical_memory_area_size
      /\ p + z[p] + 8 = logical_memory_area_size \/ p + z[p] + 17 \in A
      /\ \A q \in A : q \in Nat /\ z[q] \in Nat /\ q >= 9
                      /\ q + z[q] + 8 <= logical_memory_area_size
  BY DEF HeapHolds, Tiling
<1>3. ASSUME NEW q \in A, q + z[q] + 17 = p
      PROVE  /\ Heap!GET_PREV_AREA(memory, p) = q /\ Heap!GET_MARKER(memory, q) = k[q]
             /\ p > 9
  <2>1. /\ q \in Nat /\ z[q] \in Nat /\ q >= 9 /\ Heap!GET_SIZE(memory, q + z[q]) = z[q]
        /\ Heap!GET_MARKER(memory, q) = k[q]
    BY Reading
  <2>2. p - 17 = q + z[q]
    BY <1>1, <1>3, <2>1
  <2>3. Heap!GET_PREV_AREA(memory, p) = p - 17 - Heap!GET_SIZE(memory, p - 17)
    BY <1>1, HeapMacros
  <2> QED
    BY <1>3, <2>1, <2>2, <2>3
<1>4. Heap!HasPrev(p) <=> p > 9
  BY <1>1, HeapNumbers DEF Heap!HasPrev
<1>5. Heap!PrevIsFree(p) <=> \E q \in A : q + z[q] + 17 = p /\ k[q] = 0
  <2>1. Heap!PrevIsFree(p) <=> p > 9 /\ Heap!GET_MARKER(memory, Heap!GET_PREV_AREA(memory, p)) = 0
    BY <1>4, HeapNumbers DEF Heap!PrevIsFree
  <2>2. ASSUME p > 9, Heap!GET_MARKER(memory, Heap!GET_PREV_AREA(memory, p)) = 0
        PROVE  \E q \in A : q + z[q] + 17 = p /\ k[q] = 0
    <3>1. PICK q \in A : q + z[q] + 17 = p
      BY <1>2, <2>2
    <3>2. Heap!GET_PREV_AREA(memory, p) = q /\ Heap!GET_MARKER(memory, q) = k[q]
      BY <1>3, <3>1
    <3>3. k[q] = 0
      BY <2>2, <3>2
    <3> QED
      BY <3>1, <3>3
  <2>3. ASSUME NEW q \in A, q + z[q] + 17 = p, k[q] = 0
        PROVE  p > 9 /\ Heap!GET_MARKER(memory, Heap!GET_PREV_AREA(memory, p)) = 0
    <3>1. /\ Heap!GET_PREV_AREA(memory, p) = q /\ Heap!GET_MARKER(memory, q) = k[q]
          /\ p > 9
      BY <1>3, <2>3
    <3> QED
      BY <2>3, <3>1
  <2> QED
    BY <2>1, <2>2, <2>3
<1>6. Heap!HasNext(p) <=> p + z[p] + 8 < logical_memory_area_size
  BY <1>1, HeapNumbers DEF Heap!HasNext
<1>7. Heap!HasNext(p) <=> p + z[p] + 17 \in A
  <2>1. p + z[p] + 17 \in A => p + z[p] + 8 < logical_memory_area_size
    <3> SUFFICES ASSUME p + z[p] + 17 \in A PROVE p + z[p] + 8 < logical_memory_area_size
      OBVIOUS
    <3>1. PICK r \in A : r = p + z[p] + 17
      OBVIOUS
    <3>2. r \in Nat /\ z[r] \in Nat /\ r + z[r] + 8 <= logical_memory_area_size
      BY <1>2
    <3>3. r + 8 <= logical_memory_area_size /\ logical_memory_area_size \in Nat
      BY <3>2, HeapNumbers
    <3> QED
      BY <1>1, <3>1, <3>2, <3>3
  <2> QED
    BY <1>1, <1>2, <1>6, <2>1, HeapNumbers
<1>8. p + z[p] + 17 \in A => Heap!GET_MARKER(memory, p + z[p] + 17) = k[p + z[p] + 17]
  BY Reading
<1>9. Heap!NextIsFree(p) <=> p + z[p] + 17 \in A /\ k[p + z[p] + 17] = 0
  BY <1>1, <1>7, <1>8, HeapNumbers DEF Heap!NextIsFree
<1> QED
  BY <1>3, <1>5, <1>7, <1>9

LEMMA JoinStep ==
    ASSUME HeapInv, Heap!Join
    PROVE  HeapInv'
<1>1. PICK p, A, z, k : p = current_ptr /\ HeapHolds(memory, blocks, p, A, z, k)
  BY DEF HeapInv, HeapState
<1>A. p \in A
  BY <1>1, HeapNumbers DEF HeapHolds, Heap!Join
<1>2. p \in A /\ A \subseteq Nat /\ z \in [A -> Nat] /\ p \in Nat /\ z[p] \in Nat
  BY <1>1, HeapNumbers DEF HeapHolds, Tiling, Heap!Join
<1>3. /\ \A q \in A : q + z[q] + 17 = p => Heap!GET_PREV_AREA(memory, p) = q
      /\ Heap!PrevIsFree(p) <=> \E q \in A : q + z[q] + 17 = p /\ k[q] = 0
      /\ Heap!NextIsFree(p) <=> p + z[p] + 17 \in A /\ k[p + z[p] + 17] = 0
  <2>1. /\ \A q \in A : q + z[q] + 17 = p => Heap!GET_PREV_AREA(memory, p) = q
        /\ Heap!PrevIsFree(p) <=> \E q \in A : q + z[q] + 17 = p /\ k[q] = 0
        /\ Heap!HasNext(p) <=> p + z[p] + 17 \in A
        /\ Heap!NextIsFree(p) <=> p + z[p] + 17 \in A /\ k[p + z[p] + 17] = 0
    BY <1>1, <1>A, Neighbours
  <2> QED
    BY <2>1
<1>r. PICK r : r = p + z[p] + 17
  OBVIOUS
<1>4. Heap!GET_NEXT_AREA(memory, p) = r
  BY <1>1, <1>2, <1>r, Reading
<1>5. blocks' = blocks /\ (Heap!PrevIsFree(p) \/ Heap!NextIsFree(p))
  BY <1>1 DEF Heap!Join
<1>6. CASE ~Heap!PrevIsFree(p)
  <2>1. memory' = Heap!Joined(memory, p, r) /\ current_ptr' = p
    BY <1>1, <1>4, <1>5, <1>6 DEF Heap!Join
  <2>2. r \in A /\ k[r] = 0
    BY <1>3, <1>5, <1>6, <1>r
  <2>3. HeapJoined(Heap!Joined(memory, p, r), blocks, A, z, k, p, r)
    <3>1. r \in A /\ OneIsFreed(p, k, p, r)
      BY <2>2 DEF OneIsFreed
    <3>2. HeapHolds(memory, blocks, p, A, z, k)
      BY <1>1
    <3> QED
      BY <1>A, <1>r, <3>1, <3>2, JoinHolds
  <2>4. HeapState(memory', blocks', current_ptr')
    BY <1>5, <2>1, <2>3 DEF HeapState, HeapJoined
  <2> QED
    BY <2>4 DEF HeapInv, HeapState
<1>7. CASE Heap!PrevIsFree(p)
  <2>1. PICK q \in A : q + z[q] + 17 = p /\ k[q] = 0
    BY <1>3, <1>7
  <2>2. Heap!GET_PREV_AREA(memory, p) = q /\ q \in Nat /\ z[q] \in Nat
    BY <1>2, <1>3, <2>1
  <2>3. PICK B, y, j : /\ HeapHolds(Heap!Joined(memory, q, p), blocks, q, B, y, j)
                       /\ Joins(A, z, q, p, B, y)
                       /\ \A t \in B : t # q => j[t] = k[t]
    <3>1. p = q + z[q] + 17
      BY <2>1
    <3>2. HeapJoined(Heap!Joined(memory, q, p), blocks, A, z, k, q, p)
      <4>1. OneIsFreed(p, k, q, p)
        BY <2>1 DEF OneIsFreed
      <4> QED
        BY <1>1, <1>A, <3>1, <4>1, JoinHolds
    <3> QED
      BY <3>2 DEF HeapJoined
  <2>4. current_ptr' = q
    BY <1>1, <1>7, <2>2 DEF Heap!Join
  <2>5. CASE ~Heap!NextIsFree(p)
    <3>1. memory' = Heap!Joined(memory, q, p)
      BY <1>1, <1>7, <2>2, <2>5 DEF Heap!Join
    <3>2. HeapState(memory', blocks', current_ptr')
      BY <1>5, <2>3, <2>4, <3>1 DEF HeapState
    <3> QED
      BY <3>2 DEF HeapInv, HeapState
  <2>6. CASE Heap!NextIsFree(p)
    <3>1. memory' = Heap!Joined(Heap!Joined(memory, q, p), q, r)
      BY <1>1, <1>4, <1>7, <2>2, <2>6 DEF Heap!Join
    <3>2. r \in A /\ k[r] = 0 /\ r # p /\ r # q
      BY <1>2, <1>3, <1>r, <2>1, <2>2, <2>6
    <3>3. r \in B /\ q \in B /\ y[q] = z[q] + z[p] + 17
      BY <2>1, <2>2, <2>3, <3>2, <1>2 DEF Joins
    <3>4. r = q + y[q] + 17 /\ j[r] = 0
      BY <1>2, <1>r, <2>1, <2>2, <2>3, <3>2, <3>3
    <3>5. PICK m1 : m1 = Heap!Joined(memory, q, p)
      OBVIOUS
    <3>6. HeapHolds(m1, blocks, q, B, y, j)
      BY <2>3, <3>5
    <3>7. HeapJoined(Heap!Joined(m1, q, r), blocks, B, y, j, q, r)
      <4>1. r \in B /\ q \in B /\ r = q + y[q] + 17
            /\ OneIsFreed(q, j, q, r)
        BY <3>3, <3>4 DEF OneIsFreed
      <4> QED
        BY <3>6, <4>1, JoinHolds
    <3>8. HeapState(memory', blocks', current_ptr')
      BY <1>5, <2>4, <3>1, <3>5, <3>7 DEF HeapState, HeapJoined
    <3> QED
      BY <3>8 DEF HeapInv, HeapState
  <2> QED
    BY <2>5, <2>6
<1> QED
  BY <1>6, <1>7

LEMMA FreeEndsStep ==
    ASSUME HeapInv, Heap!FreeEnds
    PROVE  HeapInv'
<1>1. PICK p, A, z, k : p = current_ptr /\ HeapHolds(memory, blocks, p, A, z, k)
  BY DEF HeapInv, HeapState
<1>2. p \in A
  BY <1>1, HeapNumbers DEF HeapHolds, Heap!FreeEnds
<1>3. /\ memory' = Heap!WithMarker(memory, p, 0) /\ blocks' = blocks /\ current_ptr' = -1
      /\ ~Heap!PrevIsFree(p) /\ ~Heap!NextIsFree(p)
  BY <1>1, HeapNumbers DEF Heap!FreeEnds
<1>4. \A q \in A : k[q] \in {0, 1}
  BY <1>1 DEF HeapHolds
<1>5. /\ p + z[p] + 17 \in A => k[p + z[p] + 17] = 1
      /\ \A q \in A : q + z[q] + 17 = p => k[q] = 1
  <2>1. /\ ~\E q \in A : q + z[q] + 17 = p /\ k[q] = 0
        /\ ~(p + z[p] + 17 \in A /\ k[p + z[p] + 17] = 0)
    BY <1>1, <1>2, <1>3, Neighbours
  <2> QED
    BY <1>4, <2>1
<1>6. HeapState(Heap!WithMarker(memory, p, 0), blocks, -1)
  BY <1>1, <1>2, <1>5, EndHolds
<1>7. HeapState(memory', blocks', current_ptr')
  BY <1>3, <1>6
<1> QED
  BY <1>7 DEF HeapInv, HeapState

LEMMA HeapNext ==
    ASSUME HeapInv, [Heap!Next]_heapVars
    PROVE  HeapInv'
<1>1. CASE \E size \in RequestSizes : Heap!myalloc(size)
  BY <1>1, AllocStep
<1>2. CASE \E p \in blocks : Heap!FreeBegins(p)
  BY <1>2, FreeBeginsStep
<1>3. CASE Heap!Join
  BY <1>3, JoinStep
<1>4. CASE Heap!FreeEnds
  BY <1>4, FreeEndsStep
<1>5. CASE UNCHANGED heapVars
  BY <1>5 DEF heapVars, HeapInv, HeapState
<1> QED
  BY <1>1, <1>2, <1>3, <1>4, <1>5 DEF Heap!Next

LEMMA InvHeapTypeOK ==
    ASSUME HeapInv
    PROVE  Heap!TypeOK
<1>1. PICK A, z, k : HeapHolds(memory, blocks, current_ptr, A, z, k)
  BY DEF HeapInv, HeapState
<1>2. ASSUME NEW p \in A PROVE p \in Heap!Bytes
  BY <1>1, Reading, HeapNumbers
<1>3. memory \in Memories /\ blocks \subseteq A /\ current_ptr \in A \cup {-1}
  BY <1>1 DEF HeapHolds
<1> QED
  BY <1>2, <1>3, HeapNumbers DEF Heap!TypeOK, Memories

LEMMA InvHeapTiled ==
    ASSUME HeapInv
    PROVE  HeapTiled
<1>1. PICK A, z, k : HeapHolds(memory, blocks, current_ptr, A, z, k)
  BY DEF HeapInv, HeapState
<1>2. Heap!Areas(memory) = A /\ Heap!Walk(memory)[Steps] = logical_memory_area_size + 9
  BY <1>1, AreasFound
<1>3. \A p \in A : /\ Heap!GET_TAIL_SIZE(memory, p) = p + z[p]
                   /\ Heap!GET_SIZE(memory, p + z[p]) = z[p]
                   /\ Heap!HeadSize(memory, p) = z[p]
                   /\ Heap!GET_MARKER(memory, p) = k[p] /\ k[p] \in {0, 1}
                   /\ Heap!GET_NEXT_AREA(memory, p) = p + z[p] + 17
  BY <1>1, Reading
<1>4. /\ blocks \subseteq A /\ current_ptr \in A \cup {-1} /\ -1 \notin A
      /\ \A p \in A : k[p] = 1 <=> p \in blocks \/ p = current_ptr
      /\ \A p \in A : p + z[p] + 17 \in A => k[p] = 1 \/ k[p + z[p] + 17] = 1
  BY <1>1 DEF HeapHolds, Tiling
<1>5. {p \in A : Heap!GET_MARKER(memory, p) = Heap!ALLOCATED}
        = blocks \cup ({current_ptr} \ {Heap!NoArea})
  BY <1>3, <1>4, HeapNumbers
<1>6. ASSUME NEW p \in A, current_ptr = Heap!NoArea, p \notin blocks, Heap!HasNext(p)
      PROVE  Heap!GET_NEXT_AREA(memory, p) \in blocks
  <2>1. p + z[p] + 17 \in A
    BY <1>1, <1>6, Neighbours
  <2>2. current_ptr \notin A /\ k[p] # 1
    BY <1>4, <1>6, HeapNumbers
  <2>3. k[p + z[p] + 17] = 1
    BY <1>4, <2>1, <2>2
  <2> QED
    BY <1>3, <1>4, <2>1, <2>2, <2>3
<1>7. Heap!HeapTiled
  BY <1>2, <1>3, <1>5, <1>6, HeapNumbers DEF Heap!HeapTiled, Steps
<1> QED
  BY <1>7 DEF HeapTiled

-----------------------------------------------------------------------------
(* The theorems.                                                           *)

\* Whatever the program allocates, frees, shrinks and releases, the lists and
\* the chains of the slab cache are as the code takes them to be.
THEOREM SlabsInvariant ==
    ASSUME SeveralObjects
    PROVE  MCSpec => []SlabInv
<1>1. MCInit => SlabInv
  BY SlabsInit DEF MCInit
<1>2. SlabInv /\ [MCNext]_<<used, vars, heapVars>> => SlabInv'
  <2>1. [MCNext]_<<used, vars, heapVars>> => [Next]_vars
    BY DEF MCNext, UsesSlabs, UsesHeap
  <2> QED
    BY <2>1, SlabsNext
<1> QED
  BY <1>1, <1>2, PTL DEF MCSpec

\* Every slab is on exactly the list its amount of free chunks calls for, and
\* the links of the lists agree, after any sequence of calls.
THEOREM ListsPartition ==
    ASSUME SeveralObjects
    PROVE  MCSpec => []ListsPartitionSlabs
  BY SlabsInvariant, InvListsPartition, PTL

\* The chain of a slab leads through just the chunks nobody holds, and as many
\* as the slab counts; a slab somebody has chunks of is not given back.
THEOREM ChainsAreSound ==
    ASSUME SeveralObjects
    PROVE  MCSpec => []FreeChainSound
  BY SlabsInvariant, InvFreeChain, PTL

\* A slab is asked for only when no slab has a free chunk.
THEOREM GrowsOnlyWhenFull ==
    ASSUME SeveralObjects
    PROVE  MCSpec => GrowsWhenFull
<1>1. SlabInv /\ [MCNext]_<<used, vars, heapVars>>
        => [\A s \in mapped' \ mapped : \A t \in mapped : header[t].amount = 0]_vars
  <2>1. [MCNext]_<<used, vars, heapVars>> => [Next]_vars
    BY DEF MCNext, UsesSlabs, UsesHeap
  <2> QED
    BY <2>1, GrowsStep
<1> QED
  BY <1>1, SlabsInvariant, PTL DEF MCSpec, GrowsWhenFull

\* slab.h:54 holds of these sizes: what cache_alloc returns is a chunk, and one
\* the caller does not hold already.
THEOREM EntriesAreNew ==
    ASSUME SeveralObjects
    PROVE  MCSpec => []NewEntry
<1>1. SlabInv => NewEntry
  <2> SUFFICES ASSUME SlabInv PROVE NewEntry
    OBVIOUS
  <2>1. CASE slab_objects = 0
    BY <2>1 DEF SlabInv, NewEntry
  <2>2. CASE slab_objects # 0
    BY <2>2, SlabFacts DEF SlabInv, HoldersHold, NewEntry
  <2> QED
    BY <2>1, <2>2
<1> QED
  BY <1>1, SlabsInvariant, PTL

\* Whatever the program allocates and frees, the memory of allocator.c is a row
\* of areas that fit their tags.
THEOREM HeapInvariant == MCSpec => []HeapInv
<1>1. MCInit => HeapInv
  BY HeapInit DEF MCInit
<1>2. HeapInv /\ [MCNext]_<<used, vars, heapVars>> => HeapInv'
  <2>1. [MCNext]_<<used, vars, heapVars>> => [Heap!Next]_heapVars
    BY DEF MCNext, UsesSlabs, UsesHeap
  <2> QED
    BY <2>1, HeapNext
<1> QED
  BY <1>1, <1>2, PTL DEF MCSpec

\* The walk of myalloc over tags finds areas that end with the memory, whatever
\* callers write to their blocks and at each turn of the loop of myfree; those
\* marked as allocated are the caller's, and outside myfree no two others are
\* neighbours.  For every size of the memory and every request.
THEOREM HeapIsTiled == MCSpec => []HeapTiled
  BY HeapInvariant, InvHeapTiled, PTL

\* The types of both allocators: no link leads out of the slabs, and no tag of
\* the heap is greater than the memory.
THEOREM AllocatorsTypeCorrect ==
    ASSUME SeveralObjects
    PROVE  MCSpec => []AllocatorsTypeOK
<1>1. SlabInv /\ HeapInv => AllocatorsTypeOK
  BY InvHeapTypeOK DEF AllocatorsTypeOK, SlabInv
<1> QED
  BY <1>1, SlabsInvariant, HeapInvariant, PTL
=============================================================================
