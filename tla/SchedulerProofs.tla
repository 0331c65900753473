-------------------------- MODULE SchedulerProofs ---------------------------
(***************************************************************************)
(* Proofs about Scheduler.tla, for any set of nodes, ids and timeslices.   *)
(* The inductive invariant is the conjunction of the safety properties the *)
(* runs check: work conservation needs OneRunning (only the thread that    *)
(* leaves the CPU changes the READY set) and that the list holds the live  *)
(* threads (a READY thread is on it, so the scan finds it).                *)
(* The proofs speak of the sequence of nodes a scan passes.  What the      *)
(* relinking of an operation makes of that sequence is shown once, in the  *)
(* lemmas about the links: NewThreadLinks, ExitLinks and PushLinks.        *)
(* The refinement of RoundRobin follows from it, an entry point at a time: *)
(* the line of the abstract scheduler is the list without the nodes that   *)
(* are not READY.                                                          *)
(***************************************************************************)
EXTENDS Scheduler, SequenceTheorems, FiniteSetTheorems, WellFoundedInduction, TLAPS

\* The types, with what a scan of the list passes in place of its links.
FieldsOK == /\ max_time_on_cpu \in Timeslices \cup {0}
            /\ Queue \in Seq(Nodes)
            /\ running_thread \in Nodes \cup {NULL}
            /\ thread_id \in [Nodes -> ThreadIds]
            /\ state \in [Nodes -> States]
            /\ time_quantums \in [Nodes -> Nat]

\* A scan passes every allocated node, once.
HoldsLive == /\ Distinct(Queue)
             /\ \A n \in Nodes : state[n] # "FREE" <=> Linked(Queue, n)

\* The links go through what a scan passes, both ways, from head to tail.
LinksOK == /\ {threads_queue, tail_threads_queue} \subseteq Nodes \cup {NULL}
           /\ {next, prev} \subseteq [Nodes -> Nodes \cup {NULL}]
           /\ IsList(Queue, threads_queue, tail_threads_queue, next, prev)

IInv == /\ FieldsOK
        /\ LinksOK
        /\ HoldsLive
        /\ OneRunning
        /\ WorkConserving
        /\ QuantaBounded

-----------------------------------------------------------------------------
(* The sequence a scan passes, and what the operations make of it.         *)

PositionOf(q, n) == CHOOSE i \in 1..Len(q) : q[i] = n

\* q without its node n, and with n moved behind the others.
Without(q, n) == RemoveAt(q, PositionOf(q, n))
ToTail(q, n) == Append(Without(q, n), n)

-----------------------------------------------------------------------------
(* Lemmas about the list operations.                                       *)

\* Appending a node that is not linked keeps the list well formed and the
\* order of the nodes already there.
LEMMA AppendNode ==
    ASSUME NEW q \in Seq(Nodes), NEW n \in Nodes, Distinct(q), ~Linked(q, n)
    PROVE  /\ Append(q, n) \in Seq(Nodes)
           /\ Distinct(Append(q, n))
           /\ \A m \in Nodes : Linked(Append(q, n), m) <=> Linked(q, m) \/ m = n
           /\ \A m, p \in Nodes : Before(q, m, p) => Before(Append(q, n), m, p)
<1> DEFINE r == Append(q, n)
<1>1. /\ r \in Seq(Nodes)
      /\ Len(r) = Len(q) + 1
      /\ \A i \in 1..Len(q) : r[i] = q[i]
      /\ r[Len(q) + 1] = n
      /\ Len(q) \in Nat
  BY AppendProperties
<1> HIDE DEF r
<1>2. Distinct(r)
  BY <1>1 DEF Distinct, Linked
<1>3. ASSUME NEW m \in Nodes PROVE Linked(r, m) <=> Linked(q, m) \/ m = n
  <2>1. ASSUME Linked(r, m), m # n PROVE Linked(q, m)
    BY <1>1, <2>1 DEF Linked
  <2>2. ASSUME Linked(q, m) PROVE Linked(r, m)
    BY <1>1, <2>2 DEF Linked
  <2>3. Linked(r, n)
    <3>1. Len(q) + 1 \in 1..Len(r)
      BY <1>1
    <3> QED  BY <1>1, <3>1 DEF Linked
  <2> QED  BY <2>1, <2>2, <2>3
<1>4. ASSUME NEW m \in Nodes, NEW p \in Nodes, Before(q, m, p) PROVE Before(r, m, p)
  <2>1. PICK i, j \in 1..Len(q) : i < j /\ q[i] = m /\ q[j] = p
    BY <1>4 DEF Before
  <2>2. i \in 1..Len(r) /\ j \in 1..Len(r) /\ r[i] = m /\ r[j] = p
    BY <1>1, <2>1
  <2> QED  BY <2>1, <2>2 DEF Before
<1> QED  BY <1>1, <1>2, <1>3, <1>4 DEF r

\* Unlinking a linked node moves the nodes behind it up by one place.
LEMMA UnlinkAt ==
    ASSUME NEW q \in Seq(Nodes), NEW n \in Nodes, Linked(q, n)
    PROVE  LET k == PositionOf(q, n)
               r == Without(q, n)
           IN  /\ k \in 1..Len(q) /\ q[k] = n
               /\ r \in Seq(Nodes)
               /\ Len(q) \in Nat
               /\ Len(r) = Len(q) - 1
               /\ \A i \in 1..Len(r) : r[i] = IF i < k THEN q[i] ELSE q[i + 1]
<1> DEFINE k == PositionOf(q, n)
           r == Without(q, n)
<1>1. k \in 1..Len(q) /\ q[k] = n
  BY DEF Linked, PositionOf
<1>2. /\ r \in Seq(Nodes)
      /\ Len(q) \in Nat
      /\ Len(r) = Len(q) - 1
      /\ \A i \in 1..Len(r) : r[i] = IF i < k THEN q[i] ELSE q[i + 1]
  <2> DEFINE s == SubSeq(q, 1, k - 1)
             t == SubSeq(q, k + 1, Len(q))
  <2> HIDE DEF k
  <2>1. Len(q) \in Nat /\ k \in Int
    BY <1>1, LenProperties
  <2>2. s \in Seq(Nodes) /\ Len(s) = k - 1 /\ \A i \in 1..(k - 1) : s[i] = q[i]
    <3>1. \A i \in 1..(k - 1) : i \in 1..Len(q)
      BY <1>1, <2>1
    <3>2. \A i \in 1..(k - 1) : q[i] \in Nodes
      BY <3>1, ElementOfSeq
    <3>3. k - 1 \in 1-1..Len(q)
      BY <1>1, <2>1
    <3> QED  BY <1>1, <2>1, <3>1, <3>2, <3>3, SubSeqProperties
  <2>3. /\ t \in Seq(Nodes) /\ Len(t) = Len(q) - k
        /\ \A i \in 1..(Len(q) - k) : t[i] = q[k + i]
    <3>1. \A i \in (k + 1)..Len(q) : i \in 1..Len(q)
      BY <1>1, <2>1
    <3>2. \A i \in (k + 1)..Len(q) : q[i] \in Nodes
      BY <3>1, ElementOfSeq
    <3> QED  BY <1>1, <2>1, <3>1, <3>2, SubSeqProperties
  <2>4. r = s \o t
    BY DEF Without, RemoveAt, k
  <2> HIDE DEF s, t, r
  <2>5. /\ r \in Seq(Nodes) /\ Len(r) = Len(s) + Len(t)
        /\ \A i \in 1..Len(r) : r[i] = IF i <= Len(s) THEN s[i] ELSE t[i - Len(s)]
    <3>1. /\ s \o t \in Seq(Nodes) /\ Len(s \o t) = Len(s) + Len(t)
          /\ \A i \in 1..(Len(s) + Len(t)) :
                (s \o t)[i] = IF i <= Len(s) THEN s[i] ELSE t[i - Len(s)]
      BY <2>2, <2>3, ConcatProperties
    <3> QED  BY <2>4, <3>1
  <2>6. ASSUME NEW i \in 1..Len(r) PROVE r[i] = IF i < k THEN q[i] ELSE q[i + 1]
    <3>1. CASE i < k
      BY <1>1, <2>1, <2>2, <2>3, <2>5, <3>1
    <3>2. CASE i >= k
      <4>1. i - (k - 1) \in 1..(Len(q) - k) /\ k + (i - (k - 1)) = i + 1
        BY <1>1, <2>1, <2>2, <2>3, <2>5, <3>2
      <4> QED  BY <1>1, <2>1, <2>2, <2>3, <2>5, <3>2, <4>1
    <3> QED  BY <1>1, <2>1, <3>1, <3>2
  <2> QED  BY <1>1, <2>1, <2>2, <2>3, <2>5, <2>6
<1> QED  BY <1>1, <1>2 DEF k, r

\* Unlinking a linked node removes it, and only it, from the list and keeps
\* the order of the others.
LEMMA UnlinkNode ==
    ASSUME NEW q \in Seq(Nodes), NEW n \in Nodes, Distinct(q), Linked(q, n)
    PROVE  /\ Without(q, n) \in Seq(Nodes)
           /\ Distinct(Without(q, n))
           /\ \A m \in Nodes : Linked(Without(q, n), m) <=> Linked(q, m) /\ m # n
           /\ \A m, p \in Nodes : Before(q, m, p) /\ m # n /\ p # n
                                     => Before(Without(q, n), m, p)
<1> DEFINE k == PositionOf(q, n)
           r == Without(q, n)
<1>1. k \in 1..Len(q) /\ q[k] = n
  BY UnlinkAt
<1>2. /\ r \in Seq(Nodes)
      /\ Len(q) \in Nat
      /\ Len(r) = Len(q) - 1
      /\ \A i \in 1..Len(r) : r[i] = IF i < k THEN q[i] ELSE q[i + 1]
  BY UnlinkAt
<1> HIDE DEF k, r
<1>3. Distinct(r)
  <2> DEFINE f(i) == IF i < k THEN i ELSE i + 1
  <2>1. \A i \in 1..Len(r) : f(i) \in 1..Len(q) /\ r[i] = q[f(i)]
    BY <1>1, <1>2
  <2>2. \A i, j \in 1..Len(r) : f(i) = f(j) => i = j
    BY <1>1, <1>2
  <2> HIDE DEF f
  <2> QED  BY <2>1, <2>2 DEF Distinct
<1>4. ASSUME NEW i \in 1..Len(q), i # k
      PROVE  \E j \in 1..Len(r) : r[j] = q[i] /\ j = IF i < k THEN i ELSE i - 1
  BY <1>1, <1>2, <1>4
<1>5. ASSUME NEW m \in Nodes PROVE Linked(r, m) <=> Linked(q, m) /\ m # n
  <2>1. ASSUME Linked(r, m) PROVE Linked(q, m) /\ m # n
    <3>1. PICK j \in 1..Len(r) : r[j] = m
      BY <2>1 DEF Linked
    <3>2. \E i \in 1..Len(q) : q[i] = m /\ i # k
      BY <1>1, <1>2, <3>1
    <3> QED  BY <1>1, <3>2 DEF Linked, Distinct
  <2>2. ASSUME Linked(q, m), m # n PROVE Linked(r, m)
    <3>1. PICK i \in 1..Len(q) : q[i] = m
      BY <2>2 DEF Linked
    <3> QED  BY <1>1, <1>4, <2>2, <3>1 DEF Linked
  <2> QED  BY <2>1, <2>2
<1>6. ASSUME NEW m \in Nodes, NEW p \in Nodes, Before(q, m, p), m # n, p # n
      PROVE  Before(r, m, p)
  <2>1. PICK i, j \in 1..Len(q) : i < j /\ q[i] = m /\ q[j] = p
    BY <1>6 DEF Before
  <2>2. i # k /\ j # k
    BY <1>1, <1>6, <2>1
  <2>3. PICK u \in 1..Len(r) : r[u] = m /\ u = IF i < k THEN i ELSE i - 1
    BY <1>4, <2>1, <2>2
  <2>4. PICK v \in 1..Len(r) : r[v] = p /\ v = IF j < k THEN j ELSE j - 1
    BY <1>4, <2>1, <2>2
  <2>5. u < v
    BY <1>1, <1>2, <2>1, <2>2, <2>3, <2>4
  <2> QED  BY <2>3, <2>4, <2>5 DEF Before
<1> QED  BY <1>2, <1>3, <1>5, <1>6 DEF r

\* Moving a linked node to the tail keeps the list and its set of nodes; the
\* others keep their order, and all of them are now in front of it.
LEMMA PushToTail ==
    ASSUME NEW q \in Seq(Nodes), NEW n \in Nodes, Distinct(q), Linked(q, n)
    PROVE  /\ ToTail(q, n) \in Seq(Nodes)
           /\ Distinct(ToTail(q, n))
           /\ \A m \in Nodes : Linked(ToTail(q, n), m) <=> Linked(q, m)
           /\ \A m, p \in Nodes : Before(q, m, p) /\ m # n /\ p # n
                                     => Before(ToTail(q, n), m, p)
<1> DEFINE u == Without(q, n)
<1>1. /\ u \in Seq(Nodes) /\ Distinct(u)
      /\ \A m \in Nodes : Linked(u, m) <=> Linked(q, m) /\ m # n
      /\ \A m, p \in Nodes : Before(q, m, p) /\ m # n /\ p # n => Before(u, m, p)
  BY UnlinkNode
<1> HIDE DEF u
<1>2. /\ Append(u, n) \in Seq(Nodes) /\ Distinct(Append(u, n))
      /\ \A m \in Nodes : Linked(Append(u, n), m) <=> Linked(u, m) \/ m = n
      /\ \A m, p \in Nodes : Before(u, m, p) => Before(Append(u, n), m, p)
  BY <1>1, AppendNode
<1> QED  BY <1>1, <1>2 DEF ToTail, u

\* Min picks the first of the positions a scan of the list stops at.
LEMMA MinOfNats ==
    ASSUME NEW R \in SUBSET Nat, R # {}
    PROVE  Min(R) \in R /\ \A j \in R : Min(R) <= j
<1> DEFINE less == OpToRel(<, Nat)
<1>1. \A x, y \in Nat : x < y => <<x, y>> \in less
  BY DEF OpToRel
<1> HIDE DEF less
<1>2. PICK m \in R : \A j \in R : <<j, m>> \notin less
  BY WFMin, NatLessThanWellFounded DEF less
<1>3. ASSUME NEW j \in R PROVE m <= j
  <2>1. m \in Nat /\ j \in Nat
    OBVIOUS
  <2>2. ~(j < m)
    BY <1>1, <1>2, <2>1
  <2> QED  BY <2>1, <2>2
<1> QED  BY <1>3 DEF Min

-----------------------------------------------------------------------------
(* Lemmas about the line of the ready nodes.  The recursion of Line is     *)
(* unfolded once, in LineRecursion; what follows is shown position by      *)
(* position, counting up the list with UpTo.                               *)

\* Counting from 0 to m.
LEMMA UpTo ==
    ASSUME NEW m \in Nat, NEW S, 0 \in S,
           \A i \in 0..(m - 1) : i \in S => i + 1 \in S
    PROVE  \A i \in 0..m : i \in S
<1> DEFINE R == {i \in 0..m : i \notin S}
<1>1. ASSUME R # {} PROVE FALSE
  <2> DEFINE k == Min(R)
  <2>1. R \in SUBSET Nat
    OBVIOUS
  <2>2. k \in R /\ \A j \in R : k <= j
    BY <1>1, <2>1, MinOfNats
  <2> HIDE DEF k
  <2>3. k \in 1..m
    BY <2>2
  <2>4. k - 1 \in 0..(m - 1) /\ k - 1 \notin R
    BY <2>2, <2>3
  <2>5. k - 1 \in S
    BY <2>4
  <2>6. (k - 1) + 1 \in S
    BY <2>4, <2>5
  <2>7. (k - 1) + 1 = k
    BY <2>3
  <2> QED  BY <2>2, <2>6, <2>7
<1> QED  BY <1>1

\* What an element of the recursion is, given the function itself.
Step(f, q, R, i) == IF i = 0 THEN <<>>
                    ELSE IF q[i] \in R THEN Append(f[i - 1], q[i])
                    ELSE f[i - 1]

\* There is a function that satisfies the recursion.
LEMMA LineExists ==
    ASSUME NEW q \in Seq(Nodes), NEW R
    PROVE  \E f : f = [i \in 0..Len(q) |-> Step(f, q, R, i)]
<1> DEFINE S == {m \in 0..Len(q) : \E f : f = [i \in 0..m |-> Step(f, q, R, i)]}
<1>1. Len(q) \in Nat
  BY LenProperties
<1>2. 0 \in S
  <2> DEFINE f == [i \in 0..0 |-> <<>>]
  <2>1. \A i \in 0..0 : Step(f, q, R, i) = <<>>
    BY DEF Step
  <2>2. f = [i \in 0..0 |-> Step(f, q, R, i)]
    BY <2>1
  <2>3. 0 \in 0..Len(q)
    BY <1>1
  <2> HIDE DEF f
  <2> QED  BY <2>2, <2>3
<1>3. ASSUME NEW m \in 0..(Len(q) - 1), m \in S PROVE m + 1 \in S
  <2>1. PICK f : f = [i \in 0..m |-> Step(f, q, R, i)]
    BY <1>3
  <2> DEFINE g == [i \in 0..(m + 1) |-> IF i = m + 1 THEN Step(f, q, R, i) ELSE f[i]]
  <2>2. \A i \in 0..m : g[i] = f[i] /\ f[i] = Step(f, q, R, i)
    <3>1. \A i \in 0..m : i \in 0..(m + 1) /\ i # m + 1
      BY <1>1
    <3>2. \A i \in 0..m : g[i] = f[i]
      BY <3>1
    <3>3. \A i \in 0..m : f[i] = Step(f, q, R, i)
      BY <2>1, Zenon
    <3> QED  BY <3>2, <3>3
  <2>3. g[m + 1] = Step(f, q, R, m + 1)
    BY <1>1
  <2>4. DOMAIN g = 0..(m + 1) /\ g = [i \in 0..(m + 1) |-> g[i]]
    OBVIOUS
  <2> HIDE DEF g
  <2>5. ASSUME NEW i \in 0..(m + 1) PROVE g[i] = Step(g, q, R, i)
    <3>1. i # 0 => i - 1 \in 0..m
      BY <1>1
    <3>2. i # 0 => g[i - 1] = f[i - 1]
      BY <2>2, <3>1
    <3>3. Step(g, q, R, i) = Step(f, q, R, i)
      BY <3>2 DEF Step
    <3>4. g[i] = Step(f, q, R, i)
      <4>1. CASE i = m + 1
        BY <2>3, <4>1
      <4>2. CASE i # m + 1
        <5>1. i \in 0..m
          BY <1>1, <4>2
        <5> QED  BY <2>2, <5>1
      <4> QED  BY <4>1, <4>2
    <3> QED  BY <3>3, <3>4
  <2>6. g = [i \in 0..(m + 1) |-> Step(g, q, R, i)]
    BY <2>4, <2>5
  <2>7. m + 1 \in 0..Len(q)
    BY <1>1
  <2> QED  BY <2>6, <2>7
<1> HIDE DEF S
<1>4. \A i \in 0..Len(q) : i \in S
  BY <1>1, <1>2, <1>3, UpTo
<1>5. Len(q) \in S
  BY <1>1, <1>4
<1> QED  BY <1>5 DEF S

\* f is the line of each beginning of q.
Lines(f, q, R) ==
    /\ f[0] = <<>>
    /\ \A i \in 1..Len(q) : f[i] = IF q[i] \in R THEN Append(f[i - 1], q[i]) ELSE f[i - 1]

\* The lines of the beginnings of a list, of which the last is its line.
LEMMA LineRecursion ==
    ASSUME NEW q \in Seq(Nodes), NEW R
    PROVE  \E f : /\ Lines(f, q, R) /\ Line(q, R) = f[Len(q)]
                  /\ \A i \in 0..Len(q) : f[i] \in Seq(Nodes \cap R)
<1> DEFINE line == CHOOSE f : f = [i \in 0..Len(q) |-> Step(f, q, R, i)]
<1>1. Line(q, R) = line[Len(q)]
  BY DEF Line, Step
<1>2. line = [i \in 0..Len(q) |-> Step(line, q, R, i)]
  BY LineExists
<1> HIDE DEF line
<1>3. Len(q) \in Nat
  BY LenProperties
<1>4. \A i \in 0..Len(q) : line[i] = Step(line, q, R, i)
  BY <1>2
<1>5. Lines(line, q, R)
  BY <1>3, <1>4 DEF Step, Lines
<1>6. \A i \in 0..Len(q) : line[i] \in Seq(Nodes \cap R)
  <2> DEFINE S == {i \in 0..Len(q) : line[i] \in Seq(Nodes \cap R)}
  <2>1. 0 \in S
    <3>1. <<>> \in Seq(Nodes \cap R)
      BY EmptySeq
    <3>2. line[0] = <<>> /\ 0 \in 0..Len(q)
      BY <1>3, <1>5 DEF Lines
    <3> QED  BY <3>1, <3>2
  <2>2. ASSUME NEW i \in 0..(Len(q) - 1), i \in S PROVE i + 1 \in S
    <3>1. /\ i + 1 \in 1..Len(q) /\ (i + 1) - 1 = i
          /\ line[i] \in Seq(Nodes \cap R)
      BY <1>3, <2>2
    <3>2. q[i + 1] \in Nodes
      BY <3>1, ElementOfSeq
    <3>3. line[i + 1] = IF q[i + 1] \in R THEN Append(line[i], q[i + 1]) ELSE line[i]
      BY <1>5, <3>1 DEF Lines
    <3>4. line[i + 1] \in Seq(Nodes \cap R)
      BY <3>1, <3>2, <3>3, AppendProperties
    <3> QED  BY <3>1, <3>4, <1>3
  <2> HIDE DEF S
  <2>3. \A i \in 0..Len(q) : i \in S
    BY <1>3, <2>1, <2>2, UpTo
  <2> QED  BY <2>3 DEF S
<1> QED  BY <1>1, <1>5, <1>6

\* Two lists whose members of R are the same up to positions i and j.
LEMMA LinesAgree ==
    ASSUME NEW q \in Seq(Nodes), NEW R, NEW f, Lines(f, q, R),
           NEW r \in Seq(Nodes), NEW T, NEW g, Lines(g, r, T),
           NEW m \in 0..Len(q), m <= Len(r),
           \A i \in 1..m : r[i] = q[i] /\ (q[i] \in R <=> q[i] \in T)
    PROVE  \A i \in 0..m : f[i] = g[i]
<1> DEFINE S == {i \in 0..m : f[i] = g[i]}
<1>1. Len(q) \in Nat /\ Len(r) \in Nat /\ m \in Nat
  BY LenProperties
<1>2. 0 \in S
  BY <1>1 DEF Lines
<1>3. ASSUME NEW i \in 0..(m - 1), i \in S PROVE i + 1 \in S
  <2>1. /\ i + 1 \in 1..Len(q) /\ i + 1 \in 1..Len(r) /\ i + 1 \in 1..m
        /\ (i + 1) - 1 = i /\ f[i] = g[i]
    BY <1>1, <1>3
  <2>2. f[i + 1] = g[i + 1]
    BY <2>1 DEF Lines
  <2> QED  BY <1>1, <2>1, <2>2
<1> HIDE DEF S
<1>4. \A i \in 0..m : i \in S
  BY <1>1, <1>2, <1>3, UpTo
<1> QED  BY <1>4 DEF S

\* The line of the empty list is empty.
LEMMA LineEmpty == \A R : Line(<<>>, R) = <<>>
<1> SUFFICES ASSUME NEW R PROVE Line(<<>>, R) = <<>>
  OBVIOUS
<1>1. <<>> \in Seq(Nodes) /\ Len(<<>>) = 0
  BY EmptySeq
<1>2. PICK f : Lines(f, <<>>, R) /\ Line(<<>>, R) = f[Len(<<>>)]
  BY <1>1, LineRecursion
<1> QED  BY <1>1, <1>2 DEF Lines

\* A node added to the list joins the line if it is in R.
LEMMA LineAppend ==
    ASSUME NEW q \in Seq(Nodes), NEW n \in Nodes, NEW R
    PROVE  Line(Append(q, n), R) = IF n \in R THEN Append(Line(q, R), n) ELSE Line(q, R)
<1> DEFINE r == Append(q, n)
<1>1. /\ r \in Seq(Nodes) /\ Len(r) = Len(q) + 1 /\ r[Len(q) + 1] = n
      /\ \A i \in 1..Len(q) : r[i] = q[i]
      /\ Len(q) \in Nat
  BY AppendProperties, LenProperties
<1> HIDE DEF r
<1>2. PICK f : Lines(f, q, R) /\ Line(q, R) = f[Len(q)]
  BY LineRecursion
<1>3. PICK g : Lines(g, r, R) /\ Line(r, R) = g[Len(r)]
  BY <1>1, LineRecursion
<1>4. \A i \in 0..Len(q) : f[i] = g[i]
  <2>1. Len(q) \in 0..Len(q) /\ Len(q) <= Len(r)
    BY <1>1
  <2> QED  BY SMTT(30), <1>1, <1>2, <1>3, <2>1, LinesAgree
<1>5. Len(q) + 1 \in 1..Len(r) /\ (Len(q) + 1) - 1 = Len(q) /\ Len(q) \in 0..Len(q)
  BY <1>1
<1>6. g[Len(r)] = IF n \in R THEN Append(g[Len(q)], n) ELSE g[Len(q)]
  BY <1>1, <1>3, <1>5 DEF Lines
<1> QED  BY <1>2, <1>3, <1>4, <1>5, <1>6 DEF r

\* ... of a list of which the same nodes are ready, ...
LEMMA LineSame ==
    ASSUME NEW q \in Seq(Nodes), NEW R, NEW T,
           \A i \in 1..Len(q) : q[i] \in R <=> q[i] \in T
    PROVE  Line(q, R) = Line(q, T)
<1>1. PICK f : Lines(f, q, R) /\ Line(q, R) = f[Len(q)]
  BY LineRecursion
<1>2. PICK g : Lines(g, q, T) /\ Line(q, T) = g[Len(q)]
  BY LineRecursion
<1>3. Len(q) \in Nat
  BY LenProperties
<1>4. Len(q) \in 0..Len(q) /\ Len(q) <= Len(q)
  BY <1>3
<1>5. \A i \in 0..Len(q) : f[i] = g[i]
  BY <1>1, <1>2, <1>4, LinesAgree
<1> QED  BY <1>1, <1>2, <1>4, <1>5

\* ... of a list without one of the others, ...
LEMMA LineUnlink ==
    ASSUME NEW q \in Seq(Nodes), NEW n \in Nodes, Linked(q, n), NEW R, n \notin R
    PROVE  Line(Without(q, n), R) = Line(q, R)
<1> DEFINE k == PositionOf(q, n)
           r == Without(q, n)
<1>1. /\ k \in 1..Len(q) /\ q[k] = n
      /\ r \in Seq(Nodes) /\ Len(q) \in Nat /\ Len(r) = Len(q) - 1
      /\ \A i \in 1..Len(r) : r[i] = IF i < k THEN q[i] ELSE q[i + 1]
  BY UnlinkAt
<1> HIDE DEF k, r
<1>2. PICK f : Lines(f, q, R) /\ Line(q, R) = f[Len(q)]
  BY LineRecursion
<1>3. PICK g : Lines(g, r, R) /\ Line(r, R) = g[Len(r)]
  BY <1>1, LineRecursion
<1> DEFINE S == {i \in 0..Len(r) : g[i] = IF i < k THEN f[i] ELSE f[i + 1]}
<1>4. 0 \in S
  <2>1. 0 \in 0..Len(r) /\ 0 < k
    BY <1>1
  <2> QED  BY <1>2, <1>3, <2>1 DEF Lines
<1>5. ASSUME NEW i \in 0..(Len(r) - 1), i \in S PROVE i + 1 \in S
  <2>1. /\ i + 1 \in 1..Len(r) /\ i + 1 \in 0..Len(r) /\ (i + 1) - 1 = i
        /\ i + 1 \in 1..Len(q) /\ i + 2 \in 1..Len(q) /\ (i + 2) - 1 = i + 1
        /\ (i + 1) + 1 = i + 2
        /\ g[i] = IF i < k THEN f[i] ELSE f[i + 1]
    BY <1>1, <1>5
  <2>2. g[i + 1] = IF r[i + 1] \in R THEN Append(g[i], r[i + 1]) ELSE g[i]
    BY <1>3, <2>1 DEF Lines
  <2>3. /\ f[i + 1] = IF q[i + 1] \in R THEN Append(f[i], q[i + 1]) ELSE f[i]
        /\ f[i + 2] = IF q[i + 2] \in R THEN Append(f[i + 1], q[i + 2]) ELSE f[i + 1]
    BY <1>2, <2>1 DEF Lines
  <2>4. CASE i + 1 < k
    <3>1. i < k /\ r[i + 1] = q[i + 1]
      BY <1>1, <2>1, <2>4
    <3>2. g[i + 1] = f[i + 1]
      BY <2>1, <2>2, <2>3, <3>1
    <3> QED  BY <2>1, <2>4, <3>2
  <2>5. CASE i + 1 = k
    <3>1. i < k /\ r[i + 1] = q[i + 2] /\ q[i + 1] \notin R
      BY <1>1, <2>1, <2>5
    <3>2. g[i + 1] = f[i + 2]
      BY <2>1, <2>2, <2>3, <3>1
    <3>3. ~(i + 1 < k)
      BY <1>1, <2>5
    <3> QED  BY <2>1, <3>2, <3>3
  <2>6. CASE i + 1 > k
    <3>1. ~(i < k) /\ ~(i + 1 < k) /\ r[i + 1] = q[i + 2]
      BY <1>1, <2>1, <2>6
    <3>2. g[i + 1] = f[i + 2]
      BY <2>1, <2>2, <2>3, <3>1
    <3> QED  BY <2>1, <3>1, <3>2
  <2> QED  BY <1>1, <2>1, <2>4, <2>5, <2>6
<1> HIDE DEF S
<1>6. \A i \in 0..Len(r) : i \in S
  <2>1. Len(r) \in Nat
    BY <1>1
  <2> QED  BY <1>4, <1>5, <2>1, UpTo
<1>7. g[Len(r)] = IF Len(r) < k THEN f[Len(r)] ELSE f[Len(r) + 1]
  <2>1. Len(r) \in 0..Len(r)
    BY <1>1
  <2> QED  BY <1>6, <2>1 DEF S
<1>8. CASE Len(r) < k
  <2>1. k = Len(q) /\ k - 1 = Len(r)
    BY <1>1, <1>8
  <2>2. f[k] = f[k - 1]
    BY <1>1, <1>2 DEF Lines
  <2> QED  BY <1>2, <1>3, <1>7, <1>8, <2>1, <2>2 DEF r
<1>9. CASE ~(Len(r) < k)
  <2>1. Len(r) + 1 = Len(q)
    BY <1>1
  <2> QED  BY <1>2, <1>3, <1>7, <1>9, <2>1 DEF r
<1> QED  BY <1>8, <1>9

\* ... of a list with none of them, ...
LEMMA LineNone ==
    ASSUME NEW q \in Seq(Nodes), NEW R, \A i \in 1..Len(q) : q[i] \notin R
    PROVE  Line(q, R) = <<>>
<1>1. PICK f : Lines(f, q, R) /\ Line(q, R) = f[Len(q)]
  BY LineRecursion
<1>2. Len(q) \in Nat
  BY LenProperties
<1> DEFINE S == {i \in 0..Len(q) : f[i] = <<>>}
<1>3. 0 \in S
  BY <1>1, <1>2 DEF Lines
<1>4. ASSUME NEW i \in 0..(Len(q) - 1), i \in S PROVE i + 1 \in S
  <2>1. i + 1 \in 1..Len(q) /\ i + 1 \in 0..Len(q) /\ (i + 1) - 1 = i /\ f[i] = <<>>
    BY <1>2, <1>4
  <2>2. f[i + 1] = f[i]
    BY <1>1, <2>1 DEF Lines
  <2> QED  BY <2>1, <2>2
<1> HIDE DEF S
<1>5. \A i \in 0..Len(q) : i \in S
  BY <1>2, <1>3, <1>4, UpTo
<1>6. Len(q) \in 0..Len(q)
  BY <1>2
<1> QED  BY <1>1, <1>5, <1>6 DEF S

\* ... and of one whose first is taken away.
LEMMA LineFirst ==
    ASSUME NEW q \in Seq(Nodes), Distinct(q), NEW R, NEW p \in 1..Len(q), q[p] \in R,
           \A i \in 1..Len(q) : i < p => q[i] \notin R
    PROVE  /\ Line(q, R) # <<>> /\ Head(Line(q, R)) = q[p]
           /\ Tail(Line(q, R)) = Line(q, R \ {q[p]})
<1> DEFINE T == R \ {q[p]}
<1>1. PICK f : /\ Lines(f, q, R) /\ Line(q, R) = f[Len(q)]
               /\ \A i \in 0..Len(q) : f[i] \in Seq(Nodes \cap R)
  BY LineRecursion
<1>2. PICK g : /\ Lines(g, q, T) /\ Line(q, T) = g[Len(q)]
               /\ \A i \in 0..Len(q) : g[i] \in Seq(Nodes \cap T)
  BY LineRecursion
<1>3. Len(q) \in Nat /\ p \in Nat /\ q[p] \in Nodes
  BY LenProperties, ElementOfSeq
<1>4. \A i \in 1..Len(q) : q[i] \in T <=> q[i] \in R /\ i # p
  BY DEF Distinct
<1> HIDE DEF T
<1> DEFINE S == {i \in 0..Len(q) : f[i] = IF i < p THEN <<>> ELSE <<q[p]>> \o g[i]}
           N == {i \in 0..Len(q) : i <= p => g[i] = <<>>}
<1>5. \A i \in 0..Len(q) : i \in N
  <2>1. 0 \in N
    BY <1>2, <1>3 DEF Lines
  <2>2. ASSUME NEW i \in 0..(Len(q) - 1), i \in N PROVE i + 1 \in N
    <3>1. /\ i + 1 \in 1..Len(q) /\ i + 1 \in 0..Len(q) /\ (i + 1) - 1 = i
          /\ i + 1 <= p => g[i] = <<>>
      BY <1>3, <2>2
    <3>2. i + 1 <= p => q[i + 1] \notin T
      BY <1>3, <1>4, <3>1
    <3>3. i + 1 <= p => g[i + 1] = <<>>
      BY <1>2, <3>1, <3>2 DEF Lines
    <3> QED  BY <3>1, <3>3
  <2> HIDE DEF N
  <2> QED  BY <1>3, <2>1, <2>2, UpTo
<1>6. 0 \in S
  BY <1>1, <1>3 DEF Lines
<1>7. ASSUME NEW i \in 0..(Len(q) - 1), i \in S PROVE i + 1 \in S
  <2>1. /\ i + 1 \in 1..Len(q) /\ i + 1 \in 0..Len(q) /\ (i + 1) - 1 = i
        /\ f[i] = IF i < p THEN <<>> ELSE <<q[p]>> \o g[i]
        /\ i \in 0..Len(q)
    BY <1>3, <1>7
  <2>2. f[i + 1] = IF q[i + 1] \in R THEN Append(f[i], q[i + 1]) ELSE f[i]
    BY <1>1, <2>1 DEF Lines
  <2>3. g[i + 1] = IF q[i + 1] \in T THEN Append(g[i], q[i + 1]) ELSE g[i]
    BY <1>2, <2>1 DEF Lines
  <2>4. CASE i + 1 < p
    <3>1. i < p /\ q[i + 1] \notin R
      BY <1>3, <2>1, <2>4
    <3>2. f[i + 1] = <<>>
      BY <2>1, <2>2, <3>1
    <3> QED  BY <2>1, <2>4, <3>2
  <2>5. CASE i + 1 = p
    <3>1. i < p /\ q[i + 1] = q[p] /\ ~(i + 1 < p) /\ i + 1 <= p
      BY <1>3, <2>1, <2>5
    <3>2. f[i + 1] = Append(<<>>, q[p])
      BY <2>1, <2>2, <3>1
    <3>3. g[i + 1] = <<>>
      BY <1>5, <2>1, <3>1
    <3>4. Append(<<>>, q[p]) = <<q[p]>> \o <<>>
      BY <1>3
    <3> QED  BY <2>1, <3>1, <3>2, <3>3, <3>4
  <2>6. CASE i + 1 > p
    <3>1. ~(i < p) /\ ~(i + 1 < p) /\ i + 1 # p
      BY <1>3, <2>1, <2>6
    <3>2. q[i + 1] \in T <=> q[i + 1] \in R
      BY <1>4, <2>1, <3>1
    <3>3. g[i] \in Seq(Nodes) /\ q[i + 1] \in Nodes /\ <<q[p]>> \in Seq(Nodes)
      <4>1. g[i] \in Seq(Nodes \cap T)
        BY <1>2, <2>1
      <4>2. g[i] \in Seq(Nodes)
        BY <4>1
      <4> QED  BY <1>3, <2>1, <4>2, ElementOfSeq
    <3>4. Append(<<q[p]>> \o g[i], q[i + 1]) = <<q[p]>> \o Append(g[i], q[i + 1])
      BY <3>3
    <3>5. f[i + 1] = <<q[p]>> \o g[i + 1]
      BY <2>1, <2>2, <2>3, <3>1, <3>2, <3>4
    <3> QED  BY <2>1, <3>1, <3>5
  <2> QED  BY <1>3, <2>1, <2>4, <2>5, <2>6
<1> HIDE DEF S
<1>8. \A i \in 0..Len(q) : i \in S
  BY <1>3, <1>6, <1>7, UpTo
<1>9. Line(q, R) = <<q[p]>> \o Line(q, T)
  <2>1. Len(q) \in 0..Len(q) /\ ~(Len(q) < p)
    BY <1>3
  <2> QED  BY <1>1, <1>2, <1>8, <2>1 DEF S
<1>10. Line(q, T) \in Seq(Nodes)
  <2>1. g[Len(q)] \in Seq(Nodes \cap T)
    BY <1>2, <1>3
  <2> QED  BY <1>2, <2>1
<1>11. /\ Line(q, R) \in Seq(Nodes) /\ Line(q, R)[1] = q[p]
       /\ Len(Line(q, R)) = 1 + Len(Line(q, T)) /\ Len(Line(q, T)) \in Nat
       /\ \A i \in 1..Len(Line(q, T)) : Line(q, R)[i + 1] = Line(q, T)[i]
  BY <1>3, <1>9, <1>10, LenProperties
<1>12. Line(q, R) # <<>> /\ Head(Line(q, R)) = q[p]
  BY <1>11, EmptySeq
<1>13. Tail(Line(q, R)) = Line(q, T)
  <2>1. /\ Tail(Line(q, R)) \in Seq(Nodes)
        /\ Len(Tail(Line(q, R))) = Len(Line(q, R)) - 1
        /\ \A i \in 1..Len(Tail(Line(q, R))) : Tail(Line(q, R))[i] = Line(q, R)[i + 1]
    BY <1>11, <1>12, HeadTailProperties
  <2> QED  BY SMTT(30), <1>10, <1>11, <2>1, SeqEqual
<1> QED  BY <1>12, <1>13 DEF T

-----------------------------------------------------------------------------
(* Lemmas about the links.                                                 *)

\* A list without repetitions has no more nodes than there are.
LEMMA LengthBound ==
    ASSUME NEW q \in Seq(Nodes), Distinct(q)
    PROVE  /\ Cardinality(Nodes) \in Nat /\ Len(q) \in 0..Cardinality(Nodes)
           /\ Cardinality(1..Len(q)) = Len(q)
<1>1. Len(q) \in Nat /\ q \in [1..Len(q) -> Nodes]
  BY LenProperties
<1>2. q \in Injection(1..Len(q), Nodes)
  BY <1>1 DEF Distinct, Injection, IsInjective
<1>3. Cardinality(1..Len(q)) <= Cardinality(Nodes) /\ Cardinality(Nodes) \in Nat
  BY <1>2, NodesAssumption, FS_Injection, FS_CardinalityType
<1>4. Cardinality(1..Len(q)) = Len(q)
  BY <1>1, FS_Interval
<1> QED  BY <1>1, <1>3, <1>4

\* A scan of a list passes its nodes in order and ends at its end.
LEMMA WalkIsList ==
    ASSUME NEW q \in Seq(Nodes), Distinct(q), NEW h, NEW t, NEW nx, NEW pv,
           IsList(q, h, t, nx, pv)
    PROVE  Walk(h, nx) = q
<1> DEFINE N == Cardinality(Nodes)
           step == [m \in Nodes \cup {NULL} |-> IF m = NULL THEN NULL ELSE nx[m]]
           f == [k \in 1..N |-> IF k <= Len(q) THEN q[k] ELSE NULL]
           at == CHOOSE g : g = [k \in 1..N |-> IF k = 1 THEN h ELSE step[g[k - 1]]]
<1>1. /\ N \in Nat /\ Len(q) \in Nat /\ Len(q) <= N /\ Cardinality(1..Len(q)) = Len(q)
      /\ \A k \in 1..Len(q) : q[k] \in Nodes /\ q[k] # NULL
  BY LengthBound, ElementOfSeq, NullAssumption
<1>2. \A k \in 1..N : f[k] = IF k = 1 THEN h ELSE step[f[k - 1]]
  <2> SUFFICES ASSUME NEW k \in 1..N PROVE f[k] = IF k = 1 THEN h ELSE step[f[k - 1]]
    OBVIOUS
  <2>1. CASE k = 1
    <3>1. q = <<>> <=> Len(q) = 0
      BY EmptySeq
    <3> QED  BY <1>1, <2>1, <3>1 DEF IsList
  <2>2. CASE k # 1 /\ k - 1 <= Len(q)
    <3>1. k - 1 \in 1..Len(q) /\ f[k - 1] = q[k - 1] /\ step[q[k - 1]] = nx[q[k - 1]]
      BY <1>1, <2>2
    <3>2. nx[q[k - 1]] = IF k - 1 = Len(q) THEN NULL ELSE q[(k - 1) + 1]
      BY <3>1 DEF IsList
    <3>3. (k - 1) + 1 = k /\ (k <= Len(q) <=> k - 1 # Len(q))
      BY <1>1, <2>2
    <3> QED  BY <2>2, <3>1, <3>2, <3>3
  <2>3. CASE k # 1 /\ ~(k - 1 <= Len(q))
    <3>1. k - 1 \in 1..N /\ f[k - 1] = NULL /\ f[k] = NULL
      BY <1>1, <2>3
    <3> QED  BY <2>3, <3>1
  <2> QED  BY <1>1, <2>1, <2>2, <2>3
<1>3. at = [k \in 1..N |-> IF k = 1 THEN h ELSE step[at[k - 1]]]
  <2>1. f = [k \in 1..N |-> IF k = 1 THEN h ELSE step[f[k - 1]]]
    BY <1>2
  <2> HIDE DEF f, step, N
  <2> QED  BY <2>1
<1>4. Walk(h, nx) = [k \in 1..Cardinality({k \in 1..N : at[k] # NULL}) |-> at[k]]
  BY DEF Walk
<1> HIDE DEF at, f
<1>5. \A k \in 1..N : at[k] = f[k]
  <2> DEFINE S == {k \in 0..N : k = 0 \/ at[k] = f[k]}
  <2>1. 0 \in S
    BY <1>1
  <2>2. ASSUME NEW k \in 0..(N - 1), k \in S PROVE k + 1 \in S
    <3>1. k + 1 \in 1..N /\ (k + 1) - 1 = k
      BY <1>1
    <3>2. at[k + 1] = IF k + 1 = 1 THEN h ELSE step[at[k]]
      BY <1>3, <3>1
    <3>3. f[k + 1] = IF k + 1 = 1 THEN h ELSE step[f[k]]
      BY <1>2, <3>1
    <3>4. k + 1 = 1 \/ at[k] = f[k]
      BY <2>2
    <3> QED  BY <1>1, <3>1, <3>2, <3>3, <3>4
  <2> HIDE DEF S, N
  <2>3. \A k \in 0..N : k \in S
    BY <1>1, <2>1, <2>2, UpTo
  <2> QED  BY <1>1, <2>3 DEF S
<1>6. {k \in 1..N : at[k] # NULL} = 1..Len(q)
  BY <1>1, <1>5 DEF f
<1>7. \A k \in 1..Len(q) : at[k] = q[k]
  BY <1>1, <1>5 DEF f
<1>8. q = [k \in 1..Len(q) |-> q[k]]
  BY LenProperties
<1> QED  BY <1>1, <1>4, <1>6, <1>7, <1>8

\* Linking a node behind the tail.
LEMMA AppendLinks ==
    ASSUME NEW q \in Seq(Nodes), Distinct(q), NEW n \in Nodes, ~Linked(q, n),
           NEW h, NEW t, NEW nx \in [Nodes -> Nodes \cup {NULL}],
           NEW pv \in [Nodes -> Nodes \cup {NULL}], IsList(q, h, t, nx, pv)
    PROVE  /\ h = NULL <=> q = <<>>
           /\ h # NULL => /\ t \in Nodes /\ t # n
                          /\ IsList(Append(q, n), h, n, [nx EXCEPT ![n] = NULL, ![t] = n],
                                    [pv EXCEPT ![n] = t])
           /\ h = NULL => IsList(Append(q, n), n, n, [nx EXCEPT ![n] = NULL],
                                 [pv EXCEPT ![n] = NULL])
<1> DEFINE r == Append(q, n)
<1>1. /\ r \in Seq(Nodes) /\ Len(r) = Len(q) + 1 /\ Len(q) \in Nat
      /\ \A i \in 1..Len(q) : r[i] = q[i] /\ q[i] \in Nodes /\ q[i] # n
      /\ r[Len(q) + 1] = n
      /\ q = <<>> <=> Len(q) = 0
      /\ r # <<>>
  BY AppendProperties, ElementOfSeq, EmptySeq, LenProperties DEF Linked
<1>2. h = NULL <=> q = <<>>
  BY <1>1, NullAssumption DEF IsList
<1>3. ASSUME h # NULL
      PROVE  /\ t \in Nodes /\ t # n
             /\ IsList(r, h, n, [nx EXCEPT ![n] = NULL, ![t] = n], [pv EXCEPT ![n] = t])
  <2>1. Len(q) \in 1..Len(q) /\ h = q[1] /\ t = q[Len(q)] /\ t \in Nodes /\ t # n
    BY <1>1, <1>2, <1>3 DEF IsList
  <2> DEFINE nw == [nx EXCEPT ![n] = NULL, ![t] = n]
             pw == [pv EXCEPT ![n] = t]
  <2>2. \A m \in Nodes : /\ nw[m] = IF m = t THEN n ELSE IF m = n THEN NULL ELSE nx[m]
                         /\ pw[m] = IF m = n THEN t ELSE pv[m]
    BY <2>1
  <2> HIDE DEF nw, pw, r
  <2>3. \A i \in 1..Len(q) : q[i] = t <=> i = Len(q)
    BY <1>1, <2>1 DEF Distinct
  <2>4. ASSUME NEW i \in 1..Len(r)
        PROVE  /\ nw[r[i]] = IF i = Len(r) THEN NULL ELSE r[i + 1]
               /\ pw[r[i]] = IF i = 1 THEN NULL ELSE r[i - 1]
    <3>1. CASE i = Len(q) + 1
      BY <1>1, <2>1, <2>2, <3>1
    <3>2. CASE i # Len(q) + 1
      <4>1. i \in 1..Len(q) /\ r[i] = q[i] /\ q[i] \in Nodes /\ q[i] # n
        BY <1>1, <3>2
      <4>2. /\ nx[q[i]] = IF i = Len(q) THEN NULL ELSE q[i + 1]
            /\ pv[q[i]] = IF i = 1 THEN NULL ELSE q[i - 1]
        BY <4>1 DEF IsList
      <4>3. CASE i = Len(q)
        <5>1. r[i] = t /\ i # Len(r) /\ r[i + 1] = n /\ (i = 1 \/ r[i - 1] = q[i - 1])
          BY <1>1, <2>1, <2>3, <4>1, <4>3
        <5>2. nw[t] = n /\ pw[t] = pv[t]
          BY <2>1, <2>2
        <5> QED  BY <4>1, <4>2, <5>1, <5>2
      <4>4. CASE i # Len(q)
        BY <1>1, <2>1, <2>2, <2>3, <4>1, <4>2, <4>4
      <4> QED  BY <4>3, <4>4
    <3> QED  BY <3>1, <3>2
  <2>5. h = r[1] /\ n = r[Len(r)]
    BY <1>1, <2>1
  <2>6. IsList(r, h, n, nw, pw)
    BY <1>1, <2>4, <2>5 DEF IsList
  <2> QED  BY <2>1, <2>6 DEF nw, pw
<1>4. ASSUME h = NULL
      PROVE  IsList(r, n, n, [nx EXCEPT ![n] = NULL], [pv EXCEPT ![n] = NULL])
  BY <1>1, <1>2, <1>4 DEF IsList
<1> QED  BY <1>2, <1>3, <1>4 DEF r

\* Unlinking a node, at either end of the list or between.
LEMMA WithoutLinks ==
    ASSUME NEW q \in Seq(Nodes), Distinct(q), NEW n \in Nodes, Linked(q, n),
           {next, prev} \subseteq [Nodes -> Nodes \cup {NULL}],
           IsList(q, threads_queue, tail_threads_queue, next, prev)
    PROVE  /\ IsList(Without(q, n), HeadWithout(n),
                     IF next[n] = NULL THEN prev[n] ELSE tail_threads_queue,
                     NextWithout(n), PrevWithout(n))
           /\ HeadWithout(n) \in Nodes \cup {NULL}
           /\ {NextWithout(n), PrevWithout(n)} \subseteq [Nodes -> Nodes \cup {NULL}]
           /\ n = tail_threads_queue <=> next[n] = NULL
           /\ tail_threads_queue \in Nodes
<1> DEFINE k == PositionOf(q, n)
           r == Without(q, n)
           nw == NextWithout(n)
           pw == PrevWithout(n)
<1>1. /\ k \in 1..Len(q) /\ q[k] = n
      /\ r \in Seq(Nodes) /\ Len(q) \in Nat /\ Len(r) = Len(q) - 1
      /\ \A i \in 1..Len(r) : r[i] = IF i < k THEN q[i] ELSE q[i + 1]
  BY UnlinkAt
<1>2. /\ \A i \in 1..Len(q) : q[i] \in Nodes
      /\ \A i, j \in 1..Len(q) : q[i] = q[j] => i = j
      /\ q # <<>> /\ (r = <<>> <=> Len(r) = 0)
  BY <1>1, ElementOfSeq, EmptySeq DEF Distinct
<1> HIDE DEF k, r
<1>3. /\ next[n] = IF k = Len(q) THEN NULL ELSE q[k + 1]
      /\ prev[n] = IF k = 1 THEN NULL ELSE q[k - 1]
      /\ threads_queue = q[1] /\ tail_threads_queue = q[Len(q)]
  BY <1>1, <1>2 DEF IsList
<1>4. /\ k # Len(q) => k + 1 \in 1..Len(q) /\ q[k + 1] \in Nodes /\ q[k + 1] # NULL
      /\ k # 1 => k - 1 \in 1..Len(q) /\ q[k - 1] \in Nodes /\ q[k - 1] # NULL
      /\ 1 \in 1..Len(q) /\ Len(q) \in 1..Len(q)
  BY <1>1, <1>2, NullAssumption
<1>5. \A m \in Nodes : /\ nw[m] = IF k # 1 /\ m = q[k - 1] THEN next[n] ELSE next[m]
                       /\ pw[m] = IF k # Len(q) /\ m = q[k + 1] THEN prev[n] ELSE prev[m]
  BY <1>3, <1>4 DEF NextWithout, PrevWithout
<1>6. /\ HeadWithout(n) = IF k = 1 THEN next[n] ELSE q[1]
      /\ HeadWithout(n) \in Nodes \cup {NULL}
  BY <1>1, <1>2, <1>3, <1>4 DEF HeadWithout
<1>7. {nw, pw} \subseteq [Nodes -> Nodes \cup {NULL}]
  BY <1>3, <1>4 DEF NextWithout, PrevWithout
<1> HIDE DEF nw, pw
<1>8. HeadWithout(n) = IF r = <<>> THEN NULL ELSE r[1]
  <2>1. CASE k = 1
    BY <1>1, <1>2, <1>3, <1>6, <2>1
  <2>2. CASE k # 1
    BY <1>1, <1>2, <1>3, <1>6, <2>2
  <2> QED  BY <2>1, <2>2
<1>9. (IF next[n] = NULL THEN prev[n] ELSE tail_threads_queue)
         = IF r = <<>> THEN NULL ELSE r[Len(r)]
  <2>1. CASE k = Len(q)
    BY <1>1, <1>2, <1>3, <1>4, <2>1
  <2>2. CASE k # Len(q)
    BY <1>1, <1>2, <1>3, <1>4, <2>2
  <2> QED  BY <2>1, <2>2
<1>10. ASSUME NEW i \in 1..Len(r)
       PROVE  /\ nw[r[i]] = IF i = Len(r) THEN NULL ELSE r[i + 1]
              /\ pw[r[i]] = IF i = 1 THEN NULL ELSE r[i - 1]
  <2> DEFINE j == IF i < k THEN i ELSE i + 1
  <2>1. j \in 1..Len(q) /\ j # k /\ r[i] = q[j] /\ q[j] \in Nodes
    BY <1>1, <1>2
  <2>2. /\ next[q[j]] = IF j = Len(q) THEN NULL ELSE q[j + 1]
        /\ prev[q[j]] = IF j = 1 THEN NULL ELSE q[j - 1]
    BY <2>1 DEF IsList
  <2>3. /\ k # 1 => (q[j] = q[k - 1] <=> j = k - 1)
        /\ k # Len(q) => (q[j] = q[k + 1] <=> j = k + 1)
    BY <1>2, <1>4, <2>1
  <2>4. nw[q[j]] = IF j = k - 1 THEN next[n] ELSE next[q[j]]
    BY <1>1, <1>5, <2>1, <2>3
  <2>5. pw[q[j]] = IF j = k + 1 THEN prev[n] ELSE prev[q[j]]
    BY <1>1, <1>5, <2>1, <2>3
  <2>6. nw[r[i]] = IF i = Len(r) THEN NULL ELSE r[i + 1]
    <3>1. CASE i + 1 < k
      BY <1>1, <2>1, <2>2, <2>4, <3>1
    <3>2. CASE i + 1 = k
      BY <1>1, <1>3, <2>1, <2>2, <2>4, <3>2
    <3>3. CASE i >= k
      BY <1>1, <2>1, <2>2, <2>4, <3>3
    <3> QED  BY <1>1, <3>1, <3>2, <3>3
  <2>7. pw[r[i]] = IF i = 1 THEN NULL ELSE r[i - 1]
    <3>1. CASE i < k
      BY <1>1, <2>1, <2>2, <2>5, <3>1
    <3>2. CASE i = k
      BY <1>1, <1>3, <2>1, <2>2, <2>5, <3>2
    <3>3. CASE i > k
      BY <1>1, <2>1, <2>2, <2>5, <3>3
    <3> QED  BY <1>1, <3>1, <3>2, <3>3
  <2> QED  BY <2>6, <2>7
<1>11. IsList(r, HeadWithout(n),
              IF next[n] = NULL THEN prev[n] ELSE tail_threads_queue, nw, pw)
  BY <1>8, <1>9, <1>10 DEF IsList
<1>12. (n = tail_threads_queue <=> next[n] = NULL) /\ tail_threads_queue \in Nodes
  BY <1>1, <1>2, <1>3, <1>4
<1> QED  BY <1>6, <1>7, <1>11, <1>12 DEF r, nw, pw

\* Where nothing is linked or unlinked a scan passes the same nodes.
LEMMA SameLinks ==
    ASSUME UNCHANGED links
    PROVE  Queue' = Queue /\ (LinksOK => LinksOK')
BY DEF links, Queue, LinksOK

\* The list after new_thread is the one before with the new node at its end.
LEMMA NewThreadLinks ==
    ASSUME IInv, NEW n \in Nodes, NEW id \in ThreadIds, new_thread(n, id)
    PROVE  Queue' = Append(Queue, n) /\ LinksOK'
<1> DEFINE h == threads_queue
           t == tail_threads_queue
<1>1. /\ Queue \in Seq(Nodes) /\ Distinct(Queue) /\ ~Linked(Queue, n)
      /\ next \in [Nodes -> Nodes \cup {NULL}] /\ prev \in [Nodes -> Nodes \cup {NULL}]
      /\ h \in Nodes \cup {NULL} /\ IsList(Queue, h, t, next, prev)
  BY DEF IInv, FieldsOK, LinksOK, HoldsLive, new_thread
<1>2. /\ h = NULL <=> Queue = <<>>
      /\ h # NULL => /\ t \in Nodes /\ t # n
                     /\ IsList(Append(Queue, n), h, n, [next EXCEPT ![n] = NULL, ![t] = n],
                               [prev EXCEPT ![n] = t])
      /\ h = NULL => IsList(Append(Queue, n), n, n, [next EXCEPT ![n] = NULL],
                            [prev EXCEPT ![n] = NULL])
  BY <1>1, AppendLinks
<1>3. IsList(Append(Queue, n), threads_queue', tail_threads_queue', next', prev')
  BY <1>2 DEF new_thread
<1>4. Append(Queue, n) \in Seq(Nodes) /\ Distinct(Append(Queue, n))
  BY <1>1, AppendNode
<1>5. Walk(threads_queue', next') = Append(Queue, n)
  BY <1>3, <1>4, WalkIsList
<1>6. Queue' = Append(Queue, n)
  BY <1>5 DEF Queue
<1>7. /\ {threads_queue', tail_threads_queue'} \subseteq Nodes \cup {NULL}
      /\ {next', prev'} \subseteq [Nodes -> Nodes \cup {NULL}]
  BY <1>1, <1>2 DEF new_thread
<1> QED  BY <1>3, <1>6, <1>7 DEF LinksOK

\* The list after exit_thread is the one before without the running node.
LEMMA ExitLinks ==
    ASSUME IInv, exit_thread
    PROVE  Queue' = Without(Queue, running_thread) /\ LinksOK'
<1> DEFINE n == running_thread
           r == Without(Queue, n)
<1>1. /\ Queue \in Seq(Nodes) /\ Distinct(Queue) /\ n \in Nodes /\ Linked(Queue, n)
      /\ {next, prev} \subseteq [Nodes -> Nodes \cup {NULL}]
      /\ IsList(Queue, threads_queue, tail_threads_queue, next, prev)
      /\ tail_threads_queue \in Nodes \cup {NULL}
  BY DEF IInv, FieldsOK, LinksOK, HoldsLive, OneRunning, exit_thread
<1>2. /\ IsList(r, HeadWithout(n), IF next[n] = NULL THEN prev[n] ELSE tail_threads_queue,
                NextWithout(n), PrevWithout(n))
      /\ HeadWithout(n) \in Nodes \cup {NULL}
      /\ {NextWithout(n), PrevWithout(n)} \subseteq [Nodes -> Nodes \cup {NULL}]
  BY <1>1, WithoutLinks
<1>3. r \in Seq(Nodes) /\ Distinct(r)
  BY <1>1, UnlinkNode
<1>4. /\ threads_queue' = HeadWithout(n) /\ next' = NextWithout(n) /\ prev' = PrevWithout(n)
      /\ tail_threads_queue' = IF next[n] = NULL THEN prev[n] ELSE tail_threads_queue
  BY DEF exit_thread
<1> HIDE DEF n, r
<1>5. IsList(r, threads_queue', tail_threads_queue', next', prev')
  BY <1>2, <1>4
<1>6. Walk(threads_queue', next') = r
  BY <1>3, <1>5, WalkIsList
<1>7. Queue' = r
  BY <1>6 DEF Queue
<1>8. /\ {threads_queue', tail_threads_queue'} \subseteq Nodes \cup {NULL}
      /\ {next', prev'} \subseteq [Nodes -> Nodes \cup {NULL}]
  BY <1>1, <1>2, <1>4
<1>9. IsList(Queue', threads_queue', tail_threads_queue', next', prev')
  BY <1>5, <1>7
<1>10. LinksOK'
  BY <1>8, <1>9 DEF LinksOK
<1> QED  BY <1>7, <1>10 DEF n, r

\* The list after push_thread_to_tail is the one before with the node moved
\* behind the others.
LEMMA PushLinks ==
    ASSUME IInv, NEW n \in Nodes, Linked(Queue, n), push_thread_to_tail(n)
    PROVE  Queue' = ToTail(Queue, n) /\ LinksOK'
<1> DEFINE r == Without(Queue, n)
           h == HeadWithout(n)
           t == tail_threads_queue
           nw == NextWithout(n)
           pw == PrevWithout(n)
<1>1. /\ Queue \in Seq(Nodes) /\ Distinct(Queue)
      /\ {next, prev} \subseteq [Nodes -> Nodes \cup {NULL}]
      /\ IsList(Queue, threads_queue, t, next, prev)
  BY DEF IInv, FieldsOK, LinksOK, HoldsLive
<1>2. /\ IsList(r, h, IF next[n] = NULL THEN prev[n] ELSE t, nw, pw)
      /\ h \in Nodes \cup {NULL}
      /\ nw \in [Nodes -> Nodes \cup {NULL}] /\ pw \in [Nodes -> Nodes \cup {NULL}]
      /\ n = t <=> next[n] = NULL
      /\ t \in Nodes
  BY <1>1, WithoutLinks
<1>3. r \in Seq(Nodes) /\ Distinct(r) /\ ~Linked(r, n)
  BY <1>1, UnlinkNode
<1>4. ToTail(Queue, n) = Append(r, n)
  BY DEF ToTail
<1>5. CASE n = t
  <2>1. UNCHANGED links
    BY <1>5 DEF push_thread_to_tail
  <2>2. Append(r, n) = Queue
    <3> DEFINE k == PositionOf(Queue, n)
    <3>1. /\ k \in 1..Len(Queue) /\ Queue[k] = n
          /\ Len(Queue) \in Nat /\ Len(r) = Len(Queue) - 1
          /\ \A i \in 1..Len(r) : r[i] = IF i < k THEN Queue[i] ELSE Queue[i + 1]
      BY <1>1, UnlinkAt
    <3> HIDE DEF k, r
    <3>2. Queue # <<>>
      BY <1>1, <3>1, EmptySeq
    <3>3. k = Len(Queue)
      BY <1>1, <1>5, <3>1, <3>2 DEF IsList, Distinct
    <3>4. /\ Append(r, n) \in Seq(Nodes) /\ Len(Append(r, n)) = Len(Queue)
          /\ \A i \in 1..Len(r) : Append(r, n)[i] = r[i]
          /\ Append(r, n)[Len(r) + 1] = n
      BY <1>3, <3>1, AppendProperties
    <3>5. \A i \in 1..Len(Queue) : Append(r, n)[i] = Queue[i]
      BY <3>1, <3>3, <3>4
    <3> QED  BY <1>1, <3>4, <3>5, SeqEqual
  <2>3. LinksOK' /\ Queue' = Queue
    BY <2>1, SameLinks DEF IInv
  <2> QED  BY <1>4, <2>2, <2>3
<1>6. CASE n # t
  <2>1. /\ threads_queue' = h /\ tail_threads_queue' = n
        /\ next' = [nw EXCEPT ![t] = n, ![n] = NULL]
        /\ prev' = [pw EXCEPT ![n] = t]
    BY <1>6 DEF push_thread_to_tail
  <2> HIDE DEF r, h, nw, pw
  <2>2. IsList(r, h, t, nw, pw)
    BY <1>2, <1>6
  <2>3. /\ h = NULL <=> r = <<>>
        /\ h # NULL => IsList(Append(r, n), h, n, [nw EXCEPT ![n] = NULL, ![t] = n],
                              [pw EXCEPT ![n] = t])
    BY <1>2, <1>3, <2>2, AppendLinks
  <2>4. h # NULL
    BY <1>2, <2>2, <2>3, NullAssumption DEF IsList
  <2>5. [nw EXCEPT ![n] = NULL, ![t] = n] = [nw EXCEPT ![t] = n, ![n] = NULL]
    BY <1>2, <1>6
  <2>6. IsList(Append(r, n), threads_queue', tail_threads_queue', next', prev')
    BY <2>1, <2>3, <2>4, <2>5
  <2>7. Append(r, n) \in Seq(Nodes) /\ Distinct(Append(r, n))
    BY <1>3, AppendNode
  <2>8. Walk(threads_queue', next') = Append(r, n)
    BY <2>6, <2>7, WalkIsList
  <2>9. Queue' = Append(r, n)
    BY <2>8 DEF Queue
  <2>10. /\ {threads_queue', tail_threads_queue'} \subseteq Nodes \cup {NULL}
         /\ {next', prev'} \subseteq [Nodes -> Nodes \cup {NULL}]
    BY <1>2, <2>1
  <2>11. IsList(Queue', threads_queue', tail_threads_queue', next', prev')
    BY <2>6, <2>9
  <2>12. LinksOK'
    BY <2>10, <2>11 DEF LinksOK
  <2> QED  BY <1>4, <2>9, <2>12
<1> QED  BY <1>5, <1>6

-----------------------------------------------------------------------------
(* The list and the states before choose_ready_thread runs: nobody is      *)
(* RUNNING, because the caller has just changed the running node's state.  *)
Choosable(q, st) == /\ q \in Seq(Nodes)
                    /\ st \in [Nodes -> States]
                    /\ Distinct(q)
                    /\ \A n \in Nodes : st[n] # "FREE" <=> Linked(q, n)
                    /\ \A n \in Nodes : st[n] # "RUNNING"

\* The scan finds the READY node that no other READY node precedes, and
\* leaves the CPU idle only if there is none.
LEMMA ChooseReady ==
    ASSUME NEW q, NEW st, Choosable(q, st), choose_ready_thread(q, st)
    PROVE  \/ /\ running_thread' = NULL
              /\ state' = st
              /\ \A n \in Nodes : st[n] # "READY"
           \/ /\ running_thread' \in Nodes
              /\ st[running_thread'] = "READY"
              /\ state' = [st EXCEPT ![running_thread'] = "RUNNING"]
              /\ \A n \in Nodes : st[n] = "READY" => ~Before(q, n, running_thread')
<1> DEFINE R == ReadyPositions(q, st)
<1>1. Len(q) \in Nat
  BY LenProperties DEF Choosable
<1>2. CASE R = {}
  <2>1. running_thread' = NULL /\ state' = st
    BY <1>2 DEF choose_ready_thread
  <2>2. \A n \in Nodes : st[n] # "READY"
    BY <1>2 DEF ReadyPositions, Choosable, Linked
  <2> QED  BY <2>1, <2>2
<1>3. CASE R # {}
  <2> DEFINE i == Min(R)
  <2>1. i \in R /\ \A j \in R : i <= j
    <3>1. R \in SUBSET Nat
      BY <1>1 DEF ReadyPositions
    <3> QED  BY <1>3, <3>1, MinOfNats
  <2>2. running_thread' = q[i] /\ state' = [st EXCEPT ![q[i]] = "RUNNING"]
    BY <1>3 DEF choose_ready_thread
  <2>3. i \in 1..Len(q) /\ st[q[i]] = "READY" /\ q[i] \in Nodes
    BY <2>1, ElementOfSeq DEF ReadyPositions, Choosable
  <2>4. ASSUME NEW n \in Nodes, st[n] = "READY", Before(q, n, q[i])
        PROVE  FALSE
    <3>1. PICK u, v \in 1..Len(q) : u < v /\ q[u] = n /\ q[v] = q[i]
      BY <2>4 DEF Before
    <3>2. v = i /\ u \in R
      BY <2>3, <2>4, <3>1 DEF Distinct, ReadyPositions, Choosable
    <3> QED  BY <1>1, <2>1, <2>3, <3>1, <3>2
  <2> QED  BY <2>2, <2>3, <2>4
<1> QED  BY <1>2, <1>3

\* What the callers of choose_ready_thread owe to it, whichever list and
\* states they hand over.
LEMMA Rescheduled ==
    ASSUME NEW q, NEW st, q = Queue',
           Choosable(q, st), choose_ready_thread(q, st)
    PROVE  /\ running_thread' \in Nodes \cup {NULL}
           /\ state' \in [Nodes -> States]
           /\ HoldsLive'
           /\ OneRunning'
           /\ WorkConserving'
           /\ \A n, m \in Nodes : /\ st[n] = "READY" /\ st[m] = "READY"
                                  /\ Before(q, n, m) /\ state'[n] = "READY"
                                  => state'[m] = "READY"
<1>1. CASE /\ running_thread' = NULL /\ state' = st
           /\ \A n \in Nodes : st[n] # "READY"
  BY <1>1, NullAssumption
     DEF Choosable, HoldsLive, OneRunning, WorkConserving
<1>2. CASE /\ running_thread' \in Nodes /\ st[running_thread'] = "READY"
           /\ state' = [st EXCEPT ![running_thread'] = "RUNNING"]
           /\ \A n \in Nodes : st[n] = "READY" => ~Before(q, n, running_thread')
  <2>1. state' \in [Nodes -> States]
    BY <1>2 DEF Choosable, States
  <2>2. HoldsLive'
    BY <1>2 DEF Choosable, HoldsLive
  <2>3. OneRunning'
    BY <1>2 DEF Choosable, OneRunning
  <2>4. WorkConserving'
    BY <1>2, NullAssumption DEF WorkConserving
  <2>5. ASSUME NEW n \in Nodes, NEW m \in Nodes, st[n] = "READY", st[m] = "READY",
               Before(q, n, m), state'[n] = "READY"
        PROVE  state'[m] = "READY"
    BY <1>2, <2>5 DEF Choosable
  <2> QED  BY <1>2, <2>1, <2>2, <2>3, <2>4, <2>5
<1> QED  BY <1>1, <1>2, ChooseReady

-----------------------------------------------------------------------------
(* Each operation preserves the invariant and the order of the waiting.    *)

\* scheduler_setup keeps the invariant: it only changes the timeslice.
LEMMA SetupStep ==
    ASSUME IInv, NEW ts \in Timeslices, scheduler_setup(ts)
    PROVE  IInv' /\ KeepsOrder
<1>1. UNCHANGED links /\ Queue' = Queue /\ LinksOK'
  BY SameLinks DEF IInv, scheduler_setup
<1> QED  BY <1>1 DEF IInv, scheduler_setup, FieldsOK, HoldsLive, OneRunning,
                     WorkConserving, QuantaBounded, KeepsOrder

\* new_thread keeps the invariant: the node goes to the tail, and runs at once
\* only if the CPU was idle.
LEMMA NewThreadStep ==
    ASSUME IInv, NEW n \in Nodes, NEW id \in ThreadIds, new_thread(n, id)
    PROVE  IInv' /\ KeepsOrder
<1>1. ~Linked(Queue, n) /\ state[n] = "FREE"
  BY DEF IInv, HoldsLive, new_thread
<1>2. /\ Queue' \in Seq(Nodes) /\ Distinct(Queue')
      /\ \A m \in Nodes : Linked(Queue', m) <=> Linked(Queue, m) \/ m = n
      /\ \A m, p \in Nodes : Before(Queue, m, p) => Before(Queue', m, p)
  <2>1. Queue' = Append(Queue, n)
    BY NewThreadLinks
  <2> QED  BY <1>1, <2>1, AppendNode DEF IInv, FieldsOK, HoldsLive
<1>3. FieldsOK'
  BY <1>2 DEF IInv, FieldsOK, new_thread, States
<1>4. HoldsLive'
  BY <1>1, <1>2 DEF IInv, FieldsOK, HoldsLive, new_thread
<1>5. OneRunning'
  BY <1>1, NullAssumption DEF IInv, FieldsOK, OneRunning, new_thread
<1>6. WorkConserving'
  BY NullAssumption DEF IInv, FieldsOK, WorkConserving, new_thread
<1>7. QuantaBounded'
  <2>1. \A m \in Nodes : /\ time_quantums'[m] = IF m = n THEN 0 ELSE time_quantums[m]
                         /\ m # running_thread' => m # running_thread \/ m = n
    BY NullAssumption DEF IInv, FieldsOK, new_thread
  <2> QED  BY <2>1 DEF IInv, QuantaBounded
<1>8. KeepsOrder
  BY <1>1, <1>2 DEF IInv, FieldsOK, KeepsOrder, new_thread
<1> QED  BY <1>3, <1>4, <1>5, <1>6, <1>7, <1>8, NewThreadLinks DEF IInv

\* exit_thread keeps the invariant: the running node is unlinked and the first
\* ready one is chosen.
LEMMA ExitStep ==
    ASSUME IInv, exit_thread
    PROVE  IInv' /\ KeepsOrder
<1> DEFINE r  == running_thread
           st == [state EXCEPT ![r] = "FREE"]
<1>1. r \in Nodes /\ Linked(Queue, r) /\ state[r] = "RUNNING"
  BY DEF IInv, FieldsOK, HoldsLive, OneRunning, exit_thread
<1>2. /\ Queue' \in Seq(Nodes) /\ Distinct(Queue')
      /\ \A m \in Nodes : Linked(Queue', m) <=> Linked(Queue, m) /\ m # r
      /\ \A m, p \in Nodes : Before(Queue, m, p) /\ m # r /\ p # r
                              => Before(Queue', m, p)
  BY <1>1, UnlinkNode, ExitLinks DEF IInv, FieldsOK, HoldsLive
<1>3. Choosable(Queue', st) /\ choose_ready_thread(Queue', st)
  BY <1>1, <1>2 DEF Choosable, IInv, FieldsOK, States, HoldsLive,
                    OneRunning, exit_thread
<1> HIDE DEF st
<1>4. /\ running_thread' \in Nodes \cup {NULL} /\ state' \in [Nodes -> States]
      /\ HoldsLive' /\ OneRunning' /\ WorkConserving'
      /\ \A n, m \in Nodes : /\ st[n] = "READY" /\ st[m] = "READY"
                             /\ Before(Queue', n, m) /\ state'[n] = "READY"
                             => state'[m] = "READY"
  BY <1>3, Rescheduled
<1>5. FieldsOK'
  BY <1>2, <1>4 DEF IInv, FieldsOK, exit_thread
<1>6. QuantaBounded'
  BY <1>1 DEF IInv, FieldsOK, QuantaBounded, exit_thread
<1>7. KeepsOrder
  BY <1>1, <1>2, <1>4 DEF IInv, FieldsOK, KeepsOrder, st
<1> QED  BY <1>4, <1>5, <1>6, <1>7, ExitLinks DEF IInv

\* block_thread keeps the invariant: the running thread stays in its place with
\* no ticks used, and the first ready one is chosen.
LEMMA BlockStep ==
    ASSUME IInv, block_thread
    PROVE  IInv' /\ KeepsOrder
<1> DEFINE r  == running_thread
           st == [state EXCEPT ![r] = "BLOCKED"]
<1>1. r \in Nodes /\ state[r] = "RUNNING" /\ Queue' = Queue /\ LinksOK'
  BY SameLinks DEF IInv, FieldsOK, OneRunning, block_thread
<1>2. Choosable(Queue', st) /\ choose_ready_thread(Queue', st)
  BY <1>1 DEF Choosable, IInv, FieldsOK, States, HoldsLive,
              OneRunning, block_thread
<1> HIDE DEF st
<1>3. /\ running_thread' \in Nodes \cup {NULL} /\ state' \in [Nodes -> States]
      /\ HoldsLive' /\ OneRunning' /\ WorkConserving'
      /\ \A n, m \in Nodes : /\ st[n] = "READY" /\ st[m] = "READY"
                             /\ Before(Queue', n, m) /\ state'[n] = "READY"
                             => state'[m] = "READY"
  BY <1>2, Rescheduled
<1>4. FieldsOK'
  BY <1>1, <1>3 DEF IInv, FieldsOK, block_thread
<1>5. QuantaBounded'
  BY <1>1 DEF IInv, FieldsOK, QuantaBounded, block_thread
<1>6. KeepsOrder
  BY <1>1, <1>3 DEF IInv, FieldsOK, KeepsOrder, st
<1> QED  BY <1>1, <1>3, <1>4, <1>5, <1>6 DEF IInv

\* wake_thread keeps the invariant: a blocked node goes to the tail and becomes
\* ready, and runs at once on an idle CPU.
LEMMA WakeStep ==
    ASSUME IInv, NEW id \in ThreadIds, wake_thread(id)
    PROVE  IInv' /\ KeepsOrder
<1> DEFINE B  == BlockedPositions(Queue, id)
           n  == Queue[Min(B)]
           st == [state EXCEPT ![n] = "READY"]
<1>1. /\ push_thread_to_tail(n)
      /\ IF running_thread = NULL THEN choose_ready_thread(Queue', st)
                                  ELSE state' = st /\ UNCHANGED running_thread
      /\ UNCHANGED <<max_time_on_cpu, thread_id, time_quantums>>
  BY DEF wake_thread
<1>2. n \in Nodes /\ Linked(Queue, n) /\ state[n] = "BLOCKED"
  <2>1. B # {} /\ B \in SUBSET Nat
    BY LenProperties DEF IInv, FieldsOK, BlockedPositions, wake_thread
  <2>2. Min(B) \in B
    BY <2>1, MinOfNats
  <2> QED  BY <2>2, ElementOfSeq DEF BlockedPositions, Linked, IInv, FieldsOK
<1> HIDE DEF n
<1>3. /\ Queue' \in Seq(Nodes) /\ Distinct(Queue')
      /\ \A m \in Nodes : Linked(Queue', m) <=> Linked(Queue, m)
      /\ \A m, p \in Nodes : Before(Queue, m, p) /\ m # n /\ p # n
                              => Before(Queue', m, p)
  BY <1>1, <1>2, PushToTail, PushLinks DEF IInv, FieldsOK, HoldsLive
<1>4. LinksOK'
  BY <1>1, <1>2, PushLinks
<1>5. QuantaBounded'
  <2>1. CASE running_thread = NULL
    BY <1>1, <2>1, NullAssumption DEF IInv, QuantaBounded
  <2>2. CASE running_thread # NULL
    BY <1>1, <2>2 DEF IInv, QuantaBounded
  <2> QED  BY <2>1, <2>2
<1>6. CASE running_thread = NULL
  <2>1. Choosable(Queue', st)
    BY <1>2, <1>3, <1>6, NullAssumption
       DEF Choosable, IInv, FieldsOK, States, HoldsLive, OneRunning
  <2> HIDE DEF st
  <2>2. /\ running_thread' \in Nodes \cup {NULL} /\ state' \in [Nodes -> States]
        /\ HoldsLive' /\ OneRunning' /\ WorkConserving'
    BY <1>1, <1>6, <2>1, Rescheduled
  <2>3. FieldsOK'
    BY <1>1, <1>3, <2>2 DEF IInv, FieldsOK
  <2>4. KeepsOrder   \* nobody was READY while the CPU was idle
    BY <1>6 DEF IInv, WorkConserving, KeepsOrder
  <2> QED  BY <1>5, <1>4, <2>2, <2>3, <2>4 DEF IInv
<1>7. CASE running_thread # NULL
  <2>1. state' = st /\ running_thread' = running_thread
    BY <1>1, <1>7
  <2>2. FieldsOK'
    BY <1>1, <1>3, <2>1 DEF IInv, FieldsOK, States
  <2>3. HoldsLive'
    BY <1>2, <1>3, <2>1 DEF IInv, FieldsOK, HoldsLive
  <2>4. OneRunning'
    BY <1>2, <2>1 DEF IInv, FieldsOK, OneRunning
  <2>5. WorkConserving'
    BY <1>7, <2>1 DEF WorkConserving
  <2>6. KeepsOrder
    BY <1>2, <1>3, <2>1 DEF IInv, FieldsOK, KeepsOrder
  <2> QED  BY <1>5, <1>4, <2>2, <2>3, <2>4, <2>5, <2>6 DEF IInv
<1> QED  BY <1>6, <1>7

\* timer_tick keeps the invariant, with and without the end of the timeslice.
LEMMA TickStep ==
    ASSUME IInv, timer_tick
    PROVE  IInv' /\ KeepsOrder
<1> DEFINE r    == running_thread
           used == time_quantums[r] + 1
           st   == [state EXCEPT ![r] = "READY"]
<1>1. r \in Nodes /\ Linked(Queue, r) /\ state[r] = "RUNNING" /\ used \in Nat
  BY DEF IInv, FieldsOK, HoldsLive, OneRunning, timer_tick
<1>2. CASE used >= max_time_on_cpu
  <2>1. /\ time_quantums' = [time_quantums EXCEPT ![r] = 0]
        /\ push_thread_to_tail(r)
        /\ choose_ready_thread(Queue', st)
        /\ UNCHANGED <<max_time_on_cpu, thread_id>>
    BY <1>2 DEF timer_tick
  <2>2. /\ Queue' \in Seq(Nodes) /\ Distinct(Queue')
        /\ \A m \in Nodes : Linked(Queue', m) <=> Linked(Queue, m)
        /\ \A m, p \in Nodes : Before(Queue, m, p) /\ m # r /\ p # r
                                => Before(Queue', m, p)
    BY <1>1, <2>1, PushToTail, PushLinks DEF IInv, FieldsOK, HoldsLive
  <2>3. Choosable(Queue', st)
    BY <1>1, <2>2 DEF Choosable, IInv, FieldsOK, States, HoldsLive, OneRunning
  <2> HIDE DEF st
  <2>4. /\ running_thread' \in Nodes \cup {NULL} /\ state' \in [Nodes -> States]
        /\ HoldsLive' /\ OneRunning' /\ WorkConserving'
        /\ \A n, m \in Nodes : /\ st[n] = "READY" /\ st[m] = "READY"
                               /\ Before(Queue', n, m) /\ state'[n] = "READY"
                               => state'[m] = "READY"
    BY <2>1, <2>3, Rescheduled
  <2>5. FieldsOK'
    BY <1>1, <2>1, <2>2, <2>4 DEF IInv, FieldsOK
  <2>6. QuantaBounded'
    BY <1>1, <2>1 DEF IInv, FieldsOK, QuantaBounded
  <2>7. KeepsOrder
    BY <1>1, <2>2, <2>4 DEF IInv, FieldsOK, KeepsOrder, st
  <2>8. LinksOK'
    BY <1>1, <2>1, PushLinks
  <2> QED  BY <2>4, <2>5, <2>6, <2>7, <2>8 DEF IInv
<1>3. CASE ~(used >= max_time_on_cpu)
  <2>1. /\ time_quantums' = [time_quantums EXCEPT ![r] = used]
        /\ UNCHANGED <<running_thread, state, max_time_on_cpu, thread_id>>
        /\ Queue' = Queue /\ LinksOK'
    BY <1>3, SameLinks DEF IInv, timer_tick
  <2>2. FieldsOK' /\ HoldsLive' /\ OneRunning' /\ WorkConserving' /\ KeepsOrder
    BY <1>1, <2>1 DEF IInv, FieldsOK, HoldsLive, OneRunning, WorkConserving,
                      KeepsOrder
  <2>3. max_time_on_cpu \in Timeslices /\ used < max_time_on_cpu
    BY <1>1, <1>3, TimeslicesAssumption DEF IInv, FieldsOK
  <2>4. QuantaBounded'
    BY <1>1, <2>1, <2>3 DEF IInv, FieldsOK, QuantaBounded
  <2> QED  BY <2>1, <2>2, <2>4 DEF IInv
<1> QED  BY <1>2, <1>3

-----------------------------------------------------------------------------
(* The theorems.                                                           *)

\* A scan of the list passes nothing at the beginning.
LEMMA InitQueue ==
    ASSUME Init
    PROVE  Queue = <<>> /\ IsList(<<>>, threads_queue, tail_threads_queue, next, prev)
<1>1. <<>> \in Seq(Nodes) /\ Len(<<>>) = 0
  BY EmptySeq
<1>2. Distinct(<<>>) /\ IsList(<<>>, threads_queue, tail_threads_queue, next, prev)
  BY <1>1 DEF Init, Distinct, IsList
<1> QED  BY <1>1, <1>2, WalkIsList DEF Queue

\* The empty list with no running thread satisfies the invariant.
LEMMA InitIInv == Init => IInv
<1> SUFFICES ASSUME Init PROVE IInv
  OBVIOUS
<1>1. <<>> \in Seq(Nodes) /\ Len(<<>>) = 0
  BY EmptySeq
<1>2. Queue = <<>> /\ LinksOK
  BY InitQueue DEF Init, LinksOK
<1> QED  BY <1>1, <1>2, NullAssumption
            DEF Init, IInv, FieldsOK, States, HoldsLive, Distinct, Linked,
                OneRunning, WorkConserving, QuantaBounded

\* Every call of the scheduler's interface keeps the invariant.
LEMMA NextStep ==
    ASSUME IInv, [Next]_vars
    PROVE  IInv' /\ [KeepsOrder]_vars
<1>1. CASE UNCHANGED vars
  <2>1. Queue' = Queue /\ LinksOK'
    BY <1>1, SameLinks DEF vars, IInv
  <2> QED  BY <1>1, <2>1 DEF vars, IInv, FieldsOK, HoldsLive, OneRunning,
                            WorkConserving, QuantaBounded
<1>2. CASE Next
  BY <1>2, SetupStep, NewThreadStep, ExitStep, BlockStep, WakeStep, TickStep DEF Next
<1> QED  BY <1>1, <1>2

\* The inductive invariant holds in every reachable state: the list always
\* holds exactly the live threads, once each, and one of them runs if the CPU
\* is not idle.
THEOREM SchedulerInvariant == Spec => []IInv
<1>1. IInv /\ [Next]_vars => IInv'
  BY NextStep
<1> QED  BY <1>1, InitIInv, PTL DEF Spec

\* Type correctness of scheduler.c's globals and list nodes.
THEOREM TypeCorrect == Spec => []TypeOK
<1>1. IInv => TypeOK
  BY DEF IInv, FieldsOK, LinksOK, TypeOK
<1> QED  BY <1>1, SchedulerInvariant, PTL

\* The CPU is never idle while a thread is READY, one thread at a time has it,
\* and no turn outlasts the longest configured timeslice.
THEOREM SoundTurns == Spec => []TurnsSound
<1>1. IInv => TurnsSound
  BY DEF IInv, TurnsSound
<1> QED  BY <1>1, SchedulerInvariant, PTL

\* Unlinking and relinking, at the head, at the tail and between, never lose a
\* thread, link it twice, close a circle or leave a stale head, tail, next or
\* prev (scheduler.c:28-38, 71-87, 92-113).
THEOREM ListIntegrity == Spec => []QueueHoldsLiveThreads
<1>1. IInv => QueueHoldsLiveThreads
  BY DEF IInv, HoldsLive, LinksOK, QueueHoldsLiveThreads
<1> QED  BY <1>1, SchedulerInvariant, PTL

\* READY threads get the CPU in the order they became READY: no call of any
\* operation lets one overtake another.
THEOREM FirstComeFirstServed == Spec => NoOvertaking
<1>1. IInv /\ [Next]_vars => [KeepsOrder]_vars
  BY NextStep
<1> QED  BY <1>1, SchedulerInvariant, PTL DEF Spec, NoOvertaking

-----------------------------------------------------------------------------
(* The refinement: each call is one operation of the first-in first-out    *)
(* line, or none of its business.                                          *)

\* Everybody in a line is one of the nodes asked for.
LEMMA LineMembers ==
    ASSUME NEW q \in Seq(Nodes), NEW R
    PROVE  \A i \in DOMAIN Line(q, R) : Line(q, R)[i] \in Nodes \cap R
<1>1. Len(q) \in 0..Len(q)
  BY LenProperties
<1>2. Line(q, R) \in Seq(Nodes \cap R)
  BY <1>1, LineRecursion
<1> QED  BY <1>2, ElementOfSeq, LenProperties

\* choose_ready_thread gives the CPU to the head of the line.
LEMMA ChooseDispatches ==
    ASSUME NEW q, NEW st, q = Queue',
           Choosable(q, st), choose_ready_thread(q, st)
    PROVE  /\ RR!Dispatch(Line(q, {n \in Nodes : st[n] = "READY"}))
           /\ \A n \in Nodes : state'[n] = "BLOCKED" <=> st[n] = "BLOCKED"
<1> DEFINE R == {n \in Nodes : st[n] = "READY"}
           P == ReadyPositions(q, st)
<1>1. /\ q \in Seq(Nodes) /\ Len(q) \in Nat /\ Distinct(q)
      /\ \A i \in 1..Len(q) : q[i] \in Nodes
  BY LenProperties, ElementOfSeq DEF Choosable
<1>2. ReadyLine' = Line(q, Ready')
  BY DEF ReadyLine
<1>3. CASE P = {}
  <2>1. running_thread' = NULL /\ state' = st
    BY <1>3 DEF choose_ready_thread
  <2>2. Line(q, R) = <<>>
    <3>1. \A i \in 1..Len(q) : q[i] \notin R
      BY <1>3 DEF ReadyPositions
    <3> HIDE DEF R
    <3> QED  BY <1>1, <3>1, LineNone
  <2>3. Ready' = R
    BY <2>1 DEF Ready
  <2> QED  BY <1>2, <2>1, <2>2, <2>3 DEF RR!Dispatch
<1>4. CASE P # {}
  <2> DEFINE p == Min(P)
  <2>1. p \in P /\ \A j \in P : p <= j
    <3>1. P \in SUBSET Nat
      BY <1>1 DEF ReadyPositions
    <3> QED  BY <1>4, <3>1, MinOfNats
  <2>2. running_thread' = q[p] /\ state' = [st EXCEPT ![q[p]] = "RUNNING"]
    BY <1>4 DEF choose_ready_thread
  <2> HIDE DEF p
  <2>3. p \in 1..Len(q) /\ st[q[p]] = "READY" /\ q[p] \in Nodes
    BY <1>1, <2>1 DEF ReadyPositions
  <2>4. \A i \in 1..Len(q) : i < p => q[i] \notin R
    BY <1>1, <2>1, <2>3 DEF ReadyPositions
  <2>5. q[p] \in R /\ Ready' = R \ {q[p]}
    BY <2>2, <2>3 DEF Ready, Choosable
  <2>6. \A n \in Nodes : state'[n] = "BLOCKED" <=> st[n] = "BLOCKED"
    BY <2>2, <2>3 DEF Choosable
  <2> HIDE DEF R
  <2>7. /\ Line(q, R) # <<>> /\ Head(Line(q, R)) = q[p]
        /\ Tail(Line(q, R)) = Line(q, R \ {q[p]})
    BY <1>1, <2>3, <2>4, <2>5, LineFirst, ZenonT(30)
  <2>8. RR!Dispatch(Line(q, R))
    BY <1>2, <2>2, <2>5, <2>7 DEF RR!Dispatch
  <2> QED  BY <2>6, <2>8 DEF R
<1> QED  BY <1>3, <1>4

\* The blocked nodes of the mapping.
Blocked == {n \in Nodes : state[n] = "BLOCKED"}

\* new_thread is an arrival: an idle CPU means an empty line.
LEMMA NewThreadArrives ==
    ASSUME IInv, NEW n \in Nodes, NEW id \in ThreadIds, new_thread(n, id)
    PROVE  RR!Arrive(n)
<1>1. /\ Queue \in Seq(Nodes) /\ state[n] = "FREE" /\ n # running_thread
      /\ ~Linked(Queue, n)
  BY DEF IInv, FieldsOK, HoldsLive, OneRunning, new_thread
<1>2. n \notin RR!Alive
  <2>1. \A i \in DOMAIN ReadyLine : ReadyLine[i] # n
    BY <1>1, LineMembers DEF ReadyLine, Ready
  <2> QED  BY <1>1, <2>1 DEF RR!Alive
<1>3. Blocked' = Blocked
  BY <1>1 DEF Blocked, new_thread, IInv, FieldsOK
<1>4. \A i \in 1..Len(Queue) : Queue[i] # n
  BY <1>1 DEF Linked
<1>5. Queue' = Append(Queue, n)
  BY NewThreadLinks
<1>6. CASE running_thread = NULL
  <2>1. running_thread' = n /\ state' = [state EXCEPT ![n] = "RUNNING"]
    BY <1>6 DEF new_thread
  <2>2. Ready = {}
    BY <1>6 DEF IInv, WorkConserving, Ready
  <2>3. Ready' = {}
    BY <2>1, <2>2 DEF Ready, IInv, FieldsOK
  <2>4. ReadyLine = <<>>
    BY <1>1, <2>2, LineNone DEF ReadyLine
  <2>5. ReadyLine' = <<>>
    BY <1>1, <1>5, <2>3, <2>4, <2>2, LineAppend DEF ReadyLine
  <2>6. Append(<<>>, n) # <<>> /\ Head(Append(<<>>, n)) = n /\ Tail(Append(<<>>, n)) = <<>>
    BY EmptySeq, HeadTailAppend, AppendProperties
  <2>7. RR!Join(n)
    BY <1>6, <2>1, <2>4, <2>5, <2>6 DEF RR!Join, RR!Dispatch
  <2> QED  BY <1>2, <1>3, <2>7 DEF RR!Arrive, Blocked
<1>7. CASE running_thread # NULL
  <2>1. running_thread' = running_thread /\ state' = [state EXCEPT ![n] = "READY"]
    BY <1>7 DEF new_thread
  <2>2. Ready' = Ready \cup {n}
    BY <2>1 DEF Ready, IInv, FieldsOK
  <2>3. ReadyLine' = Append(Line(Queue, Ready \cup {n}), n)
    BY <1>1, <1>5, <2>2, LineAppend DEF ReadyLine
  <2>4. Line(Queue, Ready \cup {n}) = ReadyLine
    BY <1>1, <1>4, LineSame DEF ReadyLine
  <2>5. RR!Join(n)
    BY <1>7, <2>1, <2>3, <2>4 DEF RR!Join
  <2> QED  BY <1>2, <1>3, <2>5 DEF RR!Arrive, Blocked
<1> QED  BY <1>6, <1>7

\* exit_thread gives the CPU to the head of the line.
LEMMA ExitExits == ASSUME IInv, exit_thread PROVE RR!Exit
<1> DEFINE r  == running_thread
           st == [state EXCEPT ![r] = "FREE"]
<1>1. /\ r \in Nodes /\ r # NULL /\ Linked(Queue, r) /\ state[r] = "RUNNING"
      /\ Queue \in Seq(Nodes)
  BY DEF IInv, FieldsOK, HoldsLive, OneRunning, exit_thread
<1>2. Queue' = Without(Queue, r) /\ choose_ready_thread(Queue', st)
  BY ExitLinks DEF exit_thread
<1>3. Choosable(Queue', st)
  BY <1>1, <1>2, UnlinkNode
     DEF Choosable, IInv, FieldsOK, States, HoldsLive, OneRunning
<1>4. /\ {n \in Nodes : st[n] = "READY"} = Ready /\ r \notin Ready
      /\ \A n \in Nodes : st[n] = "BLOCKED" <=> state[n] = "BLOCKED"
  BY <1>1 DEF Ready, IInv, FieldsOK
<1> HIDE DEF st
<1>5. /\ RR!Dispatch(Line(Queue', Ready))
      /\ \A n \in Nodes : state'[n] = "BLOCKED" <=> st[n] = "BLOCKED"
  BY <1>2, <1>3, <1>4, ChooseDispatches
<1>6. Line(Queue', Ready) = ReadyLine
  BY <1>1, <1>2, <1>4, LineUnlink DEF ReadyLine
<1> QED  BY <1>1, <1>4, <1>5, <1>6 DEF RR!Exit

\* So does block_thread.
LEMMA BlockBlocks == ASSUME IInv, block_thread PROVE RR!Block
<1> DEFINE r  == running_thread
           st == [state EXCEPT ![r] = "BLOCKED"]
<1>1. /\ r \in Nodes /\ r # NULL /\ state[r] = "RUNNING"
      /\ Queue' = Queue /\ choose_ready_thread(Queue', st)
  BY SameLinks DEF IInv, FieldsOK, OneRunning, block_thread
<1>2. Choosable(Queue', st)
  BY <1>1 DEF Choosable, IInv, FieldsOK, States, HoldsLive, OneRunning
<1>3. /\ {n \in Nodes : st[n] = "READY"} = Ready
      /\ \A n \in Nodes : st[n] = "BLOCKED" <=> state[n] = "BLOCKED" \/ n = r
  BY <1>1 DEF Ready, IInv, FieldsOK
<1> HIDE DEF st
<1>4. /\ RR!Dispatch(Line(Queue', Ready))
      /\ \A n \in Nodes : state'[n] = "BLOCKED" <=> st[n] = "BLOCKED"
  BY <1>1, <1>2, <1>3, ChooseDispatches
<1>5. Line(Queue', Ready) = ReadyLine
  BY <1>1 DEF ReadyLine
<1> QED  BY <1>1, <1>3, <1>4, <1>5 DEF RR!Block

\* wake_thread is the wake-up of the first blocked thread with that id.
LEMMA WakeWakes ==
    ASSUME IInv, NEW id \in ThreadIds, wake_thread(id)
    PROVE  \E n \in Nodes : RR!Wake(n)
<1>1. PICK n \in Nodes :
        /\ Linked(Queue, n) /\ state[n] = "BLOCKED"
        /\ Queue' = ToTail(Queue, n)
        /\ IF running_thread = NULL
           THEN choose_ready_thread(Queue', [state EXCEPT ![n] = "READY"])
           ELSE state' = [state EXCEPT ![n] = "READY"] /\ UNCHANGED running_thread
  <2> DEFINE B == BlockedPositions(Queue, id)
             k == Min(B)
  <2>1. B # {} /\ B \in SUBSET Nat
    BY LenProperties DEF IInv, FieldsOK, BlockedPositions, wake_thread
  <2>2. k \in B
    BY <2>1, MinOfNats
  <2>3. /\ push_thread_to_tail(Queue[k])
        /\ IF running_thread = NULL
           THEN choose_ready_thread(Queue',
                                    [state EXCEPT ![Queue[k]] = "READY"])
           ELSE state' = [state EXCEPT ![Queue[k]] = "READY"]
                /\ UNCHANGED running_thread
    BY DEF wake_thread
  <2> HIDE DEF k
  <2>4. /\ Queue[k] \in Nodes /\ Linked(Queue, Queue[k])
        /\ state[Queue[k]] = "BLOCKED"
    BY <2>2, ElementOfSeq DEF BlockedPositions, Linked, IInv, FieldsOK
  <2>5. Queue' = ToTail(Queue, Queue[k])
    BY <2>3, <2>4, PushLinks
  <2> QED  BY <2>3, <2>4, <2>5
<1> DEFINE st == [state EXCEPT ![n] = "READY"]
<1>2. n \in Nodes /\ Linked(Queue, n) /\ state[n] = "BLOCKED"
  BY <1>1
<1>3. /\ {m \in Nodes : st[m] = "READY"} = Ready \cup {n} /\ n \notin Ready
      /\ \A m \in Nodes : st[m] = "BLOCKED" <=> state[m] = "BLOCKED" /\ m # n
  BY <1>2 DEF Ready, IInv, FieldsOK
<1>4. /\ Queue \in Seq(Nodes) /\ Distinct(Queue)
      /\ Without(Queue, n) \in Seq(Nodes)
      /\ \A i \in 1..Len(Without(Queue, n)) : Without(Queue, n)[i] # n
  <2>1. Queue \in Seq(Nodes) /\ Distinct(Queue)
    BY DEF IInv, FieldsOK, HoldsLive
  <2>2. Without(Queue, n) \in Seq(Nodes) /\ ~Linked(Without(Queue, n), n)
    BY <1>2, <2>1, UnlinkNode
  <2> QED  BY <2>1, <2>2 DEF Linked
<1>5. Line(Queue', Ready \cup {n}) = Append(ReadyLine, n)
  <2>1. Queue' = Append(Without(Queue, n), n)
    BY <1>1 DEF ToTail
  <2>2. Line(Queue', Ready \cup {n})
          = Append(Line(Without(Queue, n), Ready \cup {n}), n)
    BY <1>2, <1>4, <2>1, LineAppend
  <2>3. Line(Without(Queue, n), Ready \cup {n}) = Line(Without(Queue, n), Ready)
    BY <1>4, LineSame
  <2>4. Line(Without(Queue, n), Ready) = ReadyLine
    BY <1>2, <1>3, <1>4, LineUnlink DEF ReadyLine
  <2> QED  BY <2>2, <2>3, <2>4
<1>6. RR!Join(n) /\ \A m \in Nodes : state'[m] = "BLOCKED" <=> st[m] = "BLOCKED"
  <2>1. CASE running_thread = NULL
    <3>1. Choosable(Queue', st)
      BY <1>1, <1>2, <1>4, <2>1, NullAssumption, PushToTail
         DEF Choosable, IInv, FieldsOK, States, HoldsLive, OneRunning
    <3>0. choose_ready_thread(Queue', st)
      BY <1>1, <2>1
    <3> HIDE DEF st
    <3>2. /\ RR!Dispatch(Line(Queue', {m \in Nodes : st[m] = "READY"}))
          /\ \A m \in Nodes : state'[m] = "BLOCKED" <=> st[m] = "BLOCKED"
      BY <3>0, <3>1, ChooseDispatches
    <3>3. Line(Queue', {m \in Nodes : st[m] = "READY"}) = Append(ReadyLine, n)
      BY <1>3, <1>5
    <3>4. RR!Dispatch(Append(ReadyLine, n))
      BY <3>2, <3>3
    <3> QED  BY <2>1, <3>2, <3>4 DEF RR!Join
  <2>2. CASE running_thread # NULL
    <3>1. state' = st /\ running_thread' = running_thread
      BY <1>1, <2>2
    <3>2. Ready' = Ready \cup {n}
      BY <1>3, <3>1 DEF Ready
    <3>3. ReadyLine' = Append(ReadyLine, n)
      BY <1>5, <3>2 DEF ReadyLine
    <3> HIDE DEF st
    <3> QED  BY <2>2, <3>1, <3>3 DEF RR!Join
  <2> QED  BY <2>1, <2>2
<1> HIDE DEF st
<1>7. RR!Wake(n)
  BY <1>2, <1>3, <1>6 DEF RR!Wake
<1> QED  BY <1>7

\* timer_tick is nothing, or at the end of the timeslice a preemption.
LEMMA TickPreempts ==
    ASSUME IInv, timer_tick
    PROVE  RR!Preempt \/ UNCHANGED RR!rrVars
<1> DEFINE r  == running_thread
           used == time_quantums[r] + 1
           st == [state EXCEPT ![r] = "READY"]
<1>1. /\ r \in Nodes /\ r # NULL /\ Linked(Queue, r) /\ state[r] = "RUNNING"
      /\ Queue \in Seq(Nodes) /\ Distinct(Queue)
  BY DEF IInv, FieldsOK, HoldsLive, OneRunning, timer_tick
<1>2. CASE used >= max_time_on_cpu
  <2>1. /\ Queue' = ToTail(Queue, r)
        /\ choose_ready_thread(Queue', st)
    BY <1>1, <1>2, PushLinks DEF timer_tick
  <2>2. Choosable(Queue', st)
    BY <1>1, <2>1, PushToTail
       DEF Choosable, IInv, FieldsOK, States, HoldsLive, OneRunning
  <2>3. /\ {n \in Nodes : st[n] = "READY"} = Ready \cup {r} /\ r \notin Ready
        /\ \A n \in Nodes : st[n] = "BLOCKED" <=> state[n] = "BLOCKED"
    BY <1>1 DEF Ready, IInv, FieldsOK
  <2> HIDE DEF st
  <2>4. Line(Queue', Ready \cup {r}) = Append(ReadyLine, r)
    <3>1. Queue' = Append(Without(Queue, r), r)
      BY <2>1 DEF ToTail
    <3>2. /\ Without(Queue, r) \in Seq(Nodes)
          /\ \A i \in 1..Len(Without(Queue, r)) : Without(Queue, r)[i] # r
      BY <1>1, UnlinkNode DEF Linked
    <3>3. Line(Queue', Ready \cup {r})
            = Append(Line(Without(Queue, r), Ready \cup {r}), r)
      BY <1>1, <3>1, <3>2, LineAppend
    <3>4. Line(Without(Queue, r), Ready \cup {r}) = Line(Without(Queue, r), Ready)
      BY <3>2, LineSame
    <3>5. Line(Without(Queue, r), Ready) = ReadyLine
      BY <1>1, <2>3, LineUnlink DEF ReadyLine
    <3> QED  BY <3>3, <3>4, <3>5
  <2>5. /\ RR!Dispatch(Append(ReadyLine, r))
        /\ \A n \in Nodes : state'[n] = "BLOCKED" <=> st[n] = "BLOCKED"
    <3>1. /\ RR!Dispatch(Line(Queue', {n \in Nodes : st[n] = "READY"}))
          /\ \A n \in Nodes : state'[n] = "BLOCKED" <=> st[n] = "BLOCKED"
      BY <2>1, <2>2, ChooseDispatches
    <3>2. Line(Queue', {n \in Nodes : st[n] = "READY"}) = Append(ReadyLine, r)
      BY <2>3, <2>4
    <3> QED  BY <3>1, <3>2
  <2> QED  BY <1>1, <2>3, <2>5 DEF RR!Preempt
<1>3. CASE ~(used >= max_time_on_cpu)
  <2>1. UNCHANGED <<running_thread, state>> /\ Queue' = Queue
    BY <1>3, SameLinks DEF timer_tick
  <2> QED  BY <2>1 DEF RR!rrVars, ReadyLine, Ready
<1> QED  BY <1>2, <1>3

\* The scheduler implements RoundRobin, its liveness aside: with whatever calls,
\* the CPU goes to the one that has been ready for longest, whoever becomes ready
\* joins the end of the line, and nobody leaves it but for the CPU.
THEOREM Implementation == Spec => RR!Init /\ [][RR!Next]_RR!rrVars
<1>1. Init => RR!Init
  <2>1. Init => Queue = <<>>
    BY InitQueue
  <2> QED  BY <2>1, LineEmpty DEF Init, RR!Init, ReadyLine
<1>2. IInv /\ [Next]_vars => [RR!Next]_RR!rrVars
  <2> SUFFICES ASSUME IInv, [Next]_vars PROVE RR!Next \/ UNCHANGED RR!rrVars
    OBVIOUS
  <2>1. CASE UNCHANGED vars
    BY <2>1, SameLinks DEF vars, RR!rrVars, ReadyLine, Ready
  <2>2. ASSUME NEW ts \in Timeslices, scheduler_setup(ts) PROVE UNCHANGED RR!rrVars
    BY <2>2, SameLinks DEF scheduler_setup, RR!rrVars, ReadyLine, Ready
  <2> QED
    BY <2>1, <2>2, NewThreadArrives, ExitExits, BlockBlocks, WakeWakes, TickPreempts
       DEF Next, RR!Next
<1> QED  BY <1>1, <1>2, SchedulerInvariant, PTL DEF Spec
=============================================================================
