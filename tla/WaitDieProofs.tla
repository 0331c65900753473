---------------------------- MODULE WaitDieProofs ---------------------------
(***************************************************************************)
(* Proofs about WaitDie.tla, for any number of contexts and locks and with *)
(* or without spurious wakeups.  The code does not keep a lock exclusive,  *)
(* yet no sleeper is forgotten: because all contexts take the locks in the *)
(* same order, l->next always points to the lock before l, whoever wrote   *)
(* it last, and the walk of wdlock_unlock passes every lock the context    *)
(* owns.                                                                   *)
(***************************************************************************)
EXTENDS WaitDie, TLAPS

Taking == {"lock", "to_wait", "waiting", "woken", "relock"}

\* A context holds the inner lock exactly from the guard to the condition.
InnerHeld == \A c \in Contexts : pc[c] = "to_wait" => inner[i[c]] = c

\* How far a context's list reaches, and how far its unlocking has come.
ListReach ==
    \A c \in Contexts :
        /\ pc[c] \in Taking => head[c] = i[c] - 1
        /\ pc[c] \in {"unlock", "unlinking"} => cur[c] <= head[c]
        /\ pc[c] = "unlinking" => cur[c] # NULL

\* Every list links each lock to the one taken before it.
ListsOrdered == \A c \in Contexts : \A k \in 1..head[c] : next[k] = k - 1

\* An owner has not passed its lock yet.
OwnersAhead == \A l \in Locks, c \in Contexts : owner[l] = c => l <= Cursor(c)

IInv == /\ TypeOK
        /\ SleeperHasOwner
        /\ InnerHeld
        /\ ListReach
        /\ ListsOrdered
        /\ OwnersAhead

USE ThreadNumAssumption, LocksNumAssumption DEF Contexts, Locks, NULL

\* No lock has an owner at the start and no context has a list.
LEMMA InitIInv == Init => IInv
<1> SUFFICES ASSUME Init PROVE IInv
  OBVIOUS
<1>1. TypeOK
  BY DEF Init, TypeOK, PCs
<1> QED  BY <1>1 DEF Init, IInv, SleeperHasOwner, InnerHeld, ListReach, ListsOrdered,
                     OwnersAhead, Taking

\* Both ways to capture a lock: the links that are rewritten keep their value.
LEMMA CaptureStep ==
    ASSUME IInv, NEW c \in Contexts, pc[c] \in {"lock", "relock"},
           Capture(c), UNCHANGED <<inner, cur>>
    PROVE  IInv'
<1> DEFINE l == i[c]
<1>1. /\ l \in Locks /\ head[c] = l - 1
      /\ owner' = [owner EXCEPT ![l] = c]
      /\ head' = [head EXCEPT ![c] = l]
      /\ next' = [next EXCEPT ![l] = l - 1]
      /\ UNCHANGED <<inner, cur>>
  BY DEF IInv, TypeOK, ListReach, Taking, Capture
<1>2. \/ /\ l = LOCKS_NUM /\ pc' = [pc EXCEPT ![c] = "critical"] /\ i' = i
         /\ locked' = [locked EXCEPT ![c] = TRUE]
      \/ /\ l + 1 \in Locks /\ pc' = [pc EXCEPT ![c] = "lock"]
         /\ i' = [i EXCEPT ![c] = l + 1] /\ locked' = locked
  BY <1>1 DEF Capture, Goto
<1> HIDE DEF l
<1>3. TypeOK'
  BY <1>1, <1>2 DEF IInv, TypeOK, PCs
<1>4. SleeperHasOwner'
  BY <1>1, <1>2 DEF IInv, TypeOK, SleeperHasOwner
<1>5. InnerHeld'
  BY <1>1, <1>2 DEF IInv, TypeOK, InnerHeld
<1>6. ListReach'
  BY SMTT(30), <1>1, <1>2 DEF IInv, TypeOK, ListReach, Taking
<1>7. ListsOrdered'
  <2>1. ASSUME NEW d \in Contexts, NEW k \in 1..head'[d] PROVE next'[k] = k - 1
    <3>1. CASE k = l
      BY <1>1, <3>1 DEF IInv, TypeOK
    <3>2. CASE k # l
      <4>1. k \in 1..head[d] /\ k \in Locks
        <5>1. CASE d = c
          BY <1>1, <3>2, <5>1 DEF IInv, TypeOK
        <5>2. CASE d # c
          BY <1>1, <5>2 DEF IInv, TypeOK
        <5> QED  BY <5>1, <5>2
      <4> QED  BY <1>1, <3>2, <4>1 DEF IInv, TypeOK, ListsOrdered
    <3> QED  BY <3>1, <3>2
  <2> QED  BY <2>1 DEF ListsOrdered
<1>8. OwnersAhead'
  <2>1. ASSUME NEW m \in Locks, NEW d \in Contexts, owner'[m] = d
        PROVE  m <= Cursor(d)'
    <3>1. CASE d = c
      <4>1. Cursor(c)' = l /\ Cursor(c) = l - 1
        BY <1>1, <1>2 DEF IInv, TypeOK, Cursor
      <4> QED  BY <1>1, <2>1, <3>1, <4>1 DEF IInv, TypeOK, OwnersAhead
    <3>2. CASE d # c
      <4>1. m <= Cursor(d)
        BY <1>1, <2>1, <3>2 DEF IInv, TypeOK, OwnersAhead
      <4>2. pc[d] = "unlinking" => next'[cur[d]] = next[cur[d]]
        <5>1. pc[d] = "unlinking" => cur[d] \in 1..head[d] /\ cur[d] \in Locks
          BY DEF IInv, TypeOK, ListReach
        <5> QED  BY <1>1, <5>1 DEF IInv, TypeOK, ListsOrdered
      <4>3. Cursor(d)' = Cursor(d)
        BY <1>1, <1>2, <3>2, <4>2 DEF IInv, TypeOK, Cursor
      <4> QED  BY <4>1, <4>3
    <3> QED  BY <3>1, <3>2
  <2> QED  BY <2>1 DEF OwnersAhead
<1> QED  BY <1>3, <1>4, <1>5, <1>6, <1>7, <1>8 DEF IInv

\* One round of wdlock_unlock's loop, with its notify_all, keeps the invariant.
LEMMA ReleaseStep ==
    ASSUME IInv, NEW c \in Contexts, Release(c)
    PROVE  IInv'
<1> DEFINE l == cur[c]
<1>1. /\ l \in Locks /\ l <= head[c] /\ next[l] = l - 1 /\ inner[l] = NULL
      /\ pc[c] = "unlock"
      /\ owner' = [owner EXCEPT ![l] = NULL]
      /\ UNCHANGED <<next, inner, head, i, cur, locked>>
  BY DEF Release, IInv, TypeOK, ListReach, ListsOrdered
<1>2. /\ pc' \in [Contexts -> PCs]
      /\ pc'[c] = "unlinking"
      /\ \A d \in Contexts : d # c => \/ pc'[d] = pc[d] /\ ~(pc[d] = "waiting" /\ i[d] = l)
                                      \/ pc[d] = "waiting" /\ i[d] = l /\ pc'[d] = "woken"
  BY DEF Release, NotifyAll, IInv, TypeOK, PCs
<1>3. TypeOK'
  BY <1>1, <1>2 DEF IInv, TypeOK
<1>4. SleeperHasOwner'
  <2>1. ASSUME NEW d \in Contexts, pc'[d] \in {"to_wait", "waiting"}
        PROVE  owner'[i[d]] # NULL
    <3>1. d # c /\ pc'[d] = pc[d] /\ ~(pc[d] = "waiting" /\ i[d] = l)
      BY <1>2, <2>1
    <3>2. i[d] # l
      BY <1>1, <2>1, <3>1 DEF IInv, InnerHeld
    <3> QED  BY <1>1, <2>1, <3>1, <3>2 DEF IInv, TypeOK, SleeperHasOwner
  <2> QED  BY <1>1, <2>1 DEF SleeperHasOwner
<1>5. InnerHeld'
  BY <1>1, <1>2 DEF IInv, InnerHeld
<1>6. ListReach'
  BY <1>1, <1>2 DEF IInv, TypeOK, ListReach, Taking
<1>7. ListsOrdered'
  BY <1>1 DEF IInv, ListsOrdered
<1>8. OwnersAhead'
  <2>1. ASSUME NEW m \in Locks, NEW d \in Contexts, owner'[m] = d
        PROVE  m <= Cursor(d)'
    <3>1. m # l /\ owner[m] = d /\ m <= Cursor(d)
      BY <1>1, <2>1 DEF IInv, TypeOK, OwnersAhead
    <3>2. CASE d = c
      <4>1. Cursor(c) = l /\ Cursor(c)' = l - 1
        BY <1>1, <1>2 DEF Cursor
      <4> QED  BY <1>1, <3>1, <3>2, <4>1
    <3>3. CASE d # c
      <4>1. Cursor(d)' = Cursor(d)
        BY <1>1, <1>2, <3>3 DEF Cursor
      <4> QED  BY <3>1, <4>1
    <3> QED  BY <3>2, <3>3
  <2> QED  BY <2>1 DEF OwnersAhead
<1> QED  BY <1>3, <1>4, <1>5, <1>6, <1>7, <1>8 DEF IInv

\* The steps of c that change neither an owner nor a link, and no context
\* but c itself; the last conjunct is all that OwnersAhead needs of c.
LEMMA LocalStep ==
    ASSUME IInv, NEW c \in Contexts, TypeOK', SleeperHasOwner', InnerHeld',
           ListReach', ListsOrdered',
           UNCHANGED <<owner, next>>,
           \A d \in Contexts \ {c} : pc'[d] = pc[d] /\ cur'[d] = cur[d] /\ head'[d] = head[d],
           Cursor(c) <= Cursor(c)'
    PROVE  IInv'
<1>1. ASSUME NEW m \in Locks, NEW d \in Contexts, owner'[m] = d
      PROVE  m <= Cursor(d)'
  <2>1. owner[m] = d /\ m <= Cursor(d)
    BY <1>1 DEF IInv, TypeOK, OwnersAhead
  <2>2. CASE d = c
    <3>1. Cursor(c) \in Nat /\ Cursor(c)' \in Nat
      <4>1. Cursor(c) \in Nat
        BY DEF Cursor, IInv, TypeOK, ListReach
      <4>2. Cursor(c)' \in Nat
        BY DEF Cursor, TypeOK, ListReach
      <4> QED  BY <4>1, <4>2
    <3> QED  BY <2>1, <2>2, <3>1
  <2>3. CASE d # c
    <3>1. Cursor(d)' = Cursor(d)
      BY <2>3 DEF Cursor
    <3> QED  BY <2>1, <3>1
  <2> QED  BY <2>2, <2>3
<1> QED  BY <1>1 DEF IInv, OwnersAhead

\* Every step of every thread keeps the invariant.
LEMMA NextStep ==
    ASSUME IInv, [Next]_vars
    PROVE  IInv'
<1>1. CASE UNCHANGED vars
  BY <1>1 DEF vars, IInv, TypeOK, SleeperHasOwner, InnerHeld, ListReach, ListsOrdered,
              OwnersAhead, Cursor
<1>2. ASSUME NEW c \in Contexts, Step(c) \/ SpuriousWakeup(c) PROVE IInv'
  <2> USE DEF Goto
  <2>1. CASE LockFree(c)
    BY <2>1, CaptureStep DEF LockFree
  <2>2. CASE CaptureAfterWait(c)
    BY <2>2, CaptureStep DEF CaptureAfterWait
  <2>3. CASE Release(c)
    BY <2>3, ReleaseStep
  <2>4. CASE PrepareToWait(c)
    <3>1. TypeOK' /\ ListsOrdered'
      BY <2>4 DEF PrepareToWait, IInv, TypeOK, PCs, ListsOrdered
    <3>2. SleeperHasOwner' /\ InnerHeld' /\ ListReach'
      BY <2>4 DEF PrepareToWait, IInv, TypeOK, SleeperHasOwner, InnerHeld, ListReach, Taking
    <3>3. Cursor(c) <= Cursor(c)'
      <4>1. Cursor(c) = head[c] /\ Cursor(c)' = head[c] /\ head[c] \in Nat
        BY <2>4 DEF PrepareToWait, IInv, TypeOK, Cursor
      <4> QED  BY <4>1
    <3> QED  BY <2>4, <3>1, <3>2, <3>3, LocalStep DEF PrepareToWait, IInv, TypeOK
  <2>5. CASE Wait(c)
    <3>1. TypeOK' /\ ListsOrdered'
      BY <2>5 DEF Wait, IInv, TypeOK, PCs, ListsOrdered
    <3>2. SleeperHasOwner' /\ InnerHeld' /\ ListReach'
      BY <2>5 DEF Wait, IInv, TypeOK, SleeperHasOwner, InnerHeld, ListReach, Taking
    <3>3. Cursor(c) <= Cursor(c)'
      <4>1. Cursor(c) = head[c] /\ Cursor(c)' = head[c] /\ head[c] \in Nat
        BY <2>5 DEF Wait, IInv, TypeOK, Cursor
      <4> QED  BY <4>1
    <3> QED  BY <2>5, <3>1, <3>2, <3>3, LocalStep DEF Wait, IInv, TypeOK
  <2>6. CASE Reacquire(c) \/ SpuriousWakeup(c)
    <3>1. /\ \/ pc[c] = "waiting" /\ pc' = [pc EXCEPT ![c] = "woken"]
             \/ pc[c] = "woken" /\ pc' = [pc EXCEPT ![c] = "relock"]
          /\ UNCHANGED <<owner, next, inner, head, i, cur, locked>>
      BY <2>6 DEF Reacquire, SpuriousWakeup
    <3>2. TypeOK' /\ ListsOrdered'
      BY <3>1 DEF IInv, TypeOK, PCs, ListsOrdered
    <3>3. SleeperHasOwner' /\ InnerHeld' /\ ListReach'
      BY <3>1 DEF IInv, TypeOK, SleeperHasOwner, InnerHeld, ListReach, Taking
    <3>4. Cursor(c) <= Cursor(c)'
      BY <3>1 DEF IInv, TypeOK, Cursor
    <3> QED  BY <3>1, <3>2, <3>3, <3>4, LocalStep DEF IInv, TypeOK
  <2>7. CASE Die(c) \/ Critical(c)
    <3>1. /\ pc[c] \in {"lock", "critical"} /\ pc' = [pc EXCEPT ![c] = "unlock"]
          /\ cur' = [cur EXCEPT ![c] = head[c]]
          /\ UNCHANGED <<owner, next, inner, head, i, locked>>
      BY <2>7 DEF Die, Critical
    <3>2. TypeOK' /\ ListsOrdered'
      BY <3>1 DEF IInv, TypeOK, PCs, ListsOrdered
    <3>3. SleeperHasOwner' /\ InnerHeld' /\ ListReach'
      <4>1. SleeperHasOwner' /\ InnerHeld'
        BY <3>1 DEF IInv, TypeOK, SleeperHasOwner, InnerHeld
      <4>2. ListReach'
        <5>1. head[c] \in Nat /\ cur'[c] = head[c] /\ pc'[c] = "unlock"
          BY <3>1 DEF IInv, TypeOK
        <5>2. \A d \in Contexts \ {c} : pc'[d] = pc[d] /\ cur'[d] = cur[d]
          BY <3>1 DEF IInv, TypeOK
        <5> QED  BY <3>1, <5>1, <5>2 DEF IInv, ListReach, Taking
      <4> QED  BY <4>1, <4>2
    <3>4. Cursor(c) <= Cursor(c)'
      <4>1. Cursor(c) = head[c] /\ Cursor(c)' = head[c] /\ head[c] \in Nat
        BY <3>1 DEF IInv, TypeOK, Cursor
      <4> QED  BY <4>1
    <3> QED  BY <3>1, <3>2, <3>3, <3>4, LocalStep DEF IInv, TypeOK
  <2>8. CASE FollowLink(c)
    <3>1. /\ pc[c] = "unlinking" /\ pc' = [pc EXCEPT ![c] = "unlock"]
          /\ cur' = [cur EXCEPT ![c] = next[cur[c]]]
          /\ cur[c] \in Locks /\ next[cur[c]] = cur[c] - 1
          /\ UNCHANGED <<owner, next, inner, head, i, locked>>
      BY <2>8 DEF FollowLink, IInv, TypeOK, ListReach, ListsOrdered
    <3>2. TypeOK' /\ ListsOrdered'
      BY <3>1 DEF IInv, TypeOK, PCs, ListsOrdered
    <3>3. SleeperHasOwner' /\ InnerHeld' /\ ListReach'
      <4>1. SleeperHasOwner' /\ InnerHeld'
        BY <3>1 DEF IInv, TypeOK, SleeperHasOwner, InnerHeld
      <4>2. ListReach'
        <5>1. /\ cur'[c] = cur[c] - 1 /\ pc'[c] = "unlock"
              /\ cur[c] \in Nat /\ head[c] \in Nat /\ cur[c] <= head[c]
          BY <3>1 DEF IInv, TypeOK, ListReach
        <5>2. \A d \in Contexts \ {c} : pc'[d] = pc[d] /\ cur'[d] = cur[d]
          BY <3>1 DEF IInv, TypeOK
        <5> QED  BY <3>1, <5>1, <5>2 DEF IInv, ListReach, Taking
      <4> QED  BY <4>1, <4>2
    <3>4. Cursor(c) <= Cursor(c)'
      BY <3>1 DEF IInv, TypeOK, Cursor
    <3> QED  BY <3>1, <3>2, <3>3, <3>4, LocalStep DEF IInv, TypeOK
  <2>9. CASE Unlocked(c)
    <3>1. /\ pc[c] = "unlock" /\ cur[c] = NULL
          /\ head' = [head EXCEPT ![c] = NULL]
          /\ \/ pc' = [pc EXCEPT ![c] = "done"] /\ i' = i
             \/ pc' = [pc EXCEPT ![c] = "lock"] /\ i' = [i EXCEPT ![c] = 1]
          /\ UNCHANGED <<owner, next, inner, cur, locked>>
      BY <2>9 DEF Unlocked
    <3>2. TypeOK' /\ ListsOrdered'
      <4>1. TypeOK'
        <5>1. locked' \in [Contexts -> BOOLEAN]
          BY <3>1 DEF IInv, TypeOK
        <5>2. pc' \in [Contexts -> PCs] /\ 1 \in Locks
          BY <3>1 DEF IInv, TypeOK, PCs
        <5>3. i' \in [Contexts -> Locks]
          BY <3>1, <5>2 DEF IInv, TypeOK
        <5> QED  BY <3>1, <5>1, <5>2, <5>3 DEF IInv, TypeOK
      <4>2. ListsOrdered'
        BY <3>1 DEF IInv, TypeOK, ListsOrdered
      <4> QED  BY <4>1, <4>2
    <3>3. SleeperHasOwner' /\ InnerHeld' /\ ListReach'
      BY SMTT(30), <3>1 DEF IInv, TypeOK, SleeperHasOwner, InnerHeld, ListReach, Taking
    <3>4. Cursor(c) <= Cursor(c)'
      BY <3>1 DEF IInv, TypeOK, Cursor
    <3> QED  BY <3>1, <3>2, <3>3, <3>4, LocalStep DEF IInv, TypeOK
  <2> QED  BY <1>2, <2>1, <2>2, <2>3, <2>4, <2>5, <2>6, <2>7, <2>8, <2>9 DEF Step
<1>3. CASE Terminated
  BY <1>1, <1>3 DEF Terminated
<1> QED  BY <1>1, <1>2, <1>3 DEF Next

\* The inductive invariant of the lock and its users.
THEOREM WaitDieInvariant == Spec => []IInv
<1>1. IInv /\ [Next]_vars => IInv'
  BY NextStep
<1> QED  BY <1>1, InitIInv, PTL DEF Spec

\* Links, cursors and main's loop stay within the array of locks.
THEOREM WithinTheArray == Spec => []TypeOK
<1>1. IInv => TypeOK
  BY DEF IInv
<1> QED  BY <1>1, WaitDieInvariant, PTL

\* No lost wakeup: for any number of threads and locks, a context that sleeps
\* on a lock, or is about to, has an owner to be woken by.
THEOREM NoLostWakeup == Spec => []SleeperHasOwner
<1>1. IInv => SleeperHasOwner
  BY DEF IInv
<1> QED  BY <1>1, WaitDieInvariant, PTL

\* The walk of wdlock_unlock reaches every lock the context owns, although
\* the links it follows may have been written by other contexts meanwhile.
THEOREM OwnersRelease == Spec => []OwnerWillRelease
<1>1. IInv => OwnerWillRelease
  <2>1. SUFFICES ASSUME IInv, NEW l \in Locks, NEW c \in Contexts, owner[l] = c
                 PROVE  /\ l <= Cursor(c)
                        /\ \A k \in 1..Cursor(c) : next[k] = k - 1
    BY DEF OwnerWillRelease
  <2>2. l <= Cursor(c)
    BY <2>1 DEF IInv, OwnersAhead
  <2>3. Cursor(c) \in Nat /\ Cursor(c) <= head[c] /\ head[c] \in Nat
    <3>1. CASE pc[c] = "unlinking"
      <4>1. cur[c] \in 1..head[c] /\ head[c] \in Nat /\ cur[c] \in Locks
        BY <2>1, <3>1 DEF IInv, TypeOK, ListReach
      <4>2. next[cur[c]] = cur[c] - 1
        BY <2>1, <4>1 DEF IInv, ListsOrdered
      <4> QED  BY <3>1, <4>1, <4>2 DEF Cursor
    <3>2. CASE pc[c] # "unlinking"
      BY <2>1, <3>2 DEF IInv, TypeOK, ListReach, Cursor
    <3> QED  BY <3>1, <3>2
  <2>4. \A k \in 1..Cursor(c) : next[k] = k - 1
    <3>1. \A k \in 1..Cursor(c) : k \in 1..head[c]
      BY <2>3
    <3> QED  BY <2>1, <3>1 DEF IInv, ListsOrdered
  <2> QED  BY <2>2, <2>4
<1> QED  BY <1>1, WaitDieInvariant, PTL
=============================================================================
