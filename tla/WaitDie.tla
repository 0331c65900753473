------------------------------- MODULE WaitDie ------------------------------
(***************************************************************************)
(* os-internals/wait-die/src: the wait-die lock of wd_lock.c and the       *)
(* threads of main.c that use it.  A context that asks for an owned lock   *)
(* waits if it is older than the owner and dies (releases everything and   *)
(* starts over) if it is younger.  A lock has a guard, held for the whole  *)
(* of a call but for the wait, and an inner lock with a condition.         *)
(*                                                                         *)
(* The guard is only ever held over steps of one thread, so a guarded      *)
(* section is one action, which waits for the inner lock where the section *)
(* takes it.  The inner lock is a variable: a waiter keeps it from inside  *)
(* the guarded section until it is on the condition.                       *)
(***************************************************************************)
EXTENDS Naturals

CONSTANTS THREAD_NUM,       \* contexts, numbered by their timestamps
          LOCKS_NUM,        \* locks, numbered in the order main takes them
          SpuriousWakeups   \* whether pthread_cond_wait may return unasked

(* main starts at least one thread and takes at least one lock.            *)
ASSUME ThreadNumAssumption == THREAD_NUM \in Nat \ {0}
ASSUME LocksNumAssumption == LOCKS_NUM \in Nat \ {0}
ASSUME SpuriousAssumption == SpuriousWakeups \in BOOLEAN

Contexts == 1..THREAD_NUM   \* wdlock_ctx_init hands out 1, 2, ...
Locks == 1..LOCKS_NUM
NULL == 0                   \* neither a context nor a lock

VARIABLES owner,    \* of each lock: l->owner
          next,     \* of each lock: l->next, its link in a context's list
          inner,    \* of each lock: who holds l->lock
          head,     \* of each context: ctx->locks
          pc,       \* of each context's thread
          i,        \* main.c's loop variable: the lock being taken
          cur,      \* wdlock_unlock's cursor
          locked    \* main.c's locked: all locks are taken

vars == <<owner, next, inner, head, pc, i, cur, locked>>

Init == /\ owner = [l \in Locks |-> NULL]
        /\ next = [l \in Locks |-> NULL]
        /\ inner = [l \in Locks |-> NULL]
        /\ head = [c \in Contexts |-> NULL]
        /\ pc = [c \in Contexts |-> "lock"]
        /\ i = [c \in Contexts |-> 1]
        /\ cur = [c \in Contexts |-> NULL]
        /\ locked = [c \in Contexts |-> FALSE]

Goto(c, there) == pc' = [pc EXCEPT ![c] = there]

-----------------------------------------------------------------------------
(* wdlock_lock(&locks[i], ctx), called in main.c's for loop.               *)

\* Mutant: the lock is linked behind the head of the list.
CaptureUnlinked(c) ==
    LET l == i[c]
    IN  /\ owner' = [owner EXCEPT ![l] = c]
        /\ head' = [head EXCEPT ![c] = l]
        /\ next' = [next EXCEPT ![l] = NULL]
        /\ IF l = LOCKS_NUM
           THEN /\ Goto(c, "critical")
                /\ locked' = [locked EXCEPT ![c] = TRUE]
                /\ UNCHANGED i
           ELSE /\ Goto(c, "lock")
                /\ i' = [i EXCEPT ![c] = @ + 1]
                /\ UNCHANGED locked

\* Mutant: main's loop goes one lock too far.
CaptureOneMore(c) ==
    LET l == i[c]
    IN  /\ owner' = [owner EXCEPT ![l] = c]
        /\ head' = [head EXCEPT ![c] = l]
        /\ next' = [next EXCEPT ![l] = head[c]]
        /\ IF l > LOCKS_NUM
           THEN /\ Goto(c, "critical")
                /\ locked' = [locked EXCEPT ![c] = TRUE]
                /\ UNCHANGED i
           ELSE /\ Goto(c, "lock")
                /\ i' = [i EXCEPT ![c] = @ + 1]
                /\ UNCHANGED locked

\* The lock is captured and the call returns 1; after the last lock main
\* leaves its loop.
Capture(c) ==
    LET l == i[c]
    IN  /\ owner' = [owner EXCEPT ![l] = c]
        /\ head' = [head EXCEPT ![c] = l]
        /\ next' = [next EXCEPT ![l] = head[c]]
        /\ IF l = LOCKS_NUM
           THEN /\ Goto(c, "critical")
                /\ locked' = [locked EXCEPT ![c] = TRUE]
                /\ UNCHANGED i
           ELSE /\ Goto(c, "lock")
                /\ i' = [i EXCEPT ![c] = @ + 1]
                /\ UNCHANGED locked

LockFree(c) == /\ pc[c] = "lock"
               /\ owner[i[c]] = NULL
               /\ Capture(c)
               /\ UNCHANGED <<inner, cur>>

\* Mutant: the inner lock is not held while the guard is released.
PrepareUnprotected(c) == /\ pc[c] = "lock"
                         /\ owner[i[c]] # NULL /\ owner[i[c]] > c
                         /\ Goto(c, "to_wait")
                         /\ UNCHANGED <<owner, next, inner, head, i, cur, locked>>

\* c is older than the owner: it takes the inner lock before it lets go of
\* the guard.
PrepareToWait(c) == /\ pc[c] = "lock"
                    /\ owner[i[c]] # NULL /\ owner[i[c]] > c
                    /\ inner[i[c]] = NULL
                    /\ inner' = [inner EXCEPT ![i[c]] = c]
                    /\ Goto(c, "to_wait")
                    /\ UNCHANGED <<owner, next, head, i, cur, locked>>

\* pthread_cond_wait: onto the condition and off the inner lock, atomically.
Wait(c) == /\ pc[c] = "to_wait"
           /\ inner' = [inner EXCEPT ![i[c]] = NULL]
           /\ Goto(c, "waiting")
           /\ UNCHANGED <<owner, next, head, i, cur, locked>>

SpuriousWakeup(c) == /\ SpuriousWakeups
                     /\ pc[c] = "waiting"
                     /\ Goto(c, "woken")
                     /\ UNCHANGED <<owner, next, inner, head, i, cur, locked>>

\* pthread_cond_wait gets the inner lock back, and the caller unlocks it.
Reacquire(c) == /\ pc[c] = "woken"
                /\ inner[i[c]] = NULL
                /\ Goto(c, "relock")
                /\ UNCHANGED <<owner, next, inner, head, i, cur, locked>>

\* After the wait the code captures the lock without looking at its owner.
CaptureAfterWait(c) == /\ pc[c] = "relock"
                       /\ Capture(c)
                       /\ UNCHANGED <<inner, cur>>

\* c is younger than the owner (or the owner itself): the call returns 0 and
\* main calls wdlock_unlock.
Die(c) == /\ pc[c] = "lock"
          /\ owner[i[c]] # NULL /\ owner[i[c]] <= c
          /\ cur' = [cur EXCEPT ![c] = head[c]]
          /\ Goto(c, "unlock")
          /\ UNCHANGED <<owner, next, inner, head, i, locked>>

\* (*obj)++ and the call of wdlock_unlock.
Critical(c) == /\ pc[c] = "critical"
               /\ cur' = [cur EXCEPT ![c] = head[c]]
               /\ Goto(c, "unlock")
               /\ UNCHANGED <<owner, next, inner, head, i, locked>>

-----------------------------------------------------------------------------
(* wdlock_unlock.                                                          *)

NotifyAll(l) == [c \in Contexts |-> IF pc[c] = "waiting" /\ i[c] = l
                                    THEN "woken" ELSE pc[c]]

\* Mutant: the waiters are not notified.
ReleaseSilently(c) == /\ pc[c] = "unlock" /\ cur[c] # NULL
                      /\ inner[cur[c]] = NULL
                      /\ owner' = [owner EXCEPT ![cur[c]] = NULL]
                      /\ Goto(c, "unlinking")
                      /\ UNCHANGED <<next, inner, head, i, cur, locked>>

\* One turn of the loop up to the unlocking of the guard.
Release(c) == /\ pc[c] = "unlock" /\ cur[c] # NULL
              /\ inner[cur[c]] = NULL
              /\ owner' = [owner EXCEPT ![cur[c]] = NULL]
              /\ pc' = [NotifyAll(cur[c]) EXCEPT ![c] = "unlinking"]
              /\ UNCHANGED <<next, inner, head, i, cur, locked>>

\* locks->next is read after the lock was given up.
FollowLink(c) == /\ pc[c] = "unlinking"
                 /\ cur' = [cur EXCEPT ![c] = next[cur[c]]]
                 /\ Goto(c, "unlock")
                 /\ UNCHANGED <<owner, next, inner, head, i, locked>>

\* The list is empty: the thread is done, or starts its loop over.
Unlocked(c) == /\ pc[c] = "unlock" /\ cur[c] = NULL
               /\ head' = [head EXCEPT ![c] = NULL]
               /\ IF locked[c] THEN Goto(c, "done") /\ UNCHANGED i
                               ELSE Goto(c, "lock") /\ i' = [i EXCEPT ![c] = 1]
               /\ UNCHANGED <<owner, next, inner, cur, locked>>

Step(c) == \/ LockFree(c) \/ PrepareToWait(c) \/ Wait(c) \/ Reacquire(c)
           \/ CaptureAfterWait(c) \/ Die(c) \/ Critical(c)
           \/ Release(c) \/ FollowLink(c) \/ Unlocked(c)

\* main joins the threads and exits.
Terminated == /\ \A c \in Contexts : pc[c] = "done"
              /\ UNCHANGED vars

Next == \/ \E c \in Contexts : Step(c) \/ SpuriousWakeup(c)
        \/ Terminated

\* Every thread that can go on does; nobody owes a spurious wakeup.
Spec == Init /\ [][Next]_vars /\ \A c \in Contexts : WF_vars(Step(c))

-----------------------------------------------------------------------------
PCs == {"lock", "to_wait", "waiting", "woken", "relock", "critical", "unlock",
        "unlinking", "done"}

\* Owners are contexts, links and cursors lead to locks, and main's loop stays
\* within the array of locks.
TypeOK == /\ owner \in [Locks -> Contexts \cup {NULL}]
          /\ next \in [Locks -> Locks \cup {NULL}]
          /\ inner \in [Locks -> Contexts \cup {NULL}]
          /\ head \in [Contexts -> Locks \cup {NULL}]
          /\ pc \in [Contexts -> PCs]
          /\ i \in [Contexts -> Locks]
          /\ cur \in [Contexts -> Locks \cup {NULL}]
          /\ locked \in [Contexts -> BOOLEAN]

\* No lost wakeup: a context sleeps on a lock only while somebody owns it, so
\* a notification is still to come.
SleeperHasOwner ==
    \A c \in Contexts : pc[c] \in {"to_wait", "waiting"} => owner[i[c]] # NULL

\* The locks a context has yet to give back, by the links it will follow.
Cursor(c) == IF pc[c] = "unlock" THEN cur[c]
             ELSE IF pc[c] = "unlinking" THEN next[cur[c]]
             ELSE head[c]

\* An owner will give its lock back: following the links of its list, which
\* other contexts rewrite when they take the same locks, reaches every lock
\* it owns.
OwnerWillRelease ==
    \A l \in Locks, c \in Contexts : owner[l] = c =>
        /\ l <= Cursor(c)
        /\ \A k \in 1..Cursor(c) : next[k] = k - 1

\* Every thread gets all its locks and ends: nobody is left asleep, and dying
\* and retrying does not go on forever.
AllEnd == <>(\A c \in Contexts : pc[c] = "done")

-----------------------------------------------------------------------------
\* wd_lock.h:33 "Capture lock with context.  Return 0 on fail, 1 on success":
\* a lock captured by one context and not yet freed is not captured by another.
\* (Between lock and unlock, a context has captured the locks up to head.)
Captured(c) == IF pc[c] \in {"unlock", "unlinking", "done"} THEN {} ELSE 1..head[c]

ExclusiveCapture == \A c, d \in Contexts : c # d => Captured(c) \cap Captured(d) = {}
=============================================================================
