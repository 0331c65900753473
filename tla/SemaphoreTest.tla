---------------------------- MODULE SemaphoreTest ---------------------------
(***************************************************************************)
(* OS UNIX+ System V/Semaphores/behaviour_test: what becomes of five       *)
(* System V semaphores, always locked and unlocked in one semop (so they   *)
(* have one value), when the master that holds them ends, with or without  *)
(* SEM_UNDO, while slaves wait for them.  A slave ignores that its semop   *)
(* failed, and goes on.                                                    *)
(***************************************************************************)
EXTENDS Integers

CONSTANTS Master, Slaves

Testers == Slaves \cup {Master}

VARIABLES
    tester,     \* the next call of each process
    flag,       \* whether it was started with SEM_UNDO
    adj,        \* what its end adds to the semaphores
    locks,      \* the set: "none", "made", "set" or "removed"
    lockval,    \* the value of the semaphores
    has         \* the processes whose semop has locked them

testVars == <<tester, flag, adj, locks, lockval, has>>

Init == /\ tester = [p \in Testers |-> "start"]
        /\ flag = [p \in Testers |-> FALSE]
        /\ adj = [p \in Testers |-> 0]
        /\ locks = "none" /\ lockval = 0
        /\ has = {}

ThereStill == locks \in {"made", "set"}

Step(p, from, to) == tester[p] = from /\ tester' = [tester EXCEPT ![p] = to]

\* semop by n on all semaphores of a set that is there.
Semop(p, n) == /\ lockval' = lockval + n
               /\ adj' = IF flag[p] THEN [adj EXCEPT ![p] = @ - n] ELSE adj
               /\ has' = IF n < 0 THEN has \cup {p} ELSE has \ {p}

\* Mutant: the end of a process undoes nothing.
GoneForGood(p) == has' = has \ {p} /\ UNCHANGED <<lockval, adj>>

\* What is left by a process that ends.
Gone(p) == /\ lockval' = IF ThereStill THEN lockval + adj[p] ELSE lockval
           /\ adj' = [adj EXCEPT ![p] = 0]
           /\ has' = has \ {p}

-----------------------------------------------------------------------------
\* A process is started with or without an argument; the master makes the set,
\* the slave needs one.
Start(p) == /\ \E f \in BOOLEAN : flag' = [flag EXCEPT ![p] = f]
            /\ IF p = Master
               THEN Step(p, "start", "SETALL") /\ locks' = "made"
               ELSE Step(p, "start", IF ThereStill THEN "lock" ELSE "ended")
                    /\ UNCHANGED locks
            /\ UNCHANGED <<adj, lockval, has>>

SetAll == /\ Step(Master, "SETALL", "lock")
          /\ locks' = "set" /\ lockval' = 1
          /\ adj' = [p \in Testers |-> 0]
          /\ UNCHANGED <<flag, has>>

\* Mutant: with IPC_NOWAIT the lock may fail, and the slave unlocks all the same.
LockOrNot(p) == /\ Step(p, "lock", IF p = Master THEN "fgetc" ELSE "unlock")
                /\ ThereStill
                /\ IF lockval > 0 THEN Semop(p, -1) ELSE UNCHANGED <<lockval, adj, has>>
                /\ UNCHANGED <<flag, locks>>

Lock(p) == /\ Step(p, "lock", IF p = Master THEN "fgetc" ELSE "unlock")
           /\ ThereStill /\ lockval > 0
           /\ Semop(p, -1)
           /\ UNCHANGED <<flag, locks>>

\* The input of the master: 't', 'e' or anything else.
Fgetc == /\ \/ Step(Master, "fgetc", "loop") /\ UNCHANGED <<lockval, adj, has>>
            \/ Step(Master, "fgetc", "ended") /\ Gone(Master)
            \/ Step(Master, "fgetc", "unlock") /\ UNCHANGED <<lockval, adj, has>>
         /\ UNCHANGED <<flag, locks>>

Unlock(p) == /\ Step(p, "unlock", IF p = Master THEN "rmid" ELSE "exit")
             /\ IF ThereStill THEN Semop(p, 1)
                ELSE has' = has \ {p} /\ UNCHANGED <<lockval, adj>>
             /\ UNCHANGED <<flag, locks>>

Remove == /\ Step(Master, "rmid", "ended")
          /\ locks' = "removed"
          /\ UNCHANGED <<flag, adj, lockval, has>>

\* Mutant: a lock that fails is tried again.
LockRetried(p) == /\ locks = "removed" /\ Step(p, "lock", "lock")
                  /\ UNCHANGED <<flag, adj, locks, lockval, has>>

\* The set is gone, and the slave says that it has locked it.
LockFails(p) == /\ locks = "removed" /\ Step(p, "lock", "unlock")
                /\ UNCHANGED <<flag, adj, locks, lockval, has>>

Exit(p) == Step(p, "exit", "ended") /\ Gone(p) /\ UNCHANGED <<flag, locks>>

\* Any of them may be killed, in its endless loop or before.
Kill(p) == /\ tester[p] \notin {"start", "ended", "killed"}
           /\ tester' = [tester EXCEPT ![p] = "killed"]
           /\ Gone(p)
           /\ UNCHANGED <<flag, locks>>

MasterStep == SetAll \/ Lock(Master) \/ Fgetc \/ Unlock(Master) \/ Remove
SlaveStep(p) == Lock(p) \/ LockFails(p) \/ Unlock(p) \/ Exit(p)

\* The test is over, or has shown what it is to show: somebody waits for ever.
Shown == /\ \A p \in Testers : tester[p] \in {"start", "lock", "loop", "ended", "killed"}
         /\ UNCHANGED testVars

Next == \/ MasterStep
        \/ \E p \in Testers : Start(p) \/ Kill(p)
        \/ \E p \in Slaves : SlaveStep(p)
        \/ Shown

-----------------------------------------------------------------------------
TypeOK == /\ tester \in [Testers -> {"start", "SETALL", "lock", "fgetc", "loop", "unlock",
                                     "rmid", "exit", "ended", "killed"}]
          /\ flag \in [Testers -> BOOLEAN]
          /\ adj \in [Testers -> 0 .. 1]
          /\ locks \in {"none", "made", "set", "removed"}
          /\ lockval \in 0 .. 1
          /\ has \subseteq Testers

\* One process at most has the semaphores, and they are up when none has, unless
\* one was ended with them and without SEM_UNDO.
LockExclusive == /\ \A p, q \in has : p = q
                 /\ ThereStill /\ has # {} => lockval = 0
                 /\ locks = "set" /\ lockval = 0 /\ has = {} =>
                       \E p \in Testers : tester[p] \in {"ended", "killed"} /\ ~flag[p]

\* Where the test may stay: a slave waits for ever only for a master that loops
\* or was killed before SETALL, or because somebody ended with the semaphores and
\* without SEM_UNDO.
Settled == (\E p \in Slaves : tester[p] = "lock") =>
               \/ tester[Master] = "loop" \/ locks = "made"
               \/ has = {} /\ lockval = 0
=============================================================================
