----------------------------- MODULE StatusQueue ----------------------------
(***************************************************************************)
(* OS UNIX+ System V/Message queue/laboratory work #32: slaves report to a *)
(* master over one System V message queue: "R" first, then the lines they  *)
(* read, then "F".  The master counts "R" and "F", and when the last slave *)
(* it knows of has finished it removes the queue.  Status and text are the *)
(* same kind of message: a last line without a newline may be "R" or "F".  *)
(***************************************************************************)
EXTENDS Integers, Sequences, Functions

CONSTANTS Reporters,     \* the slaves there will be
          Capacity,      \* messages the queue has room for
          StatusLines    \* bound: the lines of each slave

\* The texts: lines are numbered from 1.
R == 0
F == -1

VARIABLES
    master,          \* the next call of the master
    found,           \* msgget finds the queue
    queue,           \* messages: who sent it, and what
    alive,           \* alive_recvers_num
    printed_lines,   \* of each slave: the lines the master has printed
    slave,           \* the next call of each slave
    line_no,         \* of each slave: the lines it has read
    interrupted,     \* SIGINT came while the master was in msgrcv
    known,           \* slaves whose "R" the master has counted
    stray            \* slaves that have sent a line that is a status

queueVars == <<found, queue>>
masterVars == <<master, alive, printed_lines, interrupted, known>>
slaveVars == <<slave, line_no, stray>>
statusVars == <<queueVars, masterVars, slaveVars>>

Init == /\ master = "msgget" /\ found = FALSE /\ queue = <<>>
        /\ alive = 0
        /\ printed_lines = [s \in Reporters |-> 0]
        /\ slave = [s \in Reporters |-> "msgget"]
        /\ line_no = [s \in Reporters |-> 0]
        /\ interrupted = FALSE
        /\ known = {} /\ stray = {}

-----------------------------------------------------------------------------
MakeQueue == /\ master = "msgget" /\ master' = "signal"
             /\ found' = TRUE
             /\ UNCHANGED <<queue, alive, printed_lines, interrupted, known, slaveVars>>

InstallHandler == /\ master = "signal" /\ master' = "msgrcv"
                  /\ UNCHANGED <<queueVars, alive, printed_lines, interrupted, known,
                                 slaveVars>>

\* Mutant: another "R" is not counted.
CountOnce(n) == 1

CountOneMore(n) == n + 1

\* "F" is counted while slaves are known, and the last one ends the loop ...
ReceiveF(msg) == /\ msg.text = F /\ alive # 0
                 /\ alive' = alive - 1
                 /\ master' = IF alive' = 0 THEN "msgctl" ELSE master
                 /\ UNCHANGED <<printed_lines, known>>

\* ... "R" always ...
ReceiveR(msg) == /\ msg.text = R
                 /\ alive' = CountOneMore(alive)
                 /\ known' = known \cup {msg.from}
                 /\ UNCHANGED <<master, printed_lines>>

\* ... and all else is printed.
ReceiveLine(msg) == /\ msg.text # R /\ (msg.text = F => alive = 0)
                    /\ printed_lines' = IF msg.text = F THEN printed_lines
                                        ELSE [printed_lines EXCEPT ![msg.from] = msg.text]
                    /\ UNCHANGED <<master, alive, known>>

Receive == /\ master = "msgrcv" /\ queue # <<>>
           /\ queue' = Tail(queue)
           /\ ReceiveF(Head(queue)) \/ ReceiveR(Head(queue)) \/ ReceiveLine(Head(queue))
           /\ UNCHANGED <<found, interrupted, slaveVars>>

\* SIGINT is noticed in msgrcv only; before the handler is there it kills.
Interrupt == /\ \/ master = "msgrcv" /\ master' = "msgctl" /\ interrupted' = TRUE
                \/ master = "signal" /\ master' = "killed" /\ UNCHANGED interrupted
             /\ UNCHANGED <<queueVars, alive, printed_lines, known, slaveVars>>

\* Mutant: the queue is left.
LeaveQueue == /\ master = "msgctl" /\ master' = "ended"
              /\ UNCHANGED <<queueVars, alive, printed_lines, interrupted, known, slaveVars>>

RemoveQueue == /\ master = "msgctl" /\ master' = "ended"
               /\ found' = FALSE /\ queue' = <<>>
               /\ UNCHANGED <<alive, printed_lines, interrupted, known, slaveVars>>

MasterWorks == MakeQueue \/ InstallHandler \/ Receive \/ RemoveQueue

-----------------------------------------------------------------------------
Go(s, from, to) == slave[s] = from /\ slave' = [slave EXCEPT ![s] = to]

FindQueue(s) == /\ Go(s, "msgget", IF found THEN "R" ELSE "ended")
                /\ UNCHANGED <<queueVars, masterVars, line_no, stray>>

\* msgsnd waits while the queue is full, and fails when it is gone; only for the
\* last "F" the result is looked at, and nothing depends on it.
Send(s, text) == /\ found => Len(queue) < Capacity
                 /\ queue' = IF found THEN Append(queue, [from |-> s, text |-> text])
                             ELSE queue
                 /\ UNCHANGED <<found, masterVars, line_no>>

SendR(s) == Go(s, "R", "fgets") /\ Send(s, R) /\ UNCHANGED stray

ReadLine(s) == /\ \/ /\ line_no[s] < StatusLines /\ Go(s, "fgets", "line")
                     /\ line_no' = [line_no EXCEPT ![s] = @ + 1]
                  \/ Go(s, "fgets", "F") /\ UNCHANGED line_no
               /\ UNCHANGED <<queueVars, masterVars, stray>>

SendLine(s) == Go(s, "line", "fgets") /\ Send(s, line_no[s]) /\ UNCHANGED stray

\* The last line, without a newline, may be a status.
SendStray(s) == /\ Go(s, "line", "F")
                /\ \E text \in {R, F} : Send(s, text)
                /\ stray' = stray \cup {s}

SendF(s) == Go(s, "F", "ended") /\ Send(s, F) /\ UNCHANGED stray

Kill(s) == /\ slave[s] \notin {"msgget", "ended", "killed"}
           /\ slave' = [slave EXCEPT ![s] = "killed"]
           /\ UNCHANGED <<queueVars, masterVars, line_no, stray>>

SlaveWorks(s) == SendR(s) \/ ReadLine(s) \/ SendLine(s) \/ SendStray(s) \/ SendF(s)

\* Everybody has ended, or waits for somebody to start or to be interrupted.
Rest == /\ master \in {"msgrcv", "ended", "killed"}
        /\ UNCHANGED statusVars

Next == \/ MasterWorks \/ Interrupt
        \/ \E s \in Reporters : FindQueue(s) \/ SlaveWorks(s) \/ Kill(s)
        \/ Rest

-----------------------------------------------------------------------------
Messages == [from : Reporters, text : F .. StatusLines]

TypeOK == /\ master \in {"msgget", "signal", "msgrcv", "msgctl", "ended", "killed"}
          /\ {found, interrupted} \subseteq BOOLEAN
          /\ queue \in Seq(Messages) /\ Len(queue) <= Capacity
          /\ alive \in Nat
          /\ slave \in [Reporters -> {"msgget", "R", "fgets", "line", "F", "ended", "killed"}]
          /\ printed_lines \in [Reporters -> 0 .. StatusLines]
          /\ line_no \in [Reporters -> 0 .. StatusLines]
          /\ {known, stray} \subseteq SUBSET Reporters

\* Unless a line was taken for a status, the master stops by itself only when every
\* slave whose "R" it has received has finished and all of its lines are printed.
\* What it throws away with the queue is of slaves that have started too late for
\* it: of them it has printed nothing, and their "R" waits, if it was sent.
AllHeard ==
    master = "msgctl" /\ ~interrupted /\ stray = {} =>
        /\ \A s \in known : slave[s] = "ended" /\ printed_lines[s] = line_no[s]
        /\ \A k \in DOMAIN queue : queue[k].from \notin known
        /\ \A s \in Reporters \ known :
              /\ printed_lines[s] = 0
              /\ slave[s] \in {"fgets", "line", "F"} => [from |-> s, text |-> R] \in Range(queue)

\* Where the programs may stay: when slaves have come and all have finished, the
\* master has stopped (unless one was killed or its line was taken for a status),
\* and no slave waits for a master that has stopped.
Settled == /\ known = {} \/ stray # {} \/ master \in {"ended", "killed"}
                \/ \E s \in Reporters : slave[s] = "killed"
           /\ master = "ended" =>
                \A s \in Reporters : slave[s] \in {"msgget", "ended", "killed"}
=============================================================================
