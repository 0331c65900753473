----------------------------- MODULE MessageBus -----------------------------
(***************************************************************************)
(* OS UNIX+ System V/Message queue/laboratory work #31: a sender passes    *)
(* the lines it reads on to the receivers that have registered with it,    *)
(* all over one System V message queue.  A message has a type, and every   *)
(* msgrcv asks for one type: ACCEPT (registrations), the sender's pid      *)
(* (departures) or a receiver's pid (answers and lines).  So the queue is  *)
(* a FIFO of its own per type.                                             *)
(*                                                                         *)
(* A receiver is interrupted by SIGINT.  Until it has installed its        *)
(* handler the signal kills it; later it sets stop and interrupts msgrcv.  *)
(* msgsnd waits while the queue is full, whatever types it is full of.     *)
(***************************************************************************)
EXTENDS Integers, Sequences, FiniteSets

CONSTANTS Receivers,         \* the receivers there will be, by their pids
          MAX_SENDRERS_NUM,  \* the slots of the sender's table
          Lines,             \* bound: the lines the sender may read
          Capacity,          \* messages the queue has room for
          ACCEPT, PID,       \* types: registrations, the sender's pid
          Stray              \* any other type, and no pid

ASSUME TypesAssumption ==
    /\ Cardinality({ACCEPT, PID, Stray}) = 3
    /\ {ACCEPT, PID, Stray} \cap Receivers = {}
    /\ Receivers \subseteq Nat
ASSUME NumbersAssumption == /\ {MAX_SENDRERS_NUM, Capacity} \subseteq Nat \ {0}
                            /\ Lines \in Nat

Types == Receivers \cup {ACCEPT, PID, Stray}

\* What a receiver is sent: lines are numbered from 1.
Welcome == 0
Refused == -1
Finish == Lines + 1

Slots == 0 .. MAX_SENDRERS_NUM - 1

VARIABLES
    mail,              \* of each type: the messages in the queue, in order;
    removed,           \* IPC_RMID: the queue is gone
    \* the sender
    spc, i, eof, line,   \* i is 0 outside of its loops
    recvers, senders_num, alive_recvers_num,
    mtype,             \* the field of its message buffer
    \* the receivers
    rpc, stop,
    last,              \* the last line printed, or where the lines start
    departed           \* the departures the sender has dealt with

senderVars == <<spc, i, eof, line, recvers, senders_num, alive_recvers_num, mtype>>
vars == <<mail, removed, senderVars, rpc, stop, last, departed>>

Init == /\ mail = [t \in Types |-> <<>>]
        /\ removed = FALSE
        /\ spc = "accept" /\ i = 0
        /\ eof = FALSE /\ line = 0
        /\ recvers = [k \in Slots |-> [pid |-> Stray, is_alive |-> FALSE]]
        /\ senders_num = 0 /\ alive_recvers_num = 0
        /\ mtype = Stray
        /\ rpc = [r \in Receivers |-> "off"]
        /\ stop = [r \in Receivers |-> FALSE]
        /\ last = [r \in Receivers |-> 0]
        /\ departed = {}

Room == LET messages == {p \in Types \X (1 .. Capacity) : p[2] <= Len(mail[p[1]])}
        IN  Cardinality(messages) < Capacity

\* msgsnd on a queue that is there and has room.
Put(t, m) == [mail EXCEPT ![t] = Append(@, m)]

-----------------------------------------------------------------------------
(* The sender's loop: one registration, one departure, one line.           *)

FirstFree == CHOOSE k \in 0 .. MAX_SENDRERS_NUM :
                 /\ k \in Slots => ~recvers[k].is_alive
                 /\ \A j \in 0 .. k - 1 : recvers[j].is_alive

\* Mutants: a receiver that is refused is counted; the slot number itself.
CountRefused(k) == alive_recvers_num + 1
UpToSlot(k) == k

\* The counters after a registration was put into slot k: senders_num becomes
\* k's successor, whatever slots are taken above it.
AliveWith(k) == IF k \in Slots THEN alive_recvers_num + 1 ELSE alive_recvers_num
UpTo(k) == k + 1

\* A registration gets the first free slot, or is refused ...
Accept ==
    /\ spc = "accept" /\ mail[ACCEPT] # <<>>
    /\ mtype' = Head(mail[ACCEPT])
    /\ mail' = [mail EXCEPT ![ACCEPT] = Tail(@)]
    /\ i' = FirstFree
    /\ recvers' = IF i' \in Slots THEN [recvers EXCEPT ![i'] = [pid |-> mtype', is_alive |-> TRUE]]
                  ELSE recvers
    /\ alive_recvers_num' = AliveWith(i')
    /\ senders_num' = UpTo(i')
    /\ spc' = "answer"
    /\ UNCHANGED <<removed, eof, line, rpc, stop, last, departed>>

\* ... and is answered when there is room.
Answer == /\ spc = "answer" /\ Room
          /\ mail' = Put(mtype, IF i \in Slots THEN Welcome ELSE Refused)
          /\ last' = [last EXCEPT ![mtype] = line]
          /\ spc' = "depart" /\ i' = 0
          /\ UNCHANGED <<removed, eof, line, recvers, senders_num, alive_recvers_num,
                         mtype, rpc, stop, departed>>

NoAccept == /\ spc = "accept" /\ mail[ACCEPT] = <<>>
            /\ spc' = "depart"
            /\ UNCHANGED <<mail, removed, i, eof, line, recvers, senders_num,
                           alive_recvers_num, mtype, rpc, stop, last, departed>>

\* The first slot below senders_num that holds pid r is freed, if there is one.
SlotsOf(r) == {k \in Slots : k < senders_num /\ recvers[k].pid = r}
FreeSlot(r) == [k \in Slots |-> IF /\ k \in SlotsOf(r)
                                   /\ \A j \in SlotsOf(r) : k <= j
                                THEN [recvers[k] EXCEPT !.is_alive = FALSE]
                                ELSE recvers[k]]

\* Mutant: one receiver is as good as none.
AtMostOne(n) == n <= 1

NobodyLeft(n) == n = 0

\* A departure is counted in any case; the last one ends the loop.
Depart == /\ spc = "depart" /\ mail[PID] # <<>>
          /\ recvers' = FreeSlot(Head(mail[PID]))
          /\ departed' = departed \cup {Head(mail[PID])}
          /\ alive_recvers_num' = alive_recvers_num - 1
          /\ mail' = [mail EXCEPT ![PID] = Tail(@)]
          /\ mtype' = PID
          /\ spc' = IF NobodyLeft(alive_recvers_num') THEN "finish" ELSE "read"
          /\ i' = 0
          /\ UNCHANGED <<removed, eof, line, senders_num, rpc, stop, last>>

NoDepart == /\ spc = "depart" /\ mail[PID] = <<>>
            /\ spc' = "read"
            /\ UNCHANGED <<mail, removed, i, eof, line, recvers, senders_num,
                           alive_recvers_num, mtype, rpc, stop, last, departed>>

\* fgets on a non-blocking stdin: a line, nothing yet, or the end.
Read == /\ spc = "read"
        /\ \/ line < Lines /\ line' = line + 1 /\ spc' = "send" /\ UNCHANGED eof
           \/ spc' = "accept" /\ UNCHANGED <<line, eof>>
           \/ eof' = TRUE /\ spc' = "finish" /\ UNCHANGED line
        /\ i' = 0
        /\ UNCHANGED <<mail, removed, recvers, senders_num, alive_recvers_num, mtype,
                       rpc, stop, last, departed>>

\* The line goes to every slot below senders_num that is alive; one past the
\* table, memory of any content is looked at.
SendLine == /\ spc = "send" /\ i < senders_num
            /\ \/ /\ i \in Slots /\ recvers[i].is_alive /\ Room
                  /\ mail' = Put(recvers[i].pid, line)
                  /\ mtype' = recvers[i].pid
               \/ /\ i \in Slots => ~recvers[i].is_alive
                  /\ UNCHANGED <<mail, mtype>>
               \/ /\ i \notin Slots
                  /\ mtype' = Stray
                  /\ \/ UNCHANGED mail
                     \/ Room /\ mail' = Put(Stray, line)
            /\ i' = i + 1
            /\ UNCHANGED <<removed, spc, eof, line, recvers, senders_num,
                           alive_recvers_num, rpc, stop, last, departed>>

Sent == /\ spc = "send" /\ i >= senders_num
        /\ spc' = "accept" /\ i' = 0
        /\ UNCHANGED <<mail, removed, eof, line, recvers, senders_num,
                       alive_recvers_num, mtype, rpc, stop, last, departed>>

\* At the end "F" is sent once per slot, to a slot that is not alive with the
\* type of the message before it.
SendFinish ==
    /\ spc = "finish" /\ alive_recvers_num # 0 /\ i < senders_num
    /\ mtype' \in IF i \in Slots
                  THEN {IF recvers[i].is_alive THEN recvers[i].pid ELSE mtype}
                  ELSE {mtype, Stray}
    /\ \/ mail' = mail /\ mtype' = Stray
       \/ mail' = Put(mtype', Finish) /\ Room
    /\ i' = i + 1
    /\ UNCHANGED <<removed, spc, eof, line, recvers, senders_num, alive_recvers_num,
                   rpc, stop, last, departed>>

\* IPC_RMID, with whatever was not received yet.
Remove == /\ spc = "finish" /\ (alive_recvers_num = 0 \/ i >= senders_num)
          /\ spc' = "done"
          /\ removed' = TRUE
          /\ mail' = [t \in Types |-> <<>>]
          /\ UNCHANGED <<i, eof, line, recvers, senders_num, alive_recvers_num,
                         mtype, rpc, stop, last, departed>>

Sender == \/ Accept \/ Answer \/ NoAccept \/ Depart \/ NoDepart \/ Read \/ SendLine \/ Sent
          \/ SendFinish \/ Remove

-----------------------------------------------------------------------------
(* A receiver.                                                             *)

Goto(r, there) == rpc' = [rpc EXCEPT ![r] = there]

\* msgget; without a queue the receiver gives up.
\* Receivers are started one after another, in the order of their pids.
Connect(r) == /\ rpc[r] = "off"
              /\ \A q \in Receivers : q < r => rpc[q] # "off"
              /\ Goto(r, IF removed THEN "ended" ELSE "register")
              /\ UNCHANGED <<mail, removed, senderVars, stop, last, departed>>

Register(r) == /\ rpc[r] = "register"
               /\ Goto(r, "reply")
               /\ IF removed THEN UNCHANGED mail ELSE Room /\ mail' = Put(ACCEPT, r)
               /\ UNCHANGED <<removed, senderVars, stop, last, departed>>

\* The answer is the sender's pid or -1.  If the queue is removed meanwhile,
\* the receiver reads its own pid from the buffer and goes on.
Reply(r) == /\ rpc[r] = "reply"
            /\ removed \/ mail[r] # <<>>
            /\ IF removed THEN Goto(r, "check") /\ UNCHANGED mail
               ELSE /\ Goto(r, IF Head(mail[r]) = Refused THEN "ended" ELSE "check")
                    /\ mail' = [mail EXCEPT ![r] = Tail(@)]
            /\ UNCHANGED <<removed, senderVars, stop, last, departed>>

\* while (!stop), then the call of msgrcv: a signal in between is noticed only
\* after the next message.
Check(r) == /\ rpc[r] = "check"
            /\ Goto(r, IF stop[r] THEN "leave" ELSE "call")
            /\ UNCHANGED <<mail, removed, senderVars, stop, last, departed>>

Call(r) == /\ rpc[r] = "call"
           /\ Goto(r, "receive")
           /\ UNCHANGED <<mail, removed, senderVars, stop, last, departed>>

Receive(r) == /\ rpc[r] = "receive"
              /\ mail[r] # <<>>
              /\ mail' = [mail EXCEPT ![r] = Tail(@)]
              /\ IF Head(mail[r]) = Finish
                 THEN Goto(r, "leave") /\ UNCHANGED last
                 ELSE Goto(r, "check") /\ last' = [last EXCEPT ![r] = Head(mail[r])]
              /\ UNCHANGED <<removed, senderVars, stop, departed>>

\* Mutant: an error is taken for an interruption.
TryAgain(r) == /\ rpc[r] = "receive" /\ removed
               /\ Goto(r, "check")
               /\ UNCHANGED <<mail, removed, senderVars, stop, last, departed>>

\* msgrcv fails once the queue is gone.
ReceiveFails(r) == /\ rpc[r] = "receive" /\ removed
                   /\ Goto(r, "leave")
                   /\ UNCHANGED <<mail, removed, senderVars, stop, last, departed>>

\* Mutant: the departure is not reported.
LeaveSilently(r) == /\ rpc[r] = "leave"
                    /\ Goto(r, "ended")
                    /\ UNCHANGED <<mail, removed, senderVars, stop, last, departed>>

\* A receiver that was interrupted reports its departure.
Leave(r) == /\ rpc[r] = "leave"
            /\ IF stop[r] /\ ~removed THEN Room /\ mail' = Put(PID, r) ELSE UNCHANGED mail
            /\ Goto(r, "ended")
            /\ UNCHANGED <<removed, senderVars, stop, last, departed>>

\* SIGINT: kills before the handler is there, interrupts msgrcv in the call,
\* and sets stop.
Interrupt(r) ==
    /\ rpc[r] \in {"register", "reply", "check", "call", "receive", "leave"} /\ ~stop[r]
    /\ IF rpc[r] \in {"register", "reply"} THEN Goto(r, "killed") /\ UNCHANGED stop
       ELSE /\ stop' = [stop EXCEPT ![r] = TRUE]
            /\ Goto(r, IF rpc[r] = "receive" THEN "leave" ELSE rpc[r])
    /\ UNCHANGED <<mail, removed, senderVars, last, departed>>

Receiver(r) == Register(r) \/ Reply(r) \/ Check(r) \/ Call(r) \/ Receive(r) \/ ReceiveFails(r) \/ Leave(r)

\* The queue is full of what nobody will take: receivers that have ended or wait
\* for room to leave take nothing, nor does a sender that waits for room.
Jammed == /\ ~Room
          /\ \/ spc \in {"answer", "send", "finish"}
             \/ mail[ACCEPT] = <<>> /\ mail[PID] = <<>>
          /\ \A r \in Receivers : mail[r] # <<>> => rpc[r] \in {"leave", "ended", "killed"}

Over == /\ \/ spc = "done" /\ \A r \in Receivers : rpc[r] \in {"off", "ended", "killed"}
           \/ Jammed
        /\ UNCHANGED vars

Next == \/ Sender
        \/ \E r \in Receivers : Connect(r) \/ Receiver(r) \/ Interrupt(r)
        \/ Over

\* Both sides keep running; nobody need start a receiver, interrupt it or type.
Spec == /\ Init /\ [][Next]_vars
        /\ WF_vars(Sender)
        /\ \A r \in Receivers : WF_vars(Receiver(r))

-----------------------------------------------------------------------------
\* Mailboxes hold what is sent to them, and the table what the code puts there.
TypeOK == /\ \A r \in Receivers : mail[r] \in Seq(Refused .. Finish)
          /\ mail[ACCEPT] \in Seq(Receivers)
          /\ removed \in BOOLEAN /\ eof \in BOOLEAN
          /\ spc \in {"accept", "answer", "depart", "read", "send", "finish", "done"}
          /\ line \in 0 .. Lines
          /\ recvers \in [Slots -> [pid : Receivers \cup {Stray}, is_alive : BOOLEAN]]
          /\ senders_num \in 0 .. MAX_SENDRERS_NUM + 1 /\ i \in 0 .. MAX_SENDRERS_NUM + 1
          /\ alive_recvers_num \in 0 .. MAX_SENDRERS_NUM
          /\ mtype \in Types
          /\ rpc \in [Receivers -> {"off", "register", "reply", "check", "call", "receive", "leave",
                                    "ended", "killed"}]
          /\ stop \in [Receivers -> BOOLEAN]
          /\ last \in [Receivers -> 0 .. Lines]
          /\ departed \subseteq Receivers

\* Receivers that the sender has welcomed: the answer is under way or came.
Welcomed(r) == \/ rpc[r] \in {"check", "call", "receive", "leave"} /\ ~removed
               \/ mail[r] # <<>> /\ mail[r][1] = Welcome

\* The sender ends its loop early only when every receiver it had welcomed has
\* left: none is cut off by the departure of others.
NobodyCutOff == spc = "finish" /\ ~eof => \A r \in Receivers \ departed : ~Welcomed(r)

\* A receiver prints lines in the order they were read, and none of them twice,
\* however receivers come and go; and as long as no other receiver has left and
\* freed a slot, it misses none from its registration on.
LinesInOrder ==
    [][\A r \in Receivers : rpc[r] = "receive" /\ rpc'[r] = "check"
            => /\ last'[r] > last[r]
               /\ departed = {} => last'[r] = last[r] + 1]_vars

\* Where the programs may stay: when the sender has ended so has every receiver,
\* however it was waiting, and as long as it has not, none waits for an answer or
\* to be rid of its departure, and the sender knows of the departure of every
\* receiver that was interrupted; unless the queue is jammed.  (A signal between
\* the test of stop and msgrcv leaves the receiver waiting for another line: it
\* departs after that.)
Settled == /\ spc = "done" => \A r \in Receivers : rpc[r] \in {"off", "ended", "killed"}
           /\ \A r \in Receivers : rpc[r] \notin {"register", "reply", "leave"}
           /\ \/ spc \in {"finish", "done"}
              \/ \A r \in Receivers : rpc[r] = "ended" /\ stop[r] => r \in departed

BusSettles == []<>(Settled \/ Jammed)
=============================================================================
