-------------------------- MODULE MessageBusProofs --------------------------
(***************************************************************************)
(* Proofs about MessageBus.tla, for any number of receivers, slots, lines  *)
(* and any capacity of the queue.  The invariant follows a receiver from   *)
(* its one registration to its one departure: while the sender reads,      *)
(* alive_recvers_num is the number of receivers that have been given a     *)
(* slot and whose departure it has not dealt with (whether or not it finds *)
(* the slot again), and what waits in a receiver's mailbox is its answer   *)
(* and then lines in ascending order, all of them newer than the last one  *)
(* it has printed.                                                         *)
(***************************************************************************)
EXTENDS MessageBus, SequenceTheorems, FiniteSetTheorems, FunctionTheorems,
        WellFoundedInduction, TLAPS

\* Where a receiver is on its way.
Unasked(r) == rpc[r] \in {"off", "register"}
Asking(r) == \E k \in DOMAIN mail[ACCEPT] : mail[ACCEPT][k] = r
BeingAnswered(r) == spc = "answer" /\ mtype = r
Pending(r) == Unasked(r) \/ Asking(r) \/ BeingAnswered(r)
Left(r) == \E k \in DOMAIN mail[PID] : mail[PID][k] = r
HasSlot(r) == \E k \in Slots : recvers[k].pid = r /\ recvers[k].is_alive

\* What alive_recvers_num counts.
Counted(r) == \/ BeingAnswered(r) /\ i \in Slots
              \/ mail[r] # <<>> /\ mail[r][1] = Welcome
              \/ rpc[r] \in {"check", "call", "receive", "leave"}
              \/ Left(r)
Enrolled == {r \in Receivers : Counted(r)}

\* The sender has not seen the end of its input.
Open == ~eof /\ ~removed

\* The greatest line that may have been sent to r.
Newest(r) == IF /\ spc = "send"
                /\ \E k \in Slots : k >= i /\ recvers[k].pid = r /\ recvers[k].is_alive
             THEN line - 1 ELSE line

-----------------------------------------------------------------------------
\* The parts of the inductive invariant.
Control == /\ mail \in [Types -> Seq(Int)]
           /\ mtype # ACCEPT
           /\ spc = "answer" => mtype \in Receivers
           /\ \A k \in Slots : recvers[k].is_alive => recvers[k].pid \in Receivers
           /\ spc = "send" => line > 0
           /\ removed <=> spc = "done"
           /\ removed => \A t \in Types : mail[t] = <<>>
           /\ eof => spc \in {"finish", "done"}
           /\ spc = "finish" /\ ~eof => alive_recvers_num = 0

\* Nobody registers twice, and nobody is answered, has a slot or leaves before.
RegistersOnce ==
    /\ \A j, k \in DOMAIN mail[ACCEPT] : mail[ACCEPT][j] = mail[ACCEPT][k] => j = k
    /\ \A j, k \in Slots : recvers[j].pid = recvers[k].pid /\ recvers[j].pid # Stray => j = k
    /\ \A r \in Receivers :
          /\ Asking(r) \/ BeingAnswered(r) => rpc[r] \in {"reply", "killed"}
          /\ Pending(r) => mail[r] = <<>>
          /\ Unasked(r) \/ Asking(r) =>
                 mtype # r /\ \A k \in Slots : recvers[k].pid # r
          /\ rpc[r] = "reply" /\ ~removed =>
                 Pending(r) \/ (mail[r] # <<>> /\ mail[r][1] \in {Welcome, Refused})

\* Nobody departs twice, nor without being interrupted while the sender reads.
DepartsOnce ==
    Open => /\ mail[PID] \in Seq(Receivers)
            /\ \A j, k \in DOMAIN mail[PID] : mail[PID][j] = mail[PID][k] => j = k
            /\ \A r \in Receivers : /\ Left(r) => rpc[r] = "ended"
                                    /\ rpc[r] = "leave" => stop[r]

Counting == Open => /\ alive_recvers_num = Cardinality(Enrolled)
                    /\ \A r \in Receivers : Counted(r) => HasSlot(r)

\* A mailbox: the answer comes first and waits for the receiver; then lines.
Mailbox(r) ==
    /\ \A k \in DOMAIN mail[r] :
          /\ mail[r][k] <= 0 => k = 1 /\ rpc[r] \in {"reply", "killed"}
          /\ mail[r][k] > 0 => mail[r][k] > last[r]
          /\ mail[r][k] <= Newest(r) \/ (eof /\ mail[r][k] = Finish)
    /\ \A j, k \in DOMAIN mail[r] : j < k => mail[r][j] < mail[r][k] \/ mail[r][k] = Finish
    /\ last[r] <= Newest(r)

\* Before the first departure: the slots are filled from the bottom, and every
\* line is on its way to everybody who has one.
Answers(r) == IF mail[r] # <<>> /\ mail[r][1] <= 0 THEN 1 ELSE 0
Gapless ==
    departed = {} =>
        /\ \A k \in Slots : recvers[k].is_alive <=> k < senders_num
        /\ \A r \in Receivers :
              /\ \A k \in DOMAIN mail[r] :
                    k > Answers(r) => \/ mail[r][k] = last[r] + k - Answers(r)
                                      \/ mail[r][k] = Finish
              /\ Open /\ HasSlot(r) /\ ~BeingAnswered(r) =>
                    last[r] + Len(mail[r]) - Answers(r) = Newest(r)

IInv == /\ TypeOK /\ Control /\ RegistersOnce /\ DepartsOnce /\ Counting
        /\ \A r \in Receivers : Mailbox(r)
        /\ Gapless

-----------------------------------------------------------------------------
(* Lemmas about the mailboxes.                                             *)

LEMMA Constants ==
    /\ ACCEPT \in Types /\ PID \in Types /\ Stray \in Types
    /\ Receivers \subseteq Types /\ Receivers \subseteq Int
    /\ ACCEPT # PID /\ ACCEPT # Stray /\ PID # Stray
    /\ ACCEPT \notin Receivers /\ PID \notin Receivers /\ Stray \notin Receivers
    /\ Lines \in Nat /\ Finish \in Int /\ Welcome \in Int /\ Refused \in Int
    /\ MAX_SENDRERS_NUM \in Nat \ {0}
<1>1. ACCEPT # PID /\ ACCEPT # Stray /\ PID # Stray
  <2>1. ASSUME NEW a, NEW b PROVE Cardinality({a, b}) # 3
    <3>1. IsFiniteSet({a}) /\ Cardinality({a}) = 1
      BY FS_Singleton
    <3>2. Cardinality({a} \cup {b}) = IF b \in {a} THEN 1 ELSE 1 + 1
      BY <3>1, FS_AddElement
    <3>3. {a} \cup {b} = {a, b}
      OBVIOUS
    <3> QED
      BY <3>2, <3>3
  <2>2. /\ ACCEPT = PID => {ACCEPT, PID, Stray} = {PID, Stray}
        /\ ACCEPT = Stray => {ACCEPT, PID, Stray} = {PID, Stray}
        /\ PID = Stray => {ACCEPT, PID, Stray} = {ACCEPT, Stray}
    OBVIOUS
  <2> QED
    BY <2>1, <2>2, TypesAssumption
<1> QED
  BY <1>1, TypesAssumption, NumbersAssumption DEF Types, Finish, Welcome, Refused

\* A mailbox is an array of numbers.
LEMMA Box ==
    ASSUME mail \in [Types -> Seq(Int)], NEW t \in Types
    PROVE  /\ Len(mail[t]) \in Nat /\ DOMAIN mail[t] = 1 .. Len(mail[t])
           /\ \A k \in 1 .. Len(mail[t]) : mail[t][k] \in Int
           /\ mail[t] = <<>> <=> Len(mail[t]) = 0
<1>1. mail[t] \in Seq(Int)
  OBVIOUS
<1> QED
  BY <1>1, LenProperties, EmptySeq, ElementOfSeq

\* msgsnd adds a message at the end of one mailbox.
Grows(t, m) ==
    /\ mail' \in [Types -> Seq(Int)]
    /\ \A u \in Types : u # t => mail'[u] = mail[u]
    /\ Len(mail[t]) \in Nat /\ DOMAIN mail[t] = 1 .. Len(mail[t])
    /\ mail[t] = <<>> <=> Len(mail[t]) = 0
    /\ Len(mail'[t]) = Len(mail[t]) + 1 /\ DOMAIN mail'[t] = 1 .. Len(mail[t]) + 1
    /\ mail'[t] # <<>>
    /\ \A k \in 1 .. Len(mail[t]) : mail'[t][k] = mail[t][k]
    /\ mail'[t][Len(mail[t]) + 1] = m

LEMMA PutBox ==
    ASSUME mail \in [Types -> Seq(Int)], NEW t \in Types, NEW m \in Int, mail' = Put(t, m)
    PROVE  Grows(t, m)
<1>1. mail[t] \in Seq(Int)
  OBVIOUS
<1>2. mail'[t] = Append(mail[t], m)
  BY DEF Put
<1>3. /\ Append(mail[t], m) \in Seq(Int)
      /\ Len(Append(mail[t], m)) = Len(mail[t]) + 1
      /\ Append(mail[t], m) # <<>>
      /\ \A k \in 1 .. Len(mail[t]) : Append(mail[t], m)[k] = mail[t][k]
      /\ Append(mail[t], m)[Len(mail[t]) + 1] = m
  BY <1>1, AppendProperties
<1>4. DOMAIN Append(mail[t], m) = 1 .. Len(Append(mail[t], m))
  BY <1>3, LenProperties
<1>5. mail' \in [Types -> Seq(Int)] /\ \A u \in Types : u # t => mail'[u] = mail[u]
  BY <1>3 DEF Put
<1> QED
  BY <1>2, <1>3, <1>4, <1>5, Box DEF Grows

\* msgrcv takes the first message of one mailbox.
Shrinks(t) ==
    /\ mail' \in [Types -> Seq(Int)]
    /\ \A u \in Types : u # t => mail'[u] = mail[u]
    /\ Head(mail[t]) = mail[t][1]
    /\ Len(mail[t]) \in Nat \ {0} /\ DOMAIN mail[t] = 1 .. Len(mail[t])
    /\ Len(mail'[t]) = Len(mail[t]) - 1 /\ DOMAIN mail'[t] = 1 .. Len(mail[t]) - 1
    /\ mail'[t] = <<>> <=> Len(mail[t]) = 1
    /\ \A k \in 1 .. Len(mail[t]) - 1 : mail'[t][k] = mail[t][k + 1]

LEMMA TakeBox ==
    ASSUME mail \in [Types -> Seq(Int)], NEW t \in Types, mail[t] # <<>>,
           mail' = [mail EXCEPT ![t] = Tail(@)]
    PROVE  Shrinks(t)
<1>1. mail[t] \in Seq(Int)
  OBVIOUS
<1>2. mail'[t] = Tail(mail[t])
  OBVIOUS
<1>3. /\ Tail(mail[t]) \in Seq(Int)
      /\ Len(Tail(mail[t])) = Len(mail[t]) - 1
      /\ \A k \in 1 .. Len(Tail(mail[t])) : Tail(mail[t])[k] = mail[t][k + 1]
  BY <1>1, HeadTailProperties
<1>4. /\ DOMAIN Tail(mail[t]) = 1 .. Len(Tail(mail[t]))
      /\ Tail(mail[t]) = <<>> <=> Len(Tail(mail[t])) = 0
  BY <1>3, LenProperties, EmptySeq
<1>5. mail' \in [Types -> Seq(Int)] /\ \A u \in Types : u # t => mail'[u] = mail[u]
  BY <1>3
<1>6. Head(mail[t]) = mail[t][1] /\ Len(mail[t]) \in Nat \ {0}
  BY <1>1, EmptySeq
<1>7. DOMAIN mail[t] = 1 .. Len(mail[t])
  BY <1>1, LenProperties
<1> QED
  BY <1>2, <1>3, <1>4, <1>5, <1>6, <1>7 DEF Shrinks

\* What is in a mailbox after either of them, when messages in it are distinct.
LEMMA GrowsContents ==
    ASSUME NEW t, NEW m, Grows(t, m)
    PROVE  /\ \A x : (\E k \in DOMAIN mail'[t] : mail'[t][k] = x)
                        <=> x = m \/ \E k \in DOMAIN mail[t] : mail[t][k] = x
           /\ /\ \A j, k \in DOMAIN mail[t] : mail[t][j] = mail[t][k] => j = k
              /\ \A k \in DOMAIN mail[t] : mail[t][k] # m
              => \A j, k \in DOMAIN mail'[t] : mail'[t][j] = mail'[t][k] => j = k
<1> DEFINE n == Len(mail[t])
<1>1. /\ n \in Nat /\ DOMAIN mail[t] = 1 .. n /\ DOMAIN mail'[t] = 1 .. n + 1
      /\ \A k \in 1 .. n : mail'[t][k] = mail[t][k]
      /\ mail'[t][n + 1] = m
  BY DEF Grows
<1> HIDE DEF n
<1>2. n + 1 \in 1 .. n + 1 /\ \A k \in 1 .. n + 1 : k \in 1 .. n \/ k = n + 1
  BY <1>1
<1>3. 1 .. n \subseteq 1 .. n + 1
  BY <1>1
<1> QED
  BY <1>1, <1>2, <1>3, Zenon

LEMMA ShrinksContents ==
    ASSUME NEW t, Shrinks(t)
    PROVE  /\ 1 \in DOMAIN mail[t]
           /\ \A x : (\E k \in DOMAIN mail'[t] : mail'[t][k] = x)
                        => \E k \in DOMAIN mail[t] : mail[t][k] = x
           /\ (\A j, k \in DOMAIN mail[t] : mail[t][j] = mail[t][k] => j = k)
              => /\ \A j, k \in DOMAIN mail'[t] : mail'[t][j] = mail'[t][k] => j = k
                 /\ \A x : (\E k \in DOMAIN mail'[t] : mail'[t][k] = x)
                              <=> x # mail[t][1] /\ \E k \in DOMAIN mail[t] : mail[t][k] = x
<1> DEFINE n == Len(mail[t])
<1>1. /\ n \in Nat \ {0} /\ DOMAIN mail[t] = 1 .. n /\ DOMAIN mail'[t] = 1 .. n - 1
      /\ \A k \in 1 .. n - 1 : mail'[t][k] = mail[t][k + 1]
  BY DEF Shrinks
<1> HIDE DEF n
<1>2. /\ 1 \in 1 .. n
      /\ \A k \in 1 .. n - 1 : k + 1 \in 1 .. n /\ k + 1 # 1
      /\ \A j, k \in 1 .. n - 1 : j + 1 = k + 1 => j = k
      /\ \A k \in 1 .. n : k = 1 \/ \E j \in 1 .. n - 1 : k = j + 1
  <2>1. \A k \in 1 .. n : k # 1 => k - 1 \in 1 .. n - 1 /\ k = (k - 1) + 1
    BY <1>1
  <2> QED
    BY <1>1, <2>1
<1>3. ASSUME NEW k \in DOMAIN mail'[t]
      PROVE  k + 1 \in DOMAIN mail[t] /\ k + 1 # 1 /\ mail'[t][k] = mail[t][k + 1]
  BY <1>1, <1>2
<1>4. ASSUME NEW k \in DOMAIN mail[t], k # 1
      PROVE  \E j \in DOMAIN mail'[t] : mail'[t][j] = mail[t][k]
  <2>1. PICK j \in 1 .. n - 1 : k = j + 1
    BY <1>1, <1>2, <1>4
  <2> QED
    BY <1>1, <2>1
<1>5. ASSUME \A j, k \in DOMAIN mail[t] : mail[t][j] = mail[t][k] => j = k
      PROVE  /\ \A j, k \in DOMAIN mail'[t] : mail'[t][j] = mail'[t][k] => j = k
             /\ \A k \in DOMAIN mail'[t] : mail'[t][k] # mail[t][1]
  <2>1. ASSUME NEW j \in DOMAIN mail'[t], NEW k \in DOMAIN mail'[t], mail'[t][j] = mail'[t][k]
        PROVE  j = k
    <3>1. j + 1 = k + 1
      BY <1>3, <1>5, <2>1
    <3> QED
      BY <1>1, <1>2, <3>1
  <2>2. ASSUME NEW k \in DOMAIN mail'[t] PROVE mail'[t][k] # mail[t][1]
    BY <1>1, <1>2, <1>3, <1>5
  <2> QED
    BY <2>1, <2>2
<1>6. 1 \in DOMAIN mail[t]
  BY <1>1, <1>2
<1>7. \A x : (\E k \in DOMAIN mail'[t] : mail'[t][k] = x)
                => \E k \in DOMAIN mail[t] : mail[t][k] = x
  BY <1>3, Zenon
<1>8. \A x : x # mail[t][1] /\ (\E k \in DOMAIN mail[t] : mail[t][k] = x)
                => \E k \in DOMAIN mail'[t] : mail'[t][k] = x
  BY <1>4, Zenon
<1> QED
  BY <1>5, <1>6, <1>7, <1>8, Zenon
-----------------------------------------------------------------------------
(* The receivers' steps.                                                   *)

\* A receiver that goes on without sending or taking a message.
Moves(r) == \/ rpc[r] = "off" /\ rpc'[r] = "register"
            \/ rpc[r] \in {"register", "reply"} /\ rpc'[r] = "killed"
            \/ /\ rpc[r] \in {"check", "call", "receive", "leave"}
               /\ rpc'[r] \in {"check", "call", "receive", "leave"}
               /\ rpc'[r] = "leave" => stop'[r]
            \/ rpc[r] = "leave" /\ rpc'[r] = "ended" /\ ~Open
            \/ removed /\ rpc'[r] \in {"reply", "check", "leave", "ended"}

\* What the sender alone changes.
LEMMA SenderFrame ==
    ASSUME UNCHANGED <<senderVars, removed>>
    PROVE  /\ Open' <=> Open
           /\ \A q \in Receivers : /\ Newest(q)' = Newest(q)
                                   /\ HasSlot(q)' <=> HasSlot(q)
                                   /\ BeingAnswered(q)' <=> BeingAnswered(q)
BY DEF senderVars, Open, Newest, HasSlot, BeingAnswered, Slots

LEMMA QuietStep ==
    ASSUME IInv, NEW r \in Receivers, Moves(r), rpc' = [rpc EXCEPT ![r] = rpc'[r]],
           stop' = [stop EXCEPT ![r] = stop'[r]], stop'[r] \in BOOLEAN,
           UNCHANGED <<mail, removed, senderVars, last, departed>>
    PROVE  IInv'
<1>u. /\ mail' = mail /\ removed' = removed /\ spc' = spc /\ i' = i /\ eof' = eof
      /\ line' = line /\ recvers' = recvers /\ senders_num' = senders_num
      /\ alive_recvers_num' = alive_recvers_num /\ mtype' = mtype
      /\ last' = last /\ departed' = departed
  BY DEF senderVars
<1> USE <1>u
<1>1. /\ \A q \in Receivers : q # r => rpc'[q] = rpc[q] /\ stop'[q] = stop[q]
      /\ rpc' \in [Receivers -> {"off", "register", "reply", "check", "call", "receive", "leave",
                                 "ended", "killed"}]
      /\ stop' \in [Receivers -> BOOLEAN]
  <2>1. /\ rpc \in [Receivers -> {"off", "register", "reply", "check", "call", "receive", "leave",
                                  "ended", "killed"}]
        /\ stop \in [Receivers -> BOOLEAN]
        /\ rpc'[r] \in {"off", "register", "reply", "check", "call", "receive", "leave",
                        "ended", "killed"}
    BY DEF IInv, TypeOK, Moves
  <2> QED
    BY <2>1
<1>a. /\ Open' <=> Open
      /\ \A q \in Receivers : /\ Newest(q)' = Newest(q)
                              /\ HasSlot(q)' <=> HasSlot(q)
                              /\ BeingAnswered(q)' <=> BeingAnswered(q)
                              /\ Asking(q)' <=> Asking(q)
                              /\ Left(q)' <=> Left(q)
                              /\ Answers(q)' = Answers(q)
  BY SenderFrame DEF senderVars, Asking, Left, Answers
<1>2. TypeOK'
  BY <1>1 DEF IInv, TypeOK, Slots, Types
<1>3. Control'
  BY DEF IInv, Control, Slots, Types
<1>4. RegistersOnce'
  <2>1. removed => ~Asking(r) /\ ~BeingAnswered(r)
    BY Box, Constants, SMT DEF IInv, Control, Asking, BeingAnswered
  <2>2. Unasked(r)' => Unasked(r)
    BY DEF Moves, Unasked
  <2>3. Asking(r) \/ BeingAnswered(r) => rpc'[r] \in {"reply", "killed"}
    BY <2>1 DEF IInv, RegistersOnce, Moves
  <2>4. \A q \in Receivers : q # r => (Unasked(q)' <=> Unasked(q))
    BY <1>1 DEF Unasked
  <2>5. rpc'[r] = "reply" => removed
    BY DEF Moves
  <2> QED
    BY <1>1, <1>a, <2>2, <2>3, <2>4, <2>5 DEF IInv, RegistersOnce, Pending, Slots
<1>5. DepartsOnce'
  BY <1>1, <1>a DEF IInv, DepartsOnce, Open, Moves
<1>6. Counting'
  <2> SUFFICES ASSUME Open PROVE Counting'
    BY DEF Counting, Open
  <2>1. \A q \in Receivers : Counted(q)' <=> Counted(q)
    BY <1>1 DEF Counted, BeingAnswered, Left, Moves, Open, Slots
  <2>2. Enrolled' = Enrolled
    BY <2>1 DEF Enrolled
  <2> QED
    BY <2>1, <2>2 DEF IInv, Counting, Open, HasSlot, Slots
<1>7. \A q \in Receivers : Mailbox(q)'
  <2>1. \A q \in Receivers : q # r => Mailbox(q)'
    BY <1>1, <1>a DEF IInv, Mailbox
  <2>2. rpc[r] \in {"reply", "killed"} /\ rpc'[r] # "killed" => mail[r] = <<>>
    BY Constants DEF Moves, IInv, Control
  <2>3. mail[r] = <<>> => DOMAIN mail[r] = {}
    OBVIOUS
  <2>4. Mailbox(r)'
    BY <1>a, <2>2, <2>3 DEF IInv, Mailbox, Moves
  <2> QED
    BY <2>1, <2>4
<1>8. Gapless'
  BY <1>a DEF IInv, Gapless, Slots
<1> QED
  BY <1>2, <1>3, <1>4, <1>5, <1>6, <1>7, <1>8 DEF IInv

LEMMA RegisterStep ==
    ASSUME IInv, NEW r \in Receivers, Register(r)
    PROVE  IInv'
<1>1. /\ rpc \in [Receivers -> {"off", "register", "reply", "check", "call", "receive", "leave",
                                "ended", "killed"}]
      /\ stop \in [Receivers -> BOOLEAN]
      /\ mail \in [Types -> Seq(Int)] /\ r \in Types /\ ACCEPT \in Types /\ r \in Int
      /\ spc = "answer" => mtype \in Receivers
  BY Constants DEF IInv, TypeOK, Control
<1>u. /\ removed' = removed /\ spc' = spc /\ i' = i /\ eof' = eof
      /\ line' = line /\ recvers' = recvers /\ senders_num' = senders_num
      /\ alive_recvers_num' = alive_recvers_num /\ mtype' = mtype
      /\ stop' = stop /\ last' = last /\ departed' = departed
      /\ rpc[r] = "register" /\ rpc' = [rpc EXCEPT ![r] = "reply"]
      /\ IF removed THEN mail' = mail ELSE mail' = Put(ACCEPT, r)
  BY DEF Register, senderVars, Goto
<1> USE <1>u
<1>2. CASE removed
  <2>1. Moves(r) /\ rpc' = [rpc EXCEPT ![r] = rpc'[r]]
    BY <1>1, <1>2 DEF Moves
  <2>2. stop' = [stop EXCEPT ![r] = stop'[r]] /\ stop'[r] \in BOOLEAN
    BY <1>1
  <2> QED
    BY <1>2, <2>1, <2>2, QuietStep DEF senderVars
<1>3. CASE ~removed
  <2>1. Grows(ACCEPT, r)
    BY <1>1, <1>3, PutBox
  <2>2. /\ \A q \in Receivers : mail'[q] = mail[q]
        /\ mail'[PID] = mail[PID]
    BY <2>1, Constants DEF Grows
  <2>3. /\ Unasked(r) /\ ~Asking(r) /\ ~BeingAnswered(r)
        /\ mtype # r /\ \A k \in Slots : recvers[k].pid # r
    BY DEF IInv, RegistersOnce, Unasked
  <2>4. /\ Open' <=> Open
        /\ \A q \in Receivers : /\ Newest(q)' = Newest(q)
                                /\ HasSlot(q)' <=> HasSlot(q)
                                /\ BeingAnswered(q)' <=> BeingAnswered(q)
                                /\ Left(q)' <=> Left(q)
                                /\ Answers(q)' = Answers(q)
    BY <2>2, SenderFrame DEF senderVars, Left, Answers
  <2>5. /\ Asking(r)' /\ ~Unasked(r)' /\ rpc'[r] = "reply"
        /\ \A q \in Receivers : q # r => /\ Asking(q)' <=> Asking(q)
                                         /\ Unasked(q)' <=> Unasked(q)
                                         /\ rpc'[q] = rpc[q]
    <3>1. Asking(r)' /\ \A q \in Receivers : q # r => (Asking(q)' <=> Asking(q))
      <4>1. \A x : (\E k \in DOMAIN mail'[ACCEPT] : mail'[ACCEPT][k] = x)
                      <=> x = r \/ \E k \in DOMAIN mail[ACCEPT] : mail[ACCEPT][k] = x
        BY <2>1, GrowsContents
      <4> QED
        BY <4>1 DEF Asking
    <3> QED
      BY <1>1, <3>1 DEF Unasked
  <2>6. TypeOK'
    <3>1. mail'[ACCEPT] \in Seq(Receivers)
      <4>1. mail[ACCEPT] \in Seq(Receivers)
        BY DEF IInv, TypeOK
      <4>2. mail'[ACCEPT] = Append(mail[ACCEPT], r)
        BY <1>1, <1>3 DEF Put
      <4> QED
        BY <4>1, <4>2, AppendProperties
    <3>2. rpc' \in [Receivers -> {"off", "register", "reply", "check", "call", "receive", "leave",
                                  "ended", "killed"}]
      BY <1>1
    <3> QED
      BY <2>2, <3>1, <3>2 DEF IInv, TypeOK, Slots, Types
  <2>7. Control'
    BY <1>3, <2>1 DEF IInv, Control, Grows
  <2>8. RegistersOnce'
    <3>1. \A j, k \in DOMAIN mail'[ACCEPT] : mail'[ACCEPT][j] = mail'[ACCEPT][k] => j = k
      <4>1. /\ \A k \in DOMAIN mail[ACCEPT] : mail[ACCEPT][k] # r
            /\ \A j, k \in DOMAIN mail[ACCEPT] : mail[ACCEPT][j] = mail[ACCEPT][k] => j = k
        BY <2>3 DEF IInv, RegistersOnce, Asking
      <4> QED
        BY <2>1, <4>1, GrowsContents, Zenon
    <3> QED
      BY <1>3, <2>2, <2>3, <2>4, <2>5, <3>1 DEF IInv, RegistersOnce, Pending, Slots
  <2>9. DepartsOnce'
    BY <2>2, <2>4, <2>5 DEF IInv, DepartsOnce
  <2>10. Counting'
    <3>1. \A q \in Receivers : Counted(q)' <=> Counted(q)
      BY <2>2, <2>4, <2>5 DEF Counted, Slots
    <3>2. Enrolled' = Enrolled
      BY <3>1 DEF Enrolled
    <3> QED
      BY <2>4, <3>1, <3>2 DEF IInv, Counting
  <2>11. \A q \in Receivers : Mailbox(q)'
    BY <2>2, <2>4, <2>5 DEF IInv, Mailbox
  <2>12. Gapless'
    BY <2>2, <2>4 DEF IInv, Gapless, Slots
  <2> QED
    BY <2>6, <2>7, <2>8, <2>9, <2>10, <2>11, <2>12 DEF IInv
<1> QED
  BY <1>2, <1>3

LEMMA LeaveStep ==
    ASSUME IInv, NEW r \in Receivers, Leave(r)
    PROVE  IInv'
<1>1. /\ rpc \in [Receivers -> {"off", "register", "reply", "check", "call", "receive", "leave",
                                "ended", "killed"}]
      /\ stop \in [Receivers -> BOOLEAN]
      /\ mail \in [Types -> Seq(Int)] /\ PID \in Types /\ r \in Int
  BY Constants DEF IInv, TypeOK, Control
<1>u. /\ removed' = removed /\ spc' = spc /\ i' = i /\ eof' = eof
      /\ line' = line /\ recvers' = recvers /\ senders_num' = senders_num
      /\ alive_recvers_num' = alive_recvers_num /\ mtype' = mtype
      /\ stop' = stop /\ last' = last /\ departed' = departed
      /\ rpc[r] = "leave" /\ rpc' = [rpc EXCEPT ![r] = "ended"]
      /\ IF stop[r] /\ ~removed THEN mail' = Put(PID, r) ELSE mail' = mail
  BY DEF Leave, senderVars, Goto
<1> USE <1>u
<1>2. CASE ~stop[r] \/ removed
  <2>1. ~Open
    BY <1>2 DEF IInv, DepartsOnce, Open
  <2>2. Moves(r) /\ rpc' = [rpc EXCEPT ![r] = rpc'[r]]
    BY <1>1, <2>1 DEF Moves
  <2>3. stop' = [stop EXCEPT ![r] = stop'[r]] /\ stop'[r] \in BOOLEAN
    BY <1>1
  <2> QED
    BY <1>2, <2>2, <2>3, QuietStep DEF senderVars
<1>3. CASE stop[r] /\ ~removed
  <2>1. Grows(PID, r)
    BY <1>1, <1>3, PutBox
  <2>2. mail'[ACCEPT] = mail[ACCEPT] /\ \A q \in Receivers : mail'[q] = mail[q]
    BY <2>1, Constants DEF Grows
  <2>3. /\ Open' <=> Open
        /\ \A q \in Receivers : /\ Newest(q)' = Newest(q)
                                /\ HasSlot(q)' <=> HasSlot(q)
                                /\ BeingAnswered(q)' <=> BeingAnswered(q)
                                /\ Asking(q)' <=> Asking(q)
                                /\ Answers(q)' = Answers(q)
    BY <2>2, SenderFrame DEF senderVars, Asking, Answers
  <2>4. /\ rpc'[r] = "ended"
        /\ \A q \in Receivers : q # r => rpc'[q] = rpc[q]
        /\ \A q \in Receivers : Unasked(q)' <=> Unasked(q)
    BY <1>1 DEF Unasked
  <2>5. Left(r)' /\ \A q \in Receivers : q # r => (Left(q)' <=> Left(q))
    <3>1. \A x : (\E k \in DOMAIN mail'[PID] : mail'[PID][k] = x)
                    <=> x = r \/ \E k \in DOMAIN mail[PID] : mail[PID][k] = x
      BY <2>1, GrowsContents
    <3> QED
      BY <3>1 DEF Left
  <2>6. TypeOK'
    <3>1. rpc' \in [Receivers -> {"off", "register", "reply", "check", "call", "receive", "leave",
                                  "ended", "killed"}]
      BY <1>1
    <3> QED
      BY <2>2, <3>1 DEF IInv, TypeOK, Slots, Types
  <2>7. Control'
    BY <1>3, <2>1 DEF IInv, Control, Grows
  <2>8. RegistersOnce'
    BY <2>2, <2>3, <2>4 DEF IInv, RegistersOnce, Pending, Slots
  <2>9. DepartsOnce'
    <3> SUFFICES ASSUME Open PROVE DepartsOnce'
      BY <2>3 DEF DepartsOnce
    <3>1. mail'[PID] \in Seq(Receivers)
      <4>1. mail[PID] \in Seq(Receivers)
        BY DEF IInv, DepartsOnce
      <4>2. mail'[PID] = Append(mail[PID], r)
        BY <1>1, <1>3 DEF Put
      <4> QED
        BY <4>1, <4>2, AppendProperties
    <3>2. \A j, k \in DOMAIN mail'[PID] : mail'[PID][j] = mail'[PID][k] => j = k
      <4>1. /\ \A k \in DOMAIN mail[PID] : mail[PID][k] # r
            /\ \A j, k \in DOMAIN mail[PID] : mail[PID][j] = mail[PID][k] => j = k
        BY DEF IInv, DepartsOnce, Left
      <4> QED
        BY <2>1, <4>1, GrowsContents, Zenon
    <3> QED
      BY <2>4, <2>5, <3>1, <3>2 DEF IInv, DepartsOnce
  <2>10. Counting'
    <3>1. \A q \in Receivers : Counted(q)' <=> Counted(q)
      BY <2>2, <2>3, <2>4, <2>5 DEF Counted, Slots
    <3>2. Enrolled' = Enrolled
      BY <3>1 DEF Enrolled
    <3> QED
      BY <2>3, <3>1, <3>2 DEF IInv, Counting
  <2>11. \A q \in Receivers : Mailbox(q)'
    BY <2>2, <2>3, <2>4 DEF IInv, Mailbox
  <2>12. Gapless'
    BY <2>2, <2>3 DEF IInv, Gapless, Slots
  <2> QED
    BY <2>6, <2>7, <2>8, <2>9, <2>10, <2>11, <2>12 DEF IInv
<1> QED
  BY <1>2, <1>3

LEMMA ReplyStep ==
    ASSUME IInv, NEW r \in Receivers, Reply(r)
    PROVE  IInv'
<1>1. /\ rpc \in [Receivers -> {"off", "register", "reply", "check", "call", "receive", "leave",
                                "ended", "killed"}]
      /\ stop \in [Receivers -> BOOLEAN] /\ last[r] \in Int
      /\ mail \in [Types -> Seq(Int)] /\ r \in Types /\ mail[r] \in Seq(Refused .. Finish)
  BY Constants DEF IInv, TypeOK, Control
<1>u. /\ removed' = removed /\ spc' = spc /\ i' = i /\ eof' = eof
      /\ line' = line /\ recvers' = recvers /\ senders_num' = senders_num
      /\ alive_recvers_num' = alive_recvers_num /\ mtype' = mtype
      /\ stop' = stop /\ last' = last /\ departed' = departed
      /\ rpc[r] = "reply"
  BY DEF Reply, senderVars
<1> USE <1>u
<1>2. CASE removed
  <2>1. rpc' = [rpc EXCEPT ![r] = "check"] /\ mail' = mail
    BY <1>2 DEF Reply, Goto
  <2>2. Moves(r) /\ rpc' = [rpc EXCEPT ![r] = rpc'[r]]
    BY <1>1, <1>2, <2>1 DEF Moves
  <2>3. stop' = [stop EXCEPT ![r] = stop'[r]] /\ stop'[r] \in BOOLEAN
    BY <1>1
  <2> QED
    BY <1>2, <2>1, <2>2, <2>3, QuietStep DEF senderVars
<1>3. CASE ~removed
  <2>0. /\ mail[r] # <<>> /\ mail' = [mail EXCEPT ![r] = Tail(@)]
        /\ rpc' = [rpc EXCEPT ![r] = IF Head(mail[r]) = Refused THEN "ended" ELSE "check"]
    BY <1>3 DEF Reply, Goto
  <2>1. Shrinks(r)
    BY <1>1, <2>0, TakeBox
  <2>2. /\ mail'[ACCEPT] = mail[ACCEPT] /\ mail'[PID] = mail[PID]
        /\ \A q \in Receivers : q # r => mail'[q] = mail[q]
    BY <2>1, Constants DEF Shrinks
  <2>3. /\ Open' <=> Open
        /\ \A q \in Receivers : /\ Newest(q)' = Newest(q)
                                /\ HasSlot(q)' <=> HasSlot(q)
                                /\ BeingAnswered(q)' <=> BeingAnswered(q)
                                /\ Asking(q)' <=> Asking(q)
                                /\ Left(q)' <=> Left(q)
        /\ \A q \in Receivers : q # r => Answers(q)' = Answers(q)
    BY <2>2, SenderFrame DEF senderVars, Asking, Left, Answers
  <2>4. /\ rpc'[r] \in {"check", "ended"}
        /\ \A q \in Receivers : q # r => rpc'[q] = rpc[q]
        /\ \A q \in Receivers : Unasked(q)' <=> Unasked(q)
    BY <1>1, <2>0 DEF Unasked
  \* The answer is the head, and lines follow it.
  <2>5. /\ ~Pending(r) /\ mail[r][1] \in {Welcome, Refused}
        /\ rpc'[r] = IF mail[r][1] = Refused THEN "ended" ELSE "check"
    <3>1. ~Pending(r) /\ mail[r][1] \in {Welcome, Refused}
      BY <1>3, <2>0 DEF IInv, RegistersOnce
    <3> QED
      BY <1>1, <2>0, <2>1, <3>1 DEF Shrinks
  <2>6. \A k \in DOMAIN mail'[r] :
           /\ k + 1 \in DOMAIN mail[r] /\ k \in Nat \ {0}
           /\ mail'[r][k] = mail[r][k + 1] /\ mail'[r][k] > 0
    <3> SUFFICES ASSUME NEW k \in DOMAIN mail'[r]
                 PROVE  /\ k + 1 \in DOMAIN mail[r] /\ k \in Nat \ {0}
                        /\ mail'[r][k] = mail[r][k + 1] /\ mail'[r][k] > 0
      OBVIOUS
    <3>1. k + 1 \in DOMAIN mail[r] /\ k \in Nat \ {0} /\ mail'[r][k] = mail[r][k + 1]
      BY SMTT(30), <2>1 DEF Shrinks
    <3>2. ~(mail[r][k + 1] <= 0) /\ mail[r][k + 1] \in Int
      BY <1>1, <3>1, Box DEF IInv, Mailbox
    <3> QED
      BY <3>1, <3>2
  <2>a. mail'[r] # <<>> => 1 \in DOMAIN mail'[r]
    <3>1. Len(mail[r]) \in Nat \ {0} /\ DOMAIN mail'[r] = 1 .. Len(mail[r]) - 1
          /\ (mail'[r] = <<>> <=> Len(mail[r]) = 1)
      BY <2>1 DEF Shrinks
    <3> QED
      BY <3>1
  <2>7. TypeOK'
    <3>1. rpc' \in [Receivers -> {"off", "register", "reply", "check", "call", "receive", "leave",
                                  "ended", "killed"}]
      BY <1>1, <2>0
    <3>2. mail'[r] \in Seq(Refused .. Finish)
      BY <1>1, <2>0, HeadTailProperties
    <3> QED
      BY <2>2, <3>1, <3>2 DEF IInv, TypeOK, Slots, Types
  <2>8. Control'
    BY <1>3, <2>1 DEF IInv, Control, Shrinks
  <2>9. RegistersOnce'
    BY <2>2, <2>3, <2>4, <2>5 DEF IInv, RegistersOnce, Pending, Slots
  <2>10. DepartsOnce'
    BY <2>2, <2>3, <2>4 DEF IInv, DepartsOnce
  <2>11. Counting'
    <3> SUFFICES ASSUME Open PROVE Counting'
      BY <2>3 DEF Counting
    <3>1. ASSUME NEW q \in Receivers, q # r PROVE Counted(q)' <=> Counted(q)
      BY <2>2, <2>3, <2>4, <3>1 DEF Counted, Slots
    <3>2. mail'[r] # <<>> => mail'[r][1] # Welcome
      BY <2>6, <2>a DEF Welcome
    <3>3. ~BeingAnswered(r) /\ ~Left(r)
      BY <2>5 DEF Pending, IInv, DepartsOnce
    <3>4. Counted(r)' <=> Counted(r)
      BY <2>0, <2>3, <2>5, <3>2, <3>3 DEF Counted, Welcome, Refused
    <3>5. Enrolled' = Enrolled
      BY <3>1, <3>4 DEF Enrolled
    <3> QED
      BY <2>3, <3>1, <3>4, <3>5 DEF IInv, Counting
  <2>12. \A q \in Receivers : Mailbox(q)'
    <3>1. \A q \in Receivers : q # r => Mailbox(q)'
      BY <2>2, <2>3, <2>4 DEF IInv, Mailbox
    <3>2. Mailbox(r)'
      BY <2>3, <2>6 DEF IInv, Mailbox
    <3> QED
      BY <3>1, <3>2
  <2>13. Gapless'
    <3>1. Answers(r) = 1 /\ Answers(r)' = 0
      <4>1. mail[r][1] <= 0
        BY <2>5 DEF Welcome, Refused
      <4>2. mail'[r] # <<>> => mail'[r][1] > 0 /\ mail'[r][1] \in Int
        BY <2>6, <2>a, Box, <1>1
      <4> QED
        BY <2>0, <4>1, <4>2 DEF Answers
    <3>2. ASSUME departed = {}, NEW k \in DOMAIN mail'[r]
          PROVE  mail'[r][k] = last[r] + k \/ mail'[r][k] = Finish
      <4>1. k + 1 \in DOMAIN mail[r] /\ k \in Nat \ {0} /\ mail'[r][k] = mail[r][k + 1]
        BY <2>6
      <4>2. mail[r][k + 1] = last[r] + (k + 1) - Answers(r) \/ mail[r][k + 1] = Finish
        BY <3>1, <3>2, <4>1 DEF IInv, Gapless
      <4> QED
        BY <1>1, <3>1, <4>1, <4>2
    <3>3. Len(mail'[r]) - 0 = Len(mail[r]) - 1 /\ Len(mail[r]) \in Nat
      BY <2>1 DEF Shrinks
    <3> QED
      BY SMTT(30), <1>1, <2>2, <2>3, <3>1, <3>2, <3>3 DEF IInv, Gapless, Slots
  <2> QED
    BY <2>7, <2>8, <2>9, <2>10, <2>11, <2>12, <2>13 DEF IInv
<1> QED
  BY <1>2, <1>3

LEMMA ReceiveStep ==
    ASSUME IInv, NEW r \in Receivers, Receive(r)
    PROVE  /\ IInv'
           /\ rpc'[r] = "check" => /\ last'[r] > last[r]
                                   /\ departed = {} => last'[r] = last[r] + 1
<1>1. /\ rpc \in [Receivers -> {"off", "register", "reply", "check", "call", "receive", "leave",
                                "ended", "killed"}]
      /\ stop \in [Receivers -> BOOLEAN] /\ last \in [Receivers -> 0 .. Lines]
      /\ line \in 0 .. Lines /\ Lines \in Nat /\ Finish = Lines + 1
      /\ mail \in [Types -> Seq(Int)] /\ r \in Types /\ mail[r] \in Seq(Refused .. Finish)
  BY Constants DEF IInv, TypeOK, Control, Finish
<1>u. /\ removed' = removed /\ spc' = spc /\ i' = i /\ eof' = eof
      /\ line' = line /\ recvers' = recvers /\ senders_num' = senders_num
      /\ alive_recvers_num' = alive_recvers_num /\ mtype' = mtype
      /\ stop' = stop /\ departed' = departed
      /\ rpc[r] = "receive" /\ mail[r] # <<>>
      /\ mail' = [mail EXCEPT ![r] = Tail(@)]
  BY DEF Receive, senderVars
<1> USE <1>u
<1>2. Shrinks(r)
  BY <1>1, TakeBox
<1> DEFINE h == mail[r][1]
<1>3. IF h = Finish
      THEN rpc' = [rpc EXCEPT ![r] = "leave"] /\ last' = last
      ELSE rpc' = [rpc EXCEPT ![r] = "check"] /\ last' = [last EXCEPT ![r] = h]
  BY <1>2 DEF Receive, Goto, Shrinks
<1> HIDE DEF h
<1>4. ~removed
  BY <1>1 DEF IInv, Control
<1>5. /\ mail'[ACCEPT] = mail[ACCEPT] /\ mail'[PID] = mail[PID]
      /\ \A q \in Receivers : q # r => mail'[q] = mail[q]
  BY <1>2, Constants DEF Shrinks
<1>6. /\ Open' <=> Open
      /\ \A q \in Receivers : /\ Newest(q)' = Newest(q)
                              /\ HasSlot(q)' <=> HasSlot(q)
                              /\ BeingAnswered(q)' <=> BeingAnswered(q)
                              /\ Asking(q)' <=> Asking(q)
                              /\ Left(q)' <=> Left(q)
      /\ \A q \in Receivers : q # r => Answers(q)' = Answers(q)
  BY <1>5, SenderFrame DEF senderVars, Asking, Left, Answers
<1>7. /\ rpc'[r] \in {"check", "leave"}
      /\ \A q \in Receivers : q # r => rpc'[q] = rpc[q] /\ last'[q] = last[q]
      /\ \A q \in Receivers : Unasked(q)' <=> Unasked(q)
  BY <1>1, <1>3 DEF Unasked
\* What is in the mailbox is newer than what was printed.
<1>8. /\ 1 \in DOMAIN mail[r] /\ h \in Int /\ h > 0 /\ h > last[r] /\ Newest(r) \in Int
      /\ h <= Newest(r) \/ (eof /\ h = Finish)
      /\ Newest(r) <= line /\ Newest(r) <= Lines
  <2>1. 1 \in DOMAIN mail[r] /\ h \in Int
    BY <1>1, <1>2, Box DEF Shrinks, h
  <2>2. Newest(r) \in Int /\ Newest(r) <= line
    BY <1>1 DEF Newest
  <2>3. ~(h <= 0)
    BY <2>1 DEF IInv, Mailbox, h
  <2> QED
    BY <1>1, <2>1, <2>2, <2>3 DEF IInv, Mailbox, h
<1>9. \A k \in DOMAIN mail'[r] :
         /\ k + 1 \in DOMAIN mail[r] /\ k \in Nat \ {0}
         /\ mail'[r][k] = mail[r][k + 1]
         /\ mail'[r][k] \in Int /\ mail'[r][k] > 0 /\ mail'[r][k] <= Finish
         /\ mail'[r][k] > h \/ mail'[r][k] = Finish
  <2> SUFFICES ASSUME NEW k \in DOMAIN mail'[r]
               PROVE  /\ k + 1 \in DOMAIN mail[r] /\ k \in Nat \ {0}
                      /\ mail'[r][k] = mail[r][k + 1]
                      /\ mail'[r][k] \in Int /\ mail'[r][k] > 0 /\ mail'[r][k] <= Finish
                      /\ mail'[r][k] > h \/ mail'[r][k] = Finish
    OBVIOUS
  <2>1. k + 1 \in DOMAIN mail[r] /\ k \in Nat \ {0} /\ mail'[r][k] = mail[r][k + 1]
    BY SMTT(30), <1>2 DEF Shrinks
  <2>2. mail[r][k + 1] \in Refused .. Finish
    BY <1>1, <2>1, LenProperties, ElementOfSeq
  <2>3. ~(mail[r][k + 1] <= 0)
    BY <2>1 DEF IInv, Mailbox
  <2>4. h < mail[r][k + 1] \/ mail[r][k + 1] = Finish
    <3>1. 1 < k + 1
      BY <2>1
    <3> QED
      BY <1>8, <2>1, <3>1 DEF IInv, Mailbox, h
  <2> QED
    BY <1>1, <1>8, <2>1, <2>2, <2>3, <2>4 DEF Refused
<1>a. mail'[r] # <<>> => 1 \in DOMAIN mail'[r]
  <2>1. Len(mail[r]) \in Nat \ {0} /\ DOMAIN mail'[r] = 1 .. Len(mail[r]) - 1
        /\ (mail'[r] = <<>> <=> Len(mail[r]) = 1)
    BY <1>2 DEF Shrinks
  <2> QED
    BY <2>1
<1>b. Answers(r) = 0 /\ Answers(r)' = 0
  <2>1. mail'[r] # <<>> => ~(mail'[r][1] <= 0)
    BY <1>9, <1>a
  <2> QED
    BY <1>8, <2>1 DEF Answers, h
\* Lines come one after the other until somebody leaves.
<1>c. departed = {} => h = last[r] + 1 \/ h = Finish
  <2>1. departed = {} => \A k \in DOMAIN mail[r] :
                            k > Answers(r) => \/ mail[r][k] = last[r] + k - Answers(r)
                                              \/ mail[r][k] = Finish
    BY DEF IInv, Gapless
  <2> QED
    BY SMTT(30), <1>1, <1>8, <1>b, <2>1 DEF h
<1>d. TypeOK'
  <2>1. rpc' \in [Receivers -> {"off", "register", "reply", "check", "call", "receive", "leave",
                                "ended", "killed"}]
    BY <1>1, <1>3
  <2>2. mail'[r] \in Seq(Refused .. Finish)
    BY <1>1, HeadTailProperties
  <2>3. last' \in [Receivers -> 0 .. Lines]
    <3>1. h # Finish => h \in 0 .. Lines
      BY <1>1, <1>8
    <3> QED
      BY <1>1, <1>3, <3>1
  <2> QED
    BY <1>5, <2>1, <2>2, <2>3 DEF IInv, TypeOK, Slots, Types
<1>e. Control'
  BY <1>2, <1>4 DEF IInv, Control, Shrinks
<1>f. RegistersOnce'
  <2>1. ~Unasked(r) /\ ~Asking(r) /\ ~BeingAnswered(r)
    BY DEF IInv, RegistersOnce, Unasked
  <2> QED
    <3>1. rpc'[r] \notin {"reply", "killed"}
      BY <1>7
    <3>2. \A q \in Receivers : Pending(q)' <=> Pending(q)
      BY <1>6, <1>7 DEF Pending
    <3>3. ~Pending(r)
      BY <2>1 DEF Pending
    <3>4. ASSUME NEW q \in Receivers
          PROVE  /\ Asking(q)' \/ BeingAnswered(q)' => rpc'[q] \in {"reply", "killed"}
                 /\ Pending(q)' => mail'[q] = <<>>
                 /\ Unasked(q)' \/ Asking(q)' =>
                        mtype # q /\ \A k \in Slots : recvers[k].pid # q
                 /\ rpc'[q] = "reply" /\ ~removed =>
                        Pending(q)' \/ (mail'[q] # <<>> /\ mail'[q][1] \in {Welcome, Refused})
      <4>1. CASE q = r
        BY <1>6, <1>7, <2>1, <3>1, <3>2, <3>3, <4>1
      <4>2. CASE q # r
        BY <1>5, <1>6, <1>7, <3>2, <4>2 DEF IInv, RegistersOnce
      <4> QED
        BY <4>1, <4>2
    <3> QED
      BY <1>5, <3>4 DEF IInv, RegistersOnce, Slots
<1>g. Open => h # Finish
  BY <1>1, <1>8 DEF Open
<1>h. DepartsOnce'
  <2>1. Open => rpc'[r] = "check"
    BY <1>1, <1>3, <1>g
  <2>2. Open => ~Left(r)
    BY DEF IInv, DepartsOnce
  <2> QED
    BY <1>5, <1>6, <1>7, <2>1, <2>2 DEF IInv, DepartsOnce
<1>i. Counting'
  <2> SUFFICES ASSUME Open PROVE Counting'
    BY <1>6 DEF Counting
  <2>1. ASSUME NEW q \in Receivers, q # r PROVE Counted(q)' <=> Counted(q)
    BY <1>5, <1>6, <1>7, <2>1 DEF Counted, Slots
  <2>2. Counted(r)' /\ Counted(r)
    BY <1>7 DEF Counted
  <2>3. Enrolled' = Enrolled
    BY <2>1, <2>2 DEF Enrolled
  <2> QED
    BY <1>6, <2>1, <2>2, <2>3 DEF IInv, Counting
<1>j. \A q \in Receivers : Mailbox(q)'
  <2>1. \A q \in Receivers : q # r => Mailbox(q)'
    BY <1>5, <1>6, <1>7 DEF IInv, Mailbox
  <2>3. last'[r] <= Newest(r)
    BY <1>1, <1>3, <1>8 DEF IInv, Mailbox
  <2>4. ASSUME NEW k \in DOMAIN mail'[r]
        PROVE  /\ ~(mail'[r][k] <= 0) /\ mail'[r][k] > last'[r]
               /\ mail'[r][k] <= Newest(r) \/ (eof /\ mail'[r][k] = Finish)
    <3>1. mail'[r][k] > last'[r]
      BY SMTT(30), <1>1, <1>3, <1>8, <1>9
    <3> QED
      BY <1>9, <3>1 DEF IInv, Mailbox
  <2>5. \A j, k \in DOMAIN mail'[r] : j < k => mail'[r][j] < mail'[r][k] \/ mail'[r][k] = Finish
    <3> SUFFICES ASSUME NEW j \in DOMAIN mail'[r], NEW k \in DOMAIN mail'[r], j < k
                 PROVE  mail'[r][j] < mail'[r][k] \/ mail'[r][k] = Finish
      OBVIOUS
    <3>1. /\ j + 1 \in DOMAIN mail[r] /\ k + 1 \in DOMAIN mail[r] /\ j + 1 < k + 1
          /\ mail'[r][j] = mail[r][j + 1] /\ mail'[r][k] = mail[r][k + 1]
      BY SMTT(30), <1>9
    <3> QED
      BY <3>1 DEF IInv, Mailbox
  <2>6. Mailbox(r)'
    BY <1>6, <2>3, <2>4, <2>5 DEF Mailbox
  <2> QED
    BY <2>1, <2>6
<1>k. Gapless'
  <2>1. ASSUME departed = {}, NEW k \in DOMAIN mail'[r]
        PROVE  mail'[r][k] = last'[r] + k \/ mail'[r][k] = Finish
    <3>1. k + 1 \in DOMAIN mail[r] /\ k \in Nat \ {0} /\ mail'[r][k] = mail[r][k + 1]
      BY <1>9
    <3>2. mail[r][k + 1] = last[r] + (k + 1) \/ mail[r][k + 1] = Finish
      <4>1. mail[r][k + 1] = last[r] + (k + 1) - Answers(r) \/ mail[r][k + 1] = Finish
        BY <1>b, <2>1, <3>1 DEF IInv, Gapless
      <4> QED
        BY <1>1, <1>b, <3>1, <4>1
    <3>3. h = Finish => mail'[r][k] = Finish
      BY <1>1, <1>9
    <3> QED
      BY <1>1, <1>3, <1>c, <2>1, <3>1, <3>2, <3>3
  <2>2. Len(mail'[r]) - 0 = Len(mail[r]) - 1 /\ Len(mail[r]) \in Nat
    BY <1>2 DEF Shrinks
  <2>3. departed = {} /\ Open => last'[r] = last[r] + 1
    BY <1>1, <1>3, <1>c, <1>g
  <2> QED
    <3>1. ASSUME departed = {}, Open, HasSlot(r), ~BeingAnswered(r)
          PROVE  last'[r] + Len(mail'[r]) - 0 = Newest(r)
      <4>1. last[r] + Len(mail[r]) - 0 = Newest(r)
        BY <1>b, <3>1 DEF IInv, Gapless
      <4> QED
        BY <1>1, <2>2, <2>3, <3>1, <4>1
    <3>2. ASSUME departed = {}, NEW q \in Receivers, q # r
          PROVE  /\ \A k \in DOMAIN mail'[q] :
                       k > Answers(q)' => \/ mail'[q][k] = last'[q] + k - Answers(q)'
                                          \/ mail'[q][k] = Finish
                 /\ Open' /\ HasSlot(q)' /\ ~BeingAnswered(q)' =>
                       last'[q] + Len(mail'[q]) - Answers(q)' = Newest(q)'
      BY <1>5, <1>6, <1>7, <3>2 DEF IInv, Gapless
    <3>3. departed = {} => \A k \in Slots : recvers[k].is_alive <=> k < senders_num
      BY DEF IInv, Gapless
    <3>4. departed = {} => \A k \in DOMAIN mail'[r] :
                              k > 0 => mail'[r][k] = last'[r] + k - 0 \/ mail'[r][k] = Finish
      <4>1. \A k \in DOMAIN mail'[r] : last'[r] + k - 0 = last'[r] + k
        BY SMTT(30), <1>1, <1>3, <1>8, <1>9
      <4> QED
        BY <2>1, <4>1
    <3> QED
      BY <1>6, <1>b, <3>1, <3>2, <3>3, <3>4 DEF Gapless, Slots
<1>l. rpc'[r] = "check" => /\ last'[r] > last[r]
                           /\ departed = {} => last'[r] = last[r] + 1
  BY <1>1, <1>3, <1>8, <1>c
<1> QED
  BY <1>d, <1>e, <1>f, <1>h, <1>i, <1>j, <1>k, <1>l DEF IInv

LEMMA ReceiverStep ==
    ASSUME IInv, NEW r \in Receivers, Connect(r) \/ Receiver(r) \/ Interrupt(r)
    PROVE  IInv'
<1>1. /\ rpc \in [Receivers -> {"off", "register", "reply", "check", "call", "receive", "leave",
                                "ended", "killed"}]
      /\ stop \in [Receivers -> BOOLEAN]
  BY DEF IInv, TypeOK
<1>2. ASSUME Moves(r), UNCHANGED <<mail, removed, senderVars, last, departed>>,
             rpc' = [rpc EXCEPT ![r] = rpc'[r]], stop' = stop
      PROVE  IInv'
  <2>1. stop' = [stop EXCEPT ![r] = stop'[r]] /\ stop'[r] \in BOOLEAN
    BY <1>1, <1>2
  <2> QED
    BY <1>2, <2>1, QuietStep
<1>3. CASE Connect(r)
  <2>1. Moves(r) /\ rpc' = [rpc EXCEPT ![r] = rpc'[r]]
    BY <1>1, <1>3 DEF Connect, Goto, Moves
  <2> QED
    BY <1>2, <1>3, <2>1 DEF Connect
<1>4. CASE Check(r)
  <2>1. Moves(r) /\ rpc' = [rpc EXCEPT ![r] = rpc'[r]]
    BY <1>1, <1>4 DEF Check, Goto, Moves
  <2> QED
    BY <1>2, <1>4, <2>1 DEF Check
<1>5. CASE Call(r)
  <2>1. Moves(r) /\ rpc' = [rpc EXCEPT ![r] = rpc'[r]]
    BY <1>1, <1>5 DEF Call, Goto, Moves
  <2> QED
    BY <1>2, <1>5, <2>1 DEF Call
<1>6. CASE ReceiveFails(r)
  <2>1. Moves(r) /\ rpc' = [rpc EXCEPT ![r] = rpc'[r]]
    BY <1>1, <1>6 DEF ReceiveFails, Goto, Moves
  <2> QED
    BY <1>2, <1>6, <2>1 DEF ReceiveFails
<1>7. CASE Interrupt(r)
  <2>1. /\ Moves(r) /\ rpc' = [rpc EXCEPT ![r] = rpc'[r]]
        /\ stop' = [stop EXCEPT ![r] = stop'[r]] /\ stop'[r] \in BOOLEAN
    BY <1>1, <1>7 DEF Interrupt, Goto, Moves
  <2> QED
    BY <1>7, <2>1, QuietStep DEF Interrupt
<1> QED
  BY <1>3, <1>4, <1>5, <1>6, <1>7, RegisterStep, ReplyStep, ReceiveStep, LeaveStep DEF Receiver

-----------------------------------------------------------------------------
(* The sender's steps.                                                     *)

\* The sender goes on; it may have read a line, or the end of its input.
LEMMA ControlStep ==
    ASSUME IInv, NoAccept \/ NoDepart \/ Read \/ Sent
    PROVE  IInv'
<1>1. /\ spc \in {"accept", "answer", "depart", "read", "send", "finish", "done"}
      /\ eof \in BOOLEAN /\ line \in 0 .. Lines /\ Lines \in Nat /\ MAX_SENDRERS_NUM \in Nat \ {0}
      /\ mail \in [Types -> Seq(Int)] /\ last \in [Receivers -> 0 .. Lines]
      /\ senders_num \in 0 .. MAX_SENDRERS_NUM + 1 /\ i \in 0 .. MAX_SENDRERS_NUM + 1
  BY Constants DEF IInv, TypeOK, Control
<1>u. /\ mail' = mail /\ removed' = removed
      /\ recvers' = recvers /\ senders_num' = senders_num
      /\ alive_recvers_num' = alive_recvers_num /\ mtype' = mtype
      /\ rpc' = rpc /\ stop' = stop /\ last' = last /\ departed' = departed
      /\ spc \notin {"answer", "finish", "done"} /\ spc' # "answer" /\ spc' # "done"
      /\ \/ spc' \in {"accept", "depart", "read"} /\ line' = line /\ eof' = eof
         \/ spc # "send" /\ line < Lines /\ line' = line + 1 /\ spc' = "send" /\ eof' = eof /\ i' = 0
         \/ spc # "send" /\ eof' = TRUE /\ spc' = "finish" /\ line' = line
      /\ spc = "send" => i >= senders_num
      /\ i' \in {0, i}
  BY DEF NoAccept, NoDepart, Read, Sent
<1> USE <1>u
<1>2. ~removed /\ ~eof
  BY DEF IInv, Control
<1>3. \A q \in Receivers : /\ HasSlot(q)' <=> HasSlot(q)
                           /\ ~BeingAnswered(q)' /\ ~BeingAnswered(q)
                           /\ Asking(q)' <=> Asking(q)
                           /\ Left(q)' <=> Left(q)
                           /\ Answers(q)' = Answers(q)
                           /\ Unasked(q)' <=> Unasked(q)
  BY DEF HasSlot, BeingAnswered, Asking, Left, Answers, Unasked, Slots
<1>4. ASSUME NEW q \in Receivers
      PROVE  /\ Newest(q)' \in Int /\ Newest(q) \in Int /\ Newest(q) <= Newest(q)'
             /\ departed = {} /\ Open' /\ HasSlot(q) => Newest(q)' = Newest(q)
  <2>1. CASE spc = "send"
    <3>1. spc' # "send" /\ line' = line
      BY <2>1
    <3>2. Newest(q)' = line /\ (Newest(q) = line \/ Newest(q) = line - 1)
      BY <3>1 DEF Newest
    <3>3. departed = {} => Newest(q) = line
      <4>1. departed = {} => \A k \in Slots : recvers[k].is_alive => ~(k >= i)
        BY <1>1, <2>1 DEF IInv, Gapless, Slots
      <4> QED
        BY <4>1 DEF Newest
    <3> QED
      BY <1>1, <3>2, <3>3
  <2>2. CASE spc # "send" /\ spc' # "send"
    BY <1>1, <2>2 DEF Newest
  <2>3. CASE spc # "send" /\ spc' = "send"
    <3>1. line' = line + 1 /\ i' = 0 /\ Newest(q) = line
      BY <2>3 DEF Newest
    <3>2. Newest(q)' = IF HasSlot(q) THEN line ELSE line + 1
      <4>1. \A k \in Slots : k >= 0
        BY <1>1 DEF Slots
      <4>2. HasSlot(q) => \E k \in Slots : k >= i' /\ recvers'[k].pid = q /\ recvers'[k].is_alive
        BY <3>1, <4>1 DEF HasSlot
      <4>3. Newest(q)' = IF \E k \in Slots : k >= i' /\ recvers'[k].pid = q /\ recvers'[k].is_alive
                         THEN line' - 1 ELSE line'
        BY <2>3 DEF Newest, Slots
      <4> QED
        BY <1>1, <3>1, <4>2, <4>3 DEF HasSlot
    <3> QED
      BY <1>1, <3>1, <3>2
  <2> QED
    BY <2>1, <2>2, <2>3
<1>5. TypeOK'
  <2>1. line' \in 0 .. Lines
    BY <1>1
  <2>2. i' \in 0 .. MAX_SENDRERS_NUM + 1
    BY <1>1
  <2>3. eof' \in BOOLEAN /\ spc' \in {"accept", "answer", "depart", "read", "send", "finish", "done"}
    BY <1>1
  <2> QED
    BY <2>1, <2>2, <2>3 DEF IInv, TypeOK, Slots, Types
<1>6. Control'
  BY <1>1, <1>2 DEF IInv, Control, Slots, Types
<1>7. RegistersOnce'
  BY <1>3 DEF IInv, RegistersOnce, Pending, Slots
<1>8. DepartsOnce'
  BY <1>2, <1>3 DEF IInv, DepartsOnce, Open
<1>9. Counting'
  <2>1. \A q \in Receivers : Counted(q)' <=> Counted(q)
    BY <1>3 DEF Counted
  <2>2. Enrolled' = Enrolled
    BY <2>1 DEF Enrolled
  <2> QED
    BY <1>2, <1>3, <2>1, <2>2 DEF IInv, Counting, Open
<1>10. \A q \in Receivers : Mailbox(q)'
  <2> SUFFICES ASSUME NEW q \in Receivers PROVE Mailbox(q)'
    OBVIOUS
  <2>1. Mailbox(q) /\ last[q] \in Int /\ q \in Types
    BY <1>1, Constants DEF IInv
  <2>2. \A k \in DOMAIN mail[q] : mail[q][k] \in Int
    BY <1>1, <2>1, Box
  <2> QED
    BY <1>2, <1>4, <2>1, <2>2 DEF Mailbox
<1>11. Gapless'
  BY <1>2, <1>3, <1>4 DEF IInv, Gapless, Slots, Open
<1> QED
  BY <1>5, <1>6, <1>7, <1>8, <1>9, <1>10, <1>11 DEF IInv

\* The line is sent to one slot, or the slot is passed over.
LEMMA SendLineStep ==
    ASSUME IInv, SendLine
    PROVE  IInv'
<1>1. /\ line \in 0 .. Lines /\ Lines \in Nat /\ MAX_SENDRERS_NUM \in Nat \ {0} /\ line > 0
      /\ mail \in [Types -> Seq(Int)] /\ last \in [Receivers -> 0 .. Lines]
      /\ senders_num \in 0 .. MAX_SENDRERS_NUM + 1 /\ i \in 0 .. MAX_SENDRERS_NUM + 1
      /\ recvers \in [Slots -> [pid : Receivers \cup {Stray}, is_alive : BOOLEAN]]
      /\ \A k \in Slots : k \in Int
  BY Constants DEF IInv, TypeOK, Control, SendLine, Slots
<1>u. /\ removed' = removed /\ spc' = spc /\ spc = "send" /\ i' = i + 1 /\ i < senders_num
      /\ line' = line /\ eof' = eof
      /\ recvers' = recvers /\ senders_num' = senders_num
      /\ alive_recvers_num' = alive_recvers_num
      /\ rpc' = rpc /\ stop' = stop /\ last' = last /\ departed' = departed
  BY DEF SendLine
<1> USE <1>u
<1>2. ~removed /\ ~eof
  BY DEF IInv, Control
<1> DEFINE to == recvers[i].pid
           Reached(q) == i \in Slots /\ recvers[i].is_alive /\ to = q
<1>3. \/ /\ i \in Slots /\ recvers[i].is_alive
         /\ mail' = Put(to, line) /\ mtype' = to
      \/ /\ i \in Slots => ~recvers[i].is_alive
         /\ mail' = mail /\ mtype' = mtype
      \/ /\ i \notin Slots /\ mtype' = Stray
         /\ mail' = mail \/ mail' = Put(Stray, line)
  BY DEF SendLine
<1> HIDE DEF to
\* Who is reached has registered, and there is no other slot for it.
<1>4. ASSUME i \in Slots, recvers[i].is_alive
      PROVE  /\ to \in Receivers /\ to \in Types /\ to # ACCEPT /\ to # PID
             /\ ~Unasked(to) /\ ~Asking(to)
             /\ \A k \in Slots : recvers[k].pid = to => k = i
  <2>1. to \in Receivers /\ to # Stray
    BY <1>4, Constants DEF IInv, Control, to
  <2>2. ~Unasked(to) /\ ~Asking(to)
    BY <1>4, <2>1 DEF IInv, RegistersOnce, to
  <2>3. \A k \in Slots : recvers[k].pid = to => k = i
    BY <1>4, <2>1 DEF IInv, RegistersOnce, to
  <2> QED
    BY <2>1, <2>2, <2>3, Constants
<1>5. /\ mail' \in [Types -> Seq(Int)] /\ mail'[ACCEPT] = mail[ACCEPT] /\ mail'[PID] = mail[PID]
      /\ \A q \in Receivers : IF Reached(q) THEN Grows(q, line) ELSE mail'[q] = mail[q]
  <2>1. CASE mail' = mail
    <3>1. ~(i \in Slots /\ recvers[i].is_alive)
      <4>1. ASSUME i \in Slots, recvers[i].is_alive PROVE FALSE
        <5>1. Grows(to, line)
          BY <1>1, <1>3, <1>4, <4>1, PutBox
        <5>2. Len(mail'[to]) = Len(mail[to]) + 1 /\ Len(mail[to]) \in Nat
          BY <5>1 DEF Grows
        <5> QED
          BY <2>1, <5>2
      <4> QED
        BY <4>1
    <3> QED
      BY <1>1, <2>1, <3>1
  <2>2. CASE mail' = Put(to, line) /\ i \in Slots /\ recvers[i].is_alive
    <3>1. Grows(to, line)
      BY <1>1, <1>4, <2>2, PutBox
    <3> QED
      <4>1. /\ mail' \in [Types -> Seq(Int)] /\ mail'[ACCEPT] = mail[ACCEPT]
            /\ mail'[PID] = mail[PID]
        BY <1>4, <2>2, <3>1, Constants DEF Grows
      <4>2. ASSUME NEW q \in Receivers
            PROVE  IF Reached(q) THEN Grows(q, line) ELSE mail'[q] = mail[q]
        <5>1. CASE q = to
          BY <2>2, <3>1, <5>1
        <5>2. CASE q # to
          BY <3>1, <5>2, Constants DEF Grows
        <5> QED
          BY <5>1, <5>2
      <4> QED
        BY <4>1, <4>2
  <2>3. CASE mail' = Put(Stray, line) /\ i \notin Slots
    <3>1. Grows(Stray, line)
      BY <1>1, <2>3, PutBox, Constants
    <3> QED
      BY <2>3, <3>1, Constants DEF Grows
  <2> QED
    BY <1>3, <2>1, <2>2, <2>3
<1>6. /\ Open' /\ Open
      /\ \A q \in Receivers : /\ HasSlot(q)' <=> HasSlot(q)
                              /\ ~BeingAnswered(q)' /\ ~BeingAnswered(q)
                              /\ Asking(q)' <=> Asking(q)
                              /\ Left(q)' <=> Left(q)
                              /\ Unasked(q)' <=> Unasked(q)
  BY <1>2, <1>5 DEF Open, HasSlot, BeingAnswered, Asking, Left, Unasked, Slots
<1>7. ASSUME NEW q \in Receivers
      PROVE  IF Reached(q) THEN Newest(q) = line - 1 /\ Newest(q)' = line
             ELSE Newest(q)' = Newest(q)
  <2>1. Newest(q)' = IF \E k \in Slots : k >= i + 1 /\ recvers[k].pid = q /\ recvers[k].is_alive
                     THEN line - 1 ELSE line
    BY DEF Newest, Slots
  <2>2. CASE Reached(q)
    <3>1. Newest(q) = line - 1
      BY <1>1, <2>2 DEF Newest, to
    <3>2. ~\E k \in Slots : k >= i + 1 /\ recvers[k].pid = q /\ recvers[k].is_alive
      BY <1>1, <1>4, <2>2
    <3> QED
      BY <2>1, <2>2, <3>1, <3>2
  <2>3. CASE ~Reached(q)
    <3>1. \A k \in Slots : recvers[k].pid = q /\ recvers[k].is_alive => (k >= i <=> k >= i + 1)
      BY <1>1, <2>3 DEF to
    <3>2. Newest(q) = IF \E k \in Slots : k >= i /\ recvers[k].pid = q /\ recvers[k].is_alive
                      THEN line - 1 ELSE line
      BY DEF Newest
    <3> QED
      BY <2>1, <2>3, <3>1, <3>2
  <2> QED
    BY <2>2, <2>3
\* The line is newer than what is in the mailbox; an answer stays in front of it.
<1>8. ASSUME NEW q \in Receivers, Reached(q)
      PROVE  /\ ~Pending(q) /\ Grows(q, line) /\ Newest(q) = line - 1 /\ Newest(q)' = line
             /\ Answers(q)' = Answers(q)
             /\ mail[q] # <<>> => mail'[q][1] = mail[q][1]
             /\ mail[q] = <<>> => mail'[q][1] = line /\ rpc[q] # "reply"
             /\ last[q] < line
             /\ \A k \in DOMAIN mail[q] : mail[q][k] \in Int /\ mail[q][k] < line
  <2>1. ~Pending(q) /\ Grows(q, line)
    BY <1>4, <1>5, <1>6, <1>8 DEF Pending
  <2>2. Newest(q) = line - 1 /\ Newest(q)' = line
    BY <1>7, <1>8
  <2>3. mail[q] # <<>> => mail'[q][1] = mail[q][1]
    BY <2>1 DEF Grows
  <2>4. mail[q] = <<>> => mail'[q][1] = line
    BY <2>1 DEF Grows
  <2>5. mail[q] = <<>> => rpc[q] # "reply"
    BY <1>2, <2>1 DEF IInv, RegistersOnce
  <2>6. Answers(q)' = Answers(q)
    BY <1>1, <2>1, <2>3, <2>4 DEF Answers, Grows
  <2>7. last[q] < line
    BY <1>1, <2>2 DEF IInv, Mailbox
  <2>8. ASSUME NEW k \in DOMAIN mail[q] PROVE mail[q][k] \in Int /\ mail[q][k] < line
    <3>1. mail[q][k] \in Int
      BY <1>1, Box, Constants
    <3> QED
      BY <1>1, <1>2, <2>2, <3>1 DEF IInv, Mailbox
  <2> QED
    BY <2>1, <2>2, <2>3, <2>4, <2>5, <2>6, <2>7, <2>8
<1>9. ASSUME NEW q \in Receivers, ~Reached(q)
      PROVE  mail'[q] = mail[q] /\ Newest(q)' = Newest(q) /\ Answers(q)' = Answers(q)
  BY <1>5, <1>7, <1>9 DEF Answers
<1>10. TypeOK'
  <2>1. \A q \in Receivers : mail'[q] \in Seq(Refused .. Finish)
    <3> SUFFICES ASSUME NEW q \in Receivers PROVE mail'[q] \in Seq(Refused .. Finish)
      OBVIOUS
    <3>1. mail[q] \in Seq(Refused .. Finish)
      BY DEF IInv, TypeOK
    <3>2. CASE Reached(q)
      <4>1. mail'[q] = Append(mail[q], line)
        BY <1>1, <1>3, <1>4, <3>2 DEF Put
      <4>2. line \in Refused .. Finish
        BY <1>1 DEF Refused, Finish
      <4> QED
        BY <3>1, <4>1, <4>2, AppendProperties
    <3> QED
      BY <1>9, <3>1, <3>2
  <2>2. i' \in 0 .. MAX_SENDRERS_NUM + 1
    BY <1>1
  <2>3. mtype' \in Types
    BY <1>3, <1>4, Constants DEF IInv, TypeOK
  <2> QED
    BY <1>5, <2>1, <2>2, <2>3 DEF IInv, TypeOK, Slots, Types
<1>11. Control'
  <2>1. mtype' # ACCEPT
    BY <1>3, <1>4, Constants DEF IInv, Control
  <2> QED
    BY <1>1, <1>2, <1>5, <2>1 DEF IInv, Control, Slots
<1>12. RegistersOnce'
  <2>1. ASSUME NEW q \in Receivers
        PROVE  /\ Asking(q)' \/ BeingAnswered(q)' => rpc[q] \in {"reply", "killed"}
               /\ Pending(q)' => mail'[q] = <<>>
               /\ Unasked(q)' \/ Asking(q)' =>
                      mtype' # q /\ \A k \in Slots : recvers[k].pid # q
               /\ rpc[q] = "reply" /\ ~removed =>
                      Pending(q)' \/ (mail'[q] # <<>> /\ mail'[q][1] \in {Welcome, Refused})
    <3>1. Pending(q)' <=> Pending(q)
      BY <1>6 DEF Pending
    <3>3. Unasked(q) \/ Asking(q) => mtype' # q
      BY <1>3, <1>4, Constants DEF IInv, RegistersOnce
    <3>4. CASE Reached(q)
      BY <1>6, <1>8, <3>1, <3>3, <3>4 DEF IInv, RegistersOnce, Grows
    <3>5. CASE ~Reached(q)
      BY <1>6, <1>9, <3>1, <3>3, <3>5 DEF IInv, RegistersOnce
    <3> QED
      BY <3>4, <3>5
  <2> QED
    BY <1>5, <2>1 DEF IInv, RegistersOnce, Slots
<1>13. DepartsOnce'
  BY <1>5, <1>6 DEF IInv, DepartsOnce
<1>14. Counting'
  <2>1. ASSUME NEW q \in Receivers PROVE Counted(q)' <=> Counted(q)
    <3>1. mail'[q] # <<>> /\ mail'[q][1] = Welcome <=> mail[q] # <<>> /\ mail[q][1] = Welcome
      <4>1. CASE Reached(q)
        BY SMTT(30), <1>1, <1>8, <4>1 DEF Grows, Welcome
      <4> QED
        BY <1>9, <4>1
    <3> QED
      BY <1>6, <3>1 DEF Counted
  <2>2. Enrolled' = Enrolled
    BY <2>1 DEF Enrolled
  <2> QED
    BY <1>6, <2>1, <2>2 DEF IInv, Counting
<1>15. \A q \in Receivers : Mailbox(q)'
  <2> SUFFICES ASSUME NEW q \in Receivers PROVE Mailbox(q)'
    OBVIOUS
  <2>1. CASE Reached(q)
    <3> DEFINE n == Len(mail[q])
    <3>1. /\ n \in Nat /\ DOMAIN mail[q] = 1 .. n /\ DOMAIN mail'[q] = 1 .. n + 1
          /\ \A k \in 1 .. n : mail'[q][k] = mail[q][k]
          /\ mail'[q][n + 1] = line
      BY <1>8, <2>1 DEF Grows
    <3> HIDE DEF n
    <3>2. ASSUME NEW k \in 1 .. n + 1
          PROVE  /\ mail'[q][k] <= 0 => k = 1 /\ rpc[q] \in {"reply", "killed"}
                 /\ mail'[q][k] > 0 => mail'[q][k] > last[q]
                 /\ mail'[q][k] <= line
      <4>1. CASE k \in 1 .. n
        <5>1. mail'[q][k] = mail[q][k] /\ mail[q][k] \in Int /\ mail[q][k] < line
          BY <1>8, <2>1, <3>1, <4>1
        <5>2. /\ mail[q][k] <= 0 => k = 1 /\ rpc[q] \in {"reply", "killed"}
              /\ mail[q][k] > 0 => mail[q][k] > last[q]
          BY <3>1, <4>1 DEF IInv, Mailbox
        <5> QED
          BY <1>1, <5>1, <5>2
      <4>2. CASE k = n + 1
        BY <1>1, <1>8, <2>1, <3>1, <4>2
      <4> QED
        BY <3>1, <4>1, <4>2
    <3>3. ASSUME NEW j \in 1 .. n + 1, NEW k \in 1 .. n + 1, j < k
          PROVE  mail'[q][j] < mail'[q][k] \/ mail'[q][k] = Finish
      <4>1. CASE k \in 1 .. n
        <5>1. j \in 1 .. n
          BY <3>1, <3>3, <4>1
        <5> QED
          BY SMTT(30), <3>1, <3>3, <4>1, <5>1 DEF IInv, Mailbox
      <4>2. CASE k = n + 1
        <5>1. j \in 1 .. n
          BY <3>1, <3>3, <4>2
        <5> QED
          BY <1>8, <2>1, <3>1, <4>2, <5>1
      <4> QED
        BY <3>1, <4>1, <4>2
    <3>4. last[q] <= line /\ Newest(q)' = line
      BY <1>1, <1>8, <2>1
    <3> QED
      BY <3>1, <3>2, <3>3, <3>4 DEF Mailbox
  <2>2. CASE ~Reached(q)
    BY <1>9, <2>2 DEF IInv, Mailbox
  <2> QED
    BY <2>1, <2>2
<1>16. Gapless'
  <2> SUFFICES ASSUME departed = {} PROVE Gapless'
    BY DEF Gapless
  <2>1. ASSUME NEW q \in Receivers
        PROVE  /\ \A k \in DOMAIN mail'[q] :
                     k > Answers(q)' => \/ mail'[q][k] = last[q] + k - Answers(q)'
                                        \/ mail'[q][k] = Finish
               /\ HasSlot(q)' => last[q] + Len(mail'[q]) - Answers(q)' = Newest(q)'
    <3>1. CASE Reached(q)
      <4> DEFINE n == Len(mail[q])
      <4>1. /\ n \in Nat /\ DOMAIN mail[q] = 1 .. n /\ DOMAIN mail'[q] = 1 .. n + 1
            /\ \A k \in 1 .. n : mail'[q][k] = mail[q][k]
            /\ mail'[q][n + 1] = line /\ Len(mail'[q]) = n + 1
        BY <1>8, <3>1 DEF Grows
      <4> HIDE DEF n
      <4>2. last[q] + n - Answers(q) = line - 1 /\ Answers(q) \in 0 .. 1 /\ last[q] \in Int
        <5>1. HasSlot(q)
          BY <3>1 DEF HasSlot, to
        <5>2. Answers(q) \in 0 .. 1 /\ last[q] \in Int
          BY <1>1 DEF Answers
        <5> QED
          BY <1>6, <1>8, <3>1, <5>1, <5>2 DEF IInv, Gapless, n
      <4>3. ASSUME NEW k \in 1 .. n + 1, k > Answers(q)
            PROVE  mail'[q][k] = last[q] + k - Answers(q) \/ mail'[q][k] = Finish
        <5>1. CASE k \in 1 .. n
          BY <4>1, <4>3, <5>1 DEF IInv, Gapless
        <5>2. CASE k = n + 1
          <6>1. last[q] + (n + 1) - Answers(q) = line
            BY <1>1, <4>1, <4>2
          <6> QED
            BY <4>1, <5>2, <6>1
        <5> QED
          BY <4>1, <5>1, <5>2
      <4>4. last[q] + (n + 1) - Answers(q) = line
        BY <1>1, <4>1, <4>2
      <4> QED
        BY <1>8, <3>1, <4>1, <4>3, <4>4
    <3>2. CASE ~Reached(q)
      BY <1>6, <1>9, <3>2 DEF IInv, Gapless
    <3> QED
      BY <3>1, <3>2
  <2> QED
    BY <1>6, <2>1 DEF IInv, Gapless, Slots
<1> QED
  BY <1>10, <1>11, <1>12, <1>13, <1>14, <1>15, <1>16 DEF IInv

-----------------------------------------------------------------------------
(* Registrations.                                                          *)

\* The search ends at a slot that is free, or one past the table.
LEMMA FirstFreeSlot ==
    /\ FirstFree \in 0 .. MAX_SENDRERS_NUM
    /\ FirstFree \in Slots => ~recvers[FirstFree].is_alive
    /\ \A j \in Nat : j < FirstFree => recvers[j].is_alive
<1>1. MAX_SENDRERS_NUM \in Nat \ {0}
  BY NumbersAssumption
<1> DEFINE F == {k \in 0 .. MAX_SENDRERS_NUM : k \in Slots => ~recvers[k].is_alive}
<1>2. F \subseteq Nat /\ F # {}
  <2>1. MAX_SENDRERS_NUM \in F
    BY <1>1 DEF Slots
  <2> QED
    BY <1>1, <2>1
<1>3. PICK m \in F : \A k \in F : ~(<<k, m>> \in OpToRel(<, Nat))
  BY <1>2, NatLessThanWellFounded, WFMin, Zenon
<1>4. \A j \in 0 .. m - 1 : j \notin F
  <2> SUFFICES ASSUME NEW j \in 0 .. m - 1, j \in F PROVE FALSE
    OBVIOUS
  <2>1. j \in Nat /\ m \in Nat /\ j < m
    BY <1>2
  <2>2. <<j, m>> \in Nat \X Nat /\ <<j, m>>[1] = j /\ <<j, m>>[2] = m
    BY <2>1
  <2> QED
    BY <1>3, <2>1, <2>2, Zenon DEF OpToRel
<1>5. /\ m \in 0 .. MAX_SENDRERS_NUM
      /\ m \in Slots => ~recvers[m].is_alive
      /\ \A j \in 0 .. m - 1 : recvers[j].is_alive
  BY <1>1, <1>4
<1>6. /\ FirstFree \in 0 .. MAX_SENDRERS_NUM
      /\ FirstFree \in Slots => ~recvers[FirstFree].is_alive
      /\ \A j \in 0 .. FirstFree - 1 : recvers[j].is_alive
  BY <1>5 DEF FirstFree
<1>7. \A j \in Nat : j < FirstFree => j \in 0 .. FirstFree - 1
  BY <1>6
<1> QED
  BY <1>6, <1>7

\* No more receivers have slots than there are slots.
LEMMA SlotsBound ==
    ASSUME NEW f, NEW S, \A q \in S : \E k \in Slots : f[k].pid = q
    PROVE  /\ IsFiniteSet(S) /\ Cardinality(S) \in Nat
           /\ Cardinality(S) <= MAX_SENDRERS_NUM
<1> DEFINE g == [q \in S |-> CHOOSE k \in Slots : f[k].pid = q]
<1>1. \A q \in S : g[q] \in Slots /\ f[g[q]].pid = q
  OBVIOUS
<1>2. g \in Injection(S, Slots)
  <2>1. g \in [S -> Slots] /\ \A p, q \in S : g[p] = g[q] => p = q
    BY <1>1
  <2> QED
    BY <2>1, Zenon DEF Injection, IsInjective
<1>3. IsFiniteSet(Slots) /\ Cardinality(Slots) = MAX_SENDRERS_NUM
  <2>1. 0 \in Int /\ MAX_SENDRERS_NUM - 1 \in Int /\ MAX_SENDRERS_NUM \in Nat \ {0}
    BY NumbersAssumption
  <2> QED
    BY <2>1, FS_Interval DEF Slots
<1>4. IsFiniteSet(S) /\ Cardinality(S) <= MAX_SENDRERS_NUM
  BY <1>2, <1>3, FS_Injection
<1> QED
  BY <1>4, FS_CardinalityType

LEMMA AcceptStep ==
    ASSUME IInv, Accept
    PROVE  IInv'
<1>1. /\ mail \in [Types -> Seq(Int)] /\ mail[ACCEPT] \in Seq(Receivers) /\ ACCEPT \in Types
      /\ MAX_SENDRERS_NUM \in Nat \ {0} /\ senders_num \in Int
      /\ recvers \in [Slots -> [pid : Receivers \cup {Stray}, is_alive : BOOLEAN]]
      /\ \A k \in Slots : k \in Nat
  BY Constants DEF IInv, TypeOK, Control, Slots
<1>r. PICK r \in Receivers : r = Head(mail[ACCEPT])
  BY <1>1, HeadTailProperties DEF Accept
<1>u. /\ spc = "accept" /\ mail[ACCEPT] # <<>> /\ mtype' = r
      /\ mail' = [mail EXCEPT ![ACCEPT] = Tail(@)]
      /\ i' = FirstFree
      /\ recvers' = IF i' \in Slots THEN [recvers EXCEPT ![i'] = [pid |-> mtype', is_alive |-> TRUE]]
                    ELSE recvers
      /\ alive_recvers_num' = IF i' \in Slots THEN alive_recvers_num + 1 ELSE alive_recvers_num
      /\ senders_num' = i' + 1 /\ spc' = "answer"
      /\ removed' = removed /\ eof' = eof /\ line' = line
      /\ rpc' = rpc /\ stop' = stop /\ last' = last /\ departed' = departed
  BY <1>r DEF Accept, AliveWith, UpTo
<1>a. ~removed /\ ~eof
  BY <1>u DEF IInv, Control
<1>b. rpc' = rpc /\ last' = last /\ eof' = eof /\ departed' = departed
  BY <1>u
<1>2. Shrinks(ACCEPT)
  BY <1>1, <1>u, TakeBox
<1>3. /\ r = mail[ACCEPT][1] /\ Asking(r) /\ rpc[r] \in {"reply", "killed"}
      /\ mail[r] = <<>> /\ \A k \in Slots : recvers[k].pid # r
  <2>1. r = mail[ACCEPT][1]
    BY <1>2, <1>r DEF Shrinks
  <2>2. Asking(r)
    BY <1>2, <2>1, ShrinksContents DEF Asking
  <2> QED
    BY <2>1, <2>2 DEF IInv, RegistersOnce, Pending
<1>4. /\ i' \in 0 .. MAX_SENDRERS_NUM
      /\ i' \in Slots => ~recvers[i'].is_alive
      /\ \A j \in Nat : j < i' => recvers[j].is_alive
  BY <1>u, FirstFreeSlot, Zenon
<1>5. /\ recvers' \in [Slots -> [pid : Receivers \cup {Stray}, is_alive : BOOLEAN]]
      /\ \A k \in Slots : IF k = i' THEN recvers'[k].pid = r /\ recvers'[k].is_alive
                          ELSE recvers'[k] = recvers[k]
  <2>1. CASE i' \in Slots
    <3>1. [pid |-> r, is_alive |-> TRUE] \in [pid : Receivers \cup {Stray}, is_alive : BOOLEAN]
      BY <1>3
    <3> QED
      BY <1>1, <1>u, <2>1, <3>1
  <2>2. CASE i' \notin Slots
    BY <1>1, <1>u, <2>2
  <2> QED
    BY <2>1, <2>2
<1>6. /\ mail'[PID] = mail[PID] /\ \A q \in Receivers : mail'[q] = mail[q]
      /\ mail' \in [Types -> Seq(Int)]
  BY <1>2, Constants DEF Shrinks
<1>7. /\ Open /\ Open'
      /\ \A q \in Receivers : /\ Newest(q)' = Newest(q)
                              /\ ~BeingAnswered(q) /\ (BeingAnswered(q)' <=> q = r)
                              /\ Left(q)' <=> Left(q)
                              /\ Answers(q)' = Answers(q)
                              /\ Unasked(q)' <=> Unasked(q)
  BY <1>a, <1>u, <1>6 DEF Open, Newest, BeingAnswered, Left, Answers, Unasked
<1>8. /\ \A q \in Receivers : Asking(q)' <=> q # r /\ Asking(q)
      /\ \A j, k \in DOMAIN mail'[ACCEPT] : mail'[ACCEPT][j] = mail'[ACCEPT][k] => j = k
  <2>1. \A j, k \in DOMAIN mail[ACCEPT] : mail[ACCEPT][j] = mail[ACCEPT][k] => j = k
    BY DEF IInv, RegistersOnce
  <2>2. /\ \A j, k \in DOMAIN mail'[ACCEPT] : mail'[ACCEPT][j] = mail'[ACCEPT][k] => j = k
        /\ \A x : (\E k \in DOMAIN mail'[ACCEPT] : mail'[ACCEPT][k] = x)
                     <=> x # r /\ \E k \in DOMAIN mail[ACCEPT] : mail[ACCEPT][k] = x
    BY <1>2, <1>3, <2>1, ShrinksContents
  <2> QED
    BY <2>2 DEF Asking
<1>9. \A q \in Receivers : /\ q # r => (HasSlot(q)' <=> HasSlot(q))
                           /\ i' \in Slots => HasSlot(r)'
  <2>1. \A q \in Receivers : q # r => (HasSlot(q)' <=> HasSlot(q))
    BY <1>4, <1>5 DEF HasSlot, Slots
  <2>2. i' \in Slots => HasSlot(r)'
    BY <1>5 DEF HasSlot, Slots
  <2> QED
    BY <2>1, <2>2
\* The receiver is counted now, and was not before.
<1>10. /\ ~Counted(r) /\ (Counted(r)' <=> i' \in Slots)
       /\ \A q \in Receivers : q # r => (Counted(q)' <=> Counted(q))
  <2>1. ~Left(r)
    BY <1>3, <1>7 DEF IInv, DepartsOnce
  <2> QED
    BY <1>3, <1>6, <1>7, <1>u, <2>1 DEF Counted, Slots
<1>11. Counting'
  <2>1. \A q \in Receivers : Counted(q)' => HasSlot(q)'
    BY <1>7, <1>9, <1>10 DEF IInv, Counting
  <2>2. IsFiniteSet(Enrolled) /\ alive_recvers_num = Cardinality(Enrolled)
    <3>1. \A q \in Enrolled : \E k \in Slots : recvers[k].pid = q
      BY <1>7 DEF IInv, Counting, Enrolled, HasSlot
    <3> QED
      BY <1>7, <3>1, SlotsBound DEF IInv, Counting
  <2>3. Enrolled' = IF i' \in Slots THEN Enrolled \cup {r} ELSE Enrolled
    BY <1>3, <1>10 DEF Enrolled
  <2>4. r \notin Enrolled
    BY <1>10 DEF Enrolled
  <2>5. Cardinality(Enrolled \cup {r}) = Cardinality(Enrolled) + 1
    BY <2>2, <2>4, FS_AddElement
  <2> QED
    BY <1>u, <2>1, <2>2, <2>3, <2>5 DEF Counting
<1>12. TypeOK'
  <2>1. alive_recvers_num' \in 0 .. MAX_SENDRERS_NUM
    <3>1. \A q \in Enrolled' : \E k \in Slots : recvers'[k].pid = q
      BY <1>7, <1>11 DEF Counting, Enrolled, HasSlot, Slots
    <3>2. Cardinality(Enrolled') \in Nat /\ Cardinality(Enrolled') <= MAX_SENDRERS_NUM
      BY <3>1, SlotsBound
    <3> QED
      BY <1>1, <1>7, <1>11, <3>2 DEF Counting
  <2>2. mail'[ACCEPT] \in Seq(Receivers)
    BY <1>1, <1>u, HeadTailProperties
  <2>3. mtype' \in Types /\ i' \in 0 .. MAX_SENDRERS_NUM + 1 /\ senders_num' \in 0 .. MAX_SENDRERS_NUM + 1
    BY <1>1, <1>3, <1>4, <1>u, Constants
  <2> QED
    BY <1>5, <1>6, <1>u, <2>1, <2>2, <2>3 DEF IInv, TypeOK, Slots, Types
<1>13. Control'
  <2>1. mtype' # ACCEPT /\ mtype' \in Receivers
    BY <1>3, <1>u, Constants
  <2>2. \A k \in Slots : recvers'[k].is_alive => recvers'[k].pid \in Receivers
    BY <1>3, <1>5 DEF IInv, Control
  <2> QED
    BY <1>a, <1>6, <1>u, <2>1, <2>2 DEF IInv, Control, Slots
<1>14. RegistersOnce'
  <2>1. \A j, k \in Slots : recvers'[j].pid = recvers'[k].pid /\ recvers'[j].pid # Stray => j = k
    BY <1>3, <1>5 DEF IInv, RegistersOnce
  <2>2. ASSUME NEW q \in Receivers
        PROVE  /\ Asking(q)' \/ BeingAnswered(q)' => rpc[q] \in {"reply", "killed"}
               /\ Pending(q)' => mail[q] = <<>>
               /\ Unasked(q)' \/ Asking(q)' => r # q /\ \A k \in Slots : recvers'[k].pid # q
               /\ rpc[q] = "reply" /\ ~removed =>
                      Pending(q)' \/ (mail[q] # <<>> /\ mail[q][1] \in {Welcome, Refused})
    <3>1. CASE q = r
      BY <1>3, <1>7, <1>8, <3>1 DEF Pending, Unasked
    <3>2. CASE q # r
      BY <1>3, <1>5, <1>7, <1>8, <3>2 DEF IInv, RegistersOnce, Pending
    <3> QED
      BY <3>1, <3>2
  <2> QED
    BY <1>6, <1>8, <1>u, <2>1, <2>2 DEF RegistersOnce, Slots
<1>15. DepartsOnce'
  BY <1>6, <1>7, <1>u DEF IInv, DepartsOnce
<1>16. \A q \in Receivers : Mailbox(q)'
  BY SMTT(30), <1>6, <1>7, <1>b DEF IInv, Mailbox
<1>17. Gapless'
  <2> SUFFICES ASSUME departed = {} PROVE Gapless'
    BY <1>u DEF Gapless
  <2>1. \A k \in Slots : recvers'[k].is_alive <=> k < senders_num'
    <3>1. \A k \in Slots : recvers[k].is_alive <=> k < senders_num
      BY DEF IInv, Gapless
    <3>2. \A k \in Slots : k < i' => recvers[k].is_alive
      BY <1>1, <1>4, Zenon
    <3>3. \A k \in Slots : k > i' => ~recvers[k].is_alive
      <4> SUFFICES ASSUME NEW k \in Slots, k > i' PROVE ~(k < senders_num)
        BY <3>1
      <4>1. i' \in Slots
        BY <1>1, <1>4 DEF Slots
      <4>2. ~(i' < senders_num)
        BY <1>4, <3>1, <4>1
      <4> QED
        BY <1>1, <4>1, <4>2
    <3> QED
      BY <1>1, <1>4, <1>5, <1>u, <3>2, <3>3
  <2> QED
    BY <1>6, <1>7, <1>9, <1>b, <2>1 DEF IInv, Gapless, Slots
<1> QED
  BY <1>11, <1>12, <1>13, <1>14, <1>15, <1>16, <1>17 DEF IInv

LEMMA AnswerStep ==
    ASSUME IInv, Answer
    PROVE  IInv'
<1>1. /\ mail \in [Types -> Seq(Int)] /\ line \in 0 .. Lines /\ Lines \in Nat
      /\ last \in [Receivers -> 0 .. Lines] /\ MAX_SENDRERS_NUM \in Nat \ {0}
      /\ mtype \in Receivers /\ spc = "answer"
  BY Constants DEF IInv, TypeOK, Control, Answer
<1>r. PICK r \in Receivers : r = mtype
  BY <1>1
<1> DEFINE m == IF i \in Slots THEN Welcome ELSE Refused
<1>u. /\ mail' = Put(r, m) /\ last' = [last EXCEPT ![r] = line]
      /\ spc' = "depart" /\ i' = 0
      /\ removed' = removed /\ eof' = eof /\ line' = line /\ recvers' = recvers
      /\ senders_num' = senders_num /\ alive_recvers_num' = alive_recvers_num
      /\ mtype' = mtype /\ rpc' = rpc /\ stop' = stop /\ departed' = departed
  BY <1>r DEF Answer
<1>a. ~removed /\ ~eof
  BY <1>1 DEF IInv, Control
<1>b. /\ removed' = removed /\ eof' = eof /\ mtype' = mtype
      /\ rpc' = rpc /\ departed' = departed
      /\ recvers' = recvers /\ senders_num' = senders_num
      /\ \A q \in Receivers : q # r => last'[q] = last[q]
      /\ last'[r] = line
  BY <1>1, <1>u
<1>m. m \in {Welcome, Refused} /\ m \in Int /\ m <= 0 /\ (m = Welcome <=> i \in Slots)
  BY DEF Welcome, Refused
<1>2. Grows(r, m)
  BY <1>1, <1>m, <1>u, PutBox, Constants
<1> HIDE DEF m
<1>3. /\ BeingAnswered(r) /\ mail[r] = <<>> /\ rpc[r] \in {"reply", "killed"}
      /\ ~Asking(r) /\ ~Unasked(r)
  BY <1>1, <1>r DEF IInv, RegistersOnce, Pending, BeingAnswered, Unasked
<1>4. /\ DOMAIN mail'[r] = {1} /\ Len(mail'[r]) = 1 /\ mail'[r] # <<>> /\ mail'[r][1] = m
  BY <1>2, <1>3 DEF Grows
<1>5. /\ mail'[PID] = mail[PID] /\ mail'[ACCEPT] = mail[ACCEPT]
      /\ \A q \in Receivers : q # r => mail'[q] = mail[q]
      /\ mail' \in [Types -> Seq(Int)]
  BY <1>2, Constants DEF Grows
<1>6. /\ Open /\ Open'
      /\ \A q \in Receivers : /\ Newest(q)' = line /\ Newest(q) = line
                              /\ ~BeingAnswered(q)' /\ (BeingAnswered(q) <=> q = r)
                              /\ HasSlot(q)' <=> HasSlot(q)
                              /\ Asking(q)' <=> Asking(q)
                              /\ Left(q)' <=> Left(q)
                              /\ Unasked(q)' <=> Unasked(q)
                              /\ q # r => Answers(q)' = Answers(q)
  BY <1>1, <1>a, <1>r, <1>u, <1>5
     DEF Open, Newest, BeingAnswered, HasSlot, Asking, Left, Answers, Unasked, Slots
<1>7. TypeOK'
  <2>1. \A q \in Receivers : mail'[q] \in Seq(Refused .. Finish)
    <3>1. \A q \in Receivers : mail[q] \in Seq(Refused .. Finish)
      BY DEF IInv, TypeOK
    <3>2. mail'[r] = Append(mail[r], m)
      BY <1>1, <1>u, Constants DEF Put
    <3>3. m \in Refused .. Finish
      BY <1>1, <1>m DEF Welcome, Refused, Finish
    <3>4. mail'[r] \in Seq(Refused .. Finish)
      BY <3>1, <3>2, <3>3, AppendProperties
    <3> QED
      BY <1>5, <3>1, <3>4
  <2>2. last' \in [Receivers -> 0 .. Lines] /\ i' \in 0 .. MAX_SENDRERS_NUM + 1
    BY <1>1, <1>u
  <2> QED
    BY <1>5, <1>u, <2>1, <2>2 DEF IInv, TypeOK, Slots, Types
<1>8. Control'
  BY <1>1, <1>a, <1>5, <1>u DEF IInv, Control, Slots
<1>9. RegistersOnce'
  <2>1. ASSUME NEW q \in Receivers
        PROVE  /\ Asking(q)' \/ BeingAnswered(q)' => rpc[q] \in {"reply", "killed"}
               /\ Pending(q)' => mail'[q] = <<>>
               /\ Unasked(q)' \/ Asking(q)' => mtype # q /\ \A k \in Slots : recvers[k].pid # q
               /\ rpc[q] = "reply" /\ ~removed =>
                      Pending(q)' \/ (mail'[q] # <<>> /\ mail'[q][1] \in {Welcome, Refused})
    <3>1. CASE q = r
      BY <1>m, <1>3, <1>4, <1>6, <3>1 DEF Pending
    <3>2. CASE q # r
      BY <1>5, <1>6, <3>2 DEF IInv, RegistersOnce, Pending
    <3> QED
      BY <3>1, <3>2
  <2> QED
    BY <1>5, <1>b, <2>1 DEF IInv, RegistersOnce, Slots
<1>10. DepartsOnce'
  BY <1>5, <1>6, <1>u DEF IInv, DepartsOnce
<1>11. Counting'
  <2>1. ASSUME NEW q \in Receivers PROVE Counted(q)' <=> Counted(q)
    <3>1. CASE q = r
      BY <1>b, <1>m, <1>3, <1>4, <1>6, <3>1 DEF Counted
    <3>2. CASE q # r
      BY <1>b, <1>5, <1>6, <3>2 DEF Counted
    <3> QED
      BY <3>1, <3>2
  <2>2. Enrolled' = Enrolled
    BY <2>1 DEF Enrolled
  <2> QED
    BY <1>6, <1>u, <2>1, <2>2 DEF IInv, Counting
<1>12. \A q \in Receivers : Mailbox(q)'
  <2>1. ASSUME NEW q \in Receivers, q # r PROVE Mailbox(q)'
    <3>1. /\ mail'[q] = mail[q] /\ last'[q] = last[q] /\ rpc'[q] = rpc[q] /\ eof' = eof
          /\ Newest(q)' = Newest(q)
      BY <1>b, <1>5, <1>6, <2>1
    <3>2. Mailbox(q)
      BY DEF IInv
    <3> QED
      BY <3>1, <3>2 DEF Mailbox
  <2>2. Mailbox(r)'
    BY <1>1, <1>b, <1>m, <1>3, <1>4, <1>6 DEF Mailbox
  <2> QED
    BY <2>1, <2>2
<1>13. Gapless'
  <2> SUFFICES ASSUME departed = {} PROVE Gapless'
    BY <1>b DEF Gapless
  <2>1. Answers(r)' = 1
    BY <1>m, <1>4 DEF Answers
  <2>2. /\ \A k \in DOMAIN mail'[r] :
              k > Answers(r)' => \/ mail'[r][k] = last'[r] + k - Answers(r)'
                                 \/ mail'[r][k] = Finish
        /\ last'[r] + Len(mail'[r]) - Answers(r)' = Newest(r)'
    BY <1>1, <1>b, <1>4, <1>6, <2>1
  <2>3. ASSUME NEW q \in Receivers, q # r
        PROVE  /\ \A k \in DOMAIN mail'[q] :
                    k > Answers(q)' => \/ mail'[q][k] = last'[q] + k - Answers(q)'
                                       \/ mail'[q][k] = Finish
               /\ HasSlot(q)' => last'[q] + Len(mail'[q]) - Answers(q)' = Newest(q)'
    BY <1>b, <1>5, <1>6, <2>3 DEF IInv, Gapless
  <2>4. \A k \in Slots : recvers'[k].is_alive <=> k < senders_num'
    BY <1>b DEF IInv, Gapless
  <2> QED
    BY <1>6, <2>2, <2>3, <2>4 DEF Gapless, Slots
<1> QED
  BY <1>7, <1>8, <1>9, <1>10, <1>11, <1>12, <1>13 DEF IInv

\* A departure is dealt with: whether or not the slot is found, who departed is
\* no longer counted.
LEMMA DepartStep ==
    ASSUME IInv, Depart
    PROVE  IInv'
<1>1. /\ mail \in [Types -> Seq(Int)] /\ PID \in Types /\ spc = "depart" /\ mail[PID] # <<>>
      /\ line \in 0 .. Lines /\ MAX_SENDRERS_NUM \in Nat \ {0}
      /\ recvers \in [Slots -> [pid : Receivers \cup {Stray}, is_alive : BOOLEAN]]
      /\ alive_recvers_num \in 0 .. MAX_SENDRERS_NUM
  BY Constants DEF IInv, TypeOK, Control, Depart
<1>a. ~removed /\ ~eof /\ Open
  BY <1>1 DEF IInv, Control, Open
<1>r. PICK r \in Receivers : r = Head(mail[PID])
  <2>1. mail[PID] \in Seq(Receivers)
    BY <1>a DEF IInv, DepartsOnce
  <2> QED
    BY <1>1, <2>1, HeadTailProperties
<1>u. /\ recvers' = FreeSlot(r) /\ departed' = departed \cup {r}
      /\ alive_recvers_num' = alive_recvers_num - 1
      /\ mail' = [mail EXCEPT ![PID] = Tail(@)]
      /\ mtype' = PID /\ i' = 0
      /\ spc' \in {"finish", "read"}
      /\ spc' = "finish" => alive_recvers_num' = 0
      /\ removed' = removed /\ eof' = eof /\ line' = line /\ senders_num' = senders_num
      /\ rpc' = rpc /\ stop' = stop /\ last' = last
  BY <1>r DEF Depart, NobodyLeft
<1>b. rpc' = rpc /\ stop' = stop /\ last' = last /\ eof' = eof /\ removed' = removed
  BY <1>u
<1>2. Shrinks(PID)
  BY <1>1, <1>u, TakeBox
<1>3. /\ mail'[ACCEPT] = mail[ACCEPT] /\ \A q \in Receivers : mail'[q] = mail[q]
      /\ mail' \in [Types -> Seq(Int)]
  BY <1>2, Constants DEF Shrinks
<1>4. /\ recvers' \in [Slots -> [pid : Receivers \cup {Stray}, is_alive : BOOLEAN]]
      /\ \A k \in Slots : /\ recvers'[k].pid = recvers[k].pid
                          /\ recvers'[k].is_alive => recvers[k].is_alive
                          /\ recvers[k].pid # r => recvers'[k] = recvers[k]
  <2>1. ASSUME NEW k \in Slots
        PROVE  /\ recvers'[k] \in [pid : Receivers \cup {Stray}, is_alive : BOOLEAN]
               /\ recvers'[k].pid = recvers[k].pid
               /\ recvers'[k].is_alive => recvers[k].is_alive
               /\ recvers[k].pid # r => recvers'[k] = recvers[k]
    <3>1. /\ recvers'[k] \in {recvers[k], [recvers[k] EXCEPT !.is_alive = FALSE]}
          /\ recvers'[k] # recvers[k] => k \in SlotsOf(r)
      BY <1>u DEF FreeSlot
    <3>2. recvers[k] \in [pid : Receivers \cup {Stray}, is_alive : BOOLEAN]
      BY <1>1
    <3>3. k \in SlotsOf(r) => recvers[k].pid = r
      BY DEF SlotsOf
    <3> QED
      BY <3>1, <3>2, <3>3
  <2>2. recvers' = [k \in Slots |-> recvers'[k]]
    BY <1>u DEF FreeSlot
  <2> QED
    BY <2>1, <2>2
<1>5. /\ r = mail[PID][1] /\ Left(r) /\ rpc[r] = "ended" /\ ~Left(r)'
      /\ \A q \in Receivers : q # r => (Left(q)' <=> Left(q))
      /\ \A j, k \in DOMAIN mail'[PID] : mail'[PID][j] = mail'[PID][k] => j = k
      /\ \A q \in Receivers : Left(q)' => Left(q)
  <2>1. /\ \A j, k \in DOMAIN mail[PID] : mail[PID][j] = mail[PID][k] => j = k
        /\ \A q \in Receivers : Left(q) => rpc[q] = "ended"
    BY <1>a DEF IInv, DepartsOnce
  <2>2. r = mail[PID][1]
    BY <1>2, <1>r DEF Shrinks
  <2>3. Left(r)
    BY <1>2, <2>2, ShrinksContents DEF Left
  <2>4. /\ \A j, k \in DOMAIN mail'[PID] : mail'[PID][j] = mail'[PID][k] => j = k
        /\ \A x : (\E k \in DOMAIN mail'[PID] : mail'[PID][k] = x)
                     <=> x # r /\ \E k \in DOMAIN mail[PID] : mail[PID][k] = x
    BY <1>2, <2>1, <2>2, ShrinksContents
  <2> QED
    BY <2>1, <2>2, <2>3, <2>4 DEF Left
<1>6. \A q \in Receivers : /\ ~BeingAnswered(q) /\ ~BeingAnswered(q)'
                           /\ Newest(q) = line /\ Newest(q)' = line
                           /\ Asking(q)' <=> Asking(q)
                           /\ Unasked(q)' <=> Unasked(q)
                           /\ q # r /\ HasSlot(q) => HasSlot(q)'
  <2>1. ASSUME NEW q \in Receivers, q # r, HasSlot(q) PROVE HasSlot(q)'
    BY <1>4, <2>1 DEF HasSlot, Slots
  <2> QED
    BY <1>1, <1>3, <1>u, <2>1 DEF BeingAnswered, Newest, Asking, Unasked
\* Who departed was counted for its departure only.
<1>7. Counted(r) /\ ~Counted(r)' /\ \A q \in Receivers : q # r => (Counted(q)' <=> Counted(q))
  <2>1. ~(mail[r] # <<>> /\ mail[r][1] = Welcome)
    <3>1. 1 \in DOMAIN mail[r] \/ mail[r] = <<>>
      <4>1. Len(mail[r]) \in Nat /\ DOMAIN mail[r] = 1 .. Len(mail[r]) /\ (mail[r] = <<>> <=> Len(mail[r]) = 0)
        BY <1>1, Box, Constants
      <4> QED
        BY <4>1
    <3> QED
      BY <1>5, <3>1 DEF IInv, Mailbox, Welcome
  <2> QED
    BY <1>3, <1>5, <1>6, <1>u, <2>1 DEF Counted
<1>8. Counting'
  <2>1. IsFiniteSet(Enrolled) /\ alive_recvers_num = Cardinality(Enrolled)
    <3>1. \A q \in Enrolled : \E k \in Slots : recvers[k].pid = q
      BY <1>a DEF IInv, Counting, Enrolled, HasSlot
    <3> QED
      BY <1>a, <3>1, SlotsBound DEF IInv, Counting
  <2>2. Enrolled' = Enrolled \ {r} /\ r \in Enrolled
    BY <1>7 DEF Enrolled
  <2>3. Cardinality(Enrolled \ {r}) = Cardinality(Enrolled) - 1
    BY <2>1, <2>2, FS_RemoveElement
  <2>4. \A q \in Receivers : Counted(q)' => HasSlot(q)'
    BY <1>a, <1>6, <1>7 DEF IInv, Counting
  <2> QED
    BY <1>u, <2>1, <2>2, <2>3, <2>4 DEF Counting
<1>9. TypeOK'
  <2>1. alive_recvers_num' \in 0 .. MAX_SENDRERS_NUM
    <3>1. \A q \in Enrolled' : \E k \in Slots : recvers'[k].pid = q
      BY <1>8, <1>a, <1>b DEF Counting, Enrolled, HasSlot, Slots, Open
    <3>2. Cardinality(Enrolled') \in Nat /\ Cardinality(Enrolled') <= MAX_SENDRERS_NUM
      BY <3>1, SlotsBound
    <3> QED
      BY <1>1, <1>8, <1>a, <1>b, <3>2 DEF Counting, Open
  <2>2. departed' \subseteq Receivers
    BY <1>u DEF IInv, TypeOK
  <2>3. spc' \in {"accept", "answer", "depart", "read", "send", "finish", "done"}
        /\ i' \in 0 .. MAX_SENDRERS_NUM + 1 /\ mtype' \in Types
    BY <1>1, <1>u
  <2> QED
    BY <1>3, <1>4, <1>u, <2>1, <2>2, <2>3 DEF IInv, TypeOK, Slots, Types
<1>10. Control'
  BY <1>1, <1>3, <1>4, <1>a, <1>u, Constants DEF IInv, Control, Slots
<1>11. RegistersOnce'
  <2>1. \A q \in Receivers : mtype' # q
    BY <1>u, Constants
  <2>2. Slots' = Slots /\ \A k \in Slots : recvers'[k].pid = recvers[k].pid
    BY <1>4 DEF Slots
  <2>3. ASSUME NEW q \in Receivers
        PROVE  /\ Asking(q)' \/ BeingAnswered(q)' => rpc[q] \in {"reply", "killed"}
               /\ Pending(q)' => mail[q] = <<>>
               /\ Unasked(q)' \/ Asking(q)' => \A k \in Slots : recvers[k].pid # q
               /\ rpc[q] = "reply" /\ ~removed =>
                      Pending(q)' \/ (mail[q] # <<>> /\ mail[q][1] \in {Welcome, Refused})
    <3>1. Pending(q)' <=> Pending(q)
      BY <1>6 DEF Pending
    <3> QED
      BY <1>6, <3>1 DEF IInv, RegistersOnce
  <2>4. /\ \A j, k \in DOMAIN mail'[ACCEPT] : mail'[ACCEPT][j] = mail'[ACCEPT][k] => j = k
        /\ \A j, k \in Slots' : recvers'[j].pid = recvers'[k].pid /\ recvers'[j].pid # Stray => j = k
    BY <1>3, <2>2 DEF IInv, RegistersOnce
  <2> QED
    BY <1>3, <1>b, <2>1, <2>2, <2>3, <2>4 DEF RegistersOnce
<1>12. DepartsOnce'
  <2>1. mail'[PID] \in Seq(Receivers)
    <3>1. mail[PID] \in Seq(Receivers)
      BY <1>a DEF IInv, DepartsOnce
    <3> QED
      BY <1>1, <1>u, <3>1, HeadTailProperties
  <2> QED
    BY <1>5, <1>a, <1>b, <2>1 DEF IInv, DepartsOnce
<1>13. ASSUME NEW q \in Receivers PROVE Mailbox(q)'
  <2>1. /\ mail'[q] = mail[q] /\ last'[q] = last[q] /\ rpc'[q] = rpc[q] /\ eof' = eof
        /\ Newest(q)' = Newest(q)
    BY <1>3, <1>6, <1>b
  <2>2. Mailbox(q)
    BY DEF IInv
  <2> QED
    BY <2>1, <2>2 DEF Mailbox
<1>14. Gapless'
  BY <1>u DEF Gapless
<1> QED
  BY <1>8, <1>9, <1>10, <1>11, <1>12, <1>13, <1>14 DEF IInv

\* At the end of the input nothing is counted any more; "F" follows what is in
\* a mailbox, and whoever has a mailbox to get it in has been answered.
LEMMA SendFinishStep ==
    ASSUME IInv, SendFinish
    PROVE  IInv'
<1>1. /\ mail \in [Types -> Seq(Int)] /\ Lines \in Nat /\ MAX_SENDRERS_NUM \in Nat \ {0}
      /\ line \in 0 .. Lines /\ last \in [Receivers -> 0 .. Lines]
      /\ senders_num \in 0 .. MAX_SENDRERS_NUM + 1 /\ i \in 0 .. MAX_SENDRERS_NUM + 1
      /\ recvers \in [Slots -> [pid : Receivers \cup {Stray}, is_alive : BOOLEAN]]
      /\ mtype \in Types /\ mtype # ACCEPT
  BY Constants DEF IInv, TypeOK, Control
<1>u. /\ removed' = removed /\ spc' = spc /\ spc = "finish" /\ i' = i + 1 /\ i < senders_num
      /\ line' = line /\ eof' = eof
      /\ recvers' = recvers /\ senders_num' = senders_num
      /\ alive_recvers_num' = alive_recvers_num /\ alive_recvers_num # 0
      /\ rpc' = rpc /\ stop' = stop /\ last' = last /\ departed' = departed
  BY DEF SendFinish
<1>a. ~removed /\ eof /\ ~Open /\ ~Open'
  BY <1>u DEF IInv, Control, Open
<1>b. rpc' = rpc /\ last' = last /\ eof' = eof /\ departed' = departed /\ recvers' = recvers
      /\ senders_num' = senders_num /\ spc' = "finish" /\ removed' = removed
  BY <1>u
<1>t. PICK t \in Types : \/ mail' = mail /\ mtype' = Stray
                         \/ mail' = Put(t, Finish) /\ mtype' = t
  <2>1. mtype' \in Types
    <3>1. i \in Slots => recvers[i].pid \in Types
      BY <1>1, Constants
    <3> QED
      BY <1>1, <3>1, Constants DEF SendFinish
  <2> QED
    BY <2>1, Constants DEF SendFinish
\* The type belongs to a slot, or to the message before.
<1>2. /\ mtype' \in Types /\ mtype' # ACCEPT
      /\ \A q \in Receivers : mtype' = q => ~Unasked(q) /\ ~Asking(q)
  <2>1. \/ i \in Slots /\ recvers[i].is_alive /\ mtype' = recvers[i].pid
        \/ mtype' = mtype \/ mtype' = Stray
    BY DEF SendFinish
  <2>2. CASE i \in Slots /\ recvers[i].is_alive /\ mtype' = recvers[i].pid
    <3>1. mtype' \in Receivers
      BY <2>2 DEF IInv, Control
    <3>2. \A q \in Receivers : mtype' = q => ~Unasked(q) /\ ~Asking(q)
      BY <2>2 DEF IInv, RegistersOnce
    <3> QED
      BY <3>1, <3>2, Constants
  <2>3. CASE mtype' = mtype
    <3>1. \A q \in Receivers : mtype = q => ~Unasked(q) /\ ~Asking(q)
      BY DEF IInv, RegistersOnce
    <3> QED
      BY <1>1, <2>3, <3>1
  <2>4. CASE mtype' = Stray
    BY <2>4, Constants
  <2> QED
    BY <2>1, <2>2, <2>3, <2>4
<1>3. /\ mail' \in [Types -> Seq(Int)] /\ mail'[ACCEPT] = mail[ACCEPT]
      /\ \A q \in Receivers : \/ mail'[q] = mail[q]
                              \/ Grows(q, Finish) /\ mtype' = q /\ mail'[q] = Append(mail[q], Finish)
  <2>1. CASE mail' = mail
    BY <1>1, <2>1
  <2>2. CASE mail' = Put(t, Finish) /\ mtype' = t
    <3>1. Grows(t, Finish)
      BY <1>1, <2>2, PutBox, Constants
    <3>2. mail'[t] = Append(mail[t], Finish)
      BY <1>1, <2>2 DEF Put
    <3>3. \A u \in Types : u # t => mail'[u] = mail[u]
      BY <3>1 DEF Grows
    <3>4. mail' \in [Types -> Seq(Int)]
      BY <3>1 DEF Grows
    <3> QED
      BY <1>2, <2>2, <3>1, <3>2, <3>3, <3>4, Constants
  <2> QED
    BY <1>t, <2>1, <2>2
<1>4. \A q \in Receivers : /\ Newest(q)' = line /\ Newest(q) = line
                           /\ ~BeingAnswered(q)' /\ ~BeingAnswered(q)
                           /\ Asking(q)' <=> Asking(q)
                           /\ Unasked(q)' <=> Unasked(q)
  BY <1>3, <1>u DEF Newest, BeingAnswered, Asking, Unasked
\* A mailbox that grows.
<1>5. ASSUME NEW q \in Receivers, mail'[q] # mail[q]
      PROVE  /\ ~Pending(q) /\ Grows(q, Finish)
             /\ mail[q] # <<>> => mail'[q][1] = mail[q][1]
             /\ mail[q] = <<>> => mail'[q][1] = Finish /\ rpc[q] # "reply"
             /\ Answers(q)' = Answers(q)
  <2>1. Grows(q, Finish) /\ mtype' = q
    BY <1>3, <1>5
  <2>2. ~Pending(q)
    BY <1>2, <1>4, <2>1 DEF Pending
  <2>3. mail[q] # <<>> => mail'[q][1] = mail[q][1]
    BY <2>1 DEF Grows
  <2>4. mail[q] = <<>> => mail'[q][1] = Finish
    BY <2>1 DEF Grows
  <2>5. mail[q] = <<>> => rpc[q] # "reply"
    BY <1>a, <2>2 DEF IInv, RegistersOnce
  <2>6. mail'[q] # <<>> /\ ~(Finish <= 0)
    BY <1>1, <2>1 DEF Grows, Finish
  <2>7. Answers(q)' = Answers(q)
    BY <2>3, <2>4, <2>6 DEF Answers
  <2> QED
    BY <2>1, <2>2, <2>3, <2>4, <2>5, <2>7
<1>6. TypeOK'
  <2>1. \A q \in Receivers : mail'[q] \in Seq(Refused .. Finish)
    <3> SUFFICES ASSUME NEW q \in Receivers PROVE mail'[q] \in Seq(Refused .. Finish)
      OBVIOUS
    <3>1. mail[q] \in Seq(Refused .. Finish)
      BY DEF IInv, TypeOK
    <3>2. Finish \in Refused .. Finish
      BY <1>1 DEF Finish, Refused
    <3>3. mail'[q] = mail[q] \/ mail'[q] = Append(mail[q], Finish)
      BY <1>3
    <3>4. CASE mail'[q] = mail[q]
      BY <3>1, <3>4
    <3>5. CASE mail'[q] = Append(mail[q], Finish)
      BY <3>1, <3>2, <3>5, AppendProperties
    <3> QED
      BY <3>3, <3>4, <3>5
  <2>2. i' \in 0 .. MAX_SENDRERS_NUM + 1
    BY <1>1, <1>u
  <2> QED
    BY <1>2, <1>3, <1>u, <2>1, <2>2 DEF IInv, TypeOK, Slots, Types
<1>7. Control'
  BY <1>2, <1>3, <1>a, <1>u DEF IInv, Control, Slots
<1>8. RegistersOnce'
  <2>1. ASSUME NEW q \in Receivers
        PROVE  /\ Asking(q)' \/ BeingAnswered(q)' => rpc[q] \in {"reply", "killed"}
               /\ Pending(q)' => mail'[q] = <<>>
               /\ Unasked(q)' \/ Asking(q)' =>
                      mtype' # q /\ \A k \in Slots : recvers[k].pid # q
               /\ rpc[q] = "reply" /\ ~removed =>
                      Pending(q)' \/ (mail'[q] # <<>> /\ mail'[q][1] \in {Welcome, Refused})
    <3>1. Pending(q)' <=> Pending(q)
      BY <1>4 DEF Pending
    <3>2. Unasked(q) \/ Asking(q) => mtype' # q
      BY <1>2
    <3>3. CASE mail'[q] = mail[q]
      BY <1>4, <3>1, <3>2, <3>3 DEF IInv, RegistersOnce
    <3>4. CASE mail'[q] # mail[q]
      BY <1>4, <1>5, <3>1, <3>2, <3>4 DEF IInv, RegistersOnce, Grows
    <3> QED
      BY <3>3, <3>4
  <2> QED
    BY <1>3, <1>b, <2>1 DEF IInv, RegistersOnce, Slots
<1>9. DepartsOnce' /\ Counting'
  BY <1>a DEF DepartsOnce, Counting
<1>10. ASSUME NEW q \in Receivers PROVE Mailbox(q)'
  <2>0. Mailbox(q)
    BY DEF IInv
  <2>1. CASE mail'[q] # mail[q]
    <3> DEFINE n == Len(mail[q])
    <3>1. /\ n \in Nat /\ DOMAIN mail[q] = 1 .. n /\ DOMAIN mail'[q] = 1 .. n + 1
          /\ \A k \in 1 .. n : mail'[q][k] = mail[q][k]
          /\ mail'[q][n + 1] = Finish
      BY <1>5, <2>1 DEF Grows
    <3> HIDE DEF n
    <3>2. ASSUME NEW k \in 1 .. n + 1
          PROVE  /\ mail'[q][k] <= 0 => k = 1 /\ rpc[q] \in {"reply", "killed"}
                 /\ mail'[q][k] > 0 => mail'[q][k] > last[q]
                 /\ mail'[q][k] <= line \/ mail'[q][k] = Finish
      <4>1. CASE k \in 1 .. n
        BY <1>4, <2>0, <3>1, <4>1 DEF Mailbox
      <4>2. CASE k = n + 1
        BY <1>1, <3>1, <4>2 DEF Finish
      <4> QED
        BY <3>1, <4>1, <4>2
    <3>3. ASSUME NEW j \in 1 .. n + 1, NEW k \in 1 .. n + 1, j < k
          PROVE  mail'[q][j] < mail'[q][k] \/ mail'[q][k] = Finish
      <4>1. CASE k \in 1 .. n
        <5>1. j \in 1 .. n
          BY <3>1, <3>3, <4>1
        <5> QED
          BY <2>0, <3>1, <3>3, <4>1, <5>1 DEF Mailbox
      <4> QED
        BY <3>1, <4>1
    <3>4. last[q] <= Newest(q)'
      BY <1>4, <2>0 DEF Mailbox
    <3> QED
      BY <1>4, <1>a, <1>b, <3>1, <3>2, <3>3, <3>4 DEF Mailbox
  <2>2. CASE mail'[q] = mail[q]
    <3>1. Newest(q)' = Newest(q)
      BY <1>4
    <3> QED
      BY <1>b, <2>0, <2>2, <3>1 DEF Mailbox
  <2> QED
    BY <2>1, <2>2
<1>11. Gapless'
  <2> SUFFICES ASSUME departed = {} PROVE Gapless'
    BY <1>b DEF Gapless
  <2>1. ASSUME NEW q \in Receivers
        PROVE  \A k \in DOMAIN mail'[q] :
                     k > Answers(q)' => \/ mail'[q][k] = last[q] + k - Answers(q)'
                                        \/ mail'[q][k] = Finish
    <3>1. CASE mail'[q] # mail[q]
      <4> DEFINE n == Len(mail[q])
      <4>1. /\ n \in Nat /\ DOMAIN mail[q] = 1 .. n /\ DOMAIN mail'[q] = 1 .. n + 1
            /\ \A k \in 1 .. n : mail'[q][k] = mail[q][k]
            /\ mail'[q][n + 1] = Finish /\ Answers(q)' = Answers(q)
        BY <1>5, <3>1 DEF Grows
      <4> HIDE DEF n
      <4>2. \A k \in 1 .. n + 1 : k \in 1 .. n \/ k = n + 1
        BY <4>1
      <4>3. \A k \in 1 .. n : k > Answers(q) => \/ mail[q][k] = last[q] + k - Answers(q)
                                                \/ mail[q][k] = Finish
        BY <4>1 DEF IInv, Gapless
      <4> QED
        BY <4>1, <4>2, <4>3
    <3>2. CASE mail'[q] = mail[q]
      <4>1. Answers(q)' = Answers(q)
        BY <3>2 DEF Answers
      <4> QED
        BY <3>2, <4>1 DEF IInv, Gapless
    <3> QED
      BY <3>1, <3>2
  <2>2. \A k \in Slots : recvers'[k].is_alive <=> k < senders_num'
    BY <1>b DEF IInv, Gapless
  <2> QED
    BY <1>a, <1>b, <2>1, <2>2 DEF Gapless, Slots
<1> QED
  BY <1>6, <1>7, <1>8, <1>9, <1>10, <1>11 DEF IInv

\* With the queue everything in it is gone.
LEMMA RemoveStep ==
    ASSUME IInv, Remove
    PROVE  IInv'
<1>1. /\ spc = "finish" /\ spc' = "done" /\ removed' = TRUE
      /\ mail' = [t \in Types |-> <<>>]
      /\ i' = i /\ eof' = eof /\ line' = line /\ recvers' = recvers /\ senders_num' = senders_num
      /\ alive_recvers_num' = alive_recvers_num /\ mtype' = mtype
      /\ rpc' = rpc /\ stop' = stop /\ last' = last /\ departed' = departed
  BY DEF Remove
<1> USE <1>1
<1>2. /\ \A t \in Types : mail'[t] = <<>> /\ DOMAIN mail'[t] = {}
      /\ mail' \in [Types -> Seq(Int)]
  <2>1. DOMAIN <<>> = {} /\ <<>> \in Seq(Int)
    BY EmptySeq
  <2> QED
    BY <2>1
<1>3. \A q \in Receivers : /\ mail'[q] = <<>> /\ DOMAIN mail'[q] = {}
                           /\ ~Asking(q)' /\ ~BeingAnswered(q)'
                           /\ Unasked(q)' <=> Unasked(q)
                           /\ Newest(q)' = line /\ Newest(q) = line
  BY <1>2, Constants DEF Asking, BeingAnswered, Unasked, Newest
<1>4. ~Open' /\ DepartsOnce' /\ Counting'
  BY DEF Open, DepartsOnce, Counting
<1>5. TypeOK'
  <2>1. \A q \in Receivers : mail'[q] \in Seq(Refused .. Finish)
    BY <1>3, EmptySeq
  <2>2. mail'[ACCEPT] \in Seq(Receivers)
    BY <1>2, Constants, EmptySeq
  <2> QED
    BY <2>1, <2>2 DEF IInv, TypeOK, Slots, Types
<1>6. Control'
  BY <1>2 DEF IInv, Control, Slots, Types
<1>7. RegistersOnce'
  <2>1. DOMAIN mail'[ACCEPT] = {}
    BY <1>2, Constants
  <2> QED
    BY <1>3, <2>1 DEF IInv, RegistersOnce, Pending, Slots
<1>8. \A q \in Receivers : Mailbox(q)'
  BY <1>3 DEF IInv, Mailbox
<1>9. Gapless'
  BY <1>3, <1>4 DEF IInv, Gapless, Slots
<1> QED
  BY <1>4, <1>5, <1>6, <1>7, <1>8, <1>9 DEF IInv

-----------------------------------------------------------------------------
(* The theorems.                                                           *)

LEMMA InitIInv == Init => IInv
<1> SUFFICES ASSUME Init PROVE IInv
  OBVIOUS
<1>1. MAX_SENDRERS_NUM \in Nat \ {0} /\ Lines \in Nat /\ \A k \in Slots : ~(k < 0)
  BY NumbersAssumption DEF Slots
<1>2. /\ mail \in [Types -> Seq(Int)] /\ DOMAIN mail[ACCEPT] = {} /\ DOMAIN mail[PID] = {}
      /\ mail[ACCEPT] \in Seq(Receivers) /\ mail[PID] \in Seq(Receivers)
      /\ \A q \in Receivers : /\ mail[q] = <<>> /\ DOMAIN mail[q] = {} /\ Len(mail[q]) = 0
                              /\ mail[q] \in Seq(Refused .. Finish)
  <2>1. DOMAIN <<>> = {} /\ \A S : <<>> \in Seq(S) /\ Len(<<>>) = 0
    BY EmptySeq
  <2> QED
    BY <2>1, Constants DEF Init
<1>3. \A q \in Receivers : /\ ~Asking(q) /\ ~BeingAnswered(q) /\ ~Left(q) /\ ~HasSlot(q)
                           /\ ~Counted(q) /\ Newest(q) = 0 /\ Unasked(q) /\ Pending(q)
  BY <1>2 DEF Init, Asking, BeingAnswered, Left, HasSlot, Counted, Newest, Unasked, Pending
<1>4. TypeOK
  <2>1. /\ recvers \in [Slots -> [pid : Receivers \cup {Stray}, is_alive : BOOLEAN]]
        /\ last \in [Receivers -> 0 .. Lines]
        /\ senders_num \in 0 .. MAX_SENDRERS_NUM + 1 /\ i \in 0 .. MAX_SENDRERS_NUM + 1
        /\ alive_recvers_num \in 0 .. MAX_SENDRERS_NUM /\ line \in 0 .. Lines
    BY <1>1 DEF Init
  <2> QED
    BY <1>2, <2>1, Constants DEF Init, TypeOK
<1>5. Control
  BY <1>2, Constants DEF Init, Control
<1>6. RegistersOnce
  BY <1>2, <1>3, Constants DEF Init, RegistersOnce
<1>7. DepartsOnce
  BY <1>2, <1>3 DEF Init, DepartsOnce
<1>8. Counting
  <2>1. Enrolled = {}
    BY <1>3 DEF Enrolled
  <2> QED
    BY <1>3, <2>1, FS_EmptySet DEF Init, Counting
<1>9. \A q \in Receivers : Mailbox(q)
  BY <1>2, <1>3 DEF Init, Mailbox
<1>10. Gapless
  <2>1. \A k \in Slots : recvers[k].is_alive <=> k < senders_num
    BY <1>1 DEF Init
  <2> QED
    BY <1>2, <1>3, <2>1 DEF Gapless
<1> QED
  BY <1>4, <1>5, <1>6, <1>7, <1>8, <1>9, <1>10 DEF IInv

LEMMA StutterIInv == IInv /\ UNCHANGED vars => IInv'
<1> SUFFICES ASSUME IInv, UNCHANGED vars PROVE IInv'
  OBVIOUS
<1>u. /\ mail' = mail /\ removed' = removed /\ spc' = spc /\ i' = i /\ eof' = eof
      /\ line' = line /\ recvers' = recvers /\ senders_num' = senders_num
      /\ alive_recvers_num' = alive_recvers_num /\ mtype' = mtype
      /\ rpc' = rpc /\ stop' = stop /\ last' = last /\ departed' = departed
  BY DEF vars, senderVars
<1> USE <1>u
<1>1. /\ Open' <=> Open
      /\ \A q \in Receivers : /\ Newest(q)' = Newest(q)
                              /\ HasSlot(q)' <=> HasSlot(q)
                              /\ BeingAnswered(q)' <=> BeingAnswered(q)
  BY SenderFrame DEF senderVars
<1>2. \A q \in Receivers : /\ Asking(q)' <=> Asking(q)
                           /\ Left(q)' <=> Left(q)
                           /\ Unasked(q)' <=> Unasked(q)
                           /\ Answers(q)' = Answers(q)
  BY DEF Asking, Left, Unasked, Answers
<1>3. TypeOK'
  BY DEF IInv, TypeOK, Slots, Types
<1>4. Control'
  BY DEF IInv, Control, Slots, Types
<1>5. RegistersOnce'
  BY <1>1, <1>2 DEF IInv, RegistersOnce, Pending, Slots
<1>6. DepartsOnce'
  BY <1>1, <1>2 DEF IInv, DepartsOnce
<1>7. Counting'
  <2>1. \A q \in Receivers : Counted(q)' <=> Counted(q)
    BY <1>1, <1>2 DEF Counted, Slots
  <2>2. Enrolled' = Enrolled
    BY <2>1 DEF Enrolled
  <2> QED
    BY <1>1, <2>1, <2>2 DEF IInv, Counting
<1>8. \A q \in Receivers : Mailbox(q)'
  BY <1>1 DEF IInv, Mailbox
<1>9. Gapless'
  BY <1>1, <1>2 DEF IInv, Gapless, Slots
<1> QED
  BY <1>3, <1>4, <1>5, <1>6, <1>7, <1>8, <1>9 DEF IInv

LEMMA NextIInv == IInv /\ [Next]_vars => IInv'
<1> SUFFICES ASSUME IInv, [Next]_vars PROVE IInv'
  OBVIOUS
<1>1. CASE Sender
  BY <1>1, AcceptStep, AnswerStep, ControlStep, DepartStep, SendLineStep, SendFinishStep,
     RemoveStep DEF Sender
<1>2. CASE \E r \in Receivers : Connect(r) \/ Receiver(r) \/ Interrupt(r)
  BY <1>2, ReceiverStep
<1>3. CASE UNCHANGED vars
  BY <1>3, StutterIInv
<1> QED
  BY <1>1, <1>2, <1>3 DEF Next, Over

\* Of all the bus's states: what the counter, the table, the queue and the
\* receivers have to do with each other, IInv above.
THEOREM BusInvariant == Spec => []IInv
<1> QED
  BY InitIInv, NextIInv, PTL DEF Spec

\* Mailboxes hold what is sent to them, the table what the code puts there, and
\* alive_recvers_num never leaves 0 .. MAX_SENDRERS_NUM, though a departure is
\* counted whether or not the slot is found.
THEOREM BusTypeCorrect == Spec => []TypeOK
<1>1. IInv => TypeOK
  BY DEF IInv
<1> QED
  BY <1>1, BusInvariant, PTL

\* The sender's loop ends before its input only when nobody it has welcomed is
\* left behind, with any number of receivers and slots.
THEOREM NobodyIsCutOff == Spec => []NobodyCutOff
<1>1. ASSUME IInv PROVE NobodyCutOff
  <2> SUFFICES ASSUME spc = "finish", ~eof, NEW r \in Receivers \ departed, Welcomed(r)
               PROVE  FALSE
    BY DEF NobodyCutOff
  <2>1. Open /\ alive_recvers_num = 0
    BY <1>1 DEF IInv, Control, Open
  <2>2. Counted(r)
    BY DEF Counted, Welcomed
  <2>3. r \in Enrolled
    BY <2>2 DEF Enrolled
  <2>4. IsFiniteSet(Enrolled) /\ Cardinality(Enrolled) = 0
    <3>1. \A q \in Enrolled : \E k \in Slots : recvers[k].pid = q
      BY <1>1, <2>1 DEF IInv, Counting, Enrolled, HasSlot
    <3> QED
      BY <1>1, <2>1, <3>1, SlotsBound DEF IInv, Counting
  <2> QED
    BY <2>3, <2>4, FS_EmptySet
<1> QED
  BY <1>1, BusInvariant, PTL

\* Every receiver prints the lines in the order they were read, none twice, and
\* before anybody has left it misses none.
THEOREM LinesComeInOrder == Spec => LinesInOrder
<1>1. ASSUME IInv, [Next]_vars
      PROVE  [\A r \in Receivers : rpc[r] = "receive" /\ rpc'[r] = "check"
                  => /\ last'[r] > last[r]
                     /\ departed = {} => last'[r] = last[r] + 1]_vars
  <2> SUFFICES ASSUME NEW r \in Receivers, rpc[r] = "receive", rpc'[r] = "check"
               PROVE  /\ last'[r] > last[r]
                      /\ departed = {} => last'[r] = last[r] + 1
    BY Zenon
  <2>1. rpc \in [Receivers -> {"off", "register", "reply", "check", "call", "receive", "leave",
                               "ended", "killed"}]
    BY <1>1 DEF IInv, TypeOK
  <2>2. CASE Sender \/ UNCHANGED vars
    BY <2>2 DEF Sender, Accept, Answer, NoAccept, Depart, NoDepart, Read, SendLine, Sent,
                SendFinish, Remove, vars
  <2>3. ASSUME NEW q \in Receivers, Connect(q) \/ Receiver(q) \/ Interrupt(q)
        PROVE  q = r /\ Receive(r)
    BY <2>1, <2>3 DEF Connect, Receiver, Interrupt, Register, Reply, Check, Call, Receive,
                      ReceiveFails, Leave, Goto
  <2> QED
    BY <1>1, <2>2, <2>3, ReceiveStep DEF Next, Over
<1> QED
  BY <1>1, BusInvariant, PTL DEF Spec, LinesInOrder
=============================================================================
