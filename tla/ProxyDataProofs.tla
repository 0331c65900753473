--------------------------- MODULE ProxyDataProofs --------------------------
(***************************************************************************)
(* Proofs about ProxyData.tla, for any set of senders and any lengths.     *)
(* The inductive invariant ties a sender's place in the data to what it    *)
(* has sent: the index of at() for a cached resource, the number of erased *)
(* pieces for the other, which only the upload thread reads.               *)
(***************************************************************************)
EXTENDS ProxyData, TLAPS

\* A sender that was never started has done nothing.
AbsentIsIdle == \A s \in Senders : pc[s] = "absent" => sent[s] = 0 /\ piece[s] = 0 /\ second[s] = 0

\* A piece is held only until it is sent; a failed sender may keep it.
HoldsWhileSending ==
    \A s \in Senders : /\ pc[s] = "send" => piece[s] # 0
                       /\ pc[s] \notin {"send", "failed"} => piece[s] = 0

\* The place of a sender: what it sent and the piece it holds.
Place(s) == IF piece[s] = 0 THEN sent[s] ELSE sent[s] + 1

PlaceMatches ==
    /\ cached => \A s \in Senders : second[s] = Place(s) /\ second[s] <= pushed
    /\ ~cached => popped = Place(Uploader) /\ popped <= pushed

OnlyUploaderPops == ~cached => \A s \in Senders : s # Uploader => pc[s] = "absent"

CoherentAtEnd ==
    /\ coherence => dl = "done"
    /\ \A s \in Senders : pc[s] = "complete" => coherence /\ sent[s] = pushed

IInv == /\ TypeOK
        /\ AbsentIsIdle
        /\ HoldsWhileSending
        /\ InOrder
        /\ PlaceMatches
        /\ OnlyUploaderPops
        /\ CoherentAtEnd

\* parseResponse leaves a Data with the header as its one piece, and nobody has
\* sent anything.
LEMMA InitIInv == Init => IInv
<1> SUFFICES ASSUME Init PROVE IInv
  OBVIOUS
<1>1. /\ pc \in [Senders -> {"check", "absent"}]
      /\ \A s \in Senders : second[s] = 0 /\ piece[s] = 0 /\ sent[s] = 0
      /\ \A s \in Senders : s # Uploader => pc[s] = "absent"
  BY DEF Init
<1>2. TypeOK
  <2>1. second \in [Senders -> Nat] /\ piece \in [Senders -> Nat] /\ sent \in [Senders -> Nat]
    BY DEF Init
  <2>2. cached \in BOOLEAN /\ coherence \in BOOLEAN /\ delete_request \in BOOLEAN
    BY DEF Init
  <2>3. expected_length \in Int /\ pushed \in Nat /\ popped \in Nat /\ dl = "recv"
    BY LengthsAssumption DEF Init
  <2> QED  BY <1>1, <2>1, <2>2, <2>3 DEF TypeOK, SenderStates
<1>3. AbsentIsIdle /\ HoldsWhileSending /\ InOrder
  BY <1>1 DEF AbsentIsIdle, HoldsWhileSending, InOrder
<1>4. PlaceMatches
  BY <1>1, SendersAssumption DEF Init, PlaceMatches, Place
<1>5. OnlyUploaderPops /\ CoherentAtEnd
  BY <1>1 DEF Init, OnlyUploaderPops, CoherentAtEnd
<1> QED  BY <1>2, <1>3, <1>4, <1>5 DEF IInv

\* Steps of the download thread: the data only grows, and only before its end.
LEMMA DownloadStep ==
    ASSUME IInv, Download
    PROVE  IInv'
<1> USE DEF IInv, TypeOK, AbsentIsIdle, HoldsWhileSending, InOrder, PlaceMatches, Place,
            OnlyUploaderPops, CoherentAtEnd, senderVars, dataVars
<1>1. CASE Receive
  BY <1>1 DEF Receive
<1>2. CASE Broadcast
  <2>1. /\ pc' \in [Senders -> SenderStates]
        /\ \A s \in Senders : pc'[s] = pc[s] \/ (pc[s] = "waiting" /\ pc'[s] = "look")
    BY <1>2 DEF Broadcast, WakeAll, SenderStates
  <2>2. /\ dl' = "recv" /\ dl = "broadcast"
        /\ UNCHANGED <<cached, expected_length, dataVars, second, piece, sent>>
    BY <1>2 DEF Broadcast
  <2>3. TypeOK'
    BY <2>1, <2>2
  <2>4. AbsentIsIdle' /\ HoldsWhileSending' /\ InOrder' /\ PlaceMatches'
    BY <2>1, <2>2
  <2>5. OnlyUploaderPops'
    BY <2>1, <2>2
  <2>6. CoherentAtEnd'
    BY <2>1, <2>2
  <2> QED  BY <2>3, <2>4, <2>5, <2>6
<1>3. CASE Close
  <2>1. /\ dl' = "done" /\ coherence' \in BOOLEAN /\ delete_request' \in BOOLEAN
        /\ coherence => coherence'
        /\ UNCHANGED <<cached, expected_length, pushed, popped, senderVars>>
    BY <1>3 DEF Close, setDeleteRequest, setCoherence
  <2> QED  BY <2>1
<1> QED  BY <1>1, <1>2, <1>3 DEF Download

\* Steps of a sender that hold, take and send no piece.
LEMMA MoveStep ==
    ASSUME IInv, NEW s \in Senders, NEW there \in {"check", "look", "to_wait", "waiting", "complete"},
           pc[s] \in {"absent", "check", "look", "to_wait", "waiting"},
           pc' = [pc EXCEPT ![s] = there],
           there = "complete" => coherence /\ sent[s] = pushed,
           pc[s] = "absent" => cached,
           UNCHANGED <<cached, expected_length, dataVars, dl, second, piece, sent>>
    PROVE  IInv'
<1>1. TypeOK'
  BY DEF IInv, TypeOK, dataVars, SenderStates
<1>2. AbsentIsIdle' /\ HoldsWhileSending' /\ InOrder'
  BY DEF IInv, TypeOK, AbsentIsIdle, HoldsWhileSending, InOrder
<1>3. PlaceMatches'
  BY DEF IInv, PlaceMatches, Place, dataVars
<1>4. OnlyUploaderPops'
  BY DEF IInv, TypeOK, OnlyUploaderPops
<1>5. CoherentAtEnd'
  BY DEF IInv, TypeOK, CoherentAtEnd, dataVars
<1> QED  BY <1>1, <1>2, <1>3, <1>4, <1>5 DEF IInv

\* A failed send ends the sender and changes nothing of the Data.
LEMMA FailStep ==
    ASSUME IInv, NEW s \in Senders, pc[s] \in {"check", "send"},
           pc' = [pc EXCEPT ![s] = "failed"],
           UNCHANGED <<cached, expected_length, dataVars, dl, second, piece, sent>>
    PROVE  IInv'
<1>1. TypeOK'
  BY DEF IInv, TypeOK, dataVars, SenderStates
<1>2. AbsentIsIdle' /\ HoldsWhileSending' /\ InOrder'
  BY DEF IInv, TypeOK, AbsentIsIdle, HoldsWhileSending, InOrder
<1>3. PlaceMatches'
  BY DEF IInv, PlaceMatches, Place, dataVars
<1>4. OnlyUploaderPops' /\ CoherentAtEnd'
  BY DEF IInv, TypeOK, OnlyUploaderPops, CoherentAtEnd, dataVars
<1> QED  BY <1>1, <1>2, <1>3, <1>4 DEF IInv

\* at and popFirst keep the invariant: the piece taken is the one after those
\* already taken.
LEMMA TakeStep ==
    ASSUME IInv, NEW s \in Senders, Take(s)
    PROVE  IInv'
<1>1. /\ pc[s] = "look" /\ pc' = [pc EXCEPT ![s] = "send"] /\ piece[s] = 0 /\ sent[s] \in Nat
      /\ UNCHANGED <<cached, expected_length, pushed, coherence, delete_request, dl, sent>>
  BY DEF Take, IInv, HoldsWhileSending, TypeOK
<1>2. ~cached => s = Uploader
  BY <1>1 DEF IInv, OnlyUploaderPops
<1>3. /\ piece' = [piece EXCEPT ![s] = sent[s] + 1]
      /\ cached => /\ second' = [second EXCEPT ![s] = sent[s] + 1]
                   /\ sent[s] + 1 <= pushed /\ popped' = popped
      /\ ~cached => popped' = sent[s] + 1 /\ sent[s] + 1 <= pushed /\ second' = second
  BY <1>1, <1>2 DEF Take, TakeIndexed, TakeFirst, HasPiece, IInv, TypeOK, PlaceMatches, Place
<1>4. TypeOK'
  BY <1>1, <1>3 DEF IInv, TypeOK, SenderStates
<1>5. AbsentIsIdle' /\ HoldsWhileSending' /\ InOrder'
  BY <1>1, <1>3 DEF IInv, TypeOK, AbsentIsIdle, HoldsWhileSending, InOrder
<1>6. PlaceMatches'
  BY <1>1, <1>2, <1>3, SendersAssumption DEF IInv, TypeOK, PlaceMatches, Place
<1>7. OnlyUploaderPops' /\ CoherentAtEnd'
  BY <1>1, <1>2 DEF IInv, TypeOK, OnlyUploaderPops, CoherentAtEnd
<1> QED  BY <1>4, <1>5, <1>6, <1>7 DEF IInv

\* Sending the piece in hand keeps the invariant: it becomes the last one sent.
LEMMA SendPieceStep ==
    ASSUME IInv, NEW s \in Senders, SendPiece(s)
    PROVE  IInv'
<1>1. /\ pc[s] = "send" /\ pc' = [pc EXCEPT ![s] = "check"]
      /\ piece[s] = sent[s] + 1 /\ sent[s] \in Nat
      /\ sent' = [sent EXCEPT ![s] = sent[s] + 1] /\ piece' = [piece EXCEPT ![s] = 0]
      /\ UNCHANGED <<cached, expected_length, dataVars, dl, second>>
  BY DEF SendPiece, IInv, InOrder, HoldsWhileSending, TypeOK
<1>2. TypeOK'
  BY <1>1 DEF IInv, TypeOK, SenderStates, dataVars
<1>3. AbsentIsIdle' /\ HoldsWhileSending' /\ InOrder'
  BY <1>1 DEF IInv, TypeOK, AbsentIsIdle, HoldsWhileSending, InOrder
<1>4. PlaceMatches'
  BY <1>1, SendersAssumption DEF IInv, TypeOK, PlaceMatches, Place, dataVars
<1>5. OnlyUploaderPops' /\ CoherentAtEnd'
  BY <1>1 DEF IInv, TypeOK, OnlyUploaderPops, CoherentAtEnd, dataVars
<1> QED  BY <1>2, <1>3, <1>4, <1>5 DEF IInv

\* Every step of the downloader and of the senders keeps the invariant.
LEMMA NextStep ==
    ASSUME IInv, [Next]_vars
    PROVE  IInv'
<1>1. CASE UNCHANGED vars
  BY <1>1 DEF vars, dataVars, senderVars, IInv, TypeOK, AbsentIsIdle, HoldsWhileSending,
              InOrder, PlaceMatches, Place, OnlyUploaderPops, CoherentAtEnd
<1>2. ASSUME NEW s \in Senders, Send(s) \/ Arrive(s) \/ SpuriousWakeup(s) PROVE IInv'
  <2>1. CASE CheckDelete(s)
    BY <2>1, MoveStep, FailStep DEF CheckDelete
  <2>2. CASE Take(s)
    BY <2>2, TakeStep
  <2>3. CASE Finish(s)
    <3>1. sent[s] = pushed
      BY <2>3 DEF Finish, HasPiece, IInv, TypeOK, PlaceMatches, Place, HoldsWhileSending,
                  OnlyUploaderPops
    <3> QED  BY <2>3, <3>1, MoveStep DEF Finish
  <2>4. CASE DecideToWait(s) \/ Wait(s) \/ Arrive(s) \/ SpuriousWakeup(s)
    BY <2>4, MoveStep DEF DecideToWait, Wait, Arrive, SpuriousWakeup
  <2>5. CASE SendPiece(s)
    BY <2>5, SendPieceStep
  <2>6. CASE SendFails(s)
    BY <2>6, FailStep DEF SendFails
  <2> QED  BY <1>2, <2>1, <2>2, <2>3, <2>4, <2>5, <2>6 DEF Send
<1> QED  BY <1>1, <1>2, DownloadStep DEF Next, Ended

\* The inductive invariant of a resource and its senders.
THEOREM ProxyDataInvariant == Spec => []IInv
<1>1. IInv /\ [Next]_vars => IInv'
  BY NextStep
<1> QED  BY <1>1, InitIInv, PTL DEF Spec

\* The counters stay natural numbers and the threads at their calls.
THEOREM TypeCorrect == Spec => []TypeOK
<1>1. IInv => TypeOK
  BY DEF IInv
<1> QED  BY <1>1, ProxyDataInvariant, PTL

\* For any number of readers, a sender that reports success has sent the whole
\* of what was downloaded, whatever the interleaving with the download.
THEOREM Complete == Spec => []CompleteDelivery
<1>1. IInv => CompleteDelivery
  BY DEF IInv, CoherentAtEnd, CompleteDelivery
<1> QED  BY <1>1, ProxyDataInvariant, PTL

\* Every sender sends the pieces in the order they came, without gaps.
THEOREM Ordered == Spec => []InOrder
<1>1. IInv => InOrder
  BY DEF IInv
<1> QED  BY <1>1, ProxyDataInvariant, PTL
=============================================================================
