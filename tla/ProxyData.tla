------------------------------ MODULE ProxyData -----------------------------
(***************************************************************************)
(* pthreads/laboratory_work_#30: one resource of the multithreaded proxy.  *)
(* Its download thread pushes the pieces it receives into a Data object    *)
(* (Client::getResource, Data::pushData); the upload thread of the same    *)
(* client, and every client that finds the resource in the cache, send     *)
(* them on (Client::sendResource, Data::at, Data::popFirst).               *)
(*                                                                         *)
(* A piece is its number.  Data's mutex is only held over steps of one     *)
(* thread and its sections are single actions.  The condition `empty' is   *)
(* waited on with each client's own mutex, so nothing joins the look at    *)
(* the data and the wait.                                                  *)
(***************************************************************************)
EXTENDS Integers

CONSTANTS Senders,      \* threads in sendResource for this resource
          Uploader,     \* the one started by the download thread
          ContentLen,   \* length of the body; a piece of it is one unit
          HeaderLen     \* length of the response header, the first piece

(* The header is never empty.                                              *)
ASSUME SendersAssumption == Uploader \in Senders
ASSUME LengthsAssumption == ContentLen \in Nat /\ HeaderLen \in Nat \ {0}

VARIABLES cached,           \* status 200: the Data is in the cache
          expected_length,  \* Content-Length, or -1 without one
          pushed,           \* pieces pushed so far
          popped,           \* pieces taken off the front by popFirst
          coherence, delete_request,
          dl,               \* the download thread
          pc,               \* of each sender
          second,           \* of each sender: data.second, its next index
          piece,            \* of each sender: the piece it holds, or 0
          sent              \* of each sender: the last piece it has sent

dataVars == <<pushed, popped, coherence, delete_request>>
senderVars == <<pc, second, piece, sent>>
vars == <<cached, expected_length, dataVars, dl, senderVars>>

\* parseResponse has pushed the header; the upload thread has been created.
Init == /\ cached \in BOOLEAN
        /\ expected_length \in {-1, ContentLen}
        /\ pushed = 1
        /\ popped = 0
        /\ coherence = FALSE
        /\ delete_request = FALSE
        /\ dl = "recv"
        /\ pc = [s \in Senders |-> IF s = Uploader THEN "check" ELSE "absent"]
        /\ second = [s \in Senders |-> 0]
        /\ piece = [s \in Senders |-> 0]
        /\ sent = [s \in Senders |-> 0]

-----------------------------------------------------------------------------
(* The download thread: getResource.                                       *)

\* recv returns a piece; pushData appends it under the mutex.
Receive == /\ dl = "recv"
           /\ pushed <= ContentLen
           /\ pushed' = pushed + 1
           /\ dl' = "broadcast"
           /\ UNCHANGED <<cached, expected_length, popped, coherence,
                          delete_request, senderVars>>

WakeAll == [s \in Senders |-> IF pc[s] = "waiting" THEN "look" ELSE pc[s]]

\* Mutant: pushData does not broadcast.
BroadcastNobody == /\ dl = "broadcast"
                   /\ dl' = "recv"
                   /\ UNCHANGED <<cached, expected_length, dataVars, senderVars>>

\* pushData broadcasts after it has left the mutex.
Broadcast == /\ dl = "broadcast"
             /\ pc' = WakeAll
             /\ dl' = "recv"
             /\ UNCHANGED <<cached, expected_length, dataVars, second, piece, sent>>

\* current_length counts what was pushed, the header included.
current_length == HeaderLen + (pushed - 1)

isFull == expected_length <= current_length

\* Mutant: the resource is declared downloaded while pieces still come.
CloseEarly == /\ dl = "recv"
              /\ coherence' = TRUE
              /\ UNCHANGED <<cached, expected_length, pushed, popped, dl,
                             delete_request, senderVars>>

setDeleteRequest == delete_request' = TRUE /\ UNCHANGED coherence
setCoherence == coherence' = TRUE /\ UNCHANGED delete_request

\* recv returns 0 or an error, at the end of the body or before: the download
\* is marked broken or complete.  Neither mark is followed by a broadcast.
Close == /\ dl = "recv"
         /\ dl' = "done"
         /\ IF expected_length > 0 /\ ~isFull
            THEN setDeleteRequest ELSE setCoherence
         /\ UNCHANGED <<cached, expected_length, pushed, popped, senderVars>>

-----------------------------------------------------------------------------
(* The senders: sendResource.                                              *)

\* A later request for the same resource finds it in the cache.
Arrive(s) == /\ pc[s] = "absent"
             /\ cached
             /\ pc' = [pc EXCEPT ![s] = "check"]
             /\ UNCHANGED <<cached, expected_length, dataVars, dl, second, piece, sent>>

\* The top of the loop: getDeleteRequest.
CheckDelete(s) ==
    /\ pc[s] = "check"
    /\ pc' = [pc EXCEPT ![s] = IF delete_request THEN "failed" ELSE "look"]
    /\ UNCHANGED <<cached, expected_length, dataVars, dl, second, piece, sent>>

\* at() for a cached resource, popFirst() for the other: is a piece there?
HasPiece(s) == IF cached THEN second[s] < pushed ELSE popped < pushed

\* Mutant: the index is not advanced.
TakeSameAgain(s) == /\ cached
                    /\ piece' = [piece EXCEPT ![s] = second[s] + 1]
                    /\ UNCHANGED <<second, popped>>

TakeIndexed(s) == /\ cached
                  /\ second' = [second EXCEPT ![s] = @ + 1]
                  /\ piece' = [piece EXCEPT ![s] = second[s] + 1]
                  /\ UNCHANGED popped

\* Mutant: the erased piece is counted back.
TakeBackwards(s) == /\ ~cached
                    /\ popped' = popped - 1
                    /\ piece' = [piece EXCEPT ![s] = popped + 1]
                    /\ UNCHANGED second

TakeFirst(s) == /\ ~cached
                /\ popped' = popped + 1
                /\ piece' = [piece EXCEPT ![s] = popped + 1]
                /\ UNCHANGED second

Take(s) == /\ pc[s] = "look"
           /\ HasPiece(s)
           /\ TakeIndexed(s) \/ TakeFirst(s)
           /\ pc' = [pc EXCEPT ![s] = "send"]
           /\ UNCHANGED <<cached, expected_length, pushed, coherence,
                          delete_request, dl, sent>>

\* Nothing there and nothing to come: sendResource returns 0.
Finish(s) == /\ pc[s] = "look"
             /\ ~HasPiece(s) /\ coherence
             /\ pc' = [pc EXCEPT ![s] = "complete"]
             /\ UNCHANGED <<cached, expected_length, dataVars, dl, second, piece, sent>>

\* Nothing there yet: the mutex is left before the wait begins.
DecideToWait(s) == /\ pc[s] = "look"
                   /\ ~HasPiece(s) /\ ~coherence
                   /\ pc' = [pc EXCEPT ![s] = "to_wait"]
                   /\ UNCHANGED <<cached, expected_length, dataVars, dl, second,
                                  piece, sent>>

Wait(s) == /\ pc[s] = "to_wait"
           /\ pc' = [pc EXCEPT ![s] = "waiting"]
           /\ UNCHANGED <<cached, expected_length, dataVars, dl, second, piece, sent>>

SpuriousWakeup(s) == /\ pc[s] = "waiting"
                     /\ pc' = [pc EXCEPT ![s] = "look"]
                     /\ UNCHANGED <<cached, expected_length, dataVars, dl, second,
                                    piece, sent>>

SendPiece(s) == /\ pc[s] = "send"
                /\ sent' = [sent EXCEPT ![s] = piece[s]]
                /\ piece' = [piece EXCEPT ![s] = 0]
                /\ pc' = [pc EXCEPT ![s] = "check"]
                /\ UNCHANGED <<cached, expected_length, dataVars, dl, second>>

\* The client has gone: send fails and sendResource returns -1.
SendFails(s) == /\ pc[s] = "send"
                /\ pc' = [pc EXCEPT ![s] = "failed"]
                /\ UNCHANGED <<cached, expected_length, dataVars, dl, second, piece, sent>>

Download == Receive \/ Broadcast \/ Close

Send(s) == CheckDelete(s) \/ Take(s) \/ Finish(s) \/ DecideToWait(s) \/ Wait(s)
           \/ SendPiece(s) \/ SendFails(s)

\* Every thread has ended and no further client comes.
Ended == /\ dl = "done"
         /\ \A s \in Senders : pc[s] \in {"absent", "complete", "failed"}
         /\ UNCHANGED vars

Next == \/ Download
        \/ \E s \in Senders : Send(s) \/ Arrive(s) \/ SpuriousWakeup(s)
        \/ Ended

\* The remote server sends or closes, and every runnable thread runs; clients
\* need not come and nobody owes a spurious wakeup.
Spec == /\ Init /\ [][Next]_vars
        /\ WF_vars(Download)
        /\ \A s \in Senders : WF_vars(Send(s))

-----------------------------------------------------------------------------
SenderStates == {"absent", "check", "look", "to_wait", "waiting", "send",
                 "complete", "failed"}

\* Counters count and the threads are in one of their states.
TypeOK == /\ cached \in BOOLEAN
          /\ expected_length \in Int
          /\ pushed \in Nat /\ popped \in Nat
          /\ coherence \in BOOLEAN /\ delete_request \in BOOLEAN
          /\ dl \in {"recv", "broadcast", "done"}
          /\ pc \in [Senders -> SenderStates]
          /\ second \in [Senders -> Nat]
          /\ piece \in [Senders -> Nat]
          /\ sent \in [Senders -> Nat]

\* No piece is skipped or sent twice, whichever of at() and popFirst() a
\* sender uses and however often it was put to sleep between two pieces.
InOrder == \A s \in Senders : piece[s] # 0 => piece[s] = sent[s] + 1

\* A sender that reports success has sent all that was ever received, and
\* nothing more will come: it did not take a pause for the end.
CompleteDelivery ==
    \A s \in Senders : pc[s] = "complete" => dl = "done" /\ sent[s] = pushed

\* Only the end of the download can be slept through: a sender that is asleep
\* when n pieces are there gets up, unless the download ends without another
\* piece; and one that is awake when the data is complete ends.
OnlyEndIsSleptThrough ==
    \A s \in Senders :
        /\ \A n \in 1..(ContentLen + 1) :
              pc[s] = "waiting" /\ pushed = n
                  ~> pc[s] # "waiting" \/ (dl = "done" /\ pushed = n)
        /\ coherence /\ pc[s] \in {"check", "look", "send"}
              ~> pc[s] \in {"complete", "failed"}

=============================================================================
