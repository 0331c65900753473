---------------------------- MODULE ProxiesProofs ---------------------------
(***************************************************************************)
(* For any clients and resources, in both proxies: no object is deleted    *)
(* while it is in use, but for the lost clients of the threaded proxy, and *)
(* in the select proxy no entry of the map is behind its socket or its     *)
(* client.                                                                 *)
(*                                                                         *)
(* The threaded proxy: a client that lives is in the map, or about to be,  *)
(* or lost; no two of them have one address, so delete of a key finds the  *)
(* client whose thread was joined, unless that one was deleted before, and *)
(* then it finds a lost one.  A Data is either in the cache or its         *)
(* client's own, so each way of deleting it excludes the other.            *)
(*                                                                         *)
(* The select proxy: the two entries of a client are only in certain pairs *)
(* of states together, and the pairs in which one action would pull the    *)
(* other entry's object away last only while that other entry's action is  *)
(* already chosen.                                                         *)
(***************************************************************************)
EXTENDS MCProxies, FiniteSetTheorems, TLAPS

\* The states of a download thread that has a url, and that has made a Data.
HasUrl == {"lookup", "found", "connect", "send_request", "get_response", "parse", "insert"}
PastParse == {"start", "download", "join", "ended"}

\* Clients that live are registered, or about to be, or lost; main deletes
\* those that are registered.
Registration ==
    /\ main = "register" => fresh \in Clients /\ Lives(fresh) /\ fresh \notin client_threads
    /\ main # "register" => fresh = None
    /\ \A c \in client_threads \cup lost : download[c] # "none"
    /\ \A c \in Clients : Lives(c) => /\ c \in client_threads \/ c = fresh \/ c \in lost
                                      /\ main = "reap" => c \in left \/ c \in lost
                                      /\ main = "exited" => c \in lost
    /\ main = "reap" => left \subseteq client_threads
    /\ main \in {"reap", "exited"} => update = "ended"

\* An address has one client that lives, and one entry of the map.
OneAtAnAddress ==
    /\ \A c, d \in Clients : Lives(c) /\ Lives(d) /\ address[c] = address[d] => c = d
    /\ \A c, d \in client_threads : address[c] = address[d] => c = d

\* What the update thread works on is in the map; and of what is in the map only
\* what it has deleted in this round is deleted, until it has ended.
Joining ==
    /\ update = "joining" => /\ tmp \cup to_delete \subseteq client_threads
                             /\ tmp \cap to_delete = {}
                             /\ \A c \in to_delete : clientDeletes[c] > 0
    /\ \A c \in client_threads : clientDeletes[c] > 0 =>
           update = "ended" \/ (update = "joining" /\ c \in to_delete)

\* What is deleted has ended or was lost, and a thread that sends is joined.
DeletedHaveEnded ==
    \A c \in Clients : /\ clientDeletes[c] > 0 => download[c] = "ended" \/ c \in lost
                       /\ upload[c] = "serve" => download[c] \in {"download", "join"}

\* A Data is in the cache or its client's own, since it was made.
DataOwned ==
    \A d \in Clients :
        /\ d \in private => download[d] \in PastParse /\ ~InCache(d)
                            /\ dataDeletes[d] <= clientDeletes[d]
        /\ InCache(d) \/ dataDeletes[d] > 0 => download[d] \in PastParse
        /\ d \notin private => dataDeletes[d] <= 1

\* Data that other clients may point to.
Shared(d) == d \in Clients \ private /\ download[d] \in PastParse

\* Whoever reads a Data has a pointer to one, which is its own or was in the
\* cache, if it found one at all.
DataPointedTo ==
    \A c \in Clients :
        /\ download[c] \in HasUrl => url[c] \in Urls
        /\ download[c] = "found" => Shared(resource[c])
        /\ Reads(c) => data[c] \in {c, Garbage} \/ Shared(data[c])

Threads == /\ TypeOK /\ Registration /\ OneAtAnAddress /\ Joining /\ DeletedHaveEnded
           /\ LostByAddress
ThreadsInv == Threads /\ DataOwned /\ DataPointedTo /\ CacheIsLive /\ OnlyBrokenDataDies

-----------------------------------------------------------------------------
\* Every step of the threaded proxy keeps the types.
LEMMA ThreadsTypes == ThreadsInv /\ [Next]_vars => TypeOK'
<1> SUFFICES ASSUME ThreadsInv, [Next]_vars PROVE TypeOK'
  OBVIOUS
<1>0. TypeOK /\ DataPointedTo /\ Registration
  BY DEF ThreadsInv, Threads
<1> USE DEF MainStates, UpdateStates, DownloadStates
<1>1. ASSUME NEW p \in Clients, Accept(p) PROVE TypeOK'
  BY <1>1, <1>0, SMT DEF Accept, dataVars, updateVars, heapVars, TypeOK
<1>2. ASSUME NEW p \in Clients, Reap(p) PROVE TypeOK'
  BY <1>2, <1>0, SMT
     DEF Reap, DeleteClient, acceptVars, threadVars, dataVars, updateVars, TypeOK
<1>3. ASSUME NEW p \in Clients, JoinClient(p) PROVE TypeOK'
  BY <1>3, <1>0, SMT
     DEF JoinClient, DeleteClient, mainVars, acceptVars, threadVars, dataVars, TypeOK
<1>4. ASSUME NEW p \in Clients, CancelledInClose(p) PROVE TypeOK'
  BY <1>4, <1>0, SMT
     DEF CancelledInClose, DeleteClient, mainVars, acceptVars, threadVars, dataVars,
         TypeOK
<1>5. ASSUME NEW p \in Clients, ReadHeader(p) PROVE TypeOK'
  BY <1>5, <1>0, SMT
     DEF ReadHeader, Fails, SignalAndExit, Signal, readHttpHeader, Goto, heapVars,
         mainVars, acceptVars, TypeOK
<1>6. ASSUME NEW p \in Clients, Lookup(p) PROVE TypeOK'
  <2>1. url[p] \in Urls
    BY <1>6, <1>0, Zenon DEF Lookup, DataPointedTo, HasUrl
  <2> QED
    BY <1>6, <1>0, <2>1, SMT
       DEF Lookup, Goto, heapVars, mainVars, acceptVars, updateVars, TypeOK
<1>7. ASSUME NEW p \in Clients, Found(p) PROVE TypeOK'
  <2>1. url[p] \in Urls
    BY <1>7, <1>0, Zenon DEF Found, DataPointedTo, HasUrl
  <2>2. resource[p] \in Clients
    BY <1>7, <1>0, Zenon DEF Found, DataPointedTo, Shared
  <2> QED
    BY <1>7, <1>0, <2>1, <2>2, SMT
       DEF Found, Goto, heapVars, mainVars, acceptVars, updateVars, TypeOK
<1>8. ASSUME NEW p \in Clients, StartSending(p) PROVE TypeOK'
  BY <1>8, <1>0, SMT
     DEF StartSending, Signal, Goto, heapVars, mainVars, acceptVars, dataVars, TypeOK
<1>9. ASSUME NEW p \in Clients, ServeEnds(p) PROVE TypeOK'
  BY <1>9, <1>0, SMT
     DEF ServeEnds, Goto, heapVars, mainVars, acceptVars, updateVars, dataVars, TypeOK
<1>10. ASSUME NEW p \in Clients, Connect(p) PROVE TypeOK'
  BY <1>10, <1>0, SMT
     DEF Connect, Exchange, Fails, SignalAndExit, Signal, connectResourceServer, Goto,
         heapVars, mainVars, acceptVars, dataVars, TypeOK
<1>11. ASSUME NEW p \in Clients, SendRequest(p) PROVE TypeOK'
  BY <1>11, <1>0, SMT
     DEF SendRequest, Exchange, Fails, SignalAndExit, Signal, sendRequest, Goto,
         heapVars, mainVars, acceptVars, dataVars, TypeOK
<1>12. ASSUME NEW p \in Clients, ReadResponse(p) PROVE TypeOK'
  BY <1>12, <1>0, SMT
     DEF ReadResponse, Exchange, Fails, SignalAndExit, Signal, readHttpHeader, Goto,
         heapVars, mainVars, acceptVars, dataVars, TypeOK
<1>13. ASSUME NEW p \in Clients, parseResponse(p) PROVE TypeOK'
  BY <1>13, <1>0, SMT
     DEF parseResponse, Goto, heapVars, mainVars, acceptVars, updateVars, TypeOK
<1>14. ASSUME NEW p \in Clients, Insert(p) PROVE TypeOK'
  <2>1. url[p] \in Urls
    BY <1>14, <1>0, Zenon DEF Insert, DataPointedTo, HasUrl
  <2> QED
    BY <1>14, <1>0, <2>1, SMT
       DEF Insert, Goto, heapVars, mainVars, acceptVars, updateVars, dataVars, TypeOK
<1>15. ASSUME NEW p \in Clients, StartUpload(p) PROVE TypeOK'
  BY <1>15, <1>0, SMT
     DEF StartUpload, Goto, heapVars, mainVars, acceptVars, updateVars, dataVars, TypeOK
<1>16. ASSUME NEW p \in Clients, Downloaded(p) PROVE TypeOK'
  BY <1>16, <1>0, SMT
     DEF Downloaded, Goto, heapVars, mainVars, acceptVars, updateVars, TypeOK
<1>17. ASSUME NEW p \in Clients, JoinUpload(p) PROVE TypeOK'
  BY <1>17, <1>0, SMT
     DEF JoinUpload, SignalAndExit, Signal, Goto, heapVars, mainVars, acceptVars,
         dataVars, TypeOK
<1>18. ASSUME NEW p \in Clients, UploadEnds(p) PROVE TypeOK'
  BY <1>18, <1>0, SMT
     DEF UploadEnds, heapVars, mainVars, acceptVars, updateVars, dataVars, TypeOK
<1>19. ASSUME Register PROVE TypeOK'
  BY <1>19, <1>0, SMT
     DEF Register, heapVars, threadVars, dataVars, updateVars, TypeOK, Registration
<1>20. ASSUME Stop PROVE TypeOK'
  BY <1>20, <1>0, SMT
     DEF Stop, acceptVars, heapVars, threadVars, dataVars, updateVars, TypeOK
<1>21. ASSUME WakeUpdate PROVE TypeOK'
  BY <1>21, <1>0, SMT
     DEF WakeUpdate, Signal, acceptVars, heapVars, threadVars, dataVars, TypeOK
<1>22. ASSUME JoinUpdate PROVE TypeOK'
  BY <1>22, <1>0, SMT
     DEF JoinUpdate, acceptVars, heapVars, threadVars, dataVars, updateVars, TypeOK
<1>23. ASSUME SpuriousWakeup PROVE TypeOK'
  BY <1>23, <1>0, SMT
     DEF SpuriousWakeup, heapVars, mainVars, acceptVars, threadVars, dataVars, TypeOK
<1>24. ASSUME CancelledInWait PROVE TypeOK'
  BY <1>24, <1>0, SMT
     DEF CancelledInWait, heapVars, mainVars, acceptVars, threadVars, dataVars, TypeOK
<1>25. ASSUME Snapshot PROVE TypeOK'
  BY <1>25, <1>0, SMT
     DEF Snapshot, heapVars, mainVars, acceptVars, threadVars, dataVars, TypeOK
<1>26. ASSUME CancelledInJoin PROVE TypeOK'
  BY <1>26, <1>0, SMT
     DEF CancelledInJoin, heapVars, mainVars, acceptVars, threadVars, dataVars, TypeOK
<1>27. ASSUME EraseJoined PROVE TypeOK'
  BY <1>27, <1>0, SMT
     DEF EraseJoined, heapVars, mainVars, acceptVars, threadVars, dataVars, TypeOK
<1>28. ASSUME ReapCache PROVE TypeOK'
  BY <1>28, <1>0, SMT DEF ReapCache, acceptVars, threadVars, dataVars, updateVars, TypeOK
<1>29. ASSUME updateCache PROVE TypeOK'
  BY <1>29, <1>0, SMT DEF updateCache, mainVars, acceptVars, threadVars, dataVars, TypeOK
<1>30. ASSUME UNCHANGED vars PROVE TypeOK'
  BY <1>30, <1>0, SMT
     DEF vars, mainVars, acceptVars, threadVars, dataVars, updateVars, heapVars, TypeOK
<1> QED
  BY <1>1, <1>2, <1>3, <1>4, <1>5, <1>6, <1>7, <1>8, <1>9, <1>10, <1>11, <1>12, <1>13,
     <1>14, <1>15, <1>16, <1>17, <1>18, <1>19, <1>20, <1>21, <1>22, <1>23, <1>24, <1>25,
     <1>26, <1>27, <1>28, <1>29, <1>30
     DEF Next, ClientStep, MainStep, UpdateStep, Exited

\* A step of a client's threads leaves the rest alone, but for a signal.
GoesOn(p) ==
    /\ UNCHANGED <<mainVars, client_threads, tmp, to_delete, heapVars>>
    /\ update' = update \/ (update = "waiting" /\ update' = "woken")
    /\ download[p] \notin {"none", "ended"}
    /\ download'[p] # "none"
    /\ \A c \in Clients \ {p} : download'[c] = download[c] /\ upload'[c] = upload[c]
    /\ upload'[p] = "serve" => download'[p] \in {"download", "join"}

LEMMA ThreadGoesOn == ASSUME ThreadsInv, NEW p \in Clients, ClientStep(p)
                      PROVE  GoesOn(p)
<1>0. TypeOK /\ DeletedHaveEnded
  BY DEF ThreadsInv, Threads
<1> USE DEF DownloadStates
<1>1. CASE ReadHeader(p)
  BY <1>1, <1>0, SMT
     DEF ReadHeader, Fails, SignalAndExit, Signal, readHttpHeader, Goto, heapVars,
         mainVars, acceptVars, GoesOn, TypeOK, DeletedHaveEnded
<1>2. CASE Lookup(p)
  BY <1>2, <1>0, SMT
     DEF Lookup, Goto, heapVars, mainVars, acceptVars, updateVars, GoesOn, TypeOK,
         DeletedHaveEnded
<1>3. CASE Found(p)
  BY <1>3, <1>0, SMT
     DEF Found, Goto, heapVars, mainVars, acceptVars, updateVars, GoesOn, TypeOK,
         DeletedHaveEnded
<1>4. CASE StartSending(p)
  BY <1>4, <1>0, SMT
     DEF StartSending, Signal, Goto, heapVars, mainVars, acceptVars, dataVars, GoesOn,
         TypeOK, DeletedHaveEnded
<1>5. CASE ServeEnds(p)
  BY <1>5, <1>0, SMT
     DEF ServeEnds, Goto, heapVars, mainVars, acceptVars, updateVars, dataVars, GoesOn,
         TypeOK, DeletedHaveEnded
<1>6. CASE Connect(p)
  BY <1>6, <1>0, SMT
     DEF Connect, Exchange, Fails, SignalAndExit, Signal, connectResourceServer, Goto,
         heapVars, mainVars, acceptVars, dataVars, GoesOn, TypeOK, DeletedHaveEnded
<1>7. CASE SendRequest(p)
  BY <1>7, <1>0, SMT
     DEF SendRequest, Exchange, Fails, SignalAndExit, Signal, sendRequest, Goto,
         heapVars, mainVars, acceptVars, dataVars, GoesOn, TypeOK, DeletedHaveEnded
<1>8. CASE ReadResponse(p)
  BY <1>8, <1>0, SMT
     DEF ReadResponse, Exchange, Fails, SignalAndExit, Signal, readHttpHeader, Goto,
         heapVars, mainVars, acceptVars, dataVars, GoesOn, TypeOK, DeletedHaveEnded
<1>9. CASE parseResponse(p)
  BY <1>9, <1>0, SMT
     DEF parseResponse, Goto, heapVars, mainVars, acceptVars, updateVars, GoesOn,
         TypeOK, DeletedHaveEnded
<1>10. CASE Insert(p)
  BY <1>10, <1>0, SMT
     DEF Insert, Goto, heapVars, mainVars, acceptVars, updateVars, dataVars, GoesOn,
         TypeOK, DeletedHaveEnded
<1>11. CASE StartUpload(p)
  BY <1>11, <1>0, SMT
     DEF StartUpload, Goto, heapVars, mainVars, acceptVars, updateVars, dataVars,
         GoesOn, TypeOK, DeletedHaveEnded
<1>12. CASE Downloaded(p)
  BY <1>12, <1>0, SMT
     DEF Downloaded, Goto, heapVars, mainVars, acceptVars, updateVars, GoesOn, TypeOK,
         DeletedHaveEnded
<1>13. CASE JoinUpload(p)
  BY <1>13, <1>0, SMT
     DEF JoinUpload, SignalAndExit, Signal, Goto, heapVars, mainVars, acceptVars,
         dataVars, GoesOn, TypeOK, DeletedHaveEnded
<1>14. CASE UploadEnds(p)
  BY <1>14, <1>0, SMT
     DEF UploadEnds, heapVars, mainVars, acceptVars, updateVars, dataVars, GoesOn,
         TypeOK, DeletedHaveEnded
<1> QED
  BY <1>1, <1>2, <1>3, <1>4, <1>5, <1>6, <1>7, <1>8, <1>9, <1>10, <1>11, <1>12, <1>13,
     <1>14
     DEF ClientStep

Deletes(d) == /\ clientDeletes' = [clientDeletes EXCEPT ![d] = @ + 1]
              /\ dataDeletes' = IF d \in private THEN [dataDeletes EXCEPT ![d] = @ + 1]
                                                 ELSE dataDeletes

\* The update thread deletes the client whose thread it has joined: it lives, so
\* nobody else is at its address.
LEMMA JoinedIsDeleted ==
    ASSUME Threads, NEW p \in Clients, JoinClient(p) \/ CancelledInClose(p)
    PROVE  Deletes(p) /\ Lives(p) /\ p \in tmp
<1>0. TypeOK /\ Registration /\ OneAtAnAddress /\ Joining
  BY DEF Threads
<1>1. p \in tmp /\ update = "joining" /\ download[p] = "ended" /\ DeleteClient(p)
  BY DEF JoinClient, CancelledInClose, FirstOf
<1>2. Lives(p)
  BY <1>0, <1>1, SMT DEF Joining, Lives, TypeOK
<1>3. PICK d \in Clients : Occupies(d, p) /\ Deletes(d)
  BY <1>1 DEF DeleteClient, Deletes
<1>4. d = p
  BY <1>0, <1>2, <1>3, SMT DEF Occupies, OneAtAnAddress
<1> QED
  BY <1>1, <1>2, <1>3, <1>4

\* ~Server deletes the client whose thread it has joined, unless that one was
\* deleted before: then it may find a lost one.
LEMMA ReapedIsDeleted ==
    ASSUME Threads, NEW p \in Clients, Reap(p)
    PROVE  \E d \in Clients : Deletes(d) /\ (d = p \/ (clientDeletes[p] > 0 /\ d \in lost))
<1>0. TypeOK /\ Registration /\ OneAtAnAddress
  BY DEF Threads
<1>1. p \in left /\ main = "reap" /\ download[p] = "ended" /\ DeleteClient(p)
  BY DEF Reap, FirstOf
<1>2. PICK d \in Clients : Occupies(d, p) /\ Deletes(d)
  BY <1>1 DEF DeleteClient, Deletes
<1>3. ASSUME d # p PROVE clientDeletes[p] > 0 /\ d \in lost
  <2>1. Lives(d) /\ address[d] = address[p]
    BY <1>2, <1>3 DEF Occupies
  <2>2. p \in client_threads /\ (d \in client_threads \/ d \in lost)
    BY <1>0, <1>1, <2>1, SMT DEF Registration
  <2>3. ~Lives(p)
    BY <1>0, <1>3, <2>1, SMT DEF OneAtAnAddress
  <2>4. d \notin client_threads
    BY <1>0, <1>3, <2>1, <2>2, SMT DEF OneAtAnAddress
  <2>5. clientDeletes[p] \in Nat
    BY <1>0 DEF TypeOK
  <2> QED
    BY <1>1, <2>2, <2>3, <2>4, <2>5, SMT DEF Lives
<1> QED
  BY <1>2, <1>3

\* Either way what is deleted has ended or was lost.
LEMMA DeletedIsIdle ==
    ASSUME Threads, NEW p \in Clients, Reap(p) \/ JoinClient(p) \/ CancelledInClose(p)
    PROVE  /\ \E d \in Clients : Deletes(d) /\ (~Reads(d) \/ d \in lost)
           /\ UNCHANGED <<cache, threadVars, lost>>
<1>1. Reads(p) => download[p] # "ended"
  BY SMT DEF Reads, Threads, DeletedHaveEnded
<1>2. CASE Reap(p)
  BY <1>1, <1>2, ReapedIsDeleted, SMT DEF Reap, acceptVars, threadVars, dataVars
<1>3. CASE JoinClient(p)
  BY <1>1, <1>3, JoinedIsDeleted, SMT DEF JoinClient, mainVars, acceptVars, threadVars, dataVars
<1>4. CASE CancelledInClose(p)
  BY <1>1, <1>4, JoinedIsDeleted, SMT
     DEF CancelledInClose, mainVars, acceptVars, threadVars, dataVars
<1> QED
  BY <1>2, <1>3, <1>4

\* Clients that live stay registered, or lost.
LEMMA ThreadsRegistration == ThreadsInv /\ [Next]_vars => Registration'
<1> SUFFICES ASSUME ThreadsInv, [Next]_vars PROVE Registration'
  OBVIOUS
<1>0. TypeOK /\ Registration /\ Joining /\ OneAtAnAddress /\ DeletedHaveEnded
  BY DEF ThreadsInv, Threads
<1>1. ASSUME NEW p \in Clients, ClientStep(p) PROVE Registration'
  <2>1. GoesOn(p)
    BY <1>1, ThreadGoesOn
  <2> QED
    BY <1>0, <2>1, SMT
       DEF GoesOn, mainVars, acceptVars, heapVars, Registration, Joining,
           OneAtAnAddress, Lives, TypeOK
<1>2. ASSUME NEW p \in Clients, Accept(p) PROVE Registration'
  <2>1. /\ main' = "register" /\ fresh' = p
        /\ UNCHANGED <<client_threads, lost, left, update, clientDeletes>>
        /\ download[p] = "none" /\ download' = [download EXCEPT ![p] = "header"]
    BY <1>2 DEF Accept, updateVars, heapVars
  <2>2. p \notin client_threads \cup lost /\ clientDeletes[p] = 0
    BY <1>0, <2>1, SMT DEF Registration, DeletedHaveEnded, TypeOK
  <2>3. Lives(p)'
    BY <1>0, <2>1, <2>2, SMT DEF Lives, TypeOK
  <2>4. \A c \in Clients \ {p} : Lives(c)' <=> Lives(c)
    BY <1>0, <2>1, SMT DEF Lives, TypeOK
  <2>5. main = "accept"
    BY <1>2 DEF Accept
  <2>6. \A c \in Clients \ {p} : Lives(c) => c \in client_threads \/ c \in lost
    BY <1>0, <2>5, NoneAssumption, SMT DEF Registration, TypeOK
  <2>7. \A c \in client_threads \cup lost : download'[c] # "none"
    BY <1>0, <2>1, <2>2, SMT DEF Registration, TypeOK
  <2> QED
    BY <2>1, <2>2, <2>3, <2>4, <2>6, <2>7, SMT DEF Registration
<1>3. ASSUME NEW p \in Clients, Reap(p) PROVE Registration'
  <2>1. PICK d \in Clients : Deletes(d) /\ (d = p \/ (clientDeletes[p] > 0 /\ d \in lost))
    BY <1>3, ReapedIsDeleted DEF ThreadsInv
  <2> QED
    BY <1>3, <1>0, <2>1, SMT
       DEF Reap, Deletes, FirstOf, acceptVars, threadVars, dataVars, updateVars,
           Registration, Joining, OneAtAnAddress, Lives, TypeOK
<1>4. ASSUME NEW p \in Clients, JoinClient(p) PROVE Registration'
  <2>1. Deletes(p) /\ Lives(p) /\ p \in tmp
    BY <1>4, JoinedIsDeleted DEF ThreadsInv
  <2> QED
    BY <1>4, <1>0, <2>1, SMT
       DEF JoinClient, Deletes, FirstOf, mainVars, acceptVars, threadVars, dataVars,
           Registration, Joining, OneAtAnAddress, Lives, TypeOK
<1>5. ASSUME NEW p \in Clients, CancelledInClose(p) PROVE Registration'
  <2>1. Deletes(p) /\ Lives(p) /\ p \in tmp
    BY <1>5, JoinedIsDeleted DEF ThreadsInv
  <2> QED
    BY <1>5, <1>0, <2>1, SMT
       DEF CancelledInClose, Deletes, FirstOf, mainVars, acceptVars, threadVars,
           dataVars, Registration, Joining, OneAtAnAddress, Lives, TypeOK
<1>6. ASSUME Register PROVE Registration'
  BY <1>6, <1>0, NoneAssumption, SMT
     DEF Register, heapVars, threadVars, dataVars, updateVars, Registration, Joining,
         OneAtAnAddress, Lives, TypeOK
<1>7. ASSUME Stop PROVE Registration'
  BY <1>7, <1>0, NoneAssumption, SMT
     DEF Stop, acceptVars, heapVars, threadVars, dataVars, updateVars, Registration,
         Joining, OneAtAnAddress, Lives, TypeOK
<1>8. ASSUME WakeUpdate PROVE Registration'
  BY <1>8, <1>0, NoneAssumption, SMT
     DEF WakeUpdate, Signal, acceptVars, heapVars, threadVars, dataVars, Registration,
         Joining, OneAtAnAddress, Lives, TypeOK
<1>9. ASSUME JoinUpdate PROVE Registration'
  BY <1>9, <1>0, NoneAssumption, SMT
     DEF JoinUpdate, acceptVars, heapVars, threadVars, dataVars, updateVars,
         Registration, Joining, OneAtAnAddress, Lives, TypeOK
<1>10. ASSUME SpuriousWakeup PROVE Registration'
  BY <1>10, <1>0, NoneAssumption, SMT
     DEF SpuriousWakeup, heapVars, mainVars, acceptVars, threadVars, dataVars,
         Registration, Joining, OneAtAnAddress, Lives, TypeOK
<1>11. ASSUME CancelledInWait PROVE Registration'
  BY <1>11, <1>0, NoneAssumption, SMT
     DEF CancelledInWait, heapVars, mainVars, acceptVars, threadVars, dataVars,
         Registration, Joining, OneAtAnAddress, Lives, TypeOK
<1>12. ASSUME Snapshot PROVE Registration'
  BY <1>12, <1>0, NoneAssumption, SMT
     DEF Snapshot, heapVars, mainVars, acceptVars, threadVars, dataVars, Registration,
         Joining, OneAtAnAddress, Lives, TypeOK
<1>13. ASSUME CancelledInJoin PROVE Registration'
  BY <1>13, <1>0, NoneAssumption, SMT
     DEF CancelledInJoin, heapVars, mainVars, acceptVars, threadVars, dataVars,
         Registration, Joining, OneAtAnAddress, Lives, TypeOK
<1>14. ASSUME EraseJoined PROVE Registration'
  BY <1>14, <1>0, NoneAssumption, SMT
     DEF EraseJoined, heapVars, mainVars, acceptVars, threadVars, dataVars,
         Registration, Joining, OneAtAnAddress, Lives, TypeOK
<1>15. ASSUME ReapCache PROVE Registration'
  BY <1>15, <1>0, NoneAssumption, SMT
     DEF ReapCache, acceptVars, threadVars, dataVars, updateVars, Registration, Joining,
         OneAtAnAddress, Lives, TypeOK
<1>16. ASSUME updateCache PROVE Registration'
  BY <1>16, <1>0, NoneAssumption, SMT
     DEF updateCache, mainVars, acceptVars, threadVars, dataVars, Registration, Joining,
         OneAtAnAddress, Lives, TypeOK
<1>17. ASSUME UNCHANGED vars PROVE Registration'
  BY <1>17, <1>0, NoneAssumption, SMT
     DEF vars, mainVars, acceptVars, threadVars, dataVars, updateVars, heapVars,
         Registration, Joining, OneAtAnAddress, Lives, TypeOK
<1> QED
  BY <1>1, <1>2, <1>3, <1>4, <1>5, <1>6, <1>7, <1>8, <1>9, <1>10, <1>11, <1>12, <1>13,
     <1>14, <1>15, <1>16, <1>17
     DEF Next, MainStep, UpdateStep, Exited

\* A new client is put where nobody lives, and registered under a new key.
LEMMA ThreadsApart == ThreadsInv /\ [Next]_vars => OneAtAnAddress'
<1> SUFFICES ASSUME ThreadsInv, [Next]_vars PROVE OneAtAnAddress'
  OBVIOUS
<1>0. TypeOK /\ Registration /\ OneAtAnAddress
  BY DEF ThreadsInv, Threads
<1>1. ASSUME NEW p \in Clients, ClientStep(p) PROVE OneAtAnAddress'
  <2>1. GoesOn(p)
    BY <1>1, ThreadGoesOn
  <2> QED
    BY <1>0, <2>1, SMT
       DEF GoesOn, mainVars, acceptVars, heapVars, OneAtAnAddress, Registration, Lives,
           TypeOK
<1>2. ASSUME NEW p \in Clients, Accept(p) PROVE OneAtAnAddress'
  BY <1>2, <1>0, NoneAssumption, SMT
     DEF Accept, dataVars, updateVars, heapVars, OneAtAnAddress, Registration, Lives,
         TypeOK
<1>3. ASSUME NEW p \in Clients, Reap(p) PROVE OneAtAnAddress'
  <2>1. PICK d \in Clients : Deletes(d) /\ (d = p \/ (clientDeletes[p] > 0 /\ d \in lost))
    BY <1>3, ReapedIsDeleted DEF ThreadsInv
  <2> QED
    BY <1>3, <1>0, <2>1, SMT
       DEF Reap, Deletes, FirstOf, acceptVars, threadVars, dataVars, updateVars,
           OneAtAnAddress, Registration, Lives, TypeOK
<1>4. ASSUME NEW p \in Clients, JoinClient(p) PROVE OneAtAnAddress'
  <2>1. Deletes(p) /\ Lives(p) /\ p \in tmp
    BY <1>4, JoinedIsDeleted DEF ThreadsInv
  <2> QED
    BY <1>4, <1>0, <2>1, SMT
       DEF JoinClient, Deletes, FirstOf, mainVars, acceptVars, threadVars, dataVars,
           OneAtAnAddress, Registration, Lives, TypeOK
<1>5. ASSUME NEW p \in Clients, CancelledInClose(p) PROVE OneAtAnAddress'
  <2>1. Deletes(p) /\ Lives(p) /\ p \in tmp
    BY <1>5, JoinedIsDeleted DEF ThreadsInv
  <2> QED
    BY <1>5, <1>0, <2>1, SMT
       DEF CancelledInClose, Deletes, FirstOf, mainVars, acceptVars, threadVars,
           dataVars, OneAtAnAddress, Registration, Lives, TypeOK
<1>6. ASSUME Register PROVE OneAtAnAddress'
  BY <1>6, <1>0, NoneAssumption, SMT
     DEF Register, heapVars, threadVars, dataVars, updateVars, OneAtAnAddress,
         Registration, Lives, TypeOK
<1>7. ASSUME Stop PROVE OneAtAnAddress'
  BY <1>7, <1>0, NoneAssumption, SMT
     DEF Stop, acceptVars, heapVars, threadVars, dataVars, updateVars, OneAtAnAddress,
         Registration, Lives, TypeOK
<1>8. ASSUME WakeUpdate PROVE OneAtAnAddress'
  BY <1>8, <1>0, NoneAssumption, SMT
     DEF WakeUpdate, Signal, acceptVars, heapVars, threadVars, dataVars, OneAtAnAddress,
         Registration, Lives, TypeOK
<1>9. ASSUME JoinUpdate PROVE OneAtAnAddress'
  BY <1>9, <1>0, NoneAssumption, SMT
     DEF JoinUpdate, acceptVars, heapVars, threadVars, dataVars, updateVars,
         OneAtAnAddress, Registration, Lives, TypeOK
<1>10. ASSUME SpuriousWakeup PROVE OneAtAnAddress'
  BY <1>10, <1>0, NoneAssumption, SMT
     DEF SpuriousWakeup, heapVars, mainVars, acceptVars, threadVars, dataVars,
         OneAtAnAddress, Registration, Lives, TypeOK
<1>11. ASSUME CancelledInWait PROVE OneAtAnAddress'
  BY <1>11, <1>0, NoneAssumption, SMT
     DEF CancelledInWait, heapVars, mainVars, acceptVars, threadVars, dataVars,
         OneAtAnAddress, Registration, Lives, TypeOK
<1>12. ASSUME Snapshot PROVE OneAtAnAddress'
  BY <1>12, <1>0, NoneAssumption, SMT
     DEF Snapshot, heapVars, mainVars, acceptVars, threadVars, dataVars, OneAtAnAddress,
         Registration, Lives, TypeOK
<1>13. ASSUME CancelledInJoin PROVE OneAtAnAddress'
  BY <1>13, <1>0, NoneAssumption, SMT
     DEF CancelledInJoin, heapVars, mainVars, acceptVars, threadVars, dataVars,
         OneAtAnAddress, Registration, Lives, TypeOK
<1>14. ASSUME EraseJoined PROVE OneAtAnAddress'
  BY <1>14, <1>0, NoneAssumption, SMT
     DEF EraseJoined, heapVars, mainVars, acceptVars, threadVars, dataVars,
         OneAtAnAddress, Registration, Lives, TypeOK
<1>15. ASSUME ReapCache PROVE OneAtAnAddress'
  BY <1>15, <1>0, NoneAssumption, SMT
     DEF ReapCache, acceptVars, threadVars, dataVars, updateVars, OneAtAnAddress,
         Registration, Lives, TypeOK
<1>16. ASSUME updateCache PROVE OneAtAnAddress'
  BY <1>16, <1>0, NoneAssumption, SMT
     DEF updateCache, mainVars, acceptVars, threadVars, dataVars, OneAtAnAddress,
         Registration, Lives, TypeOK
<1>17. ASSUME UNCHANGED vars PROVE OneAtAnAddress'
  BY <1>17, <1>0, NoneAssumption, SMT
     DEF vars, mainVars, acceptVars, threadVars, dataVars, updateVars, heapVars,
         OneAtAnAddress, Registration, Lives, TypeOK
<1> QED
  BY <1>1, <1>2, <1>3, <1>4, <1>5, <1>6, <1>7, <1>8, <1>9, <1>10, <1>11, <1>12, <1>13,
     <1>14, <1>15, <1>16, <1>17
     DEF Next, MainStep, UpdateStep, Exited

\* The update thread deletes only what is in the map, and erases it in the same round.
LEMMA ThreadsJoining == ThreadsInv /\ [Next]_vars => Joining'
<1> SUFFICES ASSUME ThreadsInv, [Next]_vars PROVE Joining'
  OBVIOUS
<1>0. TypeOK /\ Registration /\ Joining
  BY DEF ThreadsInv, Threads
<1>1. ASSUME NEW p \in Clients, ClientStep(p) PROVE Joining'
  <2>1. GoesOn(p)
    BY <1>1, ThreadGoesOn
  <2> QED
    BY <1>0, <2>1, SMT
       DEF GoesOn, mainVars, acceptVars, heapVars, Joining, Registration, Lives, TypeOK
<1>2. ASSUME NEW p \in Clients, Accept(p) PROVE Joining'
  BY <1>2, <1>0, NoneAssumption, SMT
     DEF Accept, dataVars, updateVars, heapVars, Joining, Registration, Lives, TypeOK
<1>3. ASSUME NEW p \in Clients, Reap(p) PROVE Joining'
  <2>1. PICK d \in Clients : Deletes(d) /\ (d = p \/ (clientDeletes[p] > 0 /\ d \in lost))
    BY <1>3, ReapedIsDeleted DEF ThreadsInv
  <2> QED
    BY <1>3, <1>0, <2>1, SMT
       DEF Reap, Deletes, FirstOf, acceptVars, threadVars, dataVars, updateVars,
           Joining, Registration, Lives, TypeOK
<1>4. ASSUME NEW p \in Clients, JoinClient(p) PROVE Joining'
  <2>1. Deletes(p) /\ Lives(p) /\ p \in tmp
    BY <1>4, JoinedIsDeleted DEF ThreadsInv
  <2> QED
    BY <1>4, <1>0, <2>1, SMT
       DEF JoinClient, Deletes, FirstOf, mainVars, acceptVars, threadVars, dataVars,
           Joining, Registration, Lives, TypeOK
<1>5. ASSUME NEW p \in Clients, CancelledInClose(p) PROVE Joining'
  <2>1. Deletes(p) /\ Lives(p) /\ p \in tmp
    BY <1>5, JoinedIsDeleted DEF ThreadsInv
  <2> QED
    BY <1>5, <1>0, <2>1, SMT
       DEF CancelledInClose, Deletes, FirstOf, mainVars, acceptVars, threadVars,
           dataVars, Joining, Registration, Lives, TypeOK
<1>6. ASSUME Register PROVE Joining'
  BY <1>6, <1>0, NoneAssumption, SMT
     DEF Register, heapVars, threadVars, dataVars, updateVars, Joining, Registration,
         Lives, TypeOK
<1>7. ASSUME Stop PROVE Joining'
  BY <1>7, <1>0, NoneAssumption, SMT
     DEF Stop, acceptVars, heapVars, threadVars, dataVars, updateVars, Joining,
         Registration, Lives, TypeOK
<1>8. ASSUME WakeUpdate PROVE Joining'
  BY <1>8, <1>0, NoneAssumption, SMT
     DEF WakeUpdate, Signal, acceptVars, heapVars, threadVars, dataVars, Joining,
         Registration, Lives, TypeOK
<1>9. ASSUME JoinUpdate PROVE Joining'
  BY <1>9, <1>0, NoneAssumption, SMT
     DEF JoinUpdate, acceptVars, heapVars, threadVars, dataVars, updateVars, Joining,
         Registration, Lives, TypeOK
<1>10. ASSUME SpuriousWakeup PROVE Joining'
  BY <1>10, <1>0, NoneAssumption, SMT
     DEF SpuriousWakeup, heapVars, mainVars, acceptVars, threadVars, dataVars, Joining,
         Registration, Lives, TypeOK
<1>11. ASSUME CancelledInWait PROVE Joining'
  BY <1>11, <1>0, NoneAssumption, SMT
     DEF CancelledInWait, heapVars, mainVars, acceptVars, threadVars, dataVars, Joining,
         Registration, Lives, TypeOK
<1>12. ASSUME Snapshot PROVE Joining'
  BY <1>12, <1>0, NoneAssumption, SMT
     DEF Snapshot, heapVars, mainVars, acceptVars, threadVars, dataVars, Joining,
         Registration, Lives, TypeOK
<1>13. ASSUME CancelledInJoin PROVE Joining'
  BY <1>13, <1>0, NoneAssumption, SMT
     DEF CancelledInJoin, heapVars, mainVars, acceptVars, threadVars, dataVars, Joining,
         Registration, Lives, TypeOK
<1>14. ASSUME EraseJoined PROVE Joining'
  BY <1>14, <1>0, NoneAssumption, SMT
     DEF EraseJoined, heapVars, mainVars, acceptVars, threadVars, dataVars, Joining,
         Registration, Lives, TypeOK
<1>15. ASSUME ReapCache PROVE Joining'
  BY <1>15, <1>0, NoneAssumption, SMT
     DEF ReapCache, acceptVars, threadVars, dataVars, updateVars, Joining, Registration,
         Lives, TypeOK
<1>16. ASSUME updateCache PROVE Joining'
  BY <1>16, <1>0, NoneAssumption, SMT
     DEF updateCache, mainVars, acceptVars, threadVars, dataVars, Joining, Registration,
         Lives, TypeOK
<1>17. ASSUME UNCHANGED vars PROVE Joining'
  BY <1>17, <1>0, NoneAssumption, SMT
     DEF vars, mainVars, acceptVars, threadVars, dataVars, updateVars, heapVars,
         Joining, Registration, Lives, TypeOK
<1> QED
  BY <1>1, <1>2, <1>3, <1>4, <1>5, <1>6, <1>7, <1>8, <1>9, <1>10, <1>11, <1>12, <1>13,
     <1>14, <1>15, <1>16, <1>17
     DEF Next, MainStep, UpdateStep, Exited

\* Nothing is deleted before its thread has ended, if it is not lost.
LEMMA ThreadsDeleted == ThreadsInv /\ [Next]_vars => DeletedHaveEnded'
<1> SUFFICES ASSUME ThreadsInv, [Next]_vars PROVE DeletedHaveEnded'
  OBVIOUS
<1>0. TypeOK /\ Registration /\ DeletedHaveEnded
  BY DEF ThreadsInv, Threads
<1>1. ASSUME NEW p \in Clients, ClientStep(p) PROVE DeletedHaveEnded'
  <2>1. GoesOn(p)
    BY <1>1, ThreadGoesOn
  <2> QED
    BY <1>0, <2>1, SMT
       DEF GoesOn, mainVars, acceptVars, heapVars, DeletedHaveEnded, Registration,
           Lives, TypeOK
<1>2. ASSUME NEW p \in Clients, Accept(p) PROVE DeletedHaveEnded'
  BY <1>2, <1>0, NoneAssumption, SMT
     DEF Accept, dataVars, updateVars, heapVars, DeletedHaveEnded, Registration, Lives,
         TypeOK
<1>3. ASSUME NEW p \in Clients, Reap(p) PROVE DeletedHaveEnded'
  <2>1. PICK d \in Clients : Deletes(d) /\ (d = p \/ (clientDeletes[p] > 0 /\ d \in lost))
    BY <1>3, ReapedIsDeleted DEF ThreadsInv
  <2> QED
    BY <1>3, <1>0, <2>1, SMT
       DEF Reap, Deletes, FirstOf, acceptVars, threadVars, dataVars, updateVars,
           DeletedHaveEnded, Registration, Lives, TypeOK
<1>4. ASSUME NEW p \in Clients, JoinClient(p) PROVE DeletedHaveEnded'
  <2>1. Deletes(p) /\ Lives(p) /\ p \in tmp
    BY <1>4, JoinedIsDeleted DEF ThreadsInv
  <2> QED
    BY <1>4, <1>0, <2>1, SMT
       DEF JoinClient, Deletes, FirstOf, mainVars, acceptVars, threadVars, dataVars,
           DeletedHaveEnded, Registration, Lives, TypeOK
<1>5. ASSUME NEW p \in Clients, CancelledInClose(p) PROVE DeletedHaveEnded'
  <2>1. Deletes(p) /\ Lives(p) /\ p \in tmp
    BY <1>5, JoinedIsDeleted DEF ThreadsInv
  <2> QED
    BY <1>5, <1>0, <2>1, SMT
       DEF CancelledInClose, Deletes, FirstOf, mainVars, acceptVars, threadVars,
           dataVars, DeletedHaveEnded, Registration, Lives, TypeOK
<1>6. ASSUME Register PROVE DeletedHaveEnded'
  BY <1>6, <1>0, NoneAssumption, SMT
     DEF Register, heapVars, threadVars, dataVars, updateVars, DeletedHaveEnded,
         Registration, Lives, TypeOK
<1>7. ASSUME Stop PROVE DeletedHaveEnded'
  BY <1>7, <1>0, NoneAssumption, SMT
     DEF Stop, acceptVars, heapVars, threadVars, dataVars, updateVars, DeletedHaveEnded,
         Registration, Lives, TypeOK
<1>8. ASSUME WakeUpdate PROVE DeletedHaveEnded'
  BY <1>8, <1>0, NoneAssumption, SMT
     DEF WakeUpdate, Signal, acceptVars, heapVars, threadVars, dataVars,
         DeletedHaveEnded, Registration, Lives, TypeOK
<1>9. ASSUME JoinUpdate PROVE DeletedHaveEnded'
  BY <1>9, <1>0, NoneAssumption, SMT
     DEF JoinUpdate, acceptVars, heapVars, threadVars, dataVars, updateVars,
         DeletedHaveEnded, Registration, Lives, TypeOK
<1>10. ASSUME SpuriousWakeup PROVE DeletedHaveEnded'
  BY <1>10, <1>0, NoneAssumption, SMT
     DEF SpuriousWakeup, heapVars, mainVars, acceptVars, threadVars, dataVars,
         DeletedHaveEnded, Registration, Lives, TypeOK
<1>11. ASSUME CancelledInWait PROVE DeletedHaveEnded'
  BY <1>11, <1>0, NoneAssumption, SMT
     DEF CancelledInWait, heapVars, mainVars, acceptVars, threadVars, dataVars,
         DeletedHaveEnded, Registration, Lives, TypeOK
<1>12. ASSUME Snapshot PROVE DeletedHaveEnded'
  BY <1>12, <1>0, NoneAssumption, SMT
     DEF Snapshot, heapVars, mainVars, acceptVars, threadVars, dataVars,
         DeletedHaveEnded, Registration, Lives, TypeOK
<1>13. ASSUME CancelledInJoin PROVE DeletedHaveEnded'
  BY <1>13, <1>0, NoneAssumption, SMT
     DEF CancelledInJoin, heapVars, mainVars, acceptVars, threadVars, dataVars,
         DeletedHaveEnded, Registration, Lives, TypeOK
<1>14. ASSUME EraseJoined PROVE DeletedHaveEnded'
  BY <1>14, <1>0, NoneAssumption, SMT
     DEF EraseJoined, heapVars, mainVars, acceptVars, threadVars, dataVars,
         DeletedHaveEnded, Registration, Lives, TypeOK
<1>15. ASSUME ReapCache PROVE DeletedHaveEnded'
  BY <1>15, <1>0, NoneAssumption, SMT
     DEF ReapCache, acceptVars, threadVars, dataVars, updateVars, DeletedHaveEnded,
         Registration, Lives, TypeOK
<1>16. ASSUME updateCache PROVE DeletedHaveEnded'
  BY <1>16, <1>0, NoneAssumption, SMT
     DEF updateCache, mainVars, acceptVars, threadVars, dataVars, DeletedHaveEnded,
         Registration, Lives, TypeOK
<1>17. ASSUME UNCHANGED vars PROVE DeletedHaveEnded'
  BY <1>17, <1>0, NoneAssumption, SMT
     DEF vars, mainVars, acceptVars, threadVars, dataVars, updateVars, heapVars,
         DeletedHaveEnded, Registration, Lives, TypeOK
<1> QED
  BY <1>1, <1>2, <1>3, <1>4, <1>5, <1>6, <1>7, <1>8, <1>9, <1>10, <1>11, <1>12, <1>13,
     <1>14, <1>15, <1>16, <1>17
     DEF Next, MainStep, UpdateStep, Exited

\* A client is lost where another one was deleted.
LEMMA ThreadsLost == ThreadsInv /\ [Next]_vars => LostByAddress'
<1> SUFFICES ASSUME ThreadsInv, [Next]_vars PROVE LostByAddress'
  OBVIOUS
<1>0. TypeOK /\ Registration /\ DeletedHaveEnded /\ OneAtAnAddress /\ LostByAddress
  BY DEF ThreadsInv, Threads
<1>1. ASSUME NEW p \in Clients, ClientStep(p) PROVE LostByAddress'
  <2>1. GoesOn(p)
    BY <1>1, ThreadGoesOn
  <2> QED
    BY <1>0, <2>1, SMT
       DEF GoesOn, mainVars, acceptVars, heapVars, LostByAddress, Registration,
           DeletedHaveEnded, OneAtAnAddress, Lives, TypeOK
<1>2. ASSUME NEW p \in Clients, Accept(p) PROVE LostByAddress'
  BY <1>2, <1>0, NoneAssumption, SMT
     DEF Accept, dataVars, updateVars, heapVars, LostByAddress, Registration,
         DeletedHaveEnded, OneAtAnAddress, Lives, TypeOK
<1>3. ASSUME NEW p \in Clients, Reap(p) PROVE LostByAddress'
  <2>1. PICK d \in Clients : Deletes(d) /\ (d = p \/ (clientDeletes[p] > 0 /\ d \in lost))
    BY <1>3, ReapedIsDeleted DEF ThreadsInv
  <2> QED
    BY <1>3, <1>0, <2>1, SMT
       DEF Reap, Deletes, FirstOf, acceptVars, threadVars, dataVars, updateVars,
           LostByAddress, Registration, DeletedHaveEnded, OneAtAnAddress, Lives, TypeOK
<1>4. ASSUME NEW p \in Clients, JoinClient(p) PROVE LostByAddress'
  <2>1. Deletes(p) /\ Lives(p) /\ p \in tmp
    BY <1>4, JoinedIsDeleted DEF ThreadsInv
  <2> QED
    BY <1>4, <1>0, <2>1, SMT
       DEF JoinClient, Deletes, FirstOf, mainVars, acceptVars, threadVars, dataVars,
           LostByAddress, Registration, DeletedHaveEnded, OneAtAnAddress, Lives, TypeOK
<1>5. ASSUME NEW p \in Clients, CancelledInClose(p) PROVE LostByAddress'
  <2>1. Deletes(p) /\ Lives(p) /\ p \in tmp
    BY <1>5, JoinedIsDeleted DEF ThreadsInv
  <2> QED
    BY <1>5, <1>0, <2>1, SMT
       DEF CancelledInClose, Deletes, FirstOf, mainVars, acceptVars, threadVars,
           dataVars, LostByAddress, Registration, DeletedHaveEnded, OneAtAnAddress,
           Lives, TypeOK
<1>6. ASSUME Register PROVE LostByAddress'
  BY <1>6, <1>0, NoneAssumption, SMT
     DEF Register, heapVars, threadVars, dataVars, updateVars, LostByAddress,
         Registration, DeletedHaveEnded, OneAtAnAddress, Lives, TypeOK
<1>7. ASSUME Stop PROVE LostByAddress'
  BY <1>7, <1>0, NoneAssumption, SMT
     DEF Stop, acceptVars, heapVars, threadVars, dataVars, updateVars, LostByAddress,
         Registration, DeletedHaveEnded, OneAtAnAddress, Lives, TypeOK
<1>8. ASSUME WakeUpdate PROVE LostByAddress'
  BY <1>8, <1>0, NoneAssumption, SMT
     DEF WakeUpdate, Signal, acceptVars, heapVars, threadVars, dataVars, LostByAddress,
         Registration, DeletedHaveEnded, OneAtAnAddress, Lives, TypeOK
<1>9. ASSUME JoinUpdate PROVE LostByAddress'
  BY <1>9, <1>0, NoneAssumption, SMT
     DEF JoinUpdate, acceptVars, heapVars, threadVars, dataVars, updateVars,
         LostByAddress, Registration, DeletedHaveEnded, OneAtAnAddress, Lives, TypeOK
<1>10. ASSUME SpuriousWakeup PROVE LostByAddress'
  BY <1>10, <1>0, NoneAssumption, SMT
     DEF SpuriousWakeup, heapVars, mainVars, acceptVars, threadVars, dataVars,
         LostByAddress, Registration, DeletedHaveEnded, OneAtAnAddress, Lives, TypeOK
<1>11. ASSUME CancelledInWait PROVE LostByAddress'
  BY <1>11, <1>0, NoneAssumption, SMT
     DEF CancelledInWait, heapVars, mainVars, acceptVars, threadVars, dataVars,
         LostByAddress, Registration, DeletedHaveEnded, OneAtAnAddress, Lives, TypeOK
<1>12. ASSUME Snapshot PROVE LostByAddress'
  BY <1>12, <1>0, NoneAssumption, SMT
     DEF Snapshot, heapVars, mainVars, acceptVars, threadVars, dataVars, LostByAddress,
         Registration, DeletedHaveEnded, OneAtAnAddress, Lives, TypeOK
<1>13. ASSUME CancelledInJoin PROVE LostByAddress'
  BY <1>13, <1>0, NoneAssumption, SMT
     DEF CancelledInJoin, heapVars, mainVars, acceptVars, threadVars, dataVars,
         LostByAddress, Registration, DeletedHaveEnded, OneAtAnAddress, Lives, TypeOK
<1>14. ASSUME EraseJoined PROVE LostByAddress'
  BY <1>14, <1>0, NoneAssumption, SMT
     DEF EraseJoined, heapVars, mainVars, acceptVars, threadVars, dataVars,
         LostByAddress, Registration, DeletedHaveEnded, OneAtAnAddress, Lives, TypeOK
<1>15. ASSUME ReapCache PROVE LostByAddress'
  BY <1>15, <1>0, NoneAssumption, SMT
     DEF ReapCache, acceptVars, threadVars, dataVars, updateVars, LostByAddress,
         Registration, DeletedHaveEnded, OneAtAnAddress, Lives, TypeOK
<1>16. ASSUME updateCache PROVE LostByAddress'
  BY <1>16, <1>0, NoneAssumption, SMT
     DEF updateCache, mainVars, acceptVars, threadVars, dataVars, LostByAddress,
         Registration, DeletedHaveEnded, OneAtAnAddress, Lives, TypeOK
<1>17. ASSUME UNCHANGED vars PROVE LostByAddress'
  BY <1>17, <1>0, NoneAssumption, SMT
     DEF vars, mainVars, acceptVars, threadVars, dataVars, updateVars, heapVars,
         LostByAddress, Registration, DeletedHaveEnded, OneAtAnAddress, Lives, TypeOK
<1> QED
  BY <1>1, <1>2, <1>3, <1>4, <1>5, <1>6, <1>7, <1>8, <1>9, <1>10, <1>11, <1>12, <1>13,
     <1>14, <1>15, <1>16, <1>17
     DEF Next, MainStep, UpdateStep, Exited

\* The steps that touch no Data and no thread.
TouchesNoData == UNCHANGED <<cache, threadVars, heapVars>> /\ lost \subseteq lost'

LEMMA StepsWithoutData ==
    Register \/ Stop \/ WakeUpdate \/ JoinUpdate \/ SpuriousWakeup \/ CancelledInWait
    \/ Snapshot \/ CancelledInJoin \/ EraseJoined \/ UNCHANGED vars => TouchesNoData
<1>1. Register => TouchesNoData
  BY SMT DEF Register, heapVars, threadVars, updateVars, TouchesNoData
<1>2. Stop => TouchesNoData
  BY SMT DEF Stop, acceptVars, heapVars, threadVars, updateVars, TouchesNoData
<1>3. WakeUpdate => TouchesNoData
  BY SMT DEF WakeUpdate, Signal, acceptVars, heapVars, threadVars, TouchesNoData
<1>4. JoinUpdate => TouchesNoData
  BY SMT DEF JoinUpdate, acceptVars, heapVars, threadVars, updateVars, TouchesNoData
<1>5. SpuriousWakeup => TouchesNoData
  BY SMT DEF SpuriousWakeup, heapVars, mainVars, acceptVars, threadVars, TouchesNoData
<1>6. CancelledInWait => TouchesNoData
  BY SMT DEF CancelledInWait, heapVars, mainVars, acceptVars, threadVars, TouchesNoData
<1>7. Snapshot => TouchesNoData
  BY SMT DEF Snapshot, heapVars, mainVars, acceptVars, threadVars, TouchesNoData
<1>8. CancelledInJoin => TouchesNoData
  BY SMT DEF CancelledInJoin, heapVars, mainVars, acceptVars, threadVars, TouchesNoData
<1>9. EraseJoined => TouchesNoData
  BY SMT DEF EraseJoined, heapVars, mainVars, acceptVars, threadVars, TouchesNoData
<1>10. UNCHANGED vars => TouchesNoData
  BY SMT DEF vars, mainVars, acceptVars, threadVars, updateVars, heapVars, TouchesNoData
<1> QED
  BY <1>1, <1>2, <1>3, <1>4, <1>5, <1>6, <1>7, <1>8, <1>9, <1>10

\* A Data goes into the cache or stays its client's own.
LEMMA ThreadsOwned == ThreadsInv /\ [Next]_vars => DataOwned'
<1> SUFFICES ASSUME ThreadsInv, [Next]_vars PROVE DataOwned'
  OBVIOUS
<1>0. TypeOK /\ DataOwned /\ CacheIsLive
  BY DEF ThreadsInv, Threads
<1>1. ASSUME NEW p \in Clients, ReadHeader(p) PROVE DataOwned'
  BY <1>1, <1>0, NoneAssumption, SMT
     DEF ReadHeader, Fails, SignalAndExit, Signal, readHttpHeader, Goto, heapVars,
         mainVars, acceptVars, TypeOK, DataOwned, InCache, PastParse, CacheIsLive
<1>2. ASSUME NEW p \in Clients, Lookup(p) PROVE DataOwned'
  BY <1>2, <1>0, NoneAssumption, SMT
     DEF Lookup, Goto, heapVars, mainVars, acceptVars, updateVars, TypeOK, DataOwned,
         InCache, PastParse, CacheIsLive
<1>3. ASSUME NEW p \in Clients, Found(p) PROVE DataOwned'
  BY <1>3, <1>0, NoneAssumption, SMT
     DEF Found, Goto, heapVars, mainVars, acceptVars, updateVars, TypeOK, DataOwned,
         InCache, PastParse, CacheIsLive
<1>4. ASSUME NEW p \in Clients, StartSending(p) PROVE DataOwned'
  BY <1>4, <1>0, NoneAssumption, SMT
     DEF StartSending, Signal, Goto, heapVars, mainVars, acceptVars, dataVars, TypeOK,
         DataOwned, InCache, PastParse, CacheIsLive
<1>5. ASSUME NEW p \in Clients, ServeEnds(p) PROVE DataOwned'
  BY <1>5, <1>0, NoneAssumption, SMT
     DEF ServeEnds, Goto, heapVars, mainVars, acceptVars, updateVars, dataVars, TypeOK,
         DataOwned, InCache, PastParse, CacheIsLive
<1>6. ASSUME NEW p \in Clients, Connect(p) PROVE DataOwned'
  BY <1>6, <1>0, NoneAssumption, SMT
     DEF Connect, Exchange, Fails, SignalAndExit, Signal, connectResourceServer, Goto,
         heapVars, mainVars, acceptVars, dataVars, TypeOK, DataOwned, InCache,
         PastParse, CacheIsLive
<1>7. ASSUME NEW p \in Clients, SendRequest(p) PROVE DataOwned'
  BY <1>7, <1>0, NoneAssumption, SMT
     DEF SendRequest, Exchange, Fails, SignalAndExit, Signal, sendRequest, Goto,
         heapVars, mainVars, acceptVars, dataVars, TypeOK, DataOwned, InCache,
         PastParse, CacheIsLive
<1>8. ASSUME NEW p \in Clients, ReadResponse(p) PROVE DataOwned'
  BY <1>8, <1>0, NoneAssumption, SMT
     DEF ReadResponse, Exchange, Fails, SignalAndExit, Signal, readHttpHeader, Goto,
         heapVars, mainVars, acceptVars, dataVars, TypeOK, DataOwned, InCache,
         PastParse, CacheIsLive
<1>9. ASSUME NEW p \in Clients, parseResponse(p) PROVE DataOwned'
  BY <1>9, <1>0, NoneAssumption, SMT
     DEF parseResponse, Goto, heapVars, mainVars, acceptVars, updateVars, TypeOK,
         DataOwned, InCache, PastParse, CacheIsLive
<1>10. ASSUME NEW p \in Clients, Insert(p) PROVE DataOwned'
  BY <1>10, <1>0, NoneAssumption, SMT
     DEF Insert, Goto, heapVars, mainVars, acceptVars, updateVars, dataVars, TypeOK,
         DataOwned, InCache, PastParse, CacheIsLive
<1>11. ASSUME NEW p \in Clients, StartUpload(p) PROVE DataOwned'
  BY <1>11, <1>0, NoneAssumption, SMT
     DEF StartUpload, Goto, heapVars, mainVars, acceptVars, updateVars, dataVars,
         TypeOK, DataOwned, InCache, PastParse, CacheIsLive
<1>12. ASSUME NEW p \in Clients, Downloaded(p) PROVE DataOwned'
  BY <1>12, <1>0, NoneAssumption, SMT
     DEF Downloaded, Goto, heapVars, mainVars, acceptVars, updateVars, TypeOK,
         DataOwned, InCache, PastParse, CacheIsLive
<1>13. ASSUME NEW p \in Clients, JoinUpload(p) PROVE DataOwned'
  BY <1>13, <1>0, NoneAssumption, SMT
     DEF JoinUpload, SignalAndExit, Signal, Goto, heapVars, mainVars, acceptVars,
         dataVars, TypeOK, DataOwned, InCache, PastParse, CacheIsLive
<1>14. ASSUME NEW p \in Clients, UploadEnds(p) PROVE DataOwned'
  BY <1>14, <1>0, NoneAssumption, SMT
     DEF UploadEnds, heapVars, mainVars, acceptVars, updateVars, dataVars, TypeOK,
         DataOwned, InCache, PastParse, CacheIsLive
<1>15. ASSUME NEW p \in Clients, Accept(p) PROVE DataOwned'
  BY <1>15, <1>0, NoneAssumption, SMT
     DEF Accept, dataVars, updateVars, heapVars, TypeOK, DataOwned, InCache, PastParse,
         CacheIsLive
<1>16. ASSUME NEW p \in Clients, Reap(p) \/ JoinClient(p) \/ CancelledInClose(p)
      PROVE  DataOwned'
  <2>1. UNCHANGED <<cache, threadVars, lost>>
    BY <1>16, DeletedIsIdle DEF ThreadsInv
  <2>2. PICK d \in Clients : Deletes(d) /\ (~Reads(d) \/ d \in lost)
    BY <1>16, DeletedIsIdle DEF ThreadsInv
  <2> QED
    BY <1>0, <2>1, <2>2, SMT
       DEF Deletes, threadVars, dataVars, TypeOK, DataOwned, InCache, PastParse,
           CacheIsLive
<1>17. ASSUME ReapCache PROVE DataOwned'
  BY <1>17, <1>0, NoneAssumption, SMT
     DEF ReapCache, acceptVars, threadVars, dataVars, updateVars, TypeOK, DataOwned,
         InCache, PastParse, CacheIsLive
<1>18. ASSUME updateCache PROVE DataOwned'
  BY <1>18, <1>0, NoneAssumption, SMT
     DEF updateCache, mainVars, acceptVars, threadVars, dataVars, TypeOK, DataOwned,
         InCache, PastParse, CacheIsLive
<1>19. ASSUME TouchesNoData PROVE DataOwned'
  BY <1>19, <1>0, SMT
     DEF TouchesNoData, threadVars, dataVars, heapVars, TypeOK, DataOwned, InCache,
         PastParse, CacheIsLive
<1> QED
  BY <1>1, <1>2, <1>3, <1>4, <1>5, <1>6, <1>7, <1>8, <1>9, <1>10, <1>11, <1>12, <1>13,
     <1>14, <1>15, <1>16, <1>17, <1>18, <1>19, StepsWithoutData
     DEF Next, ClientStep, MainStep, UpdateStep, Exited

\* A thread keeps its pointer while it reads, and others' Data they cached.
LEMMA ThreadsPointed == ThreadsInv /\ [Next]_vars => DataPointedTo'
<1> SUFFICES ASSUME ThreadsInv, [Next]_vars PROVE DataPointedTo'
  OBVIOUS
<1>0. TypeOK /\ DeletedHaveEnded /\ DataOwned /\ DataPointedTo
  BY DEF ThreadsInv, Threads
<1>1. ASSUME NEW p \in Clients, ReadHeader(p) PROVE DataPointedTo'
  BY <1>1, <1>0, NoneAssumption, SMT
     DEF ReadHeader, Fails, SignalAndExit, Signal, readHttpHeader, Goto, heapVars,
         mainVars, acceptVars, TypeOK, DataPointedTo, Shared, DataOwned,
         DeletedHaveEnded, InCache, PastParse, HasUrl, Reads
<1>2. ASSUME NEW p \in Clients, Lookup(p) PROVE DataPointedTo'
  BY <1>2, <1>0, NoneAssumption, SMT
     DEF Lookup, Goto, heapVars, mainVars, acceptVars, updateVars, TypeOK,
         DataPointedTo, Shared, DataOwned, DeletedHaveEnded, InCache, PastParse, HasUrl,
         Reads
<1>3. ASSUME NEW p \in Clients, Found(p) PROVE DataPointedTo'
  BY <1>3, <1>0, NoneAssumption, SMT
     DEF Found, Goto, heapVars, mainVars, acceptVars, updateVars, TypeOK, DataPointedTo,
         Shared, DataOwned, DeletedHaveEnded, InCache, PastParse, HasUrl, Reads
<1>4. ASSUME NEW p \in Clients, StartSending(p) PROVE DataPointedTo'
  BY <1>4, <1>0, NoneAssumption, SMT
     DEF StartSending, Signal, Goto, heapVars, mainVars, acceptVars, dataVars, TypeOK,
         DataPointedTo, Shared, DataOwned, DeletedHaveEnded, InCache, PastParse, HasUrl,
         Reads
<1>5. ASSUME NEW p \in Clients, ServeEnds(p) PROVE DataPointedTo'
  BY <1>5, <1>0, NoneAssumption, SMT
     DEF ServeEnds, Goto, heapVars, mainVars, acceptVars, updateVars, dataVars, TypeOK,
         DataPointedTo, Shared, DataOwned, DeletedHaveEnded, InCache, PastParse, HasUrl,
         Reads
<1>6. ASSUME NEW p \in Clients, Connect(p) PROVE DataPointedTo'
  BY <1>6, <1>0, NoneAssumption, SMT
     DEF Connect, Exchange, Fails, SignalAndExit, Signal, connectResourceServer, Goto,
         heapVars, mainVars, acceptVars, dataVars, TypeOK, DataPointedTo, Shared,
         DataOwned, DeletedHaveEnded, InCache, PastParse, HasUrl, Reads
<1>7. ASSUME NEW p \in Clients, SendRequest(p) PROVE DataPointedTo'
  BY <1>7, <1>0, NoneAssumption, SMT
     DEF SendRequest, Exchange, Fails, SignalAndExit, Signal, sendRequest, Goto,
         heapVars, mainVars, acceptVars, dataVars, TypeOK, DataPointedTo, Shared,
         DataOwned, DeletedHaveEnded, InCache, PastParse, HasUrl, Reads
<1>8. ASSUME NEW p \in Clients, ReadResponse(p) PROVE DataPointedTo'
  BY <1>8, <1>0, NoneAssumption, SMT
     DEF ReadResponse, Exchange, Fails, SignalAndExit, Signal, readHttpHeader, Goto,
         heapVars, mainVars, acceptVars, dataVars, TypeOK, DataPointedTo, Shared,
         DataOwned, DeletedHaveEnded, InCache, PastParse, HasUrl, Reads
<1>9. ASSUME NEW p \in Clients, parseResponse(p) PROVE DataPointedTo'
  BY <1>9, <1>0, NoneAssumption, SMT
     DEF parseResponse, Goto, heapVars, mainVars, acceptVars, updateVars, TypeOK,
         DataPointedTo, Shared, DataOwned, DeletedHaveEnded, InCache, PastParse, HasUrl,
         Reads
<1>10. ASSUME NEW p \in Clients, Insert(p) PROVE DataPointedTo'
  BY <1>10, <1>0, NoneAssumption, SMT
     DEF Insert, Goto, heapVars, mainVars, acceptVars, updateVars, dataVars, TypeOK,
         DataPointedTo, Shared, DataOwned, DeletedHaveEnded, InCache, PastParse, HasUrl,
         Reads
<1>11. ASSUME NEW p \in Clients, StartUpload(p) PROVE DataPointedTo'
  BY <1>11, <1>0, NoneAssumption, SMT
     DEF StartUpload, Goto, heapVars, mainVars, acceptVars, updateVars, dataVars,
         TypeOK, DataPointedTo, Shared, DataOwned, DeletedHaveEnded, InCache, PastParse,
         HasUrl, Reads
<1>12. ASSUME NEW p \in Clients, Downloaded(p) PROVE DataPointedTo'
  BY <1>12, <1>0, NoneAssumption, SMT
     DEF Downloaded, Goto, heapVars, mainVars, acceptVars, updateVars, TypeOK,
         DataPointedTo, Shared, DataOwned, DeletedHaveEnded, InCache, PastParse, HasUrl,
         Reads
<1>13. ASSUME NEW p \in Clients, JoinUpload(p) PROVE DataPointedTo'
  BY <1>13, <1>0, NoneAssumption, SMT
     DEF JoinUpload, SignalAndExit, Signal, Goto, heapVars, mainVars, acceptVars,
         dataVars, TypeOK, DataPointedTo, Shared, DataOwned, DeletedHaveEnded, InCache,
         PastParse, HasUrl, Reads
<1>14. ASSUME NEW p \in Clients, UploadEnds(p) PROVE DataPointedTo'
  BY <1>14, <1>0, NoneAssumption, SMT
     DEF UploadEnds, heapVars, mainVars, acceptVars, updateVars, dataVars, TypeOK,
         DataPointedTo, Shared, DataOwned, DeletedHaveEnded, InCache, PastParse, HasUrl,
         Reads
<1>15. ASSUME NEW p \in Clients, Accept(p) PROVE DataPointedTo'
  BY <1>15, <1>0, NoneAssumption, SMT
     DEF Accept, dataVars, updateVars, heapVars, TypeOK, DataPointedTo, Shared,
         DataOwned, DeletedHaveEnded, InCache, PastParse, HasUrl, Reads
<1>16. ASSUME NEW p \in Clients, Reap(p) \/ JoinClient(p) \/ CancelledInClose(p)
      PROVE  DataPointedTo'
  <2>1. UNCHANGED <<cache, threadVars, lost>>
    BY <1>16, DeletedIsIdle DEF ThreadsInv
  <2>2. PICK d \in Clients : Deletes(d) /\ (~Reads(d) \/ d \in lost)
    BY <1>16, DeletedIsIdle DEF ThreadsInv
  <2> QED
    BY <1>0, <2>1, <2>2, SMT
       DEF Deletes, threadVars, dataVars, TypeOK, DataPointedTo, Shared, DataOwned,
           DeletedHaveEnded, InCache, PastParse, HasUrl, Reads
<1>17. ASSUME ReapCache PROVE DataPointedTo'
  BY <1>17, <1>0, NoneAssumption, SMT
     DEF ReapCache, acceptVars, threadVars, dataVars, updateVars, TypeOK, DataPointedTo,
         Shared, DataOwned, DeletedHaveEnded, InCache, PastParse, HasUrl, Reads
<1>18. ASSUME updateCache PROVE DataPointedTo'
  BY <1>18, <1>0, NoneAssumption, SMT
     DEF updateCache, mainVars, acceptVars, threadVars, dataVars, TypeOK, DataPointedTo,
         Shared, DataOwned, DeletedHaveEnded, InCache, PastParse, HasUrl, Reads
<1>19. ASSUME TouchesNoData PROVE DataPointedTo'
  BY <1>19, <1>0, SMT
     DEF TouchesNoData, threadVars, dataVars, heapVars, TypeOK, DataPointedTo, Shared,
         DataOwned, DeletedHaveEnded, InCache, PastParse, HasUrl, Reads
<1> QED
  BY <1>1, <1>2, <1>3, <1>4, <1>5, <1>6, <1>7, <1>8, <1>9, <1>10, <1>11, <1>12, <1>13,
     <1>14, <1>15, <1>16, <1>17, <1>18, <1>19, StepsWithoutData
     DEF Next, ClientStep, MainStep, UpdateStep, Exited

\* Only what is erased from the cache, or never was in it, is deleted.
LEMMA ThreadsCache == ThreadsInv /\ [Next]_vars => CacheIsLive'
<1> SUFFICES ASSUME ThreadsInv, [Next]_vars PROVE CacheIsLive'
  OBVIOUS
<1>0. TypeOK /\ DataOwned /\ DataPointedTo /\ CacheIsLive
  BY DEF ThreadsInv, Threads
<1>1. ASSUME NEW p \in Clients, ReadHeader(p) PROVE CacheIsLive'
  BY <1>1, <1>0, NoneAssumption, SMT
     DEF ReadHeader, Fails, SignalAndExit, Signal, readHttpHeader, Goto, heapVars,
         mainVars, acceptVars, TypeOK, DataOwned, DataPointedTo, InCache, PastParse,
         HasUrl, CacheIsLive
<1>2. ASSUME NEW p \in Clients, Lookup(p) PROVE CacheIsLive'
  BY <1>2, <1>0, NoneAssumption, SMT
     DEF Lookup, Goto, heapVars, mainVars, acceptVars, updateVars, TypeOK, DataOwned,
         DataPointedTo, InCache, PastParse, HasUrl, CacheIsLive
<1>3. ASSUME NEW p \in Clients, Found(p) PROVE CacheIsLive'
  BY <1>3, <1>0, NoneAssumption, SMT
     DEF Found, Goto, heapVars, mainVars, acceptVars, updateVars, TypeOK, DataOwned,
         DataPointedTo, InCache, PastParse, HasUrl, CacheIsLive
<1>4. ASSUME NEW p \in Clients, StartSending(p) PROVE CacheIsLive'
  BY <1>4, <1>0, NoneAssumption, SMT
     DEF StartSending, Signal, Goto, heapVars, mainVars, acceptVars, dataVars, TypeOK,
         DataOwned, DataPointedTo, InCache, PastParse, HasUrl, CacheIsLive
<1>5. ASSUME NEW p \in Clients, ServeEnds(p) PROVE CacheIsLive'
  BY <1>5, <1>0, NoneAssumption, SMT
     DEF ServeEnds, Goto, heapVars, mainVars, acceptVars, updateVars, dataVars, TypeOK,
         DataOwned, DataPointedTo, InCache, PastParse, HasUrl, CacheIsLive
<1>6. ASSUME NEW p \in Clients, Connect(p) PROVE CacheIsLive'
  BY <1>6, <1>0, NoneAssumption, SMT
     DEF Connect, Exchange, Fails, SignalAndExit, Signal, connectResourceServer, Goto,
         heapVars, mainVars, acceptVars, dataVars, TypeOK, DataOwned, DataPointedTo,
         InCache, PastParse, HasUrl, CacheIsLive
<1>7. ASSUME NEW p \in Clients, SendRequest(p) PROVE CacheIsLive'
  BY <1>7, <1>0, NoneAssumption, SMT
     DEF SendRequest, Exchange, Fails, SignalAndExit, Signal, sendRequest, Goto,
         heapVars, mainVars, acceptVars, dataVars, TypeOK, DataOwned, DataPointedTo,
         InCache, PastParse, HasUrl, CacheIsLive
<1>8. ASSUME NEW p \in Clients, ReadResponse(p) PROVE CacheIsLive'
  BY <1>8, <1>0, NoneAssumption, SMT
     DEF ReadResponse, Exchange, Fails, SignalAndExit, Signal, readHttpHeader, Goto,
         heapVars, mainVars, acceptVars, dataVars, TypeOK, DataOwned, DataPointedTo,
         InCache, PastParse, HasUrl, CacheIsLive
<1>9. ASSUME NEW p \in Clients, parseResponse(p) PROVE CacheIsLive'
  BY <1>9, <1>0, NoneAssumption, SMT
     DEF parseResponse, Goto, heapVars, mainVars, acceptVars, updateVars, TypeOK,
         DataOwned, DataPointedTo, InCache, PastParse, HasUrl, CacheIsLive
<1>10. ASSUME NEW p \in Clients, Insert(p) PROVE CacheIsLive'
  BY <1>10, <1>0, NoneAssumption, SMT
     DEF Insert, Goto, heapVars, mainVars, acceptVars, updateVars, dataVars, TypeOK,
         DataOwned, DataPointedTo, InCache, PastParse, HasUrl, CacheIsLive
<1>11. ASSUME NEW p \in Clients, StartUpload(p) PROVE CacheIsLive'
  BY <1>11, <1>0, NoneAssumption, SMT
     DEF StartUpload, Goto, heapVars, mainVars, acceptVars, updateVars, dataVars,
         TypeOK, DataOwned, DataPointedTo, InCache, PastParse, HasUrl, CacheIsLive
<1>12. ASSUME NEW p \in Clients, Downloaded(p) PROVE CacheIsLive'
  BY <1>12, <1>0, NoneAssumption, SMT
     DEF Downloaded, Goto, heapVars, mainVars, acceptVars, updateVars, TypeOK,
         DataOwned, DataPointedTo, InCache, PastParse, HasUrl, CacheIsLive
<1>13. ASSUME NEW p \in Clients, JoinUpload(p) PROVE CacheIsLive'
  BY <1>13, <1>0, NoneAssumption, SMT
     DEF JoinUpload, SignalAndExit, Signal, Goto, heapVars, mainVars, acceptVars,
         dataVars, TypeOK, DataOwned, DataPointedTo, InCache, PastParse, HasUrl,
         CacheIsLive
<1>14. ASSUME NEW p \in Clients, UploadEnds(p) PROVE CacheIsLive'
  BY <1>14, <1>0, NoneAssumption, SMT
     DEF UploadEnds, heapVars, mainVars, acceptVars, updateVars, dataVars, TypeOK,
         DataOwned, DataPointedTo, InCache, PastParse, HasUrl, CacheIsLive
<1>15. ASSUME NEW p \in Clients, Accept(p) PROVE CacheIsLive'
  BY <1>15, <1>0, NoneAssumption, SMT
     DEF Accept, dataVars, updateVars, heapVars, TypeOK, DataOwned, DataPointedTo,
         InCache, PastParse, HasUrl, CacheIsLive
<1>16. ASSUME NEW p \in Clients, Reap(p) \/ JoinClient(p) \/ CancelledInClose(p)
      PROVE  CacheIsLive'
  <2>1. UNCHANGED <<cache, threadVars, lost>>
    BY <1>16, DeletedIsIdle DEF ThreadsInv
  <2>2. PICK d \in Clients : Deletes(d) /\ (~Reads(d) \/ d \in lost)
    BY <1>16, DeletedIsIdle DEF ThreadsInv
  <2> QED
    BY <1>0, <2>1, <2>2, SMT
       DEF Deletes, threadVars, dataVars, TypeOK, DataOwned, DataPointedTo, InCache,
           PastParse, HasUrl, CacheIsLive
<1>17. ASSUME ReapCache PROVE CacheIsLive'
  BY <1>17, <1>0, NoneAssumption, SMT
     DEF ReapCache, acceptVars, threadVars, dataVars, updateVars, TypeOK, DataOwned,
         DataPointedTo, InCache, PastParse, HasUrl, CacheIsLive
<1>18. ASSUME updateCache PROVE CacheIsLive'
  BY <1>18, <1>0, NoneAssumption, SMT
     DEF updateCache, mainVars, acceptVars, threadVars, dataVars, TypeOK, DataOwned,
         DataPointedTo, InCache, PastParse, HasUrl, CacheIsLive
<1>19. ASSUME TouchesNoData PROVE CacheIsLive'
  BY <1>19, <1>0, SMT
     DEF TouchesNoData, threadVars, dataVars, heapVars, TypeOK, DataOwned,
         DataPointedTo, InCache, PastParse, HasUrl, CacheIsLive
<1> QED
  BY <1>1, <1>2, <1>3, <1>4, <1>5, <1>6, <1>7, <1>8, <1>9, <1>10, <1>11, <1>12, <1>13,
     <1>14, <1>15, <1>16, <1>17, <1>18, <1>19, StepsWithoutData
     DEF Next, ClientStep, MainStep, UpdateStep, Exited

\* When ~Server comes to the cache only lost clients still run.
LEMMA NobodyReads ==
    ASSUME ThreadsInv, ReapCache, NEW c \in Clients \ lost
    PROVE  ~Reads(c) /\ download[c] # "found"
<1>0. TypeOK /\ Registration /\ DeletedHaveEnded
  BY DEF ThreadsInv, Threads
<1>1. ~Lives(c)
  BY <1>0, NoneAssumption, SMT DEF ReapCache, Registration
<1>2. download[c] \in {"none", "ended"}
  BY <1>0, <1>1, SMT DEF Lives, DeletedHaveEnded, TypeOK
<1> QED
  BY <1>0, <1>2, SMT DEF Reads, DeletedHaveEnded

\* A Data that is read is deleted by the cleaning of the cache at most.
LEMMA ThreadsBroken == ThreadsInv /\ [Next]_vars => OnlyBrokenDataDies'
<1> SUFFICES ASSUME ThreadsInv, [Next]_vars PROVE OnlyBrokenDataDies'
  OBVIOUS
<1>0. /\ TypeOK /\ DeletedHaveEnded /\ DataOwned /\ DataPointedTo /\ CacheIsLive
      /\ OnlyBrokenDataDies
  BY DEF ThreadsInv, Threads
<1>1. ASSUME NEW p \in Clients, ReadHeader(p) PROVE OnlyBrokenDataDies'
  BY <1>1, <1>0, NoneAssumption, SMT
     DEF ReadHeader, Fails, SignalAndExit, Signal, readHttpHeader, Goto, heapVars,
         mainVars, acceptVars, TypeOK, DataOwned, DataPointedTo, Shared,
         DeletedHaveEnded, InCache, PastParse, HasUrl, Reads, CacheIsLive,
         OnlyBrokenDataDies
<1>2. ASSUME NEW p \in Clients, Lookup(p) PROVE OnlyBrokenDataDies'
  BY <1>2, <1>0, NoneAssumption, SMT
     DEF Lookup, Goto, heapVars, mainVars, acceptVars, updateVars, TypeOK, DataOwned,
         DataPointedTo, Shared, DeletedHaveEnded, InCache, PastParse, HasUrl, Reads,
         CacheIsLive, OnlyBrokenDataDies
<1>3. ASSUME NEW p \in Clients, Found(p) PROVE OnlyBrokenDataDies'
  BY <1>3, <1>0, NoneAssumption, SMT
     DEF Found, Goto, heapVars, mainVars, acceptVars, updateVars, TypeOK, DataOwned,
         DataPointedTo, Shared, DeletedHaveEnded, InCache, PastParse, HasUrl, Reads,
         CacheIsLive, OnlyBrokenDataDies
<1>4. ASSUME NEW p \in Clients, StartSending(p) PROVE OnlyBrokenDataDies'
  BY <1>4, <1>0, NoneAssumption, SMT
     DEF StartSending, Signal, Goto, heapVars, mainVars, acceptVars, dataVars, TypeOK,
         DataOwned, DataPointedTo, Shared, DeletedHaveEnded, InCache, PastParse, HasUrl,
         Reads, CacheIsLive, OnlyBrokenDataDies
<1>5. ASSUME NEW p \in Clients, ServeEnds(p) PROVE OnlyBrokenDataDies'
  BY <1>5, <1>0, NoneAssumption, SMT
     DEF ServeEnds, Goto, heapVars, mainVars, acceptVars, updateVars, dataVars, TypeOK,
         DataOwned, DataPointedTo, Shared, DeletedHaveEnded, InCache, PastParse, HasUrl,
         Reads, CacheIsLive, OnlyBrokenDataDies
<1>6. ASSUME NEW p \in Clients, Connect(p) PROVE OnlyBrokenDataDies'
  BY <1>6, <1>0, NoneAssumption, SMT
     DEF Connect, Exchange, Fails, SignalAndExit, Signal, connectResourceServer, Goto,
         heapVars, mainVars, acceptVars, dataVars, TypeOK, DataOwned, DataPointedTo,
         Shared, DeletedHaveEnded, InCache, PastParse, HasUrl, Reads, CacheIsLive,
         OnlyBrokenDataDies
<1>7. ASSUME NEW p \in Clients, SendRequest(p) PROVE OnlyBrokenDataDies'
  BY <1>7, <1>0, NoneAssumption, SMT
     DEF SendRequest, Exchange, Fails, SignalAndExit, Signal, sendRequest, Goto,
         heapVars, mainVars, acceptVars, dataVars, TypeOK, DataOwned, DataPointedTo,
         Shared, DeletedHaveEnded, InCache, PastParse, HasUrl, Reads, CacheIsLive,
         OnlyBrokenDataDies
<1>8. ASSUME NEW p \in Clients, ReadResponse(p) PROVE OnlyBrokenDataDies'
  BY <1>8, <1>0, NoneAssumption, SMT
     DEF ReadResponse, Exchange, Fails, SignalAndExit, Signal, readHttpHeader, Goto,
         heapVars, mainVars, acceptVars, dataVars, TypeOK, DataOwned, DataPointedTo,
         Shared, DeletedHaveEnded, InCache, PastParse, HasUrl, Reads, CacheIsLive,
         OnlyBrokenDataDies
<1>9. ASSUME NEW p \in Clients, parseResponse(p) PROVE OnlyBrokenDataDies'
  BY <1>9, <1>0, NoneAssumption, SMT
     DEF parseResponse, Goto, heapVars, mainVars, acceptVars, updateVars, TypeOK,
         DataOwned, DataPointedTo, Shared, DeletedHaveEnded, InCache, PastParse, HasUrl,
         Reads, CacheIsLive, OnlyBrokenDataDies
<1>10. ASSUME NEW p \in Clients, Insert(p) PROVE OnlyBrokenDataDies'
  BY <1>10, <1>0, NoneAssumption, SMT
     DEF Insert, Goto, heapVars, mainVars, acceptVars, updateVars, dataVars, TypeOK,
         DataOwned, DataPointedTo, Shared, DeletedHaveEnded, InCache, PastParse, HasUrl,
         Reads, CacheIsLive, OnlyBrokenDataDies
<1>11. ASSUME NEW p \in Clients, StartUpload(p) PROVE OnlyBrokenDataDies'
  BY <1>11, <1>0, NoneAssumption, SMT
     DEF StartUpload, Goto, heapVars, mainVars, acceptVars, updateVars, dataVars,
         TypeOK, DataOwned, DataPointedTo, Shared, DeletedHaveEnded, InCache, PastParse,
         HasUrl, Reads, CacheIsLive, OnlyBrokenDataDies
<1>12. ASSUME NEW p \in Clients, Downloaded(p) PROVE OnlyBrokenDataDies'
  BY <1>12, <1>0, NoneAssumption, SMT
     DEF Downloaded, Goto, heapVars, mainVars, acceptVars, updateVars, TypeOK,
         DataOwned, DataPointedTo, Shared, DeletedHaveEnded, InCache, PastParse, HasUrl,
         Reads, CacheIsLive, OnlyBrokenDataDies
<1>13. ASSUME NEW p \in Clients, JoinUpload(p) PROVE OnlyBrokenDataDies'
  BY <1>13, <1>0, NoneAssumption, SMT
     DEF JoinUpload, SignalAndExit, Signal, Goto, heapVars, mainVars, acceptVars,
         dataVars, TypeOK, DataOwned, DataPointedTo, Shared, DeletedHaveEnded, InCache,
         PastParse, HasUrl, Reads, CacheIsLive, OnlyBrokenDataDies
<1>14. ASSUME NEW p \in Clients, UploadEnds(p) PROVE OnlyBrokenDataDies'
  BY <1>14, <1>0, NoneAssumption, SMT
     DEF UploadEnds, heapVars, mainVars, acceptVars, updateVars, dataVars, TypeOK,
         DataOwned, DataPointedTo, Shared, DeletedHaveEnded, InCache, PastParse, HasUrl,
         Reads, CacheIsLive, OnlyBrokenDataDies
<1>15. ASSUME NEW p \in Clients, Accept(p) PROVE OnlyBrokenDataDies'
  BY <1>15, <1>0, NoneAssumption, SMT
     DEF Accept, dataVars, updateVars, heapVars, TypeOK, DataOwned, DataPointedTo,
         Shared, DeletedHaveEnded, InCache, PastParse, HasUrl, Reads, CacheIsLive,
         OnlyBrokenDataDies
<1>16. ASSUME NEW p \in Clients, Reap(p) \/ JoinClient(p) \/ CancelledInClose(p)
      PROVE  OnlyBrokenDataDies'
  <2>1. UNCHANGED <<cache, threadVars, lost>>
    BY <1>16, DeletedIsIdle DEF ThreadsInv
  <2>2. PICK d \in Clients : Deletes(d) /\ (~Reads(d) \/ d \in lost)
    BY <1>16, DeletedIsIdle DEF ThreadsInv
  <2> QED
    BY <1>0, <2>1, <2>2, SMT
       DEF Deletes, threadVars, dataVars, TypeOK, DataOwned, DataPointedTo, Shared,
           DeletedHaveEnded, InCache, PastParse, HasUrl, Reads, CacheIsLive,
           OnlyBrokenDataDies
<1>17. ASSUME ReapCache PROVE OnlyBrokenDataDies'
  BY <1>17, <1>0, NobodyReads, NoneAssumption, SMT
     DEF ReapCache, acceptVars, threadVars, dataVars, updateVars, TypeOK, DataOwned,
         DataPointedTo, Shared, DeletedHaveEnded, InCache, PastParse, HasUrl, Reads,
         CacheIsLive, OnlyBrokenDataDies
<1>18. ASSUME updateCache PROVE OnlyBrokenDataDies'
  BY <1>18, <1>0, NoneAssumption, SMT
     DEF updateCache, mainVars, acceptVars, threadVars, dataVars, TypeOK, DataOwned,
         DataPointedTo, Shared, DeletedHaveEnded, InCache, PastParse, HasUrl, Reads,
         CacheIsLive, OnlyBrokenDataDies
<1>19. ASSUME TouchesNoData PROVE OnlyBrokenDataDies'
  BY <1>19, <1>0, SMT
     DEF TouchesNoData, threadVars, dataVars, heapVars, TypeOK, DataOwned,
         DataPointedTo, Shared, DeletedHaveEnded, InCache, PastParse, HasUrl, Reads,
         CacheIsLive, OnlyBrokenDataDies
<1> QED
  BY <1>1, <1>2, <1>3, <1>4, <1>5, <1>6, <1>7, <1>8, <1>9, <1>10, <1>11, <1>12, <1>13,
     <1>14, <1>15, <1>16, <1>17, <1>18, <1>19, StepsWithoutData
     DEF Next, ClientStep, MainStep, UpdateStep, Exited

-----------------------------------------------------------------------------

\* The two entries of a client that there can be at the same time.
Together == ({"absent"} \X {"absent", "CONNECT", "SEND_REQUEST", "GET_RESPONSE",
                             "GET_RESOURCE"})
            \cup {<<"GET_REQUEST", "absent">>}
            \cup ({"NONE"} \X {"CONNECT", "SEND_REQUEST", "GET_RESPONSE"})
            \cup ({"SEND_REQUEST"} \X {"absent", "CONNECT", "SEND_REQUEST"})
            \cup ({"GET_RESPONSE", "GET_RESOURCE"} \X {"absent", "CONNECT"})
            \cup ({"SEND_RESOURCE"} \X {"absent", "GET_RESOURCE"})

Pairs == \A c \in Clients : <<type[Select!CS(c)], type[Select!RS(c)]>> \in Together

\* A client with an entry was made and not deleted, its sockets are open, and
\* one side only is left if the other has asked for the deletion.
AliveAt(c) ==
    /\ c \notin made => /\ type[Select!CS(c)] = "absent" /\ type[Select!RS(c)] = "absent"
                        /\ ~delete_request[c] /\ deletes[c] = 0
                        /\ select_data[c] = None
    /\ type[Select!CS(c)] # "absent" => Select!CS(c) \in open /\ deletes[c] = 0
    /\ type[Select!RS(c)] # "absent" => Select!RS(c) \in open /\ deletes[c] = 0
    /\ type[Select!CS(c)] = "GET_REQUEST" => Select!RS(c) \in open /\ ~delete_request[c]
    /\ delete_request[c] => type[Select!CS(c)] = "absent" \/ type[Select!RS(c)] = "absent"
    /\ deletes[c] <= 1

Alive == \A c \in Clients : AliveAt(c)

\* Where both sides of a client are about to act, the turns are such that the
\* resource socket's action comes before it could be pulled away.
TurnAt(c) ==
    LET here == type[Select!CS(c)]
        there == type[Select!RS(c)]
    IN  /\ here = "SEND_REQUEST" /\ there = "CONNECT" /\ Select!RS(c) \in todo
              => Select!CS(c) \in todo \/ stop
        /\ here = "SEND_REQUEST" /\ there = "SEND_REQUEST"
              => stop /\ Select!CS(c) \notin todo /\ Select!RS(c) \notin todo
        /\ here \in {"GET_RESPONSE", "GET_RESOURCE"} /\ there = "CONNECT"
              => http_header[c] = "response"
        /\ here = "GET_RESPONSE" /\ there = "CONNECT" /\ Select!CS(c) \in todo
              => Select!RS(c) \in todo
        /\ here = "GET_RESOURCE" /\ there = "CONNECT"
              => Select!RS(c) \in todo /\ Select!CS(c) \notin todo
        /\ here = "NONE" /\ there = "CONNECT" => http_header[c] = "request"

Turns == (\A c \in Clients : TurnAt(c)) /\ (loop = "select" => todo = {})

\* A client has a Data when it moves one, and none before; a Data that is in the
\* cache or with another client is not private.
HeldAt(c) ==
    LET here == type[Select!CS(c)]
        there == type[Select!RS(c)]
        d == select_data[c]
    IN  /\ here \in {"GET_REQUEST", "SEND_REQUEST", "GET_RESPONSE"} => d = None
        /\ here # "GET_RESOURCE" /\ there \in {"CONNECT", "SEND_REQUEST", "GET_RESPONSE"}
              => d = None
        /\ here = "SEND_RESOURCE" => d \in Clients
        /\ here = "GET_RESOURCE" \/ there = "GET_RESOURCE" => d = c
        /\ c \in select_private => d = c
        /\ d \in Clients => select_data[d] = d /\ (d \in select_private => d = c)
        /\ Select!InCache(c) => d = c /\ c \notin select_private
        /\ select_dataDeletes[c] > 0 => d = c

DataHeld == \A c \in Clients : HeldAt(c)

-----------------------------------------------------------------------------
\* Every socket is one of the two of one client.
LEMMA TwoSockets ==
    /\ \A c \in Clients : /\ Select!CS(c) \in Select!Sockets /\ Select!RS(c) \in Select!Sockets
                          /\ Select!CS(c)[1] = c /\ Select!RS(c)[1] = c
                          /\ Select!CS(c)[2] = "c" /\ Select!RS(c)[2] = "r"
    /\ \A c, d \in Clients : /\ Select!CS(c) # Select!RS(d)
                             /\ Select!CS(c) = Select!CS(d) => c = d
                             /\ Select!RS(c) = Select!RS(d) => c = d
    /\ \A s \in Select!Sockets : /\ s[1] \in Clients
                                 /\ s = Select!CS(s[1]) \/ s = Select!RS(s[1])
BY SMT DEF Select!Sockets, Select!CS, Select!RS

\* An action of a socket of p sets the two entries of p.
Moves(p, here, there) ==
    /\ type'[Select!CS(p)] = here /\ type'[Select!RS(p)] = there
    /\ \A c \in Clients \ {p} : /\ type'[Select!CS(c)] = type[Select!CS(c)]
                               /\ type'[Select!RS(c)] = type[Select!RS(c)]

MovesOne(p, s, new) == \/ s = Select!CS(p) /\ Moves(p, new, type[Select!RS(p)])
                       \/ s = Select!RS(p) /\ Moves(p, type[Select!CS(p)], new)

\* The object of p is deleted, or all objects are left alone.
Deleted(p) ==
    /\ deletes' = [deletes EXCEPT ![p] = @ + 1]
    /\ open' = open \ {Select!CS(p), Select!RS(p)}
    /\ select_dataDeletes' = IF p \in select_private
                             THEN [select_dataDeletes EXCEPT ![p] = @ + 1]
                             ELSE select_dataDeletes

KeptHeap == open' = open /\ deletes' = deletes /\ select_dataDeletes' = select_dataDeletes
KeptData == /\ select_data' = select_data /\ select_private' = select_private
            /\ select_cache' = select_cache
KeptFlags == delete_request' = delete_request /\ select_broken' = select_broken

\* A header is replaced at p only.
NewHeader(p, header) == http_header' = [http_header EXCEPT ![p] = header]

\* What an action of a socket s of p does: nothing, ...
Quiet(p, s) == /\ MovesOne(p, s, type[s])
               /\ KeptHeap /\ KeptData /\ KeptFlags
               /\ \/ http_header' = http_header
                  \/ type[Select!CS(p)] = "GET_REQUEST" /\ NewHeader(p, "request")
               /\ type[s] = "SEND_REQUEST" => stop
               /\ type[s] = "CONNECT" => http_header[p] = "request"

\* ... the end of p, ...
Gone(p, s) == /\ Moves(p, "absent", "absent")
              /\ s = Select!CS(p) => type[Select!RS(p)] = "absent"
              /\ Deleted(p) /\ KeptData /\ KeptFlags
              /\ \E header \in {"none", "request", "response"} : NewHeader(p, header)

\* ... the end of the client's entry, without p's, ...
Lost(p, s) == /\ s = Select!CS(p)
              /\ type[s] \in {"GET_REQUEST", "SEND_REQUEST", "GET_RESPONSE"}
              /\ Moves(p, "absent", type[Select!RS(p)])
              /\ KeptHeap /\ KeptData /\ KeptFlags
              /\ \/ http_header' = http_header
                 \/ /\ type[Select!RS(p)] # "SEND_REQUEST"
                    /\ \E header \in {"none", "request", "response"} : NewHeader(p, header)

\* ... the three outcomes of a request: it is cached, or for the resource server,
\* or came only in part, ...
Cached(p, s) == /\ s = Select!CS(p) /\ type[s] = "GET_REQUEST"
                /\ Moves(p, "SEND_RESOURCE", "absent")
                /\ KeptHeap /\ KeptFlags /\ NewHeader(p, "request")
                /\ \E u \in Urls : /\ select_cache[u] # None
                                   /\ select_data' = [select_data EXCEPT ![p] = select_cache[u]]
                /\ select_private' = select_private /\ select_cache' = select_cache

Missed(p, s) == /\ s = Select!CS(p) /\ type[s] = "GET_REQUEST"
                /\ \E here \in {"absent", "SEND_REQUEST", "NONE"} : Moves(p, here, "CONNECT")
                /\ KeptHeap /\ KeptData /\ KeptFlags /\ NewHeader(p, "request")

Partial(p, s) == /\ s = Select!CS(p) /\ type[s] = "GET_REQUEST"
                 /\ Moves(p, "SEND_REQUEST", "absent")
                 /\ KeptHeap /\ KeptData /\ KeptFlags /\ NewHeader(p, "request")

\* ... the steps of the exchange with the resource server, ...
ConnectedTo(p, s) == /\ s = Select!RS(p) /\ type[s] = "CONNECT" /\ http_header[p] = "request"
                     /\ Moves(p, type[Select!CS(p)], "SEND_REQUEST")
                     /\ KeptHeap /\ KeptData /\ KeptFlags /\ http_header' = http_header

Sent(p, s) == /\ type[s] = "SEND_REQUEST"
              /\ MovesOne(p, s, "GET_RESPONSE")
              /\ KeptHeap /\ KeptData /\ KeptFlags /\ NewHeader(p, "response")

Response(p, s) ==
    /\ type[s] = "GET_RESPONSE"
    /\ \/ s = Select!CS(p) /\ Moves(p, "GET_RESOURCE", type[Select!RS(p)])
       \/ /\ s = Select!RS(p)
          /\ Moves(p, IF type[Select!CS(p)] = "absent" THEN "absent" ELSE "SEND_RESOURCE",
                      "GET_RESOURCE")
    /\ select_data' = [select_data EXCEPT ![p] = p]
    /\ \/ /\ \A u \in DOMAIN select_cache : select_cache'[u] \in {select_cache[u], p}
          /\ DOMAIN select_cache' = DOMAIN select_cache
          /\ select_private' = select_private
       \/ select_private' = select_private \cup {p} /\ select_cache' = select_cache
    /\ KeptHeap /\ KeptFlags /\ http_header' = http_header

\* ... or the end of one side, which is p's if the other side has ended.
Ends(p, s) ==
    /\ type[s] \in {"GET_RESOURCE", "SEND_RESOURCE"}
    /\ type[s] = "GET_RESOURCE" /\ s = Select!CS(p) => type[Select!RS(p)] = "absent"
    /\ MovesOne(p, s, "absent")
    /\ KeptData /\ select_broken \subseteq select_broken' /\ http_header' = http_header
    /\ IF delete_request[p] THEN Deleted(p) /\ delete_request' = delete_request
       ELSE /\ delete_request' = [delete_request EXCEPT ![p] = TRUE]
            /\ \E closed \in {Select!CS(p), Select!RS(p)} :
                   /\ open' = open \ {closed}
                   /\ closed = s \/ (s = Select!CS(p) /\ type[Select!RS(p)] = "absent")
            /\ deletes' = deletes /\ select_dataDeletes' = select_dataDeletes

Outcome(p, s) == \/ Quiet(p, s) \/ Gone(p, s) \/ Lost(p, s) \/ Cached(p, s) \/ Missed(p, s)
                 \/ Partial(p, s) \/ ConnectedTo(p, s) \/ Sent(p, s) \/ Response(p, s)
                 \/ Ends(p, s)

SelectGuards == Select!TypeOK /\ Pairs /\ Turns /\ DataHeld /\ Select!ChoicesHold

\* The two deletions in the code, for a client with a Data of its own or none.
LEMMA DeleteObjectDoes ==
    ASSUME SelectGuards, NEW p \in Clients, NEW opened,
           opened \in {open, open \ {Select!CS(p)}, open \ {Select!RS(p)}},
           Select!DeleteObject(p, opened)
    PROVE  Deleted(p)
<1>1. p \in select_private => select_data[p] = p
  BY DEF SelectGuards, DataHeld, HeldAt
<1>2. open' = open \ {Select!CS(p), Select!RS(p)}
  BY Zenon DEF Select!DeleteObject
<1> QED
  BY <1>1, <1>2, Zenon DEF Select!DeleteObject, Deleted

\* What Without and Retyped do to the entries.
LEMMA EntriesChange ==
    ASSUME NEW p \in Clients, NEW s \in {Select!CS(p), Select!RS(p)},
           NEW t \in [Select!Sockets -> Select!Types \cup {"absent"}]
    PROVE  /\ Select!Without(t, s)[s] = "absent"
           /\ \A r \in Select!Sockets \ {s} : Select!Without(t, s)[r] = t[r]
           /\ Select!Without(t, s) \in [Select!Sockets -> Select!Types \cup {"absent"}]
BY TwoSockets, SMT DEF Select!Without

\* (A socket that has no entry gets none.)
LEMMA EntryRetyped ==
    ASSUME NEW p \in Clients, NEW s \in {Select!CS(p), Select!RS(p)},
           NEW t \in [Select!Sockets -> Select!Types \cup {"absent"}],
           NEW new \in Select!Types
    PROVE  /\ t[s] = "absent" => Select!Retyped(t, s, new)[s] = "absent"
           /\ t[s] # "absent" => Select!Retyped(t, s, new)[s] = new
           /\ \A r \in Select!Sockets \ {s} : Select!Retyped(t, s, new)[r] = t[r]
           /\ Select!Retyped(t, s, new) \in [Select!Sockets -> Select!Types \cup {"absent"}]
BY TwoSockets, SMT DEF Select!Retyped

\* deleteClient(client->getSocket()); delete deleteClient(socket).
LEMMA RejectDoes ==
    ASSUME SelectGuards, NEW p \in Clients, NEW s \in {Select!CS(p), Select!RS(p)},
           type[s] # "absent", Select!Reject(s)
    PROVE  \/ s = Select!CS(p) /\ Moves(p, "absent", type[Select!RS(p)]) /\ KeptHeap
           \/ s = Select!RS(p) /\ Moves(p, "absent", "absent") /\ Deleted(p)
<1> DEFINE t == Select!Without(type, Select!CS(p))
<1>1. s[1] = p /\ Select!TypeOK /\ type \in [Select!Sockets -> Select!Types \cup {"absent"}]
  BY TwoSockets DEF SelectGuards, Select!TypeOK
<1>2. /\ type' = Select!Without(t, s)
      /\ IF t[s] # "absent" THEN Select!DeleteObject(p, open) ELSE UNCHANGED Select!heapVars
  BY <1>1 DEF Select!Reject
<1>3. /\ t[Select!CS(p)] = "absent"
      /\ \A r \in Select!Sockets \ {Select!CS(p)} : t[r] = type[r]
      /\ t \in [Select!Sockets -> Select!Types \cup {"absent"}]
  BY <1>1, EntriesChange
<1> HIDE DEF t
<1>4. /\ type'[s] = "absent"
      /\ \A r \in Select!Sockets \ {s} : type'[r] = t[r]
  BY <1>1, <1>2, <1>3, EntriesChange
<1>5. CASE s = Select!CS(p)
  <2>1. Moves(p, "absent", type[Select!RS(p)])
    BY <1>3, <1>4, <1>5, TwoSockets, SMT DEF Moves
  <2>2. KeptHeap
    BY <1>2, <1>3, <1>5 DEF Select!heapVars, KeptHeap
  <2> QED
    BY <1>5, <2>1, <2>2
<1>6. CASE s = Select!RS(p)
  <2>1. Moves(p, "absent", "absent")
    BY <1>3, <1>4, <1>6, TwoSockets, SMT DEF Moves
  <2>2. t[s] # "absent"
    BY <1>3, <1>6, TwoSockets
  <2>3. Deleted(p)
    BY <1>2, <2>2, DeleteObjectDoes
  <2> QED
    BY <1>6, <2>1, <2>3
<1> QED
  BY <1>5, <1>6

\* The end of one side.
LEMMA SideEndsDoes ==
    ASSUME SelectGuards, NEW p \in Clients, NEW s \in {Select!CS(p), Select!RS(p)},
           NEW closed \in {Select!CS(p), Select!RS(p)},
           type[s] \in {"GET_RESOURCE", "SEND_RESOURCE"},
           closed = s \/ (s = Select!CS(p) /\ type[Select!RS(p)] = "absent"),
           type[s] = "GET_RESOURCE" /\ s = Select!CS(p) => type[Select!RS(p)] = "absent",
           Select!SideEnds(s, closed), KeptData, http_header' = http_header,
           select_broken \subseteq select_broken'
    PROVE  Ends(p, s)
<1>1. s[1] = p /\ Select!TypeOK /\ type \in [Select!Sockets -> Select!Types \cup {"absent"}]
  BY TwoSockets DEF SelectGuards, Select!TypeOK
<1>2. /\ type' = Select!Without(type, s)
      /\ IF delete_request[p]
         THEN Select!DeleteObject(p, open \ {closed}) /\ delete_request' = delete_request
         ELSE /\ delete_request' = [delete_request EXCEPT ![p] = TRUE]
              /\ open' = open \ {closed}
              /\ deletes' = deletes /\ select_dataDeletes' = select_dataDeletes
  BY <1>1 DEF Select!SideEnds
<1>3. /\ type'[s] = "absent"
      /\ \A r \in Select!Sockets \ {s} : type'[r] = type[r]
  BY <1>1, <1>2, EntriesChange
<1>4. MovesOne(p, s, "absent")
  BY <1>3, TwoSockets, SMT DEF MovesOne, Moves
<1>5. Select!DeleteObject(p, open \ {closed}) => Deleted(p)
  <2>1. CASE closed = Select!CS(p)
    BY <2>1, DeleteObjectDoes
  <2>2. CASE closed = Select!RS(p)
    BY <2>2, DeleteObjectDoes
  <2> QED
    BY <2>1, <2>2
<1> QED
  BY <1>2, <1>4, <1>5, Zenon DEF Ends

\* CONNECT, for a map t in which the entry of s is there and p's own was left.
LEMMA ConnectedDoes ==
    ASSUME SelectGuards, NEW p \in Clients, NEW s \in {Select!CS(p), Select!RS(p)},
           NEW t \in [Select!Sockets -> Select!Types \cup {"absent"}], NEW header,
           t[s] # "absent", Select!Connected(s, t, header)
    PROVE  \/ /\ s = Select!CS(p) /\ KeptHeap
              /\ type'[s] \in {"absent", t[s], "SEND_REQUEST"}
              /\ type'[s] = "SEND_REQUEST" \/ type'[s] = t[s] => header = "request"
              /\ \A r \in Select!Sockets \ {s} : type'[r] = t[r]
           \/ /\ s = Select!RS(p) /\ Deleted(p)
              /\ type'[Select!CS(p)] = "absent" /\ type'[Select!RS(p)] = "absent"
              /\ \A r \in Select!Sockets \ {Select!CS(p), Select!RS(p)} : type'[r] = t[r]
           \/ /\ s = Select!RS(p) /\ KeptHeap /\ header = "request"
              /\ type'[s] \in {t[s], "SEND_REQUEST"}
              /\ \A r \in Select!Sockets \ {s} : type'[r] = t[r]
<1> DEFINE u == Select!Without(t, Select!CS(p))
<1>1. s[1] = p /\ Select!TypeOK /\ s \in Select!Sockets
  BY TwoSockets DEF SelectGuards
<1>2. PICK error \in Select!connectResourceServer(header) :
         \/ /\ error = -1
            /\ type' = Select!Without(u, s)
            /\ IF u[s] # "absent" THEN Select!DeleteObject(p, open)
                                  ELSE UNCHANGED Select!heapVars
         \/ /\ error # -1
            /\ type' = IF error = 0 THEN Select!Retyped(t, s, "SEND_REQUEST") ELSE t
            /\ UNCHANGED Select!heapVars
  BY <1>1 DEF Select!Connected
<1>3. error # -1 => header = "request"
  BY <1>2 DEF Select!connectResourceServer
<1>4. /\ u[Select!CS(p)] = "absent"
      /\ \A r \in Select!Sockets \ {Select!CS(p)} : u[r] = t[r]
      /\ u \in [Select!Sockets -> Select!Types \cup {"absent"}]
  BY <1>1, EntriesChange
<1> HIDE DEF u
<1>5. CASE error = -1
  <2>1. /\ type' = Select!Without(u, s)
        /\ IF u[s] # "absent" THEN Select!DeleteObject(p, open)
                              ELSE UNCHANGED Select!heapVars
    BY <1>2, <1>5
  <2>2. type'[s] = "absent" /\ \A r \in Select!Sockets \ {s} : type'[r] = u[r]
    BY <1>1, <1>4, <2>1, EntriesChange
  <2>3. CASE s = Select!CS(p)
    BY <1>4, <2>1, <2>2, <2>3, Zenon DEF Select!heapVars, KeptHeap
  <2>4. CASE s = Select!RS(p)
    <3>1. u[s] # "absent"
      BY <1>4, <2>4, TwoSockets
    <3>2. Deleted(p)
      BY <2>1, <3>1, DeleteObjectDoes
    <3> QED
      BY <1>4, <2>2, <2>4, <3>2, TwoSockets, SMT
  <2> QED
    BY <2>3, <2>4
<1>6. CASE error # -1
  <2>1. /\ header = "request" /\ KeptHeap
        /\ type' = IF error = 0 THEN Select!Retyped(t, s, "SEND_REQUEST") ELSE t
    BY <1>2, <1>3, <1>6, Zenon DEF Select!heapVars, KeptHeap
  <2>2. type'[s] \in {t[s], "SEND_REQUEST"} /\ \A r \in Select!Sockets \ {s} : type'[r] = t[r]
    <3>1. CASE error = 0
      <4>1. type' = Select!Retyped(t, s, "SEND_REQUEST")
        BY <2>1, <3>1
      <4> QED
        BY <1>1, <4>1, EntryRetyped DEF Select!Types
    <3>2. CASE error # 0
      BY <2>1, <3>2
    <3> QED
      BY <3>1, <3>2
  <2> QED
    BY <2>1, <2>2
<1> QED
  BY <1>5, <1>6

\* The outcomes of each action: of a request, ...
LEMMA GetRequestDoes ==
    ASSUME SelectGuards, NEW p \in Clients, NEW s \in {Select!CS(p), Select!RS(p)},
           type[s] = "GET_REQUEST", Select!GetRequest(s)
    PROVE  Outcome(p, s)
<1>0. /\ s[1] = p /\ s \in Select!Sockets /\ Select!TypeOK
      /\ type \in [Select!Sockets -> Select!Types \cup {"absent"}]
  BY TwoSockets DEF SelectGuards, Select!TypeOK
<1>1. s = Select!CS(p) /\ type[Select!RS(p)] = "absent"
  <2>1. <<type[Select!CS(p)], type[Select!RS(p)]>> \in Together
    BY DEF SelectGuards, Pairs
  <2> QED
    BY <2>1, SMT DEF Together
<1>2. PICK status \in Select!readHttpHeader :
        /\ NewHeader(p, IF status = -1 THEN "none" ELSE "request")
        /\ \/ /\ status # -2
              /\ type' = Select!Without(type, s)
              /\ Select!DeleteObject(p, open)
              /\ UNCHANGED <<made, delete_request, select_url, select_data, select_private,
                             Select!dataVars>>
           \/ status = 0 /\ (Select!RequestCached(s) \/ Select!RequestMissed(s))
           \/ /\ status = -2
              /\ Select!Connected(s, type, "request")
              /\ UNCHANGED <<made, delete_request, select_url, select_data, select_private,
                             Select!dataVars>>
  BY <1>0 DEF Select!GetRequest, NewHeader
<1>3. CASE /\ type' = Select!Without(type, s)
           /\ Select!DeleteObject(p, open)
           /\ UNCHANGED <<made, delete_request, select_url, select_data, select_private,
                          Select!dataVars>>
  <2>1. Deleted(p)
    BY <1>3, DeleteObjectDoes
  <2>2. type'[s] = "absent" /\ \A r \in Select!Sockets \ {s} : type'[r] = type[r]
    BY <1>0, <1>3, EntriesChange
  <2>3. Moves(p, "absent", "absent")
    BY <1>1, <2>2, TwoSockets, SMT DEF Moves
  <2>4. KeptData /\ KeptFlags
    BY <1>3 DEF KeptData, KeptFlags, Select!dataVars
  <2>5. \E header \in {"none", "request", "response"} : NewHeader(p, header)
    BY <1>2, Zenon
  <2> QED
    BY <1>1, <2>1, <2>3, <2>4, <2>5 DEF Gone, Outcome
<1>4. CASE status = 0 /\ Select!RequestCached(s)
  <2>0. NewHeader(p, "request")
    BY <1>2, <1>4, SMT
  <2>1. PICK u \in Urls :
          /\ select_cache[u] # None
          /\ select_data' = [select_data EXCEPT ![p] = select_cache[u]]
          /\ type' = Select!Retyped(type, s, "SEND_RESOURCE")
          /\ delete_request' = delete_request /\ select_private' = select_private
          /\ UNCHANGED Select!dataVars /\ UNCHANGED Select!heapVars
    BY <1>0, <1>4 DEF Select!RequestCached
  <2>2. type'[s] = "SEND_RESOURCE" /\ \A r \in Select!Sockets \ {s} : type'[r] = type[r]
    BY <1>0, <2>1, EntryRetyped DEF Select!Types
  <2>3. Moves(p, "SEND_RESOURCE", "absent")
    BY <1>1, <2>2, TwoSockets, SMT DEF Moves
  <2>4. KeptHeap /\ KeptFlags /\ select_cache' = select_cache
    BY <2>1 DEF KeptHeap, KeptFlags, Select!dataVars, Select!heapVars
  <2> QED
    BY <1>1, <2>0, <2>1, <2>3, <2>4 DEF Cached, Outcome
<1>5. CASE status = 0 /\ Select!RequestMissed(s)
  <2> DEFINE t == Select!WithResourceSocket(Select!Retyped(type, s, "NONE"), p)
  <2>0. NewHeader(p, "request")
    BY <1>2, <1>5, SMT
  <2>1. /\ Select!Connected(s, t, "request")
        /\ UNCHANGED <<made, delete_request, select_data, select_private, Select!dataVars>>
    BY <1>0, <1>5 DEF Select!RequestMissed
  <2>2. /\ t[s] = "NONE" /\ t[Select!RS(p)] = "CONNECT"
        /\ \A r \in Select!Sockets \ {Select!CS(p), Select!RS(p)} : t[r] = type[r]
        /\ t \in [Select!Sockets -> Select!Types \cup {"absent"}]
    BY <1>0, <1>1, TwoSockets, SMT
       DEF Select!WithResourceSocket, Select!Retyped, Select!Types
  <2> HIDE DEF t
  <2>3. /\ KeptHeap
        /\ type'[s] \in {"absent", t[s], "SEND_REQUEST"}
        /\ \A r \in Select!Sockets \ {s} : type'[r] = t[r]
    BY <1>1, <2>1, <2>2, ConnectedDoes, TwoSockets
  <2>4. \E here \in {"absent", "SEND_REQUEST", "NONE"} : Moves(p, here, "CONNECT")
    <3>1. type'[s] \in {"absent", "SEND_REQUEST", "NONE"}
      BY <2>2, <2>3
    <3>2. Moves(p, type'[s], "CONNECT")
      BY <1>1, <2>2, <2>3, TwoSockets, SMT DEF Moves
    <3> QED
      BY <3>1, <3>2
  <2>5. KeptData /\ KeptFlags
    BY <2>1 DEF KeptData, KeptFlags, Select!dataVars
  <2> QED
    BY <1>1, <2>0, <2>3, <2>4, <2>5 DEF Missed, Outcome
<1>6. CASE /\ status = -2
           /\ Select!Connected(s, type, "request")
           /\ UNCHANGED <<made, delete_request, select_url, select_data, select_private,
                          Select!dataVars>>
  <2>0. NewHeader(p, "request")
    BY <1>2, <1>6, SMT
  <2>1. /\ KeptHeap
        /\ type'[s] \in {"absent", "GET_REQUEST", "SEND_REQUEST"}
        /\ \A r \in Select!Sockets \ {s} : type'[r] = type[r]
    BY <1>0, <1>1, <1>6, ConnectedDoes, TwoSockets
  <2>2. KeptData /\ KeptFlags
    BY <1>6 DEF KeptData, KeptFlags, Select!dataVars
  <2>3. CASE type'[s] = "absent"
    <3>1. Moves(p, "absent", type[Select!RS(p)])
      BY <1>1, <2>1, <2>3, TwoSockets, SMT DEF Moves
    <3> QED
      BY <1>1, <2>0, <2>1, <2>2, <3>1, Zenon DEF Lost, Outcome
  <2>4. CASE type'[s] = "GET_REQUEST"
    <3>1. MovesOne(p, s, type[s])
      BY <1>1, <2>1, <2>4, TwoSockets, SMT DEF Moves, MovesOne
    <3> QED
      BY <1>1, <2>0, <2>1, <2>2, <3>1 DEF Quiet, Outcome
  <2>5. CASE type'[s] = "SEND_REQUEST"
    <3>1. Moves(p, "SEND_REQUEST", "absent")
      BY <1>1, <2>1, <2>5, TwoSockets, SMT DEF Moves
    <3> QED
      BY <1>1, <2>0, <2>1, <2>2, <3>1 DEF Partial, Outcome
  <2> QED
    BY <2>1, <2>3, <2>4, <2>5
<1> QED
  BY <1>2, <1>3, <1>4, <1>5, <1>6

\* ... of the connection, ...
LEMMA ConnectDoes ==
    ASSUME SelectGuards, NEW p \in Clients, NEW s \in {Select!CS(p), Select!RS(p)},
           type[s] = "CONNECT", Select!Connect(s)
    PROVE  Outcome(p, s)
<1>0. /\ s[1] = p /\ s \in Select!Sockets /\ Select!TypeOK
      /\ type \in [Select!Sockets -> Select!Types \cup {"absent"}]
  BY TwoSockets DEF SelectGuards, Select!TypeOK
<1>1. s = Select!RS(p)
  <2>1. <<type[Select!CS(p)], type[Select!RS(p)]>> \in Together
    BY DEF SelectGuards, Pairs
  <2> QED
    BY <2>1, SMT DEF Together
<1>2. /\ Select!Connected(s, type, http_header[p])
      /\ KeptData /\ KeptFlags /\ http_header' = http_header
  BY <1>0
     DEF Select!Connect, KeptData, KeptFlags, Select!clientVars, Select!dataVars,
         Select!heapVars
<1>3. CASE /\ Deleted(p)
           /\ type'[Select!CS(p)] = "absent" /\ type'[Select!RS(p)] = "absent"
           /\ \A r \in Select!Sockets \ {Select!CS(p), Select!RS(p)} : type'[r] = type[r]
  <2>1. Moves(p, "absent", "absent")
    BY <1>3, TwoSockets, SMT DEF Moves
  <2>2. /\ http_header[p] \in {"none", "request", "response"}
        /\ NewHeader(p, http_header[p])
    BY <1>0, <1>2, SMT DEF NewHeader, Select!TypeOK
  <2> QED
    BY <1>1, <1>2, <1>3, <2>1, <2>2, TwoSockets DEF Gone, Outcome
<1>4. CASE /\ KeptHeap /\ http_header[p] = "request"
           /\ type'[s] \in {type[s], "SEND_REQUEST"}
           /\ \A r \in Select!Sockets \ {s} : type'[r] = type[r]
  <2>1. CASE type'[s] = type[s]
    <3>1. MovesOne(p, s, type[s])
      BY <1>1, <1>4, <2>1, TwoSockets, SMT DEF Moves, MovesOne
    <3> QED
      BY <1>2, <1>4, <3>1 DEF Quiet, Outcome
  <2>2. CASE type'[s] = "SEND_REQUEST"
    <3>1. Moves(p, type[Select!CS(p)], "SEND_REQUEST")
      BY <1>1, <1>4, <2>2, TwoSockets, SMT DEF Moves
    <3> QED
      BY <1>1, <1>2, <1>4, <3>1 DEF ConnectedTo, Outcome
  <2> QED
    BY <1>4, <2>1, <2>2
<1> QED
  BY <1>0, <1>1, <1>2, <1>3, <1>4, ConnectedDoes, TwoSockets

\* ... of sending the request, ...
LEMMA SendRequestDoes ==
    ASSUME SelectGuards, NEW p \in Clients, NEW s \in {Select!CS(p), Select!RS(p)},
           type[s] = "SEND_REQUEST", Select!SendRequest(s)
    PROVE  Outcome(p, s)
<1>0. /\ s[1] = p /\ s \in Select!Sockets /\ Select!TypeOK
      /\ type \in [Select!Sockets -> Select!Types \cup {"absent"}]
  BY TwoSockets DEF SelectGuards, Select!TypeOK
<1>1. KeptData /\ KeptFlags
  BY DEF Select!SendRequest, KeptData, KeptFlags, Select!clientVars, Select!dataVars,
         Select!heapVars
<1>2. PICK error \in Select!sendRequest :
          \/ error = -1 /\ Select!Reject(s) /\ UNCHANGED http_header
          \/ /\ error = 0
             /\ type' = Select!Retyped(type, s, "GET_RESPONSE")
             /\ NewHeader(p, "response")
             /\ UNCHANGED Select!heapVars
          \/ error = 1 /\ UNCHANGED <<type, http_header, Select!heapVars>>
  BY <1>0 DEF Select!SendRequest, NewHeader
<1>3. CASE Select!Reject(s) /\ UNCHANGED http_header
  <2>1. CASE s = Select!CS(p) /\ Moves(p, "absent", type[Select!RS(p)]) /\ KeptHeap
    BY <1>1, <1>3, <2>1 DEF Lost, Outcome
  <2>2. CASE s = Select!RS(p) /\ Moves(p, "absent", "absent") /\ Deleted(p)
    <3>1. /\ http_header[p] \in {"none", "request", "response"}
          /\ NewHeader(p, http_header[p])
      BY <1>0, <1>3, SMT DEF NewHeader, Select!TypeOK
    <3> QED
      BY <1>1, <2>2, <3>1, TwoSockets DEF Gone, Outcome
  <2> QED
    BY <1>3, <2>1, <2>2, RejectDoes
<1>4. CASE /\ type' = Select!Retyped(type, s, "GET_RESPONSE")
           /\ NewHeader(p, "response")
           /\ UNCHANGED Select!heapVars
  <2>1. type'[s] = "GET_RESPONSE" /\ \A r \in Select!Sockets \ {s} : type'[r] = type[r]
    BY <1>0, <1>4, EntryRetyped DEF Select!Types
  <2>2. MovesOne(p, s, "GET_RESPONSE")
    BY <2>1, TwoSockets, SMT DEF Moves, MovesOne
  <2> QED
    BY <1>1, <1>4, <2>2 DEF Sent, Outcome, KeptHeap, Select!heapVars
<1>5. CASE error = 1 /\ UNCHANGED <<type, http_header, Select!heapVars>>
  <2>1. stop
    BY <1>2, <1>5, SMT DEF Select!sendRequest
  <2>2. MovesOne(p, s, type[s])
    BY <1>5, TwoSockets, SMT DEF Moves, MovesOne
  <2> QED
    BY <1>1, <1>5, <2>1, <2>2 DEF Quiet, Outcome, KeptHeap, Select!heapVars
<1> QED
  BY <1>2, <1>3, <1>4, <1>5

\* ... of a response, ...
LEMMA GetResponseDoes ==
    ASSUME SelectGuards, NEW p \in Clients, NEW s \in {Select!CS(p), Select!RS(p)},
           type[s] = "GET_RESPONSE", Select!GetResponse(s)
    PROVE  Outcome(p, s)
<1>0. /\ s[1] = p /\ s \in Select!Sockets /\ Select!TypeOK
      /\ type \in [Select!Sockets -> Select!Types \cup {"absent"}]
  BY TwoSockets DEF SelectGuards, Select!TypeOK
<1>1. PICK error \in Select!readHttpHeader :
          \/ /\ error = -2
             /\ UNCHANGED <<type, Select!clientVars, Select!dataVars, Select!heapVars>>
          \/ /\ error = -1
             /\ Select!Reject(s)
             /\ NewHeader(p, "none")
             /\ UNCHANGED <<made, delete_request, select_url, select_data, select_private,
                            Select!dataVars>>
          \/ /\ error = 0
             /\ select_data' = [select_data EXCEPT ![p] = p]
             /\ \/ select_cache' = Select!Inserted(p) /\ UNCHANGED select_private
                \/ select_private' = select_private \cup {p} /\ UNCHANGED select_cache
             /\ type' = Select!Retyped(Select!Retyped(type, Select!CS(p), "SEND_RESOURCE"), s,
                                       "GET_RESOURCE")
             /\ UNCHANGED <<made, http_header, delete_request, select_url, select_broken, coherent,
                            Select!heapVars>>
  BY <1>0 DEF Select!GetResponse, NewHeader, Select!NewData
<1>2. CASE UNCHANGED <<type, Select!clientVars, Select!dataVars, Select!heapVars>>
  <2>1. MovesOne(p, s, type[s])
    BY <1>2, TwoSockets, SMT DEF Moves, MovesOne
  <2> QED
    BY <1>2, <2>1
       DEF Quiet, Outcome, KeptHeap, KeptData, KeptFlags, Select!clientVars,
           Select!dataVars, Select!heapVars
<1>3. CASE /\ Select!Reject(s)
           /\ NewHeader(p, "none")
           /\ UNCHANGED <<made, delete_request, select_url, select_data, select_private,
                          Select!dataVars>>
  <2>0. KeptData /\ KeptFlags
    BY <1>3 DEF KeptData, KeptFlags, Select!dataVars
  <2>1. CASE s = Select!CS(p) /\ Moves(p, "absent", type[Select!RS(p)]) /\ KeptHeap
    <3>1. type[Select!RS(p)] # "SEND_REQUEST"
      <4>1. <<type[Select!CS(p)], type[Select!RS(p)]>> \in Together
        BY DEF SelectGuards, Pairs
      <4> QED
        BY <2>1, <4>1, SMT DEF Together
    <3> QED
      BY <1>3, <2>0, <2>1, <3>1, Zenon DEF Lost, Outcome
  <2>2. CASE s = Select!RS(p) /\ Moves(p, "absent", "absent") /\ Deleted(p)
    BY <1>3, <2>0, <2>2, TwoSockets DEF Gone, Outcome
  <2> QED
    BY <1>3, <2>1, <2>2, RejectDoes
<1>4. CASE /\ select_data' = [select_data EXCEPT ![p] = p]
           /\ \/ select_cache' = Select!Inserted(p) /\ UNCHANGED select_private
              \/ select_private' = select_private \cup {p} /\ UNCHANGED select_cache
           /\ type' = Select!Retyped(Select!Retyped(type, Select!CS(p), "SEND_RESOURCE"), s,
                                     "GET_RESOURCE")
           /\ UNCHANGED <<made, http_header, delete_request, select_url, select_broken, coherent,
                          Select!heapVars>>
  <2>1. \/ /\ \A u \in DOMAIN select_cache : select_cache'[u] \in {select_cache[u], p}
           /\ DOMAIN select_cache' = DOMAIN select_cache
           /\ select_private' = select_private
        \/ select_private' = select_private \cup {p} /\ select_cache' = select_cache
    BY <1>0, <1>4, SMT DEF Select!Inserted, Select!TypeOK
  <2>2. \/ s = Select!CS(p) /\ Moves(p, "GET_RESOURCE", type[Select!RS(p)])
        \/ /\ s = Select!RS(p)
           /\ Moves(p, IF type[Select!CS(p)] = "absent" THEN "absent" ELSE "SEND_RESOURCE",
                       "GET_RESOURCE")
    <3> DEFINE t == Select!Retyped(type, Select!CS(p), "SEND_RESOURCE")
    <3>1. /\ t[Select!CS(p)] = IF type[Select!CS(p)] = "absent" THEN "absent" ELSE "SEND_RESOURCE"
          /\ \A r \in Select!Sockets \ {Select!CS(p)} : t[r] = type[r]
          /\ t \in [Select!Sockets -> Select!Types \cup {"absent"}]
      BY <1>0, EntryRetyped DEF Select!Types
    <3>2. /\ type'[s] = IF t[s] = "absent" THEN "absent" ELSE "GET_RESOURCE"
          /\ \A r \in Select!Sockets \ {s} : type'[r] = t[r]
      <4>1. type' = Select!Retyped(t, s, "GET_RESOURCE")
        BY <1>4
      <4> HIDE DEF t
      <4> QED
        BY <1>0, <3>1, <4>1, EntryRetyped DEF Select!Types
    <3> HIDE DEF t
    <3>3. CASE s = Select!CS(p)
      BY <3>1, <3>2, <3>3, TwoSockets, SMT DEF Moves
    <3>4. CASE s = Select!RS(p)
      BY <3>1, <3>2, <3>4, TwoSockets, SMT DEF Moves
    <3> QED
      BY <3>3, <3>4
  <2>3. KeptHeap /\ KeptFlags /\ http_header' = http_header
    BY <1>4 DEF KeptHeap, KeptFlags, Select!heapVars
  <2> QED
    BY <1>4, <2>1, <2>2, <2>3, Zenon DEF Response, Outcome
<1> QED
  BY <1>1, <1>2, <1>3, <1>4

\* ... of a piece of the resource, and of sending one.
LEMMA MovingDoes ==
    ASSUME SelectGuards, NEW p \in Clients, NEW s \in {Select!CS(p), Select!RS(p)},
           \/ type[s] = "GET_RESOURCE" /\ Select!GetResource(s) /\ s \in todo
           \/ type[s] = "SEND_RESOURCE" /\ Select!SendResource(s)
    PROVE  Outcome(p, s)
<1>0. /\ s[1] = p /\ s \in Select!Sockets /\ Select!TypeOK
      /\ type \in [Select!Sockets -> Select!Types \cup {"absent"}]
  BY TwoSockets DEF SelectGuards, Select!TypeOK
<1>1. CASE UNCHANGED <<type, Select!clientVars, Select!dataVars, Select!heapVars>>
  <2>1. MovesOne(p, s, type[s])
    BY <1>1, TwoSockets, SMT DEF Moves, MovesOne
  <2> QED
    BY <1>1, <2>1
       DEF Quiet, Outcome, KeptHeap, KeptData, KeptFlags, Select!clientVars,
           Select!dataVars, Select!heapVars
<1>2. <<type[Select!CS(p)], type[Select!RS(p)]>> \in Together
  BY DEF SelectGuards, Pairs
<1>3. CASE /\ type[s] = "GET_RESOURCE" /\ s \in todo
           /\ Select!ResourceEnds(select_data[p]) /\ Select!SideEnds(s, Select!RS(p))
           /\ UNCHANGED <<made, http_header, select_url, select_data, select_private, select_cache>>
  <2>1. Select!RS(p) = s \/ (s = Select!CS(p) /\ type[Select!RS(p)] = "absent")
    <3>1. CASE s = Select!CS(p)
      <4>1. type[Select!RS(p)] \in {"absent", "CONNECT"}
        BY <1>2, <1>3, <3>1, SMT DEF Together
      <4>2. type[Select!RS(p)] # "CONNECT"
        <5>1. type[Select!CS(p)] = "GET_RESOURCE" /\ Select!CS(p) \in todo
          BY <1>3, <3>1
        <5> QED
          BY <5>1 DEF SelectGuards, Turns, TurnAt
      <4> QED
        BY <3>1, <4>1, <4>2
    <3> QED
      BY <3>1
  <2>2. KeptData /\ http_header' = http_header /\ select_broken \subseteq select_broken'
    BY <1>3 DEF KeptData, Select!ResourceEnds
  <2>3. s = Select!CS(p) => type[Select!RS(p)] = "absent"
    BY <2>1, TwoSockets
  <2> QED
    BY <1>3, <2>1, <2>2, <2>3, SideEndsDoes DEF Outcome
<1>4. CASE /\ type[s] = "SEND_RESOURCE" /\ Select!SideEnds(s, Select!CS(p))
           /\ UNCHANGED <<made, http_header, select_url, select_data, select_private,
                          Select!dataVars>>
  <2>1. Select!CS(p) = s
    BY <1>2, <1>4, SMT DEF Together
  <2>2. KeptData /\ http_header' = http_header /\ select_broken \subseteq select_broken'
    BY <1>4 DEF KeptData, Select!dataVars
  <2> QED
    BY <1>4, <2>1, <2>2, SideEndsDoes DEF Outcome
<1> QED
  BY <1>0, <1>1, <1>3, <1>4 DEF Select!GetResource, Select!SendResource

\* Whatever action is run, it has one of the outcomes, and is run once.
LEMMA ActionDoes ==
    ASSUME SelectGuards, NEW s \in Select!Sockets, Select!execClientAction(s)
    PROVE  \E p \in Clients :
              /\ Outcome(p, s)
              /\ s = Select!CS(p) \/ (s = Select!RS(p) /\ Select!CS(p) \notin todo)
              /\ s \in todo /\ todo' = todo \ {s}
              /\ loop = "run" /\ loop' = loop /\ stop' = stop /\ made' = made
<1> DEFINE p == s[1]
<1>1. p \in Clients /\ s \in {Select!CS(p), Select!RS(p)}
  BY TwoSockets
<1>2. /\ s \in todo /\ todo' = todo \ {s}
      /\ loop = "run" /\ loop' = loop /\ stop' = stop
      /\ s = Select!RS(p) => Select!CS(p) \notin todo
  BY <1>1, TwoSockets DEF Select!execClientAction
<1> HIDE DEF p
<1>3. \/ type[s] = "GET_REQUEST" /\ Select!GetRequest(s)
      \/ type[s] = "CONNECT" /\ Select!Connect(s)
      \/ type[s] = "SEND_REQUEST" /\ Select!SendRequest(s)
      \/ type[s] = "GET_RESPONSE" /\ Select!GetResponse(s)
      \/ type[s] = "GET_RESOURCE" /\ Select!GetResource(s)
      \/ type[s] = "SEND_RESOURCE" /\ Select!SendResource(s)
  BY DEF Select!execClientAction
<1>4. Outcome(p, s)
  BY <1>1, <1>2, <1>3, GetRequestDoes, ConnectDoes, SendRequestDoes, GetResponseDoes,
     MovingDoes
<1>5. made' = made
  BY <1>3
     DEF Select!GetRequest, Select!RequestCached, Select!RequestMissed, Select!Connect,
     Select!SendRequest, Select!GetResponse, Select!GetResource, Select!SendResource,
     Select!clientVars, Select!dataVars, Select!heapVars
<1> QED
  BY <1>1, <1>2, <1>4, <1>5

\* An action of a socket of p was run.
Ran(p, s) == /\ Outcome(p, s)
             /\ s = Select!CS(p) \/ (s = Select!RS(p) /\ Select!CS(p) \notin todo)
             /\ s \in todo /\ todo' = todo \ {s}
             /\ loop = "run" /\ loop' = loop /\ stop' = stop /\ made' = made

\* The entries of a client are still a pair that can be.
LEMMA PairsKept ==
    ASSUME SelectGuards, Alive, NEW p \in Clients, NEW s \in {Select!CS(p), Select!RS(p)},
           Ran(p, s)
    PROVE  Pairs'
<1> SUFFICES ASSUME NEW c \in Clients
             PROVE  (<<type[Select!CS(c)], type[Select!RS(c)]>> \in Together)'
  BY DEF Pairs, Together
<1>0. Outcome(p, s)
  BY DEF Ran
<1>a. /\ <<type[Select!CS(c)], type[Select!RS(c)]>> \in Together
      /\ <<type[Select!CS(p)], type[Select!RS(p)]>> \in Together
  BY DEF SelectGuards, Pairs
<1>b. TurnAt(p) /\ s \in todo
  BY DEF SelectGuards, Turns, Ran
<1>1. CASE Quiet(p, s)
  BY <1>1, <1>0, <1>a, <1>b, SMT DEF Quiet, MovesOne, Moves, Together, TurnAt
<1>2. CASE Gone(p, s)
  BY <1>2, <1>0, <1>a, <1>b, SMT DEF Gone, MovesOne, Moves, Together, TurnAt
<1>3. CASE Lost(p, s)
  BY <1>3, <1>0, <1>a, <1>b, SMT DEF Lost, MovesOne, Moves, Together, TurnAt
<1>4. CASE Cached(p, s)
  BY <1>4, <1>0, <1>a, <1>b, SMT DEF Cached, MovesOne, Moves, Together, TurnAt
<1>5. CASE Missed(p, s)
  BY <1>5, <1>0, <1>a, <1>b, SMT DEF Missed, MovesOne, Moves, Together, TurnAt
<1>6. CASE Partial(p, s)
  BY <1>6, <1>0, <1>a, <1>b, SMT DEF Partial, MovesOne, Moves, Together, TurnAt
<1>7. CASE ConnectedTo(p, s)
  BY <1>7, <1>0, <1>a, <1>b, SMT DEF ConnectedTo, MovesOne, Moves, Together, TurnAt
<1>8. CASE Sent(p, s)
  BY <1>8, <1>0, <1>a, <1>b, SMT DEF Sent, MovesOne, Moves, Together, TurnAt
<1>9. CASE Response(p, s)
  BY <1>9, <1>0, <1>a, <1>b, SMT DEF Response, MovesOne, Moves, Together, TurnAt
<1>10. CASE Ends(p, s)
  BY <1>10, <1>0, <1>a, <1>b, SMT DEF Ends, MovesOne, Moves, Together, TurnAt
<1> QED
  BY <1>0, <1>1, <1>2, <1>3, <1>4, <1>5, <1>6, <1>7, <1>8, <1>9, <1>10 DEF Outcome

\* The clients behind the entries are still alive.
LEMMA AliveKept ==
    ASSUME SelectGuards, Alive, NEW p \in Clients, NEW s \in {Select!CS(p), Select!RS(p)},
           Ran(p, s)
    PROVE  Alive'
<1> SUFFICES ASSUME NEW c \in Clients
             PROVE  AliveAt(c)'
  BY DEF Alive
<1>0. /\ Outcome(p, s) /\ Alive /\ Turns /\ DataHeld /\ Select!TypeOK
      /\ s = Select!CS(p) \/ (s = Select!RS(p) /\ Select!CS(p) \notin todo)
      /\ s \in todo /\ todo' = todo \ {s} /\ loop = "run" /\ loop' = loop
      /\ stop' = stop /\ made' = made
      /\ \A r \in todo : type[r] \notin {"absent", "NONE"}
  BY DEF SelectGuards, Ran, Select!ChoicesHold
<1>a. /\ <<type[Select!CS(c)], type[Select!RS(c)]>> \in Together
      /\ <<type[Select!CS(p)], type[Select!RS(p)]>> \in Together
  BY DEF SelectGuards, Pairs
<1>1. CASE Quiet(p, s)
  BY <1>1, <1>0, <1>a, TwoSockets, SMT
     DEF Quiet, Alive, AliveAt, MovesOne, Moves, Together, Select!TypeOK, Deleted,
         KeptHeap, KeptData, KeptFlags, NewHeader
<1>2. CASE Gone(p, s)
  BY <1>2, <1>0, <1>a, TwoSockets, SMT
     DEF Gone, Alive, AliveAt, MovesOne, Moves, Together, Select!TypeOK, Deleted,
         KeptHeap, KeptData, KeptFlags, NewHeader
<1>3. CASE Lost(p, s)
  BY <1>3, <1>0, <1>a, TwoSockets, SMT
     DEF Lost, Alive, AliveAt, MovesOne, Moves, Together, Select!TypeOK, Deleted,
         KeptHeap, KeptData, KeptFlags, NewHeader
<1>4. CASE Cached(p, s)
  BY <1>4, <1>0, <1>a, TwoSockets, SMT
     DEF Cached, Alive, AliveAt, MovesOne, Moves, Together, Select!TypeOK, Deleted,
         KeptHeap, KeptData, KeptFlags, NewHeader
<1>5. CASE Missed(p, s)
  BY <1>5, <1>0, <1>a, TwoSockets, SMT
     DEF Missed, Alive, AliveAt, MovesOne, Moves, Together, Select!TypeOK, Deleted,
         KeptHeap, KeptData, KeptFlags, NewHeader
<1>6. CASE Partial(p, s)
  BY <1>6, <1>0, <1>a, TwoSockets, SMT
     DEF Partial, Alive, AliveAt, MovesOne, Moves, Together, Select!TypeOK, Deleted,
         KeptHeap, KeptData, KeptFlags, NewHeader
<1>7. CASE ConnectedTo(p, s)
  BY <1>7, <1>0, <1>a, TwoSockets, SMT
     DEF ConnectedTo, Alive, AliveAt, MovesOne, Moves, Together, Select!TypeOK, Deleted,
         KeptHeap, KeptData, KeptFlags, NewHeader
<1>8. CASE Sent(p, s)
  BY <1>8, <1>0, <1>a, TwoSockets, SMT
     DEF Sent, Alive, AliveAt, MovesOne, Moves, Together, Select!TypeOK, Deleted,
         KeptHeap, KeptData, KeptFlags, NewHeader
<1>9. CASE Response(p, s)
  BY <1>9, <1>0, <1>a, TwoSockets, SMT
     DEF Response, Alive, AliveAt, MovesOne, Moves, Together, Select!TypeOK, Deleted,
         KeptHeap, KeptData, KeptFlags, NewHeader
<1>10. CASE Ends(p, s)
  BY <1>10, <1>0, <1>a, TwoSockets, SMT
     DEF Ends, Alive, AliveAt, MovesOne, Moves, Together, Select!TypeOK, Deleted,
         KeptHeap, KeptData, KeptFlags, NewHeader
<1> QED
  BY <1>0, <1>1, <1>2, <1>3, <1>4, <1>5, <1>6, <1>7, <1>8, <1>9, <1>10 DEF Outcome

\* The turns are still such that no entry is pulled away.
LEMMA TurnsKept ==
    ASSUME SelectGuards, Alive, NEW p \in Clients, NEW s \in {Select!CS(p), Select!RS(p)},
           Ran(p, s)
    PROVE  Turns'
<1> SUFFICES ASSUME NEW c \in Clients
             PROVE  TurnAt(c)'
  BY DEF Turns, Ran
<1>0. /\ Outcome(p, s) /\ Alive /\ Turns /\ DataHeld /\ Select!TypeOK
      /\ s = Select!CS(p) \/ (s = Select!RS(p) /\ Select!CS(p) \notin todo)
      /\ s \in todo /\ todo' = todo \ {s} /\ loop = "run" /\ loop' = loop
      /\ stop' = stop /\ made' = made
      /\ \A r \in todo : type[r] \notin {"absent", "NONE"}
  BY DEF SelectGuards, Ran, Select!ChoicesHold
<1>a. /\ <<type[Select!CS(c)], type[Select!RS(c)]>> \in Together
      /\ <<type[Select!CS(p)], type[Select!RS(p)]>> \in Together
  BY DEF SelectGuards, Pairs
<1>1. CASE Quiet(p, s)
  BY <1>1, <1>0, <1>a, TwoSockets, SMT
     DEF Quiet, Turns, TurnAt, MovesOne, Moves, Together, Select!TypeOK, Deleted,
         KeptHeap, KeptData, KeptFlags, NewHeader
<1>2. CASE Gone(p, s)
  BY <1>2, <1>0, <1>a, TwoSockets, SMT
     DEF Gone, Turns, TurnAt, MovesOne, Moves, Together, Select!TypeOK, Deleted,
         KeptHeap, KeptData, KeptFlags, NewHeader
<1>3. CASE Lost(p, s)
  BY <1>3, <1>0, <1>a, TwoSockets, SMT
     DEF Lost, Turns, TurnAt, MovesOne, Moves, Together, Select!TypeOK, Deleted,
         KeptHeap, KeptData, KeptFlags, NewHeader
<1>4. CASE Cached(p, s)
  BY <1>4, <1>0, <1>a, TwoSockets, SMT
     DEF Cached, Turns, TurnAt, MovesOne, Moves, Together, Select!TypeOK, Deleted,
         KeptHeap, KeptData, KeptFlags, NewHeader
<1>5. CASE Missed(p, s)
  BY <1>5, <1>0, <1>a, TwoSockets, SMT
     DEF Missed, Turns, TurnAt, MovesOne, Moves, Together, Select!TypeOK, Deleted,
         KeptHeap, KeptData, KeptFlags, NewHeader
<1>6. CASE Partial(p, s)
  BY <1>6, <1>0, <1>a, TwoSockets, SMT
     DEF Partial, Turns, TurnAt, MovesOne, Moves, Together, Select!TypeOK, Deleted,
         KeptHeap, KeptData, KeptFlags, NewHeader
<1>7. CASE ConnectedTo(p, s)
  BY <1>7, <1>0, <1>a, TwoSockets, SMT
     DEF ConnectedTo, Turns, TurnAt, MovesOne, Moves, Together, Select!TypeOK, Deleted,
         KeptHeap, KeptData, KeptFlags, NewHeader
<1>8. CASE Sent(p, s)
  BY <1>8, <1>0, <1>a, TwoSockets, SMT
     DEF Sent, Turns, TurnAt, MovesOne, Moves, Together, Select!TypeOK, Deleted,
         KeptHeap, KeptData, KeptFlags, NewHeader
<1>9. CASE Response(p, s)
  BY <1>9, <1>0, <1>a, TwoSockets, SMT
     DEF Response, Turns, TurnAt, MovesOne, Moves, Together, Select!TypeOK, Deleted,
         KeptHeap, KeptData, KeptFlags, NewHeader
<1>10. CASE Ends(p, s)
  BY <1>10, <1>0, <1>a, TwoSockets, SMT
     DEF Ends, Turns, TurnAt, MovesOne, Moves, Together, Select!TypeOK, Deleted,
         KeptHeap, KeptData, KeptFlags, NewHeader
<1> QED
  BY <1>0, <1>1, <1>2, <1>3, <1>4, <1>5, <1>6, <1>7, <1>8, <1>9, <1>10 DEF Outcome

\* A Data is with those who move it, and a private one with its client only.
LEMMA DataKept ==
    ASSUME SelectGuards, Alive, Select!CacheIsLive, Select!OnlyBrokenDataDies,
           NEW p \in Clients, NEW s \in {Select!CS(p), Select!RS(p)},
           Ran(p, s)
    PROVE  DataHeld'
<1> SUFFICES ASSUME NEW c \in Clients
             PROVE  HeldAt(c)'
  BY DEF DataHeld
<1>0. /\ Outcome(p, s) /\ Alive /\ Turns /\ DataHeld /\ Select!TypeOK
      /\ s = Select!CS(p) \/ (s = Select!RS(p) /\ Select!CS(p) \notin todo)
      /\ s \in todo /\ todo' = todo \ {s} /\ loop = "run" /\ loop' = loop
      /\ stop' = stop /\ made' = made
      /\ \A r \in todo : type[r] \notin {"absent", "NONE"}
  BY DEF SelectGuards, Ran, Select!ChoicesHold
<1>a. /\ <<type[Select!CS(c)], type[Select!RS(c)]>> \in Together
      /\ <<type[Select!CS(p)], type[Select!RS(p)]>> \in Together
  BY DEF SelectGuards, Pairs
<1>c. (\A d \in Clients : HeldAt(d)) /\ Select!CacheIsLive
  BY DEF SelectGuards, DataHeld
<1>1. CASE Quiet(p, s)
  BY <1>1, <1>0, <1>a, <1>c, TwoSockets, NoneAssumption, SMT
     DEF Quiet, HeldAt, Select!InCache, MovesOne, Moves, Together, Select!TypeOK,
         Deleted, KeptHeap, KeptData, KeptFlags, NewHeader
<1>2. CASE Gone(p, s)
  BY <1>2, <1>0, <1>a, <1>c, TwoSockets, NoneAssumption, SMT
     DEF Gone, HeldAt, Select!InCache, MovesOne, Moves, Together, Select!TypeOK,
         Deleted, KeptHeap, KeptData, KeptFlags, NewHeader
<1>3. CASE Lost(p, s)
  BY <1>3, <1>0, <1>a, <1>c, TwoSockets, NoneAssumption, SMT
     DEF Lost, HeldAt, Select!InCache, MovesOne, Moves, Together, Select!TypeOK,
         Deleted, KeptHeap, KeptData, KeptFlags, NewHeader
<1>4. CASE Cached(p, s)
  BY <1>4, <1>0, <1>a, <1>c, TwoSockets, NoneAssumption, SMT
     DEF Cached, HeldAt, Select!InCache, MovesOne, Moves, Together, Select!TypeOK,
         Deleted, KeptHeap, KeptData, KeptFlags, NewHeader
<1>5. CASE Missed(p, s)
  BY <1>5, <1>0, <1>a, <1>c, TwoSockets, NoneAssumption, SMT
     DEF Missed, HeldAt, Select!InCache, MovesOne, Moves, Together, Select!TypeOK,
         Deleted, KeptHeap, KeptData, KeptFlags, NewHeader
<1>6. CASE Partial(p, s)
  BY <1>6, <1>0, <1>a, <1>c, TwoSockets, NoneAssumption, SMT
     DEF Partial, HeldAt, Select!InCache, MovesOne, Moves, Together, Select!TypeOK,
         Deleted, KeptHeap, KeptData, KeptFlags, NewHeader
<1>7. CASE ConnectedTo(p, s)
  BY <1>7, <1>0, <1>a, <1>c, TwoSockets, NoneAssumption, SMT
     DEF ConnectedTo, HeldAt, Select!InCache, MovesOne, Moves, Together, Select!TypeOK,
         Deleted, KeptHeap, KeptData, KeptFlags, NewHeader
<1>8. CASE Sent(p, s)
  BY <1>8, <1>0, <1>a, <1>c, TwoSockets, NoneAssumption, SMT
     DEF Sent, HeldAt, Select!InCache, MovesOne, Moves, Together, Select!TypeOK,
         Deleted, KeptHeap, KeptData, KeptFlags, NewHeader
<1>9. CASE Response(p, s)
  BY <1>9, <1>0, <1>a, <1>c, TwoSockets, NoneAssumption, SMT
     DEF Response, HeldAt, Select!InCache, MovesOne, Moves, Together, Select!TypeOK,
         Deleted, KeptHeap, KeptData, KeptFlags, NewHeader
<1>10. CASE Ends(p, s)
  <2>1. CASE delete_request[p]
    BY <1>10, <1>0, <1>a, <1>c, <2>1, TwoSockets, NoneAssumption, SMT
       DEF Ends, HeldAt, Select!InCache, MovesOne, Moves, Together, Select!TypeOK,
           Deleted, KeptHeap, KeptData, KeptFlags, NewHeader
  <2>2. CASE ~delete_request[p]
    BY <1>10, <1>0, <1>a, <1>c, <2>2, TwoSockets, NoneAssumption, SMT
       DEF Ends, HeldAt, Select!InCache, MovesOne, Moves, Together, Select!TypeOK,
           Deleted, KeptHeap, KeptData, KeptFlags, NewHeader
  <2> QED
    BY <2>1, <2>2
<1> QED
  BY <1>0, <1>1, <1>2, <1>3, <1>4, <1>5, <1>6, <1>7, <1>8, <1>9, <1>10 DEF Outcome

\* What ChoicesHold says of one client.
ChoiceAt(c) ==
    /\ Select!CS(c) \in todo => type[Select!CS(c)] \notin {"absent", "NONE"}
    /\ Select!RS(c) \in todo => type[Select!RS(c)] \notin {"absent", "NONE"}
    /\ type[Select!CS(c)] = "SEND_REQUEST" \/ type[Select!RS(c)] = "SEND_REQUEST"
          => http_header[c] = "request"

\* The sockets whose action is still to be run are in the map.
LEMMA ChoicesKept ==
    ASSUME SelectGuards, Alive, Select!CacheIsLive, Select!OnlyBrokenDataDies,
           NEW p \in Clients, NEW s \in {Select!CS(p), Select!RS(p)},
           Ran(p, s)
    PROVE  Select!ChoicesHold'
<1> SUFFICES ASSUME NEW c \in Clients
             PROVE  ChoiceAt(c)'
  <2>1. todo' \subseteq Select!Sockets
    BY DEF SelectGuards, Select!TypeOK, Ran
  <2>2. ASSUME \A c \in Clients : ChoiceAt(c)'
        PROVE  Select!ChoicesHold'
    BY <2>1, <2>2, TwoSockets, SMT DEF Select!ChoicesHold, ChoiceAt
  <2> QED
    BY <2>2
<1>0. /\ Outcome(p, s) /\ Alive /\ Turns /\ DataHeld /\ Select!TypeOK
      /\ s = Select!CS(p) \/ (s = Select!RS(p) /\ Select!CS(p) \notin todo)
      /\ s \in todo /\ todo' = todo \ {s} /\ loop = "run" /\ loop' = loop
      /\ stop' = stop /\ made' = made
      /\ \A r \in todo : type[r] \notin {"absent", "NONE"}
  BY DEF SelectGuards, Ran, Select!ChoicesHold
<1>a. /\ <<type[Select!CS(c)], type[Select!RS(c)]>> \in Together
      /\ <<type[Select!CS(p)], type[Select!RS(p)]>> \in Together
  BY DEF SelectGuards, Pairs
<1>b. TurnAt(p) /\ ChoiceAt(c)
  BY TwoSockets, SMT DEF SelectGuards, Turns, Select!ChoicesHold, ChoiceAt
<1>1. CASE Quiet(p, s)
  BY <1>1, <1>0, <1>a, <1>b, TwoSockets, SMT
     DEF Quiet, TurnAt, ChoiceAt, MovesOne, Moves, Together, Select!TypeOK, Deleted,
         KeptHeap, KeptData, KeptFlags, NewHeader
<1>2. CASE Gone(p, s)
  BY <1>2, <1>0, <1>a, <1>b, TwoSockets, SMT
     DEF Gone, TurnAt, ChoiceAt, MovesOne, Moves, Together, Select!TypeOK, Deleted,
         KeptHeap, KeptData, KeptFlags, NewHeader
<1>3. CASE Lost(p, s)
  BY <1>3, <1>0, <1>a, <1>b, TwoSockets, SMT
     DEF Lost, TurnAt, ChoiceAt, MovesOne, Moves, Together, Select!TypeOK, Deleted,
         KeptHeap, KeptData, KeptFlags, NewHeader
<1>4. CASE Cached(p, s)
  BY <1>4, <1>0, <1>a, <1>b, TwoSockets, SMT
     DEF Cached, TurnAt, ChoiceAt, MovesOne, Moves, Together, Select!TypeOK, Deleted,
         KeptHeap, KeptData, KeptFlags, NewHeader
<1>5. CASE Missed(p, s)
  BY <1>5, <1>0, <1>a, <1>b, TwoSockets, SMT
     DEF Missed, TurnAt, ChoiceAt, MovesOne, Moves, Together, Select!TypeOK, Deleted,
         KeptHeap, KeptData, KeptFlags, NewHeader
<1>6. CASE Partial(p, s)
  BY <1>6, <1>0, <1>a, <1>b, TwoSockets, SMT
     DEF Partial, TurnAt, ChoiceAt, MovesOne, Moves, Together, Select!TypeOK, Deleted,
         KeptHeap, KeptData, KeptFlags, NewHeader
<1>7. CASE ConnectedTo(p, s)
  BY <1>7, <1>0, <1>a, <1>b, TwoSockets, SMT
     DEF ConnectedTo, TurnAt, ChoiceAt, MovesOne, Moves, Together, Select!TypeOK,
         Deleted, KeptHeap, KeptData, KeptFlags, NewHeader
<1>8. CASE Sent(p, s)
  BY <1>8, <1>0, <1>a, <1>b, TwoSockets, SMT
     DEF Sent, TurnAt, ChoiceAt, MovesOne, Moves, Together, Select!TypeOK, Deleted,
         KeptHeap, KeptData, KeptFlags, NewHeader
<1>9. CASE Response(p, s)
  BY <1>9, <1>0, <1>a, <1>b, TwoSockets, SMT
     DEF Response, TurnAt, ChoiceAt, MovesOne, Moves, Together, Select!TypeOK, Deleted,
         KeptHeap, KeptData, KeptFlags, NewHeader
<1>10. CASE Ends(p, s)
  BY <1>10, <1>0, <1>a, <1>b, TwoSockets, SMT
     DEF Ends, TurnAt, ChoiceAt, MovesOne, Moves, Together, Select!TypeOK, Deleted,
         KeptHeap, KeptData, KeptFlags, NewHeader
<1> QED
  BY <1>0, <1>1, <1>2, <1>3, <1>4, <1>5, <1>6, <1>7, <1>8, <1>9, <1>10 DEF Outcome

\* What is in the cache was not deleted.
LEMMA CacheKept ==
    ASSUME SelectGuards, Alive, Select!CacheIsLive, Select!OnlyBrokenDataDies,
           NEW p \in Clients, NEW s \in {Select!CS(p), Select!RS(p)},
           Ran(p, s)
    PROVE  Select!CacheIsLive'
<1> DEFINE c == p
<1>0. /\ Outcome(p, s) /\ Alive /\ Turns /\ DataHeld /\ Select!TypeOK
      /\ s = Select!CS(p) \/ (s = Select!RS(p) /\ Select!CS(p) \notin todo)
      /\ s \in todo /\ todo' = todo \ {s} /\ loop = "run" /\ loop' = loop
      /\ stop' = stop /\ made' = made
      /\ \A r \in todo : type[r] \notin {"absent", "NONE"}
  BY DEF SelectGuards, Ran, Select!ChoicesHold
<1>a. /\ <<type[Select!CS(c)], type[Select!RS(c)]>> \in Together
      /\ <<type[Select!CS(p)], type[Select!RS(p)]>> \in Together
  BY DEF SelectGuards, Pairs
<1>c. (\A d \in Clients : HeldAt(d)) /\ Select!CacheIsLive
  BY DEF SelectGuards, DataHeld
<1>1. CASE Quiet(p, s)
  BY <1>1, <1>0, <1>a, <1>c, TwoSockets, NoneAssumption, SMT
     DEF Quiet, HeldAt, Select!InCache, Select!CacheIsLive, MovesOne, Moves, Together,
         Select!TypeOK, Deleted, KeptHeap, KeptData, KeptFlags, NewHeader
<1>2. CASE Gone(p, s)
  BY <1>2, <1>0, <1>a, <1>c, TwoSockets, NoneAssumption, SMT
     DEF Gone, HeldAt, Select!InCache, Select!CacheIsLive, MovesOne, Moves, Together,
         Select!TypeOK, Deleted, KeptHeap, KeptData, KeptFlags, NewHeader
<1>3. CASE Lost(p, s)
  BY <1>3, <1>0, <1>a, <1>c, TwoSockets, NoneAssumption, SMT
     DEF Lost, HeldAt, Select!InCache, Select!CacheIsLive, MovesOne, Moves, Together,
         Select!TypeOK, Deleted, KeptHeap, KeptData, KeptFlags, NewHeader
<1>4. CASE Cached(p, s)
  BY <1>4, <1>0, <1>a, <1>c, TwoSockets, NoneAssumption, SMT
     DEF Cached, HeldAt, Select!InCache, Select!CacheIsLive, MovesOne, Moves, Together,
         Select!TypeOK, Deleted, KeptHeap, KeptData, KeptFlags, NewHeader
<1>5. CASE Missed(p, s)
  BY <1>5, <1>0, <1>a, <1>c, TwoSockets, NoneAssumption, SMT
     DEF Missed, HeldAt, Select!InCache, Select!CacheIsLive, MovesOne, Moves, Together,
         Select!TypeOK, Deleted, KeptHeap, KeptData, KeptFlags, NewHeader
<1>6. CASE Partial(p, s)
  BY <1>6, <1>0, <1>a, <1>c, TwoSockets, NoneAssumption, SMT
     DEF Partial, HeldAt, Select!InCache, Select!CacheIsLive, MovesOne, Moves, Together,
         Select!TypeOK, Deleted, KeptHeap, KeptData, KeptFlags, NewHeader
<1>7. CASE ConnectedTo(p, s)
  BY <1>7, <1>0, <1>a, <1>c, TwoSockets, NoneAssumption, SMT
     DEF ConnectedTo, HeldAt, Select!InCache, Select!CacheIsLive, MovesOne, Moves,
         Together, Select!TypeOK, Deleted, KeptHeap, KeptData, KeptFlags, NewHeader
<1>8. CASE Sent(p, s)
  BY <1>8, <1>0, <1>a, <1>c, TwoSockets, NoneAssumption, SMT
     DEF Sent, HeldAt, Select!InCache, Select!CacheIsLive, MovesOne, Moves, Together,
         Select!TypeOK, Deleted, KeptHeap, KeptData, KeptFlags, NewHeader
<1>9. CASE Response(p, s)
  BY <1>9, <1>0, <1>a, <1>c, TwoSockets, NoneAssumption, SMT
     DEF Response, HeldAt, Select!InCache, Select!CacheIsLive, MovesOne, Moves,
         Together, Select!TypeOK, Deleted, KeptHeap, KeptData, KeptFlags, NewHeader
<1>10. CASE Ends(p, s)
  BY <1>10, <1>0, <1>a, <1>c, TwoSockets, NoneAssumption, SMT
     DEF Ends, HeldAt, Select!InCache, Select!CacheIsLive, MovesOne, Moves, Together,
         Select!TypeOK, Deleted, KeptHeap, KeptData, KeptFlags, NewHeader
<1> QED
  BY <1>0, <1>1, <1>2, <1>3, <1>4, <1>5, <1>6, <1>7, <1>8, <1>9, <1>10 DEF Outcome

\* What OnlyBrokenDataDies says of one client.
UsesAt(c) == \/ type[Select!CS(c)] \in {"SEND_RESOURCE", "GET_RESOURCE"}
             \/ type[Select!RS(c)] \in {"SEND_RESOURCE", "GET_RESOURCE"}
BrokenAt(c) == UsesAt(c) /\ select_dataDeletes[select_data[c]] > 0
                  => select_data[c] \in select_broken

\* Whoever moves a Data finds it there, or broken.
LEMMA BrokenKept ==
    ASSUME SelectGuards, Alive, Select!CacheIsLive, Select!OnlyBrokenDataDies,
           NEW p \in Clients, NEW s \in {Select!CS(p), Select!RS(p)},
           Ran(p, s)
    PROVE  Select!OnlyBrokenDataDies'
<1> SUFFICES ASSUME NEW c \in Clients
             PROVE  BrokenAt(c)'
  BY TwoSockets, SMT DEF Select!OnlyBrokenDataDies, Select!Uses, UsesAt, BrokenAt
<1>0. /\ Outcome(p, s) /\ Alive /\ Turns /\ DataHeld /\ Select!TypeOK
      /\ s = Select!CS(p) \/ (s = Select!RS(p) /\ Select!CS(p) \notin todo)
      /\ s \in todo /\ todo' = todo \ {s} /\ loop = "run" /\ loop' = loop
      /\ stop' = stop /\ made' = made
      /\ \A r \in todo : type[r] \notin {"absent", "NONE"}
  BY DEF SelectGuards, Ran, Select!ChoicesHold
<1>a. /\ <<type[Select!CS(c)], type[Select!RS(c)]>> \in Together
      /\ <<type[Select!CS(p)], type[Select!RS(p)]>> \in Together
  BY DEF SelectGuards, Pairs
<1>c. (\A d \in Clients : HeldAt(d)) /\ Select!CacheIsLive /\ BrokenAt(c)
      /\ AliveAt(p)
  BY TwoSockets, SMT
     DEF SelectGuards, Alive, DataHeld, Select!OnlyBrokenDataDies, Select!Uses, UsesAt,
         BrokenAt
<1>1. CASE Quiet(p, s)
  BY <1>1, <1>0, <1>a, <1>c, TwoSockets, NoneAssumption, SMT
     DEF Quiet, AliveAt, HeldAt, Select!InCache, Select!CacheIsLive, UsesAt, BrokenAt,
         MovesOne, Moves, Together, Select!TypeOK, Deleted, KeptHeap, KeptData,
         KeptFlags, NewHeader
<1>2. CASE Gone(p, s)
  BY <1>2, <1>0, <1>a, <1>c, TwoSockets, NoneAssumption, SMT
     DEF Gone, AliveAt, HeldAt, Select!InCache, Select!CacheIsLive, UsesAt, BrokenAt,
         MovesOne, Moves, Together, Select!TypeOK, Deleted, KeptHeap, KeptData,
         KeptFlags, NewHeader
<1>3. CASE Lost(p, s)
  BY <1>3, <1>0, <1>a, <1>c, TwoSockets, NoneAssumption, SMT
     DEF Lost, AliveAt, HeldAt, Select!InCache, Select!CacheIsLive, UsesAt, BrokenAt,
         MovesOne, Moves, Together, Select!TypeOK, Deleted, KeptHeap, KeptData,
         KeptFlags, NewHeader
<1>4. CASE Cached(p, s)
  BY <1>4, <1>0, <1>a, <1>c, TwoSockets, NoneAssumption, SMT
     DEF Cached, AliveAt, HeldAt, Select!InCache, Select!CacheIsLive, UsesAt, BrokenAt,
         MovesOne, Moves, Together, Select!TypeOK, Deleted, KeptHeap, KeptData,
         KeptFlags, NewHeader
<1>5. CASE Missed(p, s)
  BY <1>5, <1>0, <1>a, <1>c, TwoSockets, NoneAssumption, SMT
     DEF Missed, AliveAt, HeldAt, Select!InCache, Select!CacheIsLive, UsesAt, BrokenAt,
         MovesOne, Moves, Together, Select!TypeOK, Deleted, KeptHeap, KeptData,
         KeptFlags, NewHeader
<1>6. CASE Partial(p, s)
  BY <1>6, <1>0, <1>a, <1>c, TwoSockets, NoneAssumption, SMT
     DEF Partial, AliveAt, HeldAt, Select!InCache, Select!CacheIsLive, UsesAt, BrokenAt,
         MovesOne, Moves, Together, Select!TypeOK, Deleted, KeptHeap, KeptData,
         KeptFlags, NewHeader
<1>7. CASE ConnectedTo(p, s)
  BY <1>7, <1>0, <1>a, <1>c, TwoSockets, NoneAssumption, SMT
     DEF ConnectedTo, AliveAt, HeldAt, Select!InCache, Select!CacheIsLive, UsesAt,
         BrokenAt, MovesOne, Moves, Together, Select!TypeOK, Deleted, KeptHeap,
         KeptData, KeptFlags, NewHeader
<1>8. CASE Sent(p, s)
  BY <1>8, <1>0, <1>a, <1>c, TwoSockets, NoneAssumption, SMTT(30)
     DEF Sent, AliveAt, HeldAt, Select!InCache, Select!CacheIsLive, UsesAt, BrokenAt,
         MovesOne, Moves, Together, Select!TypeOK, Deleted, KeptHeap, KeptData,
         KeptFlags, NewHeader
<1>9. CASE Response(p, s)
  BY <1>9, <1>0, <1>a, <1>c, TwoSockets, NoneAssumption, SMT
     DEF Response, AliveAt, HeldAt, Select!InCache, Select!CacheIsLive, UsesAt,
         BrokenAt, MovesOne, Moves, Together, Select!TypeOK, Deleted, KeptHeap,
         KeptData, KeptFlags, NewHeader
<1>10. CASE Ends(p, s)
  BY <1>10, <1>0, <1>a, <1>c, TwoSockets, NoneAssumption, SMT
     DEF Ends, AliveAt, HeldAt, Select!InCache, Select!CacheIsLive, UsesAt, BrokenAt,
         MovesOne, Moves, Together, Select!TypeOK, Deleted, KeptHeap, KeptData,
         KeptFlags, NewHeader
<1> QED
  BY <1>0, <1>1, <1>2, <1>3, <1>4, <1>5, <1>6, <1>7, <1>8, <1>9, <1>10 DEF Outcome

-----------------------------------------------------------------------------
\* What is known while the server runs.
SelectCore == /\ Pairs /\ Alive /\ Turns /\ DataHeld /\ Select!ChoicesHold
              /\ Select!CacheIsLive /\ Select!OnlyBrokenDataDies

\* The action of a socket keeps it all.
LEMMA ActionKeeps ==
    ASSUME Select!TypeOK, SelectCore, NEW s \in Select!Sockets, Select!execClientAction(s)
    PROVE  SelectCore'
<1>1. PICK p \in Clients : Ran(p, s)
  BY ActionDoes DEF SelectCore, SelectGuards, Ran
<1>2. s \in {Select!CS(p), Select!RS(p)}
  BY <1>1 DEF Ran
<1> QED
  BY <1>1, <1>2, PairsKept, AliveKept, TurnsKept, DataKept, ChoicesKept, CacheKept,
     BrokenKept
     DEF SelectCore, SelectGuards

\* A turn begins with actions for sockets that are in the map, and with a new
\* client or none.
LEMMA SelectKeeps ==
    ASSUME Select!TypeOK, SelectCore, NEW ready \in SUBSET Select!Sockets, Select!Select(ready)
    PROVE  SelectCore'
<1>0. /\ Pairs /\ Alive /\ Turns /\ DataHeld /\ Select!ChoicesHold
      /\ Select!CacheIsLive /\ Select!OnlyBrokenDataDies
  BY DEF SelectCore
<1>1. /\ loop = "select" /\ ~stop /\ Select!Writable \subseteq ready
      /\ \A s \in ready : type[s] \notin {"absent", "NONE"}
      /\ todo' = ready /\ loop' = "run" /\ stop' = stop
      /\ http_header' = http_header /\ delete_request' = delete_request
      /\ select_data' = select_data /\ select_private' = select_private
      /\ select_cache' = select_cache /\ select_broken' = select_broken
      /\ deletes' = deletes /\ select_dataDeletes' = select_dataDeletes
  BY DEF Select!Select, Select!dataVars
<1> DEFINE Stays(c) == /\ type'[Select!CS(c)] = type[Select!CS(c)]
                       /\ type'[Select!RS(c)] = type[Select!RS(c)]
                       /\ c \notin made' => c \notin made
                       /\ Select!CS(c) \in open => Select!CS(c) \in open'
                       /\ Select!RS(c) \in open => Select!RS(c) \in open'
           Comes(c) == /\ c \notin made /\ c \in made'
                       /\ type'[Select!CS(c)] = "GET_REQUEST"
                       /\ type'[Select!RS(c)] = type[Select!RS(c)]
                       /\ Select!CS(c) \in open' /\ Select!RS(c) \in open'
<1>2. ASSUME NEW c \in Clients PROVE Stays(c) \/ Comes(c)
  <2>1. CASE UNCHANGED <<made, open, type>>
    BY <2>1
  <2>2. ASSUME NEW d \in Clients, Select!accept(d)
        PROVE  Stays(c) \/ Comes(c)
    <3>1. /\ d \notin made /\ made' = made \cup {d}
          /\ open' = open \cup {Select!CS(d), Select!RS(d)}
          /\ type' = [type EXCEPT ![Select!CS(d)] = "GET_REQUEST"]
          /\ type \in [Select!Sockets -> Select!Types \cup {"absent"}]
      BY <2>2 DEF Select!accept, Select!Client, Select!TypeOK
    <3>2. CASE c = d
      BY <3>1, <3>2, TwoSockets, SMT
    <3>3. CASE c # d
      BY <3>1, <3>3, TwoSockets, SMT
    <3> QED
      BY <3>2, <3>3
  <2>3. UNCHANGED <<made, open, type>> \/ \E d \in Clients : Select!accept(d)
    BY DEF Select!Select
  <2> QED
    BY <2>1, <2>2, <2>3
<1>3. \A c \in Clients : /\ <<type[Select!CS(c)], type[Select!RS(c)]>> \in Together
                          /\ AliveAt(c) /\ TurnAt(c) /\ HeldAt(c) /\ ChoiceAt(c) /\ BrokenAt(c)
  BY <1>0, TwoSockets, SMT
     DEF Pairs, Alive, Turns, DataHeld, Select!ChoicesHold, Select!OnlyBrokenDataDies,
         Select!Uses,
         UsesAt, BrokenAt, ChoiceAt
<1>4. \A c \in Clients :
         /\ type[Select!CS(c)] = "SEND_REQUEST" => Select!CS(c) \in ready
         /\ type[Select!RS(c)] = "CONNECT" /\ http_header[c] = "response" => Select!RS(c) \in ready
  BY <1>1, Zenon DEF Select!Writable
<1>5. Pairs'
  <2>1. ASSUME NEW c \in Clients PROVE (<<type[Select!CS(c)], type[Select!RS(c)]>> \in Together)'
    <3>1. /\ <<type[Select!CS(c)], type[Select!RS(c)]>> \in Together
          /\ AliveAt(c) /\ TurnAt(c) /\ HeldAt(c) /\ ChoiceAt(c) /\ BrokenAt(c)
          /\ Select!CS(c) \notin todo /\ Select!RS(c) \notin todo
      BY <1>0, <1>1, <1>3 DEF Turns
    <3>2. CASE Stays(c)
      BY <1>1, <1>4, <3>1, <3>2, SMT DEF AliveAt, Together
    <3>3. CASE Comes(c)
      BY <1>1, <1>4, <3>1, <3>3, SMT DEF AliveAt, Together
    <3> QED
      BY <1>2, <3>2, <3>3
  <2> QED
    BY <2>1 DEF Pairs, Together
<1>6. Alive'
  <2>1. ASSUME NEW c \in Clients PROVE (AliveAt(c))'
    <3>1. /\ <<type[Select!CS(c)], type[Select!RS(c)]>> \in Together
          /\ AliveAt(c) /\ TurnAt(c) /\ HeldAt(c) /\ ChoiceAt(c) /\ BrokenAt(c)
          /\ Select!CS(c) \notin todo /\ Select!RS(c) \notin todo
      BY <1>0, <1>1, <1>3 DEF Turns
    <3>2. CASE Stays(c)
      BY <1>1, <1>4, <3>1, <3>2, SMT DEF AliveAt
    <3>3. CASE Comes(c)
      BY <1>1, <1>4, <3>1, <3>3, SMT DEF AliveAt
    <3> QED
      BY <1>2, <3>2, <3>3
  <2> QED
    BY <2>1 DEF Alive
<1>7. Turns'
  <2>1. ASSUME NEW c \in Clients PROVE (TurnAt(c))'
    <3>1. /\ <<type[Select!CS(c)], type[Select!RS(c)]>> \in Together
          /\ AliveAt(c) /\ TurnAt(c) /\ HeldAt(c) /\ ChoiceAt(c) /\ BrokenAt(c)
          /\ Select!CS(c) \notin todo /\ Select!RS(c) \notin todo
      BY <1>0, <1>1, <1>3 DEF Turns
    <3>2. CASE Stays(c)
      BY <1>1, <1>4, <3>1, <3>2, SMT DEF AliveAt, TurnAt, Together
    <3>3. CASE Comes(c)
      BY <1>1, <1>4, <3>1, <3>3, SMT DEF AliveAt, TurnAt, Together
    <3> QED
      BY <1>2, <3>2, <3>3
  <2> QED
    BY <1>1, <2>1 DEF Turns
<1>8. DataHeld'
  <2>1. ASSUME NEW c \in Clients PROVE (HeldAt(c))'
    <3>1. /\ <<type[Select!CS(c)], type[Select!RS(c)]>> \in Together
          /\ AliveAt(c) /\ TurnAt(c) /\ HeldAt(c) /\ ChoiceAt(c) /\ BrokenAt(c)
          /\ Select!CS(c) \notin todo /\ Select!RS(c) \notin todo
      BY <1>0, <1>1, <1>3 DEF Turns
    <3>2. CASE Stays(c)
      BY <1>1, <1>4, <3>1, <3>2, SMT DEF AliveAt, HeldAt, Select!InCache
    <3>3. CASE Comes(c)
      BY <1>1, <1>4, <3>1, <3>3, SMT DEF AliveAt, HeldAt, Select!InCache
    <3> QED
      BY <1>2, <3>2, <3>3
  <2> QED
    BY <2>1 DEF DataHeld
<1>9. Select!ChoicesHold'
  <2>1. ASSUME NEW c \in Clients PROVE (ChoiceAt(c))'
    <3>1. /\ <<type[Select!CS(c)], type[Select!RS(c)]>> \in Together
          /\ AliveAt(c) /\ TurnAt(c) /\ HeldAt(c) /\ ChoiceAt(c) /\ BrokenAt(c)
          /\ Select!CS(c) \notin todo /\ Select!RS(c) \notin todo
      BY <1>0, <1>1, <1>3 DEF Turns
    <3>2. CASE Stays(c)
      BY <1>1, <1>4, <3>1, <3>2, SMT DEF AliveAt, ChoiceAt
    <3>3. CASE Comes(c)
      BY <1>1, <1>4, <3>1, <3>3, SMT DEF AliveAt, ChoiceAt
    <3> QED
      BY <1>2, <3>2, <3>3
  <2> QED
    BY <1>1, <2>1, TwoSockets, SMT DEF Select!ChoicesHold, ChoiceAt
<1>10. Select!CacheIsLive'
  BY <1>0, <1>1 DEF Select!CacheIsLive
<1>11. Select!OnlyBrokenDataDies'
  <2>1. ASSUME NEW c \in Clients PROVE (BrokenAt(c))'
    <3>1. /\ <<type[Select!CS(c)], type[Select!RS(c)]>> \in Together
          /\ AliveAt(c) /\ TurnAt(c) /\ HeldAt(c) /\ ChoiceAt(c) /\ BrokenAt(c)
          /\ Select!CS(c) \notin todo /\ Select!RS(c) \notin todo
      BY <1>0, <1>1, <1>3 DEF Turns
    <3>2. CASE Stays(c)
      BY <1>1, <1>4, <3>1, <3>2, SMT DEF AliveAt, BrokenAt, UsesAt
    <3>3. CASE Comes(c)
      BY <1>1, <1>4, <3>1, <3>3, SMT DEF AliveAt, BrokenAt, UsesAt
    <3> QED
      BY <1>2, <3>2, <3>3
  <2> QED
    BY <2>1, TwoSockets, SMT DEF Select!OnlyBrokenDataDies, Select!Uses, UsesAt, BrokenAt
<1> QED
  BY <1>5, <1>6, <1>7, <1>8, <1>9, <1>10, <1>11 DEF SelectCore

\* The cleaning at the end of a turn deletes and erases the broken Data.
LEMMA CleaningKeeps ==
    ASSUME Select!TypeOK, SelectCore, Select!updateCache
    PROVE  SelectCore'
<1>0. /\ Pairs /\ Alive /\ Turns /\ DataHeld /\ Select!ChoicesHold
      /\ Select!CacheIsLive /\ Select!OnlyBrokenDataDies
  BY DEF SelectCore
<1>1. /\ todo = {} /\ todo' = todo /\ loop' = "select" /\ stop' = stop
      /\ type' = type /\ made' = made /\ open' = open
      /\ http_header' = http_header /\ delete_request' = delete_request
      /\ select_data' = select_data /\ select_private' = select_private
      /\ select_broken' = select_broken /\ deletes' = deletes
      /\ select_dataDeletes' = [d \in Clients |->
            IF Select!InCache(d) /\ d \in select_broken THEN select_dataDeletes[d] + 1
                                                        ELSE select_dataDeletes[d]]
      /\ select_cache' = [u \in DOMAIN select_cache |->
            IF select_cache[u] \in select_broken THEN None ELSE select_cache[u]]
  BY DEF Select!updateCache, Select!clientVars
<1>2. Pairs' /\ Alive' /\ Turns' /\ Select!ChoicesHold'
  BY <1>0, <1>1 DEF Pairs, Alive, AliveAt, Turns, TurnAt, Select!ChoicesHold
<1>3. DataHeld'
  <2> SUFFICES ASSUME NEW c \in Clients PROVE HeldAt(c)'
    BY DEF DataHeld
  <2>1. HeldAt(c) /\ (Select!InCache(c)' => Select!InCache(c))
    BY <1>0, <1>1, NoneAssumption, SMT DEF DataHeld, Select!InCache
  <2> QED
    BY <1>1, <2>1, SMT DEF HeldAt, Select!TypeOK
<1>4. Select!CacheIsLive'
  BY <1>0, <1>1, NoneAssumption, SMT DEF Select!CacheIsLive, Select!TypeOK
<1>5. Select!OnlyBrokenDataDies'
  <2> SUFFICES ASSUME NEW s \in Select!Sockets, type[s] \in {"SEND_RESOURCE", "GET_RESOURCE"},
                      select_dataDeletes'[select_data[s[1]]] > 0
               PROVE  select_data[s[1]] \in select_broken
    BY <1>1 DEF Select!OnlyBrokenDataDies, Select!Uses
  <2>1. select_data[s[1]] \in Clients
    <3>1. PICK c \in Clients : s = Select!CS(c) \/ s = Select!RS(c)
      BY TwoSockets
    <3>2. HeldAt(c) /\ <<type[Select!CS(c)], type[Select!RS(c)]>> \in Together
      BY <1>0 DEF DataHeld, Pairs
    <3> QED
      BY <3>1, <3>2, TwoSockets, SMT DEF HeldAt, Together
  <2> QED
    BY <1>0, <1>1, <2>1, SMT DEF Select!OnlyBrokenDataDies, Select!Uses
<1> QED
  BY <1>2, <1>3, <1>4, <1>5 DEF SelectCore

\* An empty map has nothing wrong in it.
LEMMA InitCore == Select!Init => SelectCore
<1> SUFFICES ASSUME Select!Init PROVE SelectCore
  OBVIOUS
<1>1. /\ \A s \in Select!Sockets : type[s] = "absent"
      /\ \A c \in Clients : ~delete_request[c] /\ select_data[c] = None /\ deletes[c] = 0
                            /\ select_dataDeletes[c] = 0 /\ ~Select!InCache(c)
      /\ \A u \in DOMAIN select_cache : select_cache[u] = None
      /\ select_private = {} /\ todo = {} /\ made = {}
  BY NoneAssumption, SMT DEF Select!Init, Select!InCache
<1>2. Pairs /\ Alive /\ Turns
  BY <1>1, TwoSockets, SMT DEF Pairs, Together, Alive, AliveAt, Turns, TurnAt
<1>3. DataHeld
  BY <1>1, TwoSockets, NoneAssumption, SMT DEF DataHeld, HeldAt
<1>4. Select!ChoicesHold /\ Select!CacheIsLive /\ Select!OnlyBrokenDataDies
  BY <1>1, SMT
     DEF Select!ChoicesHold, Select!CacheIsLive, Select!OnlyBrokenDataDies, Select!Uses
<1> QED
  BY <1>2, <1>3, <1>4 DEF SelectCore

-----------------------------------------------------------------------------
\* The types of the map and of the objects, and of what else an action changes.
MapOK == /\ type \in [Select!Sockets -> Select!Types \cup {"absent"}]
         /\ open \subseteq Select!Sockets
         /\ deletes \in [Clients -> Nat] /\ select_dataDeletes \in [Clients -> Nat]

RestOK == /\ made \subseteq Clients
          /\ http_header \in [Clients -> {"none", "request", "response"}]
          /\ delete_request \in [Clients -> BOOLEAN]
          /\ select_url \in [Clients -> Urls \cup {None}]
          /\ select_data \in [Clients -> Clients \cup {None}]
          /\ select_private \subseteq Clients
          /\ select_cache \in [Urls \cup {None} -> Clients \cup {None}]
          /\ select_broken \subseteq Clients /\ coherent \subseteq Clients

TypesAfter == MapOK' /\ RestOK'

\* Deleting an object keeps the types of the objects ...
LEMMA DeleteTypes ==
    ASSUME SelectGuards, NEW p \in Clients, NEW opened,
           opened \in {open, open \ {Select!CS(p)}, open \ {Select!RS(p)}},
           Select!DeleteObject(p, opened)
    PROVE  /\ open' \subseteq Select!Sockets
           /\ deletes' \in [Clients -> Nat] /\ select_dataDeletes' \in [Clients -> Nat]
<1>1. Deleted(p)
  BY DeleteObjectDoes
<1> QED
  BY <1>1, SMT DEF Deleted, SelectGuards, Select!TypeOK

\* ... and so do the ways in which the map loses entries.
LEMMA RejectTypes ==
    ASSUME SelectGuards, NEW p \in Clients, NEW s \in {Select!CS(p), Select!RS(p)},
           Select!Reject(s)
    PROVE  MapOK'
<1>0. /\ s[1] = p /\ s \in Select!Sockets /\ Select!TypeOK
      /\ type \in [Select!Sockets -> Select!Types \cup {"absent"}]
  BY TwoSockets DEF SelectGuards, Select!TypeOK
<1> DEFINE t == Select!Without(type, Select!CS(p))
<1>1. /\ type' = Select!Without(t, s)
      /\ Select!DeleteObject(p, open) \/ UNCHANGED Select!heapVars
  BY <1>0 DEF Select!Reject
<1>2. t \in [Select!Sockets -> Select!Types \cup {"absent"}]
  BY <1>0, EntriesChange
<1> HIDE DEF t
<1>3. type' \in [Select!Sockets -> Select!Types \cup {"absent"}]
  BY <1>1, <1>2, EntriesChange
<1>4. CASE UNCHANGED Select!heapVars
  BY <1>0, <1>3, <1>4 DEF MapOK, Select!heapVars, Select!TypeOK
<1>5. CASE Select!DeleteObject(p, open)
  BY <1>3, <1>5, DeleteTypes DEF MapOK
<1> QED
  BY <1>1, <1>4, <1>5

\* ... by CONNECT, from whatever map the case for GET_REQUEST left, ...
LEMMA ConnectedTypes ==
    ASSUME SelectGuards, NEW p \in Clients, NEW s \in {Select!CS(p), Select!RS(p)},
           NEW t \in [Select!Sockets -> Select!Types \cup {"absent"}], NEW header,
           Select!Connected(s, t, header)
    PROVE  MapOK'
<1>0. /\ s[1] = p /\ s \in Select!Sockets /\ Select!TypeOK
      /\ type \in [Select!Sockets -> Select!Types \cup {"absent"}]
  BY TwoSockets DEF SelectGuards, Select!TypeOK
<1> DEFINE u == Select!Without(t, Select!CS(p))
<1>1. u \in [Select!Sockets -> Select!Types \cup {"absent"}]
  BY EntriesChange
<1>2. PICK error \in Select!connectResourceServer(header) :
         \/ /\ error = -1
            /\ type' = Select!Without(u, s)
            /\ IF u[s] # "absent" THEN Select!DeleteObject(p, open)
                                  ELSE UNCHANGED Select!heapVars
         \/ /\ error # -1
            /\ type' = IF error = 0 THEN Select!Retyped(t, s, "SEND_REQUEST") ELSE t
            /\ UNCHANGED Select!heapVars
  BY <1>0 DEF Select!Connected
<1> HIDE DEF u
<1>3. /\ type' \in {Select!Without(u, s), Select!Retyped(t, s, "SEND_REQUEST"), t}
      /\ Select!DeleteObject(p, open) \/ UNCHANGED Select!heapVars
  BY <1>2
<1>4. type' \in [Select!Sockets -> Select!Types \cup {"absent"}]
  <2>1. Select!Without(u, s) \in [Select!Sockets -> Select!Types \cup {"absent"}]
    BY <1>1, EntriesChange
  <2>2. Select!Retyped(t, s, "SEND_REQUEST") \in [Select!Sockets -> Select!Types \cup {"absent"}]
    BY EntryRetyped DEF Select!Types
  <2> QED
    BY <1>3, <2>1, <2>2
<1>5. CASE UNCHANGED Select!heapVars
  BY <1>0, <1>4, <1>5 DEF MapOK, Select!heapVars, Select!TypeOK
<1>6. CASE Select!DeleteObject(p, open)
  BY <1>4, <1>6, DeleteTypes DEF MapOK
<1> QED
  BY <1>3, <1>5, <1>6

\* ... and when a side ends.
LEMMA SideEndsTypes ==
    ASSUME SelectGuards, NEW p \in Clients, NEW s \in {Select!CS(p), Select!RS(p)},
           NEW closed \in {Select!CS(p), Select!RS(p)}, Select!SideEnds(s, closed)
    PROVE  MapOK' /\ delete_request' \in [Clients -> BOOLEAN]
<1>0. /\ s[1] = p /\ s \in Select!Sockets /\ Select!TypeOK
      /\ type \in [Select!Sockets -> Select!Types \cup {"absent"}]
  BY TwoSockets DEF SelectGuards, Select!TypeOK
<1>1. /\ type' = Select!Without(type, s)
      /\ \/ Select!DeleteObject(p, open \ {closed}) /\ delete_request' = delete_request
         \/ /\ delete_request' = [delete_request EXCEPT ![p] = TRUE]
            /\ open' = open \ {closed}
            /\ deletes' = deletes /\ select_dataDeletes' = select_dataDeletes
  BY <1>0, Zenon DEF Select!SideEnds
<1>2. type' \in [Select!Sockets -> Select!Types \cup {"absent"}]
  BY <1>0, <1>1, EntriesChange
<1>3. CASE Select!DeleteObject(p, open \ {closed}) /\ delete_request' = delete_request
  <2>1. open \ {closed} \in {open, open \ {Select!CS(p)}, open \ {Select!RS(p)}}
    OBVIOUS
  <2> QED
    BY <1>0, <1>2, <1>3, <2>1, DeleteTypes DEF MapOK, Select!TypeOK
<1>4. CASE /\ delete_request' = [delete_request EXCEPT ![p] = TRUE]
           /\ open' = open \ {closed}
           /\ deletes' = deletes /\ select_dataDeletes' = select_dataDeletes
  BY <1>0, <1>2, <1>4 DEF MapOK, Select!TypeOK
<1> QED
  BY <1>1, <1>3, <1>4

\* The actions keep the types: of a request, ...
LEMMA GetRequestTypes ==
    ASSUME SelectGuards, NEW p \in Clients, NEW s \in {Select!CS(p), Select!RS(p)},
           Select!GetRequest(s)
    PROVE  TypesAfter
<1>0. /\ s[1] = p /\ s \in Select!Sockets /\ Select!TypeOK
      /\ type \in [Select!Sockets -> Select!Types \cup {"absent"}]
  BY TwoSockets DEF SelectGuards, Select!TypeOK
<1>1. http_header' \in [Clients -> {"none", "request", "response"}]
  BY <1>0, SMT DEF Select!GetRequest, Select!readHttpHeader, Select!TypeOK
<1>2. CASE /\ type' = Select!Without(type, s) /\ Select!DeleteObject(p, open)
           /\ UNCHANGED <<made, delete_request, select_url, select_data, select_private,
                          Select!dataVars>>
  <2>1. type' \in [Select!Sockets -> Select!Types \cup {"absent"}]
    BY <1>0, <1>2, EntriesChange
  <2> QED
    BY <1>0, <1>1, <1>2, <2>1, DeleteTypes
       DEF TypesAfter, MapOK, RestOK, Select!dataVars, Select!TypeOK
<1>3. CASE Select!RequestCached(s)
  <2>1. PICK u \in Urls :
          /\ select_url' = [select_url EXCEPT ![p] = u]
          /\ select_data' = [select_data EXCEPT ![p] = select_cache[u]]
          /\ type' = Select!Retyped(type, s, "SEND_RESOURCE")
    BY <1>0, <1>3 DEF Select!RequestCached
  <2>2. type' \in [Select!Sockets -> Select!Types \cup {"absent"}]
    BY <1>0, <2>1, EntryRetyped DEF Select!Types
  <2>3. UNCHANGED <<made, delete_request, select_private, Select!dataVars, Select!heapVars>>
    BY <1>3 DEF Select!RequestCached
  <2> QED
    BY <1>0, <1>1, <2>1, <2>2, <2>3
       DEF TypesAfter, MapOK, RestOK, Select!dataVars, Select!heapVars, Select!TypeOK
<1>4. CASE Select!RequestMissed(s)
  <2> DEFINE t == Select!WithResourceSocket(Select!Retyped(type, s, "NONE"), p)
  <2>1. PICK u \in Urls :
          /\ select_url' = [select_url EXCEPT ![p] = u]
          /\ Select!Connected(s, t, "request")
          /\ UNCHANGED <<made, delete_request, select_data, select_private, Select!dataVars>>
    BY <1>0, <1>4 DEF Select!RequestMissed
  <2>2. t \in [Select!Sockets -> Select!Types \cup {"absent"}]
    BY <1>0, TwoSockets, SMT DEF Select!WithResourceSocket, Select!Retyped, Select!Types
  <2> HIDE DEF t
  <2>3. MapOK'
    BY <2>1, <2>2, ConnectedTypes
  <2> QED
    BY <1>0, <1>1, <2>1, <2>3 DEF TypesAfter, RestOK, Select!dataVars, Select!TypeOK
<1>5. CASE /\ Select!Connected(s, type, "request")
           /\ UNCHANGED <<made, delete_request, select_url, select_data, select_private,
                          Select!dataVars>>
  <2>1. MapOK'
    BY <1>0, <1>5, ConnectedTypes
  <2> QED
    BY <1>0, <1>1, <1>5, <2>1 DEF TypesAfter, RestOK, Select!dataVars, Select!TypeOK
<1> QED
  BY <1>0, <1>2, <1>3, <1>4, <1>5 DEF Select!GetRequest

\* ... of the connection, ...
LEMMA ConnectTypes ==
    ASSUME SelectGuards, NEW p \in Clients, NEW s \in {Select!CS(p), Select!RS(p)},
           Select!Connect(s)
    PROVE  TypesAfter
<1>0. /\ s[1] = p /\ s \in Select!Sockets /\ Select!TypeOK
      /\ type \in [Select!Sockets -> Select!Types \cup {"absent"}]
  BY TwoSockets DEF SelectGuards, Select!TypeOK
<1>1. MapOK'
  BY <1>0, ConnectedTypes DEF Select!Connect
<1> QED
  BY <1>0, <1>1
     DEF Select!Connect, TypesAfter, RestOK, Select!clientVars, Select!dataVars,
         Select!heapVars, Select!TypeOK

\* ... of sending the request, ...
LEMMA SendRequestTypes ==
    ASSUME SelectGuards, NEW p \in Clients, NEW s \in {Select!CS(p), Select!RS(p)},
           Select!SendRequest(s)
    PROVE  TypesAfter
<1>0. /\ s[1] = p /\ s \in Select!Sockets /\ Select!TypeOK
      /\ type \in [Select!Sockets -> Select!Types \cup {"absent"}]
  BY TwoSockets DEF SelectGuards, Select!TypeOK
<1>1. CASE Select!Reject(s) /\ UNCHANGED http_header
  <2>1. MapOK'
    BY <1>1, RejectTypes
  <2> QED
    BY <1>0, <1>1, <2>1
       DEF Select!SendRequest, TypesAfter, RestOK, Select!dataVars, Select!TypeOK
<1>2. CASE /\ type' = Select!Retyped(type, s, "GET_RESPONSE")
           /\ http_header' = [http_header EXCEPT ![p] = "response"]
           /\ UNCHANGED Select!heapVars
  <2>1. type' \in [Select!Sockets -> Select!Types \cup {"absent"}]
    BY <1>0, <1>2, EntryRetyped DEF Select!Types
  <2> QED
    BY <1>0, <1>2, <2>1
       DEF Select!SendRequest, TypesAfter, MapOK, RestOK, Select!dataVars, Select!heapVars,
           Select!TypeOK
<1>3. CASE UNCHANGED <<type, http_header, Select!heapVars>>
  BY <1>0, <1>3
     DEF Select!SendRequest, TypesAfter, MapOK, RestOK, Select!dataVars, Select!heapVars,
         Select!TypeOK
<1> QED
  BY <1>0, <1>1, <1>2, <1>3 DEF Select!SendRequest

\* ... of a response, ...
LEMMA GetResponseTypes ==
    ASSUME SelectGuards, NEW p \in Clients, NEW s \in {Select!CS(p), Select!RS(p)},
           Select!GetResponse(s)
    PROVE  TypesAfter
<1>0. /\ s[1] = p /\ s \in Select!Sockets /\ Select!TypeOK
      /\ type \in [Select!Sockets -> Select!Types \cup {"absent"}]
  BY TwoSockets DEF SelectGuards, Select!TypeOK
<1>1. CASE UNCHANGED <<type, Select!clientVars, Select!dataVars, Select!heapVars>>
  BY <1>0, <1>1
     DEF TypesAfter, MapOK, RestOK, Select!clientVars, Select!dataVars, Select!heapVars,
         Select!TypeOK
<1>2. CASE /\ Select!Reject(s)
           /\ http_header' = [http_header EXCEPT ![p] = "none"]
           /\ UNCHANGED <<made, delete_request, select_url, select_data, select_private,
                          Select!dataVars>>
  <2>1. MapOK'
    BY <1>2, RejectTypes
  <2> QED
    BY <1>0, <1>2, <2>1 DEF TypesAfter, RestOK, Select!dataVars, Select!TypeOK
<1>3. CASE /\ select_data' = [select_data EXCEPT ![p] = p]
           /\ \/ select_cache' = Select!Inserted(p) /\ UNCHANGED select_private
              \/ select_private' = select_private \cup {p} /\ UNCHANGED select_cache
           /\ type' = Select!Retyped(Select!Retyped(type, Select!CS(p), "SEND_RESOURCE"), s,
                                     "GET_RESOURCE")
           /\ UNCHANGED <<made, http_header, delete_request, select_url, select_broken, coherent,
                          Select!heapVars>>
  <2> DEFINE t == Select!Retyped(type, Select!CS(p), "SEND_RESOURCE")
  <2>1. t \in [Select!Sockets -> Select!Types \cup {"absent"}]
    BY <1>0, EntryRetyped DEF Select!Types
  <2>2. type' = Select!Retyped(t, s, "GET_RESOURCE")
    BY <1>3
  <2> HIDE DEF t
  <2>3. type' \in [Select!Sockets -> Select!Types \cup {"absent"}]
    BY <2>1, <2>2, EntryRetyped DEF Select!Types
  <2>4. select_cache' \in [Urls \cup {None} -> Clients \cup {None}]
    BY <1>0, <1>3, SMT DEF Select!Inserted, Select!TypeOK
  <2>5. select_private' \subseteq Clients
    BY <1>0, <1>3, SMT DEF Select!TypeOK
  <2> QED
    BY <1>0, <1>3, <2>3, <2>4, <2>5
       DEF TypesAfter, MapOK, RestOK, Select!heapVars, Select!TypeOK
<1> QED
  BY <1>0, <1>1, <1>2, <1>3 DEF Select!GetResponse, Select!NewData

\* ... of a piece of the resource, ...
LEMMA GetResourceTypes ==
    ASSUME SelectGuards, NEW p \in Clients, NEW s \in {Select!CS(p), Select!RS(p)},
           type[s] = "GET_RESOURCE", Select!GetResource(s)
    PROVE  TypesAfter
<1>0. /\ s[1] = p /\ s \in Select!Sockets /\ Select!TypeOK
      /\ type \in [Select!Sockets -> Select!Types \cup {"absent"}]
  BY TwoSockets DEF SelectGuards, Select!TypeOK
<1>1. CASE UNCHANGED <<type, Select!clientVars, Select!dataVars, Select!heapVars>>
  BY <1>0, <1>1
     DEF TypesAfter, MapOK, RestOK, Select!clientVars, Select!dataVars, Select!heapVars,
         Select!TypeOK
<1>2. CASE /\ Select!ResourceEnds(select_data[p]) /\ Select!SideEnds(s, Select!RS(p))
           /\ UNCHANGED <<made, http_header, select_url, select_data, select_private, select_cache>>
  <2>1. MapOK' /\ delete_request' \in [Clients -> BOOLEAN]
    BY <1>2, SideEndsTypes
  <2>2. select_broken' \subseteq Clients /\ coherent' \subseteq Clients
    <3>1. select_data[p] \in Clients
      BY SMT DEF SelectGuards, DataHeld, HeldAt
    <3> QED
      BY <1>0, <1>2, <3>1, SMT DEF Select!ResourceEnds, Select!TypeOK
  <2> QED
    BY <1>0, <1>2, <2>1, <2>2 DEF TypesAfter, RestOK, Select!TypeOK
<1> QED
  BY <1>0, <1>1, <1>2 DEF Select!GetResource

\* ... and of sending one.
LEMMA SendResourceTypes ==
    ASSUME SelectGuards, NEW p \in Clients, NEW s \in {Select!CS(p), Select!RS(p)},
           Select!SendResource(s)
    PROVE  TypesAfter
<1>0. /\ s[1] = p /\ s \in Select!Sockets /\ Select!TypeOK
      /\ type \in [Select!Sockets -> Select!Types \cup {"absent"}]
  BY TwoSockets DEF SelectGuards, Select!TypeOK
<1>1. CASE UNCHANGED <<type, Select!clientVars, Select!dataVars, Select!heapVars>>
  BY <1>0, <1>1
     DEF TypesAfter, MapOK, RestOK, Select!clientVars, Select!dataVars, Select!heapVars,
         Select!TypeOK
<1>2. CASE /\ Select!SideEnds(s, Select!CS(p))
           /\ UNCHANGED <<made, http_header, select_url, select_data, select_private,
                          Select!dataVars>>
  <2>1. MapOK' /\ delete_request' \in [Clients -> BOOLEAN]
    BY <1>2, SideEndsTypes
  <2> QED
    BY <1>0, <1>2, <2>1 DEF TypesAfter, RestOK, Select!dataVars, Select!TypeOK
<1> QED
  BY <1>0, <1>1, <1>2 DEF Select!SendResource

\* At the end a client has at most two entries.
LEMMA FewEntries == ASSUME NEW c \in Clients PROVE Cardinality(Select!Entries(c)) \in Nat
<1>1. Select!Entries(c) \subseteq {Select!CS(c), Select!RS(c)}
  BY DEF Select!Entries
<1>2. IsFiniteSet({Select!CS(c), Select!RS(c)})
  <2>1. IsFiniteSet({} \cup {Select!CS(c)})
    BY FS_EmptySet, FS_AddElement
  <2>2. IsFiniteSet(({} \cup {Select!CS(c)}) \cup {Select!RS(c)})
    BY <2>1, FS_AddElement
  <2>3. ({} \cup {Select!CS(c)}) \cup {Select!RS(c)} = {Select!CS(c), Select!RS(c)}
    OBVIOUS
  <2> QED
    BY <2>2, <2>3
<1> QED
  BY <1>1, <1>2, FS_Subset, FS_CardinalityType

\* Every step of the select proxy keeps the types.
LEMMA SelectTypes ==
    ASSUME Select!TypeOK, loop # "exited" => SelectCore, [Select!Next]_selectVars
    PROVE  Select!TypeOK'
<1>1. ASSUME NEW s \in Select!Sockets, Select!execClientAction(s) PROVE Select!TypeOK'
  <2> DEFINE p == s[1]
  <2>1. p \in Clients /\ s \in {Select!CS(p), Select!RS(p)}
    BY TwoSockets
  <2> HIDE DEF p
  <2>2. /\ todo' = todo \ {s} /\ loop' = loop /\ stop' = stop /\ loop = "run"
        /\ \/ type[s] = "GET_REQUEST" /\ Select!GetRequest(s)
           \/ type[s] = "CONNECT" /\ Select!Connect(s)
           \/ type[s] = "SEND_REQUEST" /\ Select!SendRequest(s)
           \/ type[s] = "GET_RESPONSE" /\ Select!GetResponse(s)
           \/ type[s] = "GET_RESOURCE" /\ Select!GetResource(s)
           \/ type[s] = "SEND_RESOURCE" /\ Select!SendResource(s)
    BY <1>1 DEF Select!execClientAction
  <2>3. SelectGuards
    BY <2>2 DEF SelectCore, SelectGuards
  <2>4. TypesAfter
    BY <2>1, <2>2, <2>3, GetRequestTypes, ConnectTypes, SendRequestTypes,
       GetResponseTypes,
       GetResourceTypes, SendResourceTypes
  <2> QED
    BY <2>2, <2>4, SMT DEF Select!TypeOK, TypesAfter, MapOK, RestOK
<1>2. ASSUME NEW ready \in SUBSET Select!Sockets, Select!Select(ready) PROVE Select!TypeOK'
  <2>1. CASE UNCHANGED <<made, open, type>>
    BY <1>2, <2>1, SMT DEF Select!Select, Select!dataVars, Select!TypeOK
  <2>2. ASSUME NEW d \in Clients, Select!accept(d) PROVE Select!TypeOK'
    BY <1>2, <2>2, TwoSockets, SMT
       DEF Select!Select, Select!accept, Select!Client, Select!dataVars, Select!TypeOK,
           Select!Types
  <2> QED
    BY <1>2, <2>1, <2>2 DEF Select!Select
<1>3. ASSUME Select!updateCache PROVE Select!TypeOK'
  BY <1>3, SMT DEF Select!updateCache, Select!clientVars, Select!TypeOK
<1>4. ASSUME Select!Interrupt PROVE Select!TypeOK'
  BY <1>4, SMT
     DEF Select!Interrupt, Select!clientVars, Select!dataVars, Select!heapVars,
         Select!TypeOK
<1>5. ASSUME Select!Shutdown PROVE Select!TypeOK'
  <2> DEFINE entries(c) == Cardinality(Select!Entries(c))
             cached(d) == IF Select!InCache(d) THEN 1 ELSE 0
  <2>0. /\ \A c \in Clients : entries(c) \in Nat /\ cached(c) \in Nat
        /\ deletes' = [c \in Clients |-> deletes[c] + entries(c)]
        /\ select_dataDeletes' = [d \in Clients |->
                select_dataDeletes[d] + cached(d)
                                      + (IF d \in select_private THEN entries(d) ELSE 0)]
    BY <1>5, FewEntries, Zenon DEF Select!Shutdown, Select!Cardinality, Cardinality
  <2> HIDE DEF entries, cached
  <2>1. deletes' \in [Clients -> Nat]
    BY <2>0, SMT DEF Select!TypeOK
  <2>2. select_dataDeletes' \in [Clients -> Nat]
    BY <2>0, SMT DEF Select!TypeOK
  <2>3. open' \subseteq Select!Sockets
    BY <1>5 DEF Select!Shutdown, Select!TypeOK
  <2> QED
    BY <1>5, <2>1, <2>2, <2>3
       DEF Select!Shutdown, Select!clientVars, Select!dataVars, Select!TypeOK
<1>6. ASSUME UNCHANGED selectVars PROVE Select!TypeOK'
  BY <1>6 DEF selectVars, Select!TypeOK
<1> QED
  BY <1>1, <1>2, <1>3, <1>4, <1>5, <1>6
     DEF Select!Next, Select!Exited, Select!vars, selectVars,
     Select!clientVars, Select!dataVars, Select!heapVars

-----------------------------------------------------------------------------
\* The select proxy's invariants: in the end, when ~Server has deleted what the
\* entries point to, the entries are still those that were rightly chosen.
SelectInv == /\ Select!TypeOK
             /\ loop # "exited" => SelectCore
             /\ Select!ChoicesHold

\* They hold in the beginning ...
LEMMA InitSelect == Select!Init => SelectInv
<1> SUFFICES ASSUME Select!Init PROVE SelectInv
  OBVIOUS
<1>1. SelectCore
  BY InitCore
<1>2. Select!TypeOK
  <2>1. type \in [Select!Sockets -> Select!Types \cup {"absent"}]
    BY DEF Select!Init
  <2>2. /\ http_header \in [Clients -> {"none", "request", "response"}]
        /\ delete_request \in [Clients -> BOOLEAN]
    BY DEF Select!Init
  <2> QED
    BY <2>1, <2>2 DEF Select!Init, Select!TypeOK
<1> QED
  BY <1>1, <1>2 DEF SelectInv, SelectCore

\* ... and every step keeps them: SIGINT changes nothing but stop, and ~Server
\* leaves the entries as they are.
LEMMA SelectNext == SelectInv /\ [Select!Next]_selectVars => SelectInv'
<1> SUFFICES ASSUME SelectInv, [Select!Next]_selectVars PROVE SelectInv'
  OBVIOUS
<1>0. Select!TypeOK /\ (loop # "exited" => SelectCore) /\ Select!ChoicesHold
  BY DEF SelectInv
<1>1. Select!TypeOK'
  BY <1>0, SelectTypes
<1>2. ASSUME NEW ready \in SUBSET Select!Sockets, Select!Select(ready)
      PROVE  SelectCore'
  <2>1. loop = "select"
    BY <1>2 DEF Select!Select
  <2> QED
    BY <1>0, <1>2, <2>1, SelectKeeps
<1>3. ASSUME NEW s \in Select!Sockets, Select!execClientAction(s)
      PROVE  SelectCore'
  <2>1. loop = "run"
    BY <1>3 DEF Select!execClientAction
  <2> QED
    BY <1>0, <1>3, <2>1, ActionKeeps
<1>4. ASSUME Select!updateCache PROVE SelectCore'
  <2>1. loop = "run"
    BY <1>4 DEF Select!updateCache
  <2> QED
    BY <1>0, <1>4, <2>1, CleaningKeeps
<1>5. ASSUME Select!Interrupt PROVE SelectCore'
  <2>1. SelectCore
    BY <1>0, <1>5 DEF Select!Interrupt
  <2>2. /\ stop' = TRUE /\ UNCHANGED <<type, made, open, http_header, delete_request>>
        /\ UNCHANGED <<select_data, select_private, select_cache, select_broken>>
        /\ UNCHANGED <<loop, todo, deletes, select_dataDeletes>>
    BY <1>5 DEF Select!Interrupt, Select!clientVars, Select!dataVars, Select!heapVars
  <2> QED
    BY <2>1, <2>2
       DEF SelectCore, Pairs, Alive, AliveAt, Turns, TurnAt, DataHeld, HeldAt,
           Select!InCache, Select!ChoicesHold, Select!CacheIsLive,
           Select!OnlyBrokenDataDies, Select!Uses
<1>6. ASSUME Select!Shutdown PROVE loop' = "exited" /\ Select!ChoicesHold'
  BY <1>0, <1>6 DEF Select!Shutdown, Select!clientVars, Select!ChoicesHold
<1>7. ASSUME UNCHANGED selectVars PROVE (loop # "exited" => SelectCore)' /\ Select!ChoicesHold'
  BY <1>0, <1>7
     DEF selectVars, SelectCore, Pairs, Alive, AliveAt, Turns, TurnAt, DataHeld, HeldAt,
         Select!InCache, Select!ChoicesHold, Select!CacheIsLive,
         Select!OnlyBrokenDataDies, Select!Uses
<1>8. Select!Exited => UNCHANGED selectVars
  BY DEF Select!Exited, Select!vars, selectVars, Select!clientVars, Select!dataVars,
         Select!heapVars
<1> QED
  BY <1>1, <1>2, <1>3, <1>4, <1>5, <1>6, <1>7, <1>8 DEF Select!Next, SelectInv, SelectCore

\* The threaded proxy's invariants hold in the beginning ...
LEMMA InitThreads == Init => ThreadsInv
<1> SUFFICES ASSUME Init PROVE ThreadsInv
  OBVIOUS
<1>1. TypeOK
  <2>1. /\ main \in MainStates /\ update \in UpdateStates
        /\ "none" \in DownloadStates
    BY DEF Init, MainStates, UpdateStates, DownloadStates
  <2>2. /\ download \in [Clients -> DownloadStates]
        /\ upload \in [Clients -> {"none", "serve", "ended"}]
    BY <2>1 DEF Init
  <2> QED
    BY <2>1, <2>2 DEF Init, TypeOK
<1>2. \A c \in Clients : ~Lives(c) /\ ~Reads(c) /\ ~InCache(c)
  BY NoneAssumption, SMT DEF Init, Lives, Reads, InCache
<1>3. Registration /\ OneAtAnAddress /\ Joining /\ DeletedHaveEnded /\ LostByAddress
  BY <1>2, SMT
     DEF Init, Registration, OneAtAnAddress, Joining, DeletedHaveEnded, LostByAddress
<1>4. DataOwned /\ DataPointedTo
  BY <1>2, SMT DEF Init, DataOwned, DataPointedTo, HasUrl
<1>5. CacheIsLive /\ OnlyBrokenDataDies
  BY <1>2, SMT DEF Init, CacheIsLive, OnlyBrokenDataDies
<1> QED
  BY <1>1, <1>3, <1>4, <1>5 DEF ThreadsInv, Threads

\* ... and every step keeps them.
LEMMA ThreadsNext == ThreadsInv /\ [Next]_vars => ThreadsInv'
<1> SUFFICES ASSUME ThreadsInv, [Next]_vars PROVE ThreadsInv'
  OBVIOUS
<1> QED
  BY ThreadsTypes, ThreadsRegistration, ThreadsApart, ThreadsJoining, ThreadsDeleted,
     ThreadsLost, ThreadsOwned, ThreadsPointed, ThreadsCache, ThreadsBroken
     DEF ThreadsInv, Threads

-----------------------------------------------------------------------------
ProxiesInv == ThreadsInv /\ SelectInv

\* Both proxies' invariants hold in every behaviour.
THEOREM ProxiesInvariant == MCSpec => []ProxiesInv
<1>1. MCInit => ProxiesInv
  BY InitThreads, InitSelect DEF MCInit, ProxiesInv
<1>2. ProxiesInv /\ [MCNext]_allVars => ProxiesInv'
  <2>1. [MCNext]_allVars => [Next]_vars /\ [Select!Next]_selectVars
    BY DEF MCNext, allVars, Threaded, Single
  <2> QED
    BY <2>1, ThreadsNext, SelectNext DEF ProxiesInv
<1> QED
  BY <1>1, <1>2, PTL DEF MCSpec

\* The variables of the two proxies have their types: pointers point to objects
\* that were made, and an entry's type is one the program knows.
THEOREM ProxiesTypeCorrect == MCSpec => []ProxiesTypeOK
<1>1. ProxiesInv => ProxiesTypeOK
  BY DEF ProxiesInv, ThreadsInv, Threads, SelectInv, ProxiesTypeOK
<1> QED
  BY ProxiesInvariant, <1>1, PTL

\* Neither proxy deletes what is in use, but for the lost clients of the threaded
\* one, which are those that got the address of a client deleted and not erased.
\* A client that is not lost goes when its threads have ended; a Data goes with
\* its client only if it is the client's own, or by the cleaning of the cache, if
\* it is broken; in the select proxy a Data is private only to its maker.
THEOREM InUseIsKept == MCSpec => []NothingDeletedInUse
<1>1. ThreadsInv => ClientOutlivesThreads /\ LostByAddress /\ DataLifetimes
  <2> SUFFICES ASSUME ThreadsInv PROVE ClientOutlivesThreads /\ LostByAddress /\ DataLifetimes
    OBVIOUS
  <2>1. ClientOutlivesThreads
    BY SMT DEF ThreadsInv, Threads, TypeOK, Registration, DeletedHaveEnded, Running,
               Lives, ClientOutlivesThreads
  <2>2. DataDeletedOnce
    BY SMT DEF ThreadsInv, Threads, TypeOK, DataOwned, DataDeletedOnce
  <2> QED
    BY <2>1, <2>2 DEF ThreadsInv, Threads, DataLifetimes
<1>2. SelectInv => Select!DataLifetimes
  BY DEF SelectInv, SelectCore, Select!DataLifetimes
<1>3. ProxiesInv => NothingDeletedInUse
  BY <1>1, <1>2 DEF ProxiesInv, NothingDeletedInUse
<1> QED
  BY ProxiesInvariant, <1>3, PTL

\* Behind every entry of the select proxy's map is a client that was not deleted
\* and an open socket, however many clients there are and in whatever order
\* their sides end: the two entries of a client are only in certain pairs of
\* types, and where one side's action would delete the client the other side
\* has no entry any more, or its entry goes, too.
THEOREM EntriesStayAlive == MCSpec => []EntriesAlive
<1>1. SelectInv => Select!EntriesAlive
  BY TwoSockets, SMT DEF SelectInv, SelectCore, Alive, AliveAt, Select!EntriesAlive
<1>2. ProxiesInv => EntriesAlive
  BY <1>1 DEF ProxiesInv, EntriesAlive
<1> QED
  BY ProxiesInvariant, <1>2, PTL

\* What a turn has chosen is still there when its action comes, though an action
\* may remove both entries of its client, and sendRequest finds the request.
THEOREM ChosenActionsHold == MCSpec => []ChoicesHold
<1>1. ProxiesInv => ChoicesHold
  BY DEF ProxiesInv, SelectInv, ChoicesHold
<1> QED
  BY ProxiesInvariant, <1>1, PTL
=============================================================================

