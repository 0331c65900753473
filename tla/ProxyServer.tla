----------------------------- MODULE ProxyServer ----------------------------
(***************************************************************************)
(* pthreads/laboratory_work_#30: the life of the objects of the proxy.     *)
(* main accepts connections; a download thread per client answers from the *)
(* cache or downloads a new Data that an upload thread sends on; the       *)
(* update thread joins the clients' threads, deletes them and cleans the   *)
(* cache; after SIGINT ~Server cancels it and does the rest.  How a sender *)
(* goes through a Data is in ProxyData.tla; here sendResource is a state   *)
(* the thread stays in for a while, reading the Data it points to.         *)
(*                                                                         *)
(* data_mutex and clients_mutex are only held over steps of one thread.    *)
(*                                                                         *)
(* client_threads is keyed by the client's address, and new may give out   *)
(* the address of a client that was deleted and is still in the map.  A    *)
(* client is named by its number, a map entry by the client whose thread   *)
(* it holds, and the key of an entry is that client's address.             *)
(***************************************************************************)
EXTENDS Integers, FiniteSets

CONSTANTS Clients,   \* the connections there will be
          Addresses, \* where new may put a Client
          Urls,      \* the resources they ask for
          None,
          Garbage    \* what else freed memory may hold

ASSUME NoneAssumption == {None, Garbage} \cap (Clients \cup Urls) = {}
ASSUME ClientsAssumption == Clients \subseteq Nat /\ Addresses \subseteq Nat

VARIABLES
    main,           \* accept loop, then ~Server
    fresh,          \* the client whose thread runs but is not registered yet
    address,        \* of each client: where its object is, or was
    client_threads, \* the map of that name: the clients with a thread in it
    lost,           \* clients whose insertion into the map did nothing
    cache,          \* url -> the client whose download made the Data
    download,       \* of each client: its download thread
    upload,         \* of each client: its upload thread
    url,            \* of each client: requested_resource
    resource,       \* of each client: the Data in the node of the cache that its
                    \*   iterator of that name points to
    data,           \* of each client: the Data its data.first points to, which
                    \*   is named by the client that made it
    private,        \* clients with data.second = -1: the Data is their own
    broken,         \* Data with delete_request set
    update,         \* the update thread
    tmp,            \* its snapshot: the clients it has yet to join
    to_delete,      \* the clients it has joined and deleted
    cancelled,      \* pthread_cancel(update_thread) was called
    left,           \* the clients ~Server has yet to join
    clientDeletes,  \* of each client: how often its object was deleted
    dataDeletes     \* of each Data: how often it was deleted

updateVars == <<update, tmp, to_delete>>
acceptVars == <<fresh, address, lost>>
mainVars == <<main, acceptVars, cancelled, left>>
dataVars == <<url, resource, data, private, broken>>
threadVars == <<download, upload, dataVars>>
heapVars == <<clientDeletes, dataDeletes>>
vars == <<mainVars, client_threads, cache, threadVars, updateVars, heapVars>>

Init == /\ main = "accept"
        /\ fresh = None
        /\ address = [c \in Clients |-> None]
        /\ client_threads = {}
        /\ lost = {}
        /\ cache = [u \in Urls |-> None]
        /\ download = [c \in Clients |-> "none"]
        /\ upload = [c \in Clients |-> "none"]
        /\ url = [c \in Clients |-> None]
        /\ resource = [c \in Clients |-> None]
        /\ data = [c \in Clients |-> None]
        /\ private = {}
        /\ broken = {}
        /\ update = "waiting"
        /\ tmp = {} /\ to_delete = {}
        /\ cancelled = FALSE
        /\ left = {}
        /\ clientDeletes = [c \in Clients |-> 0]
        /\ dataDeletes = [c \in Clients |-> 0]

-----------------------------------------------------------------------------
(* Deleting.  ~Client deletes the Data only if the client does not share   *)
(* it; join and delete of a client go together in both places.             *)

Lives(c) == download[c] # "none" /\ clientDeletes[c] = 0

\* The object at the address of c: the client that lives there; when nobody
\* does, c again.
Occupies(d, c) == /\ address[d] = address[c]
                  /\ \/ Lives(d)
                     \/ d = c /\ \A e \in Clients : address[e] = address[c] => ~Lives(e)

\* delete of the key of the entry of c.
DeleteClient(c) ==
    \E d \in Clients :
        /\ Occupies(d, c)
        /\ clientDeletes' = [clientDeletes EXCEPT ![d] = @ + 1]
        /\ dataDeletes' = IF d \in private THEN [dataDeletes EXCEPT ![d] = @ + 1]
                                           ELSE dataDeletes

\* The map is walked in the order of its keys.
FirstOf(c, entries) == c \in entries /\ \A d \in entries : address[c] <= address[d]

\* pthread_cond_signal(&wake_up_update_thread): lost unless it is waited for.
Signal == update' = IF update = "waiting" THEN "woken" ELSE update

-----------------------------------------------------------------------------
(* main: accept, then ~Server.                                             *)

\* Mutant: the client is not kept for its registration.
AcceptUnkept(c) ==
    /\ main = "accept"
    /\ download[c] = "none"
    /\ download' = [download EXCEPT ![c] = "header"]
    /\ main' = "register"
    /\ UNCHANGED <<acceptVars, cancelled, left, client_threads, cache, upload,
                   dataVars, updateVars, heapVars>>

\* accept() creates the client, where no other lives, and starts its thread
\* before it registers it.  (Clients are numbered as they come.)
Accept(c) ==
    /\ main = "accept"
    /\ download[c] = "none"
    /\ \A d \in Clients : d < c => download[d] # "none"
    /\ \E a \in Addresses : /\ \A d \in Clients : Lives(d) => address[d] # a
                            /\ address' = [address EXCEPT ![c] = a]
    /\ download' = [download EXCEPT ![c] = "header"]
    /\ fresh' = c
    /\ main' = "register"
    /\ UNCHANGED <<lost, cancelled, left, client_threads, cache, upload,
                   dataVars, updateVars, heapVars>>

\* map::insert leaves an entry with the same key alone.
Register ==
    /\ main = "register"
    /\ IF \E c \in client_threads : address[c] = address[fresh]
       THEN lost' = lost \cup {fresh} /\ UNCHANGED client_threads
       ELSE client_threads' = client_threads \cup {fresh} /\ UNCHANGED lost
    /\ main' = "accept" /\ fresh' = None
    /\ UNCHANGED <<address, cancelled, left, cache, threadVars, updateVars,
                   heapVars>>

\* Mutant: the update thread is woken but not cancelled.
StopUncancelled ==
    /\ main = "accept"
    /\ main' = "wake_update"
    /\ UNCHANGED <<cancelled, acceptVars, left, client_threads, cache,
                   threadVars, updateVars, heapVars>>

\* SIGINT ends the accept loop; ~Server cancels the update thread, ...
Stop == /\ main = "accept"
        /\ main' = "wake_update"
        /\ cancelled' = TRUE
        /\ UNCHANGED <<acceptVars, left, client_threads, cache, threadVars,
                       updateVars, heapVars>>

\* ... signals it, which may already have been cancelled, ...
WakeUpdate == /\ main = "wake_update"
              /\ main' = "join_update"
              /\ Signal
              /\ UNCHANGED <<acceptVars, cancelled, left, client_threads,
                             cache, threadVars, tmp, to_delete, heapVars>>

\* Mutant: what the update thread was about to join is taken for joined.
JoinUpdateTrusting ==
    /\ main = "join_update"
    /\ update = "ended"
    /\ main' = "reap"
    /\ left' = client_threads \ tmp
    /\ UNCHANGED <<acceptVars, cancelled, client_threads, cache, threadVars,
                   updateVars, heapVars>>

\* ... and joins it.
JoinUpdate == /\ main = "join_update"
              /\ update = "ended"
              /\ main' = "reap"
              /\ left' = client_threads
              /\ UNCHANGED <<acceptVars, cancelled, client_threads, cache,
                             threadVars, updateVars, heapVars>>

\* The clients that are still in the map: join the thread, delete the client.
Reap(c) == /\ main = "reap"
           /\ FirstOf(c, left)
           /\ download[c] = "ended"
           /\ left' = left \ {c}
           /\ DeleteClient(c)
           /\ UNCHANGED <<main, acceptVars, cancelled, client_threads, cache,
                          threadVars, updateVars>>

InCache(d) == \E u \in Urls : cache[u] = d

\* At last whatever the cache still holds is deleted.
ReapCache == /\ main = "reap"
             /\ left = {}
             /\ main' = "exited"
             /\ dataDeletes' = [d \in Clients |-> IF InCache(d) THEN dataDeletes[d] + 1
                                                  ELSE dataDeletes[d]]
             /\ cache' = [u \in Urls |-> None]
             /\ UNCHANGED <<acceptVars, cancelled, left, client_threads,
                            threadVars, updateVars, clientDeletes>>

-----------------------------------------------------------------------------
(* The download thread of client c.                                        *)

Goto(c, there) == download' = [download EXCEPT ![c] = there]

SignalAndExit(c) == Signal /\ Goto(c, "ended")

\* What readHttpHeader returns: -1, or -2 for a header that came only in part.
readHttpHeader == {-2, -1, 0}
connectResourceServer == {-1, 0}
sendRequest == {-1, 0}

\* On -1 the thread signals and exits.  On anything else but 0 download() runs
\* off its end: the thread ends without a signal.
Fails(c, status) == \/ status = -1 /\ SignalAndExit(c)
                    \/ status = -2 /\ Goto(c, "ended") /\ UNCHANGED update

\* A request for nothing ends the thread, too.
ReadHeader(c) ==
    /\ download[c] = "header"
    /\ \E status \in readHttpHeader :
          \/ Fails(c, status) /\ UNCHANGED url
          \/ status = 0 /\ SignalAndExit(c) /\ UNCHANGED url
          \/ /\ status = 0
             /\ \E u \in Urls : url' = [url EXCEPT ![c] = u]
             /\ Goto(c, "lookup")
             /\ UNCHANGED update
    /\ UNCHANGED <<mainVars, client_threads, cache, upload, resource, data,
                   private, broken, tmp, to_delete, heapVars>>

\* getCachedResource, up to the unlocking of data_mutex.
Lookup(c) ==
    /\ download[c] = "lookup"
    /\ resource' = [resource EXCEPT ![c] = cache[url[c]]]
    /\ Goto(c, IF cache[url[c]] # None THEN "found" ELSE "connect")
    /\ UNCHANGED <<mainVars, client_threads, cache, upload, url, data, private,
                   broken, updateVars, heapVars>>

\* resource->second is read after the unlocking: from freed memory, when the
\* node has been erased since.
Found(c) ==
    /\ download[c] = "found"
    /\ \E d \in IF cache[url[c]] = resource[c] THEN {resource[c]}
                                               ELSE {resource[c], Garbage} :
          data' = [data EXCEPT ![c] = d]
    /\ Goto(c, "signal")
    /\ UNCHANGED <<mainVars, client_threads, cache, upload, url, resource,
                   private, broken, updateVars, heapVars>>

\* The update thread is woken before the sending starts.
StartSending(c) == /\ download[c] = "signal"
                   /\ Signal
                   /\ Goto(c, "serve")
                   /\ UNCHANGED <<mainVars, client_threads, cache, upload,
                                  dataVars, tmp, to_delete, heapVars>>

\* sendResource returns: all sent, the client gone, or the Data broken.  It need
\* not: at and popFirst may sleep for ever.
ServeEnds(c) == /\ download[c] = "serve"
                /\ Goto(c, "ended")
                /\ UNCHANGED <<mainVars, client_threads, cache, upload,
                               dataVars, updateVars, heapVars>>

\* The exchange with the resource server, a status at a time.
Exchange(c, here, statuses, there) ==
    /\ download[c] = here
    /\ \E status \in statuses :
          \/ Fails(c, status)
          \/ status = 0 /\ Goto(c, there) /\ UNCHANGED update
    /\ UNCHANGED <<mainVars, client_threads, cache, upload, dataVars, tmp,
                   to_delete, heapVars>>

Connect(c) == Exchange(c, "connect", connectResourceServer, "send_request")
SendRequest(c) == Exchange(c, "send_request", sendRequest, "get_response")
ReadResponse(c) == Exchange(c, "get_response", readHttpHeader, "parse")

\* A new Data, to be cached if the status is OK.
parseResponse(c) ==
    /\ download[c] = "parse"
    /\ data' = [data EXCEPT ![c] = c]
    /\ \/ Goto(c, "insert") /\ UNCHANGED private
       \/ Goto(c, "start") /\ private' = private \cup {c}
    /\ UNCHANGED <<mainVars, client_threads, cache, upload, url, resource,
                   broken, updateVars, heapVars>>

\* cache.insert leaves an entry that another client made meanwhile alone.
Insert(c) ==
    /\ download[c] = "insert"
    /\ cache' = [cache EXCEPT ![url[c]] = IF @ = None THEN c ELSE @]
    /\ Goto(c, "start")
    /\ UNCHANGED <<mainVars, client_threads, upload, dataVars, updateVars,
                   heapVars>>

StartUpload(c) == /\ download[c] = "start"
                  /\ upload' = [upload EXCEPT ![c] = "serve"]
                  /\ Goto(c, "download")
                  /\ UNCHANGED <<mainVars, client_threads, cache, dataVars,
                                 updateVars, heapVars>>

\* getResource returns: the Data is coherent or marked for deletion.
Downloaded(c) == /\ download[c] = "download"
                 /\ broken' \in {broken, broken \cup {c}}
                 /\ Goto(c, "join")
                 /\ UNCHANGED <<mainVars, client_threads, cache, upload, url,
                                resource, data, private, updateVars, heapVars>>

JoinUpload(c) == /\ download[c] = "join"
                 /\ upload[c] = "ended"
                 /\ SignalAndExit(c)
                 /\ UNCHANGED <<mainVars, client_threads, cache, upload,
                                dataVars, tmp, to_delete, heapVars>>

UploadEnds(c) == /\ upload[c] = "serve"
                 /\ upload' = [upload EXCEPT ![c] = "ended"]
                 /\ UNCHANGED <<mainVars, client_threads, cache, download,
                                dataVars, updateVars, heapVars>>

ClientStep(c) == \/ ReadHeader(c) \/ Lookup(c) \/ Found(c) \/ StartSending(c)
                 \/ ServeEnds(c) \/ Connect(c) \/ SendRequest(c) \/ ReadResponse(c)
                 \/ parseResponse(c) \/ Insert(c) \/ StartUpload(c) \/ Downloaded(c)
                 \/ JoinUpload(c) \/ UploadEnds(c)

-----------------------------------------------------------------------------
(* The update thread: updateStructures.  It is cancelled at cond_wait, at  *)
(* the two testcancel calls, in pthread_join, and in close() of ~Client.   *)

SpuriousWakeup == /\ update = "waiting"
                  /\ update' = "woken"
                  /\ UNCHANGED <<mainVars, client_threads, cache, threadVars,
                                 tmp, to_delete, heapVars>>

CancelledInWait == /\ update = "waiting" /\ cancelled
                   /\ update' = "ended"
                   /\ UNCHANGED <<mainVars, client_threads, cache, threadVars,
                                  tmp, to_delete, heapVars>>

Snapshot == /\ update = "woken"
            /\ IF cancelled THEN update' = "ended" /\ UNCHANGED <<tmp,
                                                                  to_delete>>
               ELSE /\ update' = "joining"
                    /\ tmp' = client_threads
                    /\ to_delete' = {}
            /\ UNCHANGED <<mainVars, client_threads, cache, threadVars,
                           heapVars>>

\* Mutant: the thread's end is not waited for.
DeleteUnjoined(c) == /\ update = "joining"
                     /\ c \in tmp
                     /\ tmp' = tmp \ {c}
                     /\ to_delete' = to_delete \cup {c}
                     /\ DeleteClient(c)
                     /\ UNCHANGED <<mainVars, client_threads, cache,
                                    threadVars, update>>

JoinClient(c) == /\ update = "joining"
                 /\ FirstOf(c, tmp)
                 /\ download[c] = "ended"
                 /\ tmp' = tmp \ {c}
                 /\ to_delete' = to_delete \cup {c}
                 /\ DeleteClient(c)
                 /\ UNCHANGED <<mainVars, client_threads, cache, threadVars, update>>

CancelledInJoin == /\ update = "joining" /\ tmp # {} /\ cancelled
                   /\ update' = "ended"
                   /\ UNCHANGED <<mainVars, client_threads, cache, threadVars, tmp,
                                  to_delete, heapVars>>

\* The Data of the client, and its memory, are given back all the same.
CancelledInClose(c) == /\ update = "joining" /\ cancelled
                       /\ FirstOf(c, tmp)
                       /\ download[c] = "ended"
                       /\ DeleteClient(c)
                       /\ update' = "ended"
                       /\ UNCHANGED <<mainVars, client_threads, cache, threadVars, tmp,
                                      to_delete>>

\* The entries are erased by their keys.
EraseJoined ==
    /\ update = "joining" /\ tmp = {}
    /\ client_threads' = {c \in client_threads :
                             \A d \in to_delete : address[d] # address[c]}
    /\ update' = "cleaning"
    /\ UNCHANGED <<mainVars, cache, threadVars, tmp, to_delete, heapVars>>

\* Mutant: entries are deleted but not erased.
CleanUnerased ==
    /\ update = "cleaning"
    /\ dataDeletes' = [d \in Clients |-> IF InCache(d) /\ d \in broken
                                         THEN dataDeletes[d] + 1 ELSE dataDeletes[d]]
    /\ update' = IF cancelled THEN "ended" ELSE "waiting"
    /\ UNCHANGED <<mainVars, client_threads, cache, threadVars, tmp, to_delete,
                   clientDeletes>>

\* updateCache deletes and erases the broken entries, whoever reads them; then
\* the loop starts over.
updateCache ==
    /\ update = "cleaning"
    /\ dataDeletes' = [d \in Clients |-> IF InCache(d) /\ d \in broken
                                         THEN dataDeletes[d] + 1 ELSE dataDeletes[d]]
    /\ cache' = [u \in Urls |-> IF cache[u] \in broken THEN None ELSE cache[u]]
    /\ update' = IF cancelled THEN "ended" ELSE "waiting"
    /\ UNCHANGED <<mainVars, client_threads, threadVars, tmp, to_delete,
                   clientDeletes>>

UpdateStep == \/ CancelledInWait \/ Snapshot \/ CancelledInJoin \/ EraseJoined
              \/ updateCache
              \/ \E c \in Clients : JoinClient(c) \/ CancelledInClose(c)

MainStep == \/ Register \/ WakeUpdate \/ JoinUpdate \/ ReapCache
            \/ \E c \in Clients : Reap(c)

Exited == main = "exited" /\ UNCHANGED vars

Next == \/ \E c \in Clients : Accept(c) \/ ClientStep(c)
        \/ Stop \/ MainStep
        \/ SpuriousWakeup \/ UpdateStep
        \/ Exited

\* sendResource is what a thread of the client is in.
Sending(c) == download[c] = "serve" \/ upload[c] = "serve"

\* The download thread goes on, unless it sends.
Proceeds(c) == ClientStep(c) /\ download[c] # "serve" /\ download[c]' # download[c]

\* Threads that can go on do, and a remote end answers or closes in the end;
\* but sendResource need not return, and neither clients nor SIGINT need come.
Spec == /\ Init /\ [][Next]_vars
        /\ WF_vars(MainStep) /\ WF_vars(UpdateStep)
        /\ \A c \in Clients : WF_vars(Proceeds(c))

-----------------------------------------------------------------------------
MainStates == {"accept", "register", "wake_update", "join_update", "reap",
               "exited"}
UpdateStates == {"waiting", "woken", "joining", "cleaning", "ended"}
DownloadStates == {"none", "header", "lookup", "found", "signal", "serve", "connect",
                   "send_request", "get_response", "parse", "insert", "start",
                   "download", "join", "ended"}

\* The threads are in one of their states, and every pointer and map entry
\* names a client or a Data that exists.
TypeOK == /\ main \in MainStates
          /\ fresh \in Clients \cup {None}
          /\ address \in [Clients -> Addresses \cup {None}]
          /\ client_threads \subseteq Clients /\ lost \subseteq Clients
          /\ cache \in [Urls -> Clients \cup {None}]
          /\ download \in [Clients -> DownloadStates]
          /\ upload \in [Clients -> {"none", "serve", "ended"}]
          /\ url \in [Clients -> Urls \cup {None}]
          /\ resource \in [Clients -> Clients \cup {None}]
          /\ data \in [Clients -> Clients \cup {None, Garbage}]
          /\ private \subseteq Clients /\ broken \subseteq Clients
          /\ update \in UpdateStates
          /\ tmp \subseteq Clients /\ to_delete \subseteq Clients
          /\ cancelled \in BOOLEAN
          /\ left \subseteq Clients
          /\ clientDeletes \in [Clients -> Nat]
          /\ dataDeletes \in [Clients -> Nat]

Running(c) == download[c] \notin {"none", "ended"} \/ upload[c] = "serve"

\* A client's object, and the server, outlive both threads of the client,
\* whether the update thread or ~Server comes to delete it: unless the client
\* is lost, which was put where a deleted client had been that was still in
\* client_threads.  Nobody joins that one, and ~Server may delete it under its
\* threads.
ClientOutlivesThreads ==
    \A c \in Clients \ lost : Running(c) => clientDeletes[c] = 0 /\ main # "exited"

\* Clients are lost in no other way.
LostByAddress == \A c \in lost : \E d \in Clients \ {c} :
                     address[d] = address[c] /\ clientDeletes[d] > 0

\* The Data that a thread reads is there, and so is, when it reads it, the node
\* of the cache that it found: unless the Data was marked broken.
Reads(c) == download[c] \in {"signal", "serve", "insert", "start", "download", "join"}
            \/ upload[c] = "serve"

OnlyBrokenDataDies ==
    \A c \in Clients \ lost :
        /\ download[c] = "found" => cache[url[c]] = resource[c] \/ resource[c] \in broken
        /\ Reads(c) => IF data[c] = Garbage THEN resource[c] \in broken
                       ELSE dataDeletes[data[c]] > 0 => data[c] \in broken

CacheIsLive == \A u \in Urls : cache[u] # None => dataDeletes[cache[u]] = 0

DataDeletedOnce ==
    \A d \in Clients : dataDeletes[d] <= 1 \/ clientDeletes[d] > 1

\* In whatever order downloads break off, clients come and the cache is
\* cleaned: every entry of the cache is a Data that was not deleted, only
\* broken Data is deleted under a reader, and none is deleted twice, unless a
\* cancelled update thread left ~Server a client to delete for the second time.
DataLifetimes == CacheIsLive /\ OnlyBrokenDataDies /\ DataDeletedOnce

\* Some sender sleeps for ever.
ASenderSleeps == \E c \in Clients : <>[]Sending(c)

\* ~Server returns, unless a sender sleeps for ever: it waits for the update
\* thread and the clients in an order that cannot block.
ShutdownEnds == (main = "wake_update" ~> main = "exited") \/ ASenderSleeps

\* When the update thread has been woken, every client in the map by then is
\* deleted in the end, by it or by ~Server, with the same exception.
RegisteredAreReclaimed ==
    \/ \A c \in Clients :
          update = "woken" /\ c \in client_threads ~> clientDeletes[c] > 0
    \/ ASenderSleeps

-----------------------------------------------------------------------------
\* main.cpp:29 "use SIGINT to finish program in the good way": no client is
\* deleted twice on the way out.
ClientDeletedOnce == \A c \in Clients : clientDeletes[c] <= 1
=============================================================================
