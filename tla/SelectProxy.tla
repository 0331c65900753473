----------------------------- MODULE SelectProxy ----------------------------
(***************************************************************************)
(* pthreads/laboratory_work_#29: the proxy in one thread around select().  *)
(* The map clients has an entry per socket that takes part: a type, which  *)
(* says what comes next on the socket, and the Client the socket belongs   *)
(* to.  A Client has two sockets, so it can be behind two entries; its     *)
(* delete_request lets the side that ends last delete it.                  *)
(*                                                                         *)
(* A Data is named by the client that downloaded it.  Its pieces are left  *)
(* out: a sender that has not ended may send, find nothing to send, or     *)
(* end.  Iterators that are used after their entry was erased are taken to *)
(* yield the value they had.                                               *)
(***************************************************************************)
EXTENDS Integers, FiniteSets

CONSTANTS Clients,  \* the connections there will be
          Urls,     \* what they ask for
          None      \* neither of them

\* The descriptors: "c" to the client, "r" to the resource server.  accept and
\* socket() take the lowest free number, so a client's "c" is below its "r".
Sockets == Clients \X {"c", "r"}
CS(c) == <<c, "c">>
RS(c) == <<c, "r">>

Types == {"GET_REQUEST", "SEND_REQUEST", "GET_RESOURCE", "SEND_RESOURCE",
          "GET_RESPONSE", "CONNECT", "NONE"}

VARIABLES
    type,            \* the map clients: of each socket, its type or "absent"
    made,            \* the Client objects created so far
    open,            \* the descriptors that are open
    http_header,     \* of each client: what it points to
    delete_request,  \* of each client
    url,             \* of each client: requested_resource
    data,            \* of each client: the Data its data.first points to
    private,         \* clients with data.second = -1
    cache,           \* url -> Data
    broken,          \* Data with delete_request set
    coherent,        \* Data with coherence set
    loop,            \* main: in select, running the actions, or ended
    todo,            \* the sockets whose action is to be run
    stop,            \* SIGINT came
    deletes,         \* of each client: how often its object was deleted
    dataDeletes      \* of each Data: how often it was deleted

clientVars == <<made, http_header, delete_request, url, data, private>>
dataVars == <<cache, broken, coherent>>
heapVars == <<open, deletes, dataDeletes>>
vars == <<type, clientVars, dataVars, heapVars, loop, todo, stop>>

Init == /\ type = [s \in Sockets |-> "absent"]
        /\ made = {} /\ open = {}
        /\ http_header = [c \in Clients |-> "none"]
        /\ delete_request = [c \in Clients |-> FALSE]
        /\ url = [c \in Clients |-> None]
        /\ data = [c \in Clients |-> None]
        /\ private = {}
        /\ cache = [u \in Urls \cup {None} |-> None]
        /\ broken = {} /\ coherent = {}
        /\ loop = "select" /\ todo = {} /\ stop = FALSE
        /\ deletes = [c \in Clients |-> 0]
        /\ dataDeletes = [c \in Clients |-> 0]

-----------------------------------------------------------------------------
(* The map and the objects.                                                *)

Without(t, s) == [t EXCEPT ![s] = "absent"]

\* changeSocketType leaves a socket without entry alone.
Retyped(t, s, new) == IF t[s] = "absent" THEN t ELSE [t EXCEPT ![s] = new]

\* addClientResourceSocket: a second entry, for the other socket.
WithResourceSocket(t, c) == [t EXCEPT ![RS(c)] = "CONNECT"]

\* ~Client closes what is open of its sockets and deletes a Data of its own.
DeleteObject(c, opened) ==
    /\ deletes' = [deletes EXCEPT ![c] = @ + 1]
    /\ open' = opened \ {CS(c), RS(c)}
    /\ dataDeletes' = IF c \in private THEN [dataDeletes EXCEPT ![data[c]] = @ + 1]
                                       ELSE dataDeletes

\* Mutant: the entries of both sockets are removed.
RejectBoth(s) ==
    LET t == Without(type, CS(s[1]))
    IN  /\ type' = Without(t, RS(s[1]))
        /\ IF t[s] # "absent" THEN DeleteObject(s[1], open) ELSE UNCHANGED heapVars

\* deleteClient(client->getSocket()); delete deleteClient(socket): if the two
\* sockets are the same, the second call finds nothing to delete.
Reject(s) ==
    LET t == Without(type, CS(s[1]))
    IN  /\ type' = Without(t, s)
        /\ IF t[s] # "absent" THEN DeleteObject(s[1], open) ELSE UNCHANGED heapVars

-----------------------------------------------------------------------------
(* main: one turn of its loop selects, accepts at most one client, runs    *)
(* the actions of the ready sockets in the order of their numbers, and     *)
(* cleans the cache.                                                       *)

\* What is sure to be ready for writing: a client's socket before SEND_RESOURCE,
\* as nothing was sent to it; a resource socket that took the request.
Writable == {CS(c) : c \in {d \in Clients : type[CS(d)] = "SEND_REQUEST"}} \cup
            {RS(c) : c \in {d \in Clients : type[RS(d)] = "CONNECT"
                                             /\ http_header[d] = "response"}}

\* The constructor opens the resource socket at once.
Client(c) == /\ made' = made \cup {c}
             /\ open' = open \cup {CS(c), RS(c)}

accept(c) == /\ c \notin made
             /\ Client(c)
             /\ type' = [type EXCEPT ![CS(c)] = "GET_REQUEST"]

Select(ready) ==
    /\ loop = "select" /\ ~stop
    /\ Writable \subseteq ready
    /\ ready \subseteq {s \in Sockets : type[s] \notin {"absent", "NONE"}}
    /\ ready \subseteq open
    /\ todo' = ready
    /\ loop' = "run"
    /\ \/ \E c \in Clients : accept(c)
       \/ ready # {} /\ UNCHANGED <<made, open, type>>
    /\ UNCHANGED <<http_header, delete_request, url, data, private, dataVars, stop,
                   deletes, dataDeletes>>

InCache(d) == \E u \in DOMAIN cache : cache[u] = d

\* Mutant: every entry is deleted.
CleanAll ==
    /\ loop = "run" /\ todo = {}
    /\ dataDeletes' = [d \in Clients |-> IF InCache(d) THEN dataDeletes[d] + 1
                                                       ELSE dataDeletes[d]]
    /\ cache' = [u \in DOMAIN cache |-> None]
    /\ loop' = "select"
    /\ UNCHANGED <<type, clientVars, broken, coherent, open, deletes, todo, stop>>

\* At the end of a turn the broken Data of the cache are deleted and erased.
updateCache ==
    /\ loop = "run" /\ todo = {}
    /\ dataDeletes' = [d \in Clients |-> IF InCache(d) /\ d \in broken
                                         THEN dataDeletes[d] + 1 ELSE dataDeletes[d]]
    /\ cache' = [u \in DOMAIN cache |-> IF cache[u] \in broken THEN None ELSE cache[u]]
    /\ loop' = "select"
    /\ UNCHANGED <<type, clientVars, broken, coherent, open, deletes, todo, stop>>

Interrupt == /\ ~stop /\ loop \in {"select", "run"}
             /\ stop' = TRUE
             /\ UNCHANGED <<type, clientVars, dataVars, heapVars, loop, todo>>

\* ~Server: the Client behind every entry, then every Data of the cache.
Entries(c) == {s \in {CS(c), RS(c)} : type[s] # "absent"}

Shutdown ==
    /\ loop = "select" /\ stop
    /\ loop' = "exited"
    /\ deletes' = [c \in Clients |-> deletes[c] + Cardinality(Entries(c))]
    /\ open' = {s \in open : Entries(s[1]) = {}}
    /\ dataDeletes' = [d \in Clients |->
            dataDeletes[d] + (IF InCache(d) THEN 1 ELSE 0)
                           + (IF d \in private THEN Cardinality(Entries(d)) ELSE 0)]
    /\ UNCHANGED <<type, clientVars, dataVars, todo, stop>>

-----------------------------------------------------------------------------
(* The part of execClientAction that runs for a type.                      *)

\* What the client's methods return.  Without a request header there is nothing
\* to connect to; -2 asks to wait.  A part of the request is sent only if SIGINT
\* interrupts sending, the socket being a blocking one again.
connectResourceServer(header) == IF header = "request" THEN {-2, -1, 0} ELSE {-1}
sendRequest == IF stop THEN {-1, 0, 1} ELSE {-1, 0}
readHttpHeader == {-2, -1, 0}

\* CONNECT; t and header are what the case for GET_REQUEST left if it fell through.
Connected(s, t, header) ==
    \E error \in connectResourceServer(header) :
        LET u == Without(t, CS(s[1]))
        IN  \/ /\ error = -1
               /\ type' = Without(u, s)
               /\ IF u[s] # "absent" THEN DeleteObject(s[1], open) ELSE UNCHANGED heapVars
            \/ /\ error # -1
               /\ type' = IF error = 0 THEN Retyped(t, s, "SEND_REQUEST") ELSE t
               /\ UNCHANGED heapVars

Connect(s) == /\ Connected(s, type, http_header[s[1]])
              /\ UNCHANGED <<clientVars, dataVars>>

\* The resource is in the cache.
RequestCached(s) ==
    \E u \in Urls :
        /\ cache[u] # None
        /\ url' = [url EXCEPT ![s[1]] = u]
        /\ data' = [data EXCEPT ![s[1]] = cache[u]]
        /\ type' = Retyped(type, s, "SEND_RESOURCE")
        /\ UNCHANGED <<made, delete_request, private, dataVars, heapVars>>

\* It is not: the resource socket gets an entry, and the case falls through to
\* CONNECT, on the client's socket.
RequestMissed(s) ==
    \E u \in Urls :
        /\ cache[u] = None
        /\ url' = [url EXCEPT ![s[1]] = u]
        /\ Connected(s, WithResourceSocket(Retyped(type, s, "NONE"), s[1]), "request")
        /\ UNCHANGED <<made, delete_request, data, private, dataVars>>

\* If reading failed, or the request is for nothing, the client is deleted.  A
\* part of a header falls through to CONNECT, too.
GetRequest(s) ==
    \E status \in readHttpHeader :
        /\ http_header' = [http_header EXCEPT ![s[1]] = IF status = -1 THEN "none"
                                                                       ELSE "request"]
        /\ \/ /\ status # -2
              /\ type' = Without(type, s)
              /\ DeleteObject(s[1], open)
              /\ UNCHANGED <<made, delete_request, url, data, private, dataVars>>
           \/ status = 0 /\ (RequestCached(s) \/ RequestMissed(s))
           \/ /\ status = -2
              /\ Connected(s, type, "request")
              /\ UNCHANGED <<made, delete_request, url, data, private, dataVars>>

SendRequest(s) ==
    /\ \E error \in sendRequest :
          \/ error = -1 /\ Reject(s) /\ UNCHANGED http_header
          \/ /\ error = 0
             /\ type' = Retyped(type, s, "GET_RESPONSE")
             /\ http_header' = [http_header EXCEPT ![s[1]] = "response"]
             /\ UNCHANGED heapVars
          \/ error = 1 /\ UNCHANGED <<type, http_header, heapVars>>
    /\ UNCHANGED <<made, delete_request, url, data, private, dataVars>>

\* cache.insert leaves an entry another client made meanwhile alone.
Inserted(c) == [cache EXCEPT ![url[c]] = IF @ = None THEN c ELSE @]

\* Mutant: the new Data stays in a local variable.
LocalData(c) == data

\* parseResponse: data.first is a Data of the client's own making.
NewData(c) == [data EXCEPT ![c] = c]

\* A response: incomplete, failed, or a new Data, which is shared if the status
\* is OK and otherwise the client's own.
GetResponse(s) ==
    LET c == s[1]
    IN  \E error \in readHttpHeader :
          \/ error = -2 /\ UNCHANGED <<type, clientVars, dataVars, heapVars>>
          \/ /\ error = -1
             /\ Reject(s)
             /\ http_header' = [http_header EXCEPT ![c] = "none"]
             /\ UNCHANGED <<made, delete_request, url, data, private, dataVars>>
          \/ /\ error = 0
             /\ data' = NewData(c)
             /\ \/ cache' = Inserted(c) /\ UNCHANGED private
                \/ private' = private \cup {c} /\ UNCHANGED cache
             /\ type' = Retyped(Retyped(type, CS(c), "SEND_RESOURCE"), s, "GET_RESOURCE")
             /\ UNCHANGED <<made, http_header, delete_request, url, broken, coherent,
                            heapVars>>

\* Mutant: the side that ends first deletes the client.
FirstDeletes(s, closed) ==
    /\ type' = Without(type, s)
    /\ DeleteObject(s[1], open \ {closed})
    /\ UNCHANGED delete_request

\* One side of the client has ended: its socket is closed, and if the other
\* side has ended before, the client is deleted.
SideEnds(s, closed) ==
    LET c == s[1]
    IN  /\ type' = Without(type, s)
        /\ IF delete_request[c]
           THEN DeleteObject(c, open \ {closed}) /\ UNCHANGED delete_request
           ELSE /\ delete_request' = [delete_request EXCEPT ![c] = TRUE]
                /\ open' = open \ {closed}
                /\ UNCHANGED <<deletes, dataDeletes>>

\* getResource returns -1 when nothing more comes; the Data is then broken if its
\* length was given and is not reached, and complete otherwise.
ResourceEnds(d) == \/ broken' = broken \cup {d} /\ UNCHANGED coherent
                   \/ coherent' = coherent \cup {d} /\ UNCHANGED broken

GetResource(s) ==
    \/ UNCHANGED <<type, clientVars, dataVars, heapVars>>
    \/ /\ ResourceEnds(data[s[1]])
       /\ SideEnds(s, RS(s[1]))
       /\ UNCHANGED <<made, http_header, url, data, private, cache>>

\* What sendResource returns: -1 when all is sent, the Data is broken or the
\* client has gone, 0 when there is nothing to send yet, or what is left to send.
sendResource(d) == IF d \in broken THEN {-1} ELSE {-1, 0, 1}

SendResource(s) ==
    \E error \in sendResource(data[s[1]]) :
        \/ error # -1 /\ UNCHANGED <<type, clientVars, dataVars, heapVars>>
        \/ /\ error = -1
           /\ SideEnds(s, CS(s[1]))
           /\ UNCHANGED <<made, http_header, url, data, private, dataVars>>

execClientAction(s) ==
    /\ loop = "run" /\ s \in todo
    /\ s[2] = "r" => CS(s[1]) \notin todo
    /\ todo' = todo \ {s}
    /\ \/ type[s] = "GET_REQUEST" /\ GetRequest(s)
       \/ type[s] = "CONNECT" /\ Connect(s)
       \/ type[s] = "SEND_REQUEST" /\ SendRequest(s)
       \/ type[s] = "GET_RESPONSE" /\ GetResponse(s)
       \/ type[s] = "GET_RESOURCE" /\ GetResource(s)
       \/ type[s] = "SEND_RESOURCE" /\ SendResource(s)
    /\ UNCHANGED <<loop, stop>>

Exited == loop = "exited" /\ UNCHANGED vars

Next == \/ \E ready \in SUBSET Sockets : Select(ready)
        \/ \E s \in Sockets : execClientAction(s)
        \/ updateCache \/ Interrupt \/ Shutdown \/ Exited

Spec == Init /\ [][Next]_vars

-----------------------------------------------------------------------------
\* The map has sockets of the known types, and pointers point to objects.
TypeOK == /\ type \in [Sockets -> Types \cup {"absent"}]
          /\ made \subseteq Clients /\ open \subseteq Sockets
          /\ http_header \in [Clients -> {"none", "request", "response"}]
          /\ delete_request \in [Clients -> BOOLEAN]
          /\ url \in [Clients -> Urls \cup {None}]
          /\ data \in [Clients -> Clients \cup {None}]
          /\ private \subseteq Clients
          /\ cache \in [Urls \cup {None} -> Clients \cup {None}]
          /\ broken \subseteq Clients /\ coherent \subseteq Clients
          /\ loop \in {"select", "run", "exited"}
          /\ todo \subseteq Sockets /\ stop \in BOOLEAN
          /\ deletes \in [Clients -> Nat] /\ dataDeletes \in [Clients -> Nat]

\* Behind every entry of the map is a client that was not deleted and a socket
\* that is open, so select never fails over a stale descriptor and no entry
\* outlives its object, whichever side of a client ends first; and while the
\* server runs no client is deleted twice.
EntriesAlive ==
    loop # "exited" =>
        /\ \A s \in Sockets : type[s] # "absent" => s \in open /\ deletes[s[1]] = 0
        /\ \A c \in Clients : deletes[c] <= 1

\* The actions of a turn are chosen before the first of them runs, and find
\* their sockets in the map nevertheless; and sendRequest finds the request, no
\* other action having replaced the header.
ChoicesHold ==
    /\ \A s \in todo : type[s] \notin {"absent", "NONE"}
    /\ \A s \in Sockets : type[s] = "SEND_REQUEST" => http_header[s[1]] = "request"

CacheIsLive == \A u \in DOMAIN cache : cache[u] # None => dataDeletes[cache[u]] = 0

\* The sockets that move a Data.
Uses(s) == type[s] \in {"SEND_RESOURCE", "GET_RESOURCE"}

OnlyBrokenDataDies ==
    \A s \in Sockets :
        Uses(s) /\ dataDeletes[data[s[1]]] > 0 => data[s[1]] \in broken

\* While the server runs, every entry of the cache is a Data that was not
\* deleted, and the Data of a socket that moves it is there, unless it broke.
DataLifetimes == loop # "exited" => CacheIsLive /\ OnlyBrokenDataDies
=============================================================================
