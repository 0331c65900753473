------------------------------ MODULE MCProxies -----------------------------
(***************************************************************************)
(* The two HTTP proxies, of which one runs: the threaded one (#30) and the *)
(* one that serves everybody in a single thread with select (#29).         *)
(***************************************************************************)
EXTENDS ProxyServer

VARIABLES type, made, open, http_header, delete_request, select_url, select_data,
          select_private, select_cache, select_broken, coherent, loop, todo, stop,
          deletes, select_dataDeletes,
          program

Select == INSTANCE SelectProxy
              WITH url <- select_url, data <- select_data, private <- select_private,
                   cache <- select_cache, broken <- select_broken,
                   dataDeletes <- select_dataDeletes

selectVars == <<type, made, open, http_header, delete_request, select_url, select_data,
                select_private, select_cache, select_broken, coherent, loop, todo, stop,
                deletes, select_dataDeletes>>
allVars == <<vars, selectVars, program>>

Threaded == program = "threads" /\ UNCHANGED <<selectVars, program>>
Single == program = "select" /\ UNCHANGED <<vars, program>>

MCInit == Init /\ Select!Init /\ program \in {"threads", "select"}

MCNext == (Threaded /\ Next) \/ (Single /\ Select!Next)

\* The fairness of the threaded proxy; the other has no liveness to show.
MCSpec == /\ MCInit /\ [][MCNext]_allVars
          /\ WF_allVars(Threaded /\ MainStep) /\ WF_allVars(Threaded /\ UpdateStep)
          /\ \A c \in Clients : WF_allVars(Threaded /\ Proceeds(c))

-----------------------------------------------------------------------------
\* The types of the two proxies.
ProxiesTypeOK == TypeOK /\ Select!TypeOK

\* Neither proxy deletes what is still in use: a client whose threads run, a Data
\* in the cache, a Data that is read or moved and was not marked broken.  In the
\* threaded one this is so but for the clients that were lost, as they are when
\* they get the address of a client deleted and not yet erased.
NothingDeletedInUse == /\ ClientOutlivesThreads /\ LostByAddress /\ DataLifetimes
                       /\ Select!DataLifetimes

\* In the select proxy entries of the map are alive and were rightly chosen.
EntriesAlive == Select!EntriesAlive
ChoicesHold == Select!ChoicesHold

\* The threaded proxy comes to the end of ~Server, and its update thread or
\* ~Server deletes every client that was registered when it was woken.
ShutdownReclaims == ShutdownEnds /\ RegisteredAreReclaimed
=============================================================================
