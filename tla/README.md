# Verification of sys-prog

`sys-prog` is a collection of system programs: small operating-system
internals (a scheduler, a lock, two allocators, a page table walk), exercises
with POSIX threads that grow up to two caching HTTP proxies, and programs around
the System V interfaces. The programs share no code, so the project has one
module per program or, for the threaded proxy, one per part. This file says what
the parts are, which module models which, what TLC checks, what TLAPS proves,
and what is left.

## 1. Inventory

Each component: its state, its operations, who acts on it, what is hard, what
makes it correct.

| Component (under `src/`) | State | Operations | What is hard |
|---|---|---|---|
| `os-internals/round_robin` | doubly linked list of threads, running thread, quanta used, timeslice | `scheduler_setup`, `new_thread`, `exit_thread`, `block_thread`, `wake_thread`, `timer_tick` | long sequences of calls that relink the list; fairness of "first ready in the list" |
| `os-internals/wait-die` | per lock: owner, guard, inner lock, condition, link; per context: timestamp, list of locks | `wdlock_lock`, `wdlock_unlock` by 8 threads | lost wake-ups, stale owner after the wait, links read after a release |
| `os-internals/slab` | three lists of slabs, headers, a chain of free objects in each slab | `cache_setup`, `cache_alloc`, `cache_free`, `cache_shrink`, `cache_release` | slabs that change lists; one object in a slab |
| `os-internals/allocator` | memory with head and tail tags | `mysetup`, `myalloc`, `myfree` | tag arithmetic, coalescing on both sides |
| `os-internals/paging`, `planning` | none | a page table walk; a plan of tasks | pure functions |
| `pthreads/laboratory_work_#8` | flag, global counter, a counter per thread | threads that sum, main that creates and joins, a SIGINT handler | the signal between two checks |
| `pthreads/laboratory_work_#9` | forks (mutexes), dishes | five philosophers | deadlock, the last dish |
| `pthreads/laboratory_work_#29` | map of sockets with a type each, clients, cache | `select` loop, `execClientAction`, `updateCache`, `~Server` | one object behind two entries; a turn over a copy of the map; deletion |
| `pthreads/laboratory_work_#30`, data | pieces, lengths, `coherence`, `delete_request` | `pushData`, `at`, `popFirst`, flags; `getResource`, `sendResource` | waits outside the mutex of the condition they test |
| `pthreads/laboratory_work_#30`, server | map of client threads keyed by the address of the client, cache, an update thread | `accept`, `download`, `upload`, `updateStructures`, `updateCache`, `~Server` | cancellation points, lost signals, who deletes what, addresses used again |
| `pthreads/laboratory_work_#16` | a list under one mutex, a task status | push, print, stop, the thread's `l_sort` | the first element is moved apart from the rest; main waits for a polling thread; a push that finds no memory gives the list up |
| `pthreads/laboratory_work_#17` | a list with a mutex of its own and one in each node | the same with three sorting threads | lock order, the head used without its lock |
| `pthreads/laboratory_work_#10` | three mutexes handed round, a flag | two threads print in turns | start-up order; each prints after its unlock |
| `pthreads/laboratory_work_#6` | descriptors, the destination's tree | a thread for each file and directory, retries on `EMFILE` | every thread holds one descriptor and waits for another; failures that go unnoticed |
| `pthreads/laboratory_work_#1`-`#5`, `#7` | nothing shared | first exercises | - |
| `OS UNIX+ System V/Message queue/laboratory work #31` | the queue, the sender's table of receivers | register, leave, send a line, finish | slots reused, SIGINT between a test and `msgrcv`, a queue full of what nobody takes |
| `.../laboratory work #32` | a queue, a count of slaves | report, send a line, finish | the count against slaves that come late; a line that reads as a status |
| `.../laboratory work #30` | a queue | send and receive by type | - |
| `.../Shared Memory/laboratory work #34` | one cell, two semaphores | hand a line over | `SEM_UNDO` after a kill, a second start, a segment removed and made again |
| `.../Semaphores/laboratory work #33` | three semaphores | make a detail, take one of each | `SEMVMX`; a process killed at any point, a second start |
| `.../Semaphores/behaviour_test` | five semaphores with one value | lock, end in three ways, unlock | a failed `semop` that is ignored |
| the other directories of `OS UNIX+ System V` | - | single system calls | I/O only |

Interaction. The scheduler, the allocators and the lock are libraries called by
their own `main.c`. In the threaded proxy `main` accepts and registers clients;
each client has a download thread and, for a resource that is not cached, an
upload thread; both reach the `Data` of the resource, which other clients get
from the cache; the update thread is signalled by threads that end, joins and
deletes clients and cleans the cache; `~Server` cancels it and does the rest.
The bus is several processes around one kernel object, and so are the
shared cell, the makers, the test and the status queue, which differ in what a
process that is killed leaves behind.

The hazards found while reading, each at its line, are in `PROJECT.json`.

## 2. Modules

| Module | Models | How |
|---|---|---|
| `Scheduler` | `round_robin/src/scheduler.c` | one action per function of `scheduler.h`; the list is kept by its head, its tail, and `next` and `prev` of each node, and only what a scan passes is a sequence (`Queue`); a freed node may come back from `malloc` |
| `RoundRobin` | what a round-robin scheduler promises | one line of waiting threads and a CPU; no list, no block states |
| `WaitDie` | `wd_lock.c`, `synchro.c`, the threads of `main.c` | a step for every stretch between two blocking calls; contexts are numbered by their timestamps |
| `SlabCache` | `slab.c` | the lists and chains with their links, as the code keeps them; one action per function, one per case of `cache_alloc` |
| `PiSignal` | `#8/main.c` | the sum is the number of blocks added |
| `Philosophers` | `#9/main.c` | forks hold their owner; the sleeps are left out |
| `ProxyData` | `#30`: `Data.cpp`, `getResource`, `sendResource` | pieces are numbered; `to_wait` is the gap between the test and the wait |
| `ProxyServer` | `#30`: `Server.cpp`, `main.cpp` | life of clients, threads, `Data` and cache; clients are numbered as they come and have the address `new` gave them, which is used again, and entries of the map are keyed by it; the cache's node is read in a step after the unlock (`Found`); sending is a state in which the `Data` is read and which need not end |
| `SelectProxy` | `#29`: `Server.cpp`, the results of `Client.cpp`, `main.cpp` | a type per socket, a turn over the sockets chosen by `select` |
| `MessageBus` | `Message queue/laboratory work #31` | a FIFO per message type, all in the room of one queue; lines are numbered |
| `Allocator` | `allocator.c` | the memory byte by byte, so that a tag that is partly overwritten is no tag; `myfree` is a step per turn of its loop |
| `PingPong` | `#10/main.c` | a step per lock, since a thread never holds more than it shows |
| `SortedList` | `#16`: `linked_list.c`, `main.c` | the sort step by step under its mutex; what main does under the mutex is one step; a push that fails leaves an empty list |
| `LockedList` | `#17`: `linked_list.c`, `main.c` | a step from one lock to the next; where the head is used without the list's lock, a step per line |
| `CopyTree` | `#6/main.c` | a thread per entry of a tree; descriptors are counted for each thread and for the process; what fails without anybody noticing is kept in `damaged` and `skipped` |
| `SharedCell` | `Shared Memory/laboratory work #34` | lines are numbered; each process carries what its end would undo; `replaced` is what consumers see whose segment was removed and made again |
| `Widgets` | `Semaphores/laboratory work #33` | the semop on three semaphores is one step; any of the four makers may be killed at any point |
| `SemaphoreTest` | `Semaphores/behaviour_test` | the five semaphores, always changed together, are one value |
| `StatusQueue` | `Message queue/laboratory work #32` | a bounded FIFO; texts are `R`, `F` or a line's number |
| `MCScheduler` | - | timeslices for TLC |
| `MCExercises` | one of seven programs | `PiSignal` and instances of `SortedList`, `CopyTree`, `SharedCell`, `Widgets`, `SemaphoreTest`, `StatusQueue`; `program` says which one runs |
| `MCMutexes` | one of two programs | `Philosophers` and an instance of `PingPong` |
| `MCProxies` | one of the two proxies | `ProxyServer` and an instance of `SelectProxy` |
| `MCAllocators` | a program with one of the two allocators | `SlabCache` and an instance of `Allocator`, one of them used; symmetry of the slabs |
| `*Proofs` | - | theorems, see section 5 |

`ProxyData` and `ProxyServer` share the program but hardly any state, and are
kept apart: the first has the pieces of one resource, the second many resources
with the life of each. State names and action names are those of the source.
Next to a definition there may be a *mutant* of it, an operator with a plausible
mistake in it; each property was seen to fail with one of them in place, listed
in `PROJECT.json`.

Readings of the C and C++ that matter:

- `sa_flags = ~SA_RESTART` in the proxies interrupts blocking calls and, among
  other things, resets the handler, so a second SIGINT kills the program; one
  signal is modelled.
- `download()` of `#30` can flow off its end without a `return`; it is taken
  for the end of the thread.
- `pthread_create(...) < 0` is never true, since errors are positive: the
  branch is never taken. In `CopyTree` a thread that does not start is modelled,
  and `pthread_detach` of the handle that nobody has set may crash the program or
  not (`ReadCrashes`, `ReadSkips`); elsewhere threads are taken to start.
- `#30` is built as C++98 (`CMAKE_CXX_STANDARD 98`), where destructors may be
  unwound: a cancellation in `close()` of `~Client` still gives back the memory
  and the `Data`.
- What a thread of `#30` does with memory that was freed under it is not
  followed: a lost client (section 4) goes on as if its object were there, and
  only an iterator into the cache is read as `Garbage`.
- `malloc` is taken to succeed in `#17`.
- `deleteClient` of `#29` reads an iterator after the erase: the model takes
  the value that was there.
- In `#29` a client's own descriptor is taken to be smaller than that of its
  resource socket, which is how the kernel gives them out when no lower one is
  free; sockets selected for writing are always writable.
- `senders_num` of the bus may exceed the table by one; the element read there
  counts as not alive.
- `SEM_UNDO` is Linux's: when a process ends, the sum of what it did to a
  semaphore is taken back at once, a value below zero becomes zero, and
  `SETALL` clears what is to be undone.
- In `#6` the type of a task whose source is neither a file nor a directory is
  what `malloc` left there: either is tried.
- In `#17` a mutex may be unlocked by a thread that does not hold it, which is
  undefined; the model takes what the usual implementation does, and opens it.
  No property of a passing run depends on it.
- `SIZE_MAX` of `slab.c` is scaled down to 255; only its being larger than any
  count matters.

## 3. Runs

| Run | Instance | Distinct states | Shows |
|---|---|---|---|
| `Scheduler` | 3 nodes, 2 ids, timeslices of `MCScheduler` | 19,896 | list intact, turns sound, no overtaking, every ready thread runs, implements `RoundRobin` |
| `WaitDie` | 4 threads, 2 locks, spurious wake-ups | 168,926 | no lost wake-up, every owner releases, all end |
| `WaitDie_exclusion` | 3 threads, 2 locks | - | two contexts own one lock (violation) |
| `Allocators` | 3 slabs, sizes with 2 and 3 objects a slab; or 70 bytes, requests of 0, 1, 2 and 19 | 73,044 | slabs: lists, chains, mapping, the system is asked only when all slabs are full; heap: areas tile the memory, free neighbours are joined |
| `SlabCache_single` | 2 slabs of one object | - | `cache_alloc` returns no new entry (violation) |
| `Mutexes` | 5 philosophers, 6 dishes (5 are handed out, so that all can hold a fork); or 4 rounds of ping-pong | 261,473 | exclusion, no circular wait, every dish is eaten once; printing in turns; all end with every mutex free |
| `ProxyData` | 3 readers, 2 pieces and the header | 79,537 | order, completeness, what can be slept through |
| `Proxies` | 2 clients, 1 resource, in either proxy; 2 addresses | 155,498 | lifetimes, entries alive, choices hold; shutdown ends and clients are reclaimed, unless a sender sleeps for ever |
| `ProxyServer_shutdown` | 2 clients, 2 addresses, 1 resource | - | a client deleted twice (violation) |
| `MessageBus` | 3 receivers, 2 slots, 2 lines, room for 2 messages | 832,084 | nobody is cut off by others leaving, order of lines, everybody ends unless the queue is jammed |
| `Exercises` | seven programs, bounds below | 416,653 | sums are whole; lists and copies lack what unnoticed failures take, and nothing else; lines arrive, semaphores lose nothing but what a reset takes, nobody waits for ever |
| `LockedList` | 1 sorting thread, 3 nodes | - | the top moved to the end is not the biggest (violation) |

Why the bounds are enough. Scheduler: three nodes give the head, the middle and
the tail of the list, and the theorems cover the rest. WaitDie: two waiters, an
owner and a newcomer are the largest group that meets at one lock, and a second
lock gives the lists and the order of the loop; `main.c` has 8 threads and 18
locks. SlabCache: with three slabs a list has a first, a middle and a last
element, and two and three objects make a slab pass through free, partly and
fully allocated with and without a step in between. Allocator: 70 bytes are four
areas of at most two bytes, so an area in the middle has neighbours that are
free, held or joined from two; a request of 19 in an area of 36 leaves exactly
room for tags and is given the whole, so chunks are split, handed out whole and
refused. Proxies: conflicts are about
one resource, between the client that downloads it and one that reads it or
downloads it again; with two clients and two addresses a deleted client's address
is given to the next one or is not. MessageBus: with one receiver more than slots, a newcomer is
refused, or takes the slot of one that left while another lives above it; two
lines tell order from presence; with room for two messages everybody meets a full
queue. Receivers and clients are numbered as they come,
which loses nothing, since they are alike.

Exercises: pi with 3 threads and 3 blocks has a thread behind, one level and
one ahead at the signal. The list has up to 4 nodes with 3 different lines, so
lines repeat, and swaps of neighbours and of nodes further apart, and moves of
the first to the middle and the end, all happen. The tree has a file, a link
and a directory below the root, and a file below that, with 3 descriptors, so
two threads with one each exclude a third, and all three can hold one. The cell
has two consumers, 3 lines and 2 kills, so that a consumer is killed while
another waits, and one process after it was started again, and a producer that
makes the segment a second time. `SEMVMX` is 2 and 3 details of each kind are
made, so a maker can be refused. The test has two slaves, one of which waits
for the other. The status queue has room for 2 messages and two slaves, so
either can find it full or be late; one line each tells text from status.

`PiSignal` bounds the blocks by `MaxBlock`: without a signal a thread stops
there, so the model covers programs that are interrupted before. `MessageBus`
bounds the lines read by `Lines`, `SortedList` and `LockedList` by `MaxNodes`,
`SharedCell` by `CellLines` and the kills by `Kills`, `StatusQueue` by
`StatusLines`, and `Widgets` the details by `DetailsMax`. No other counter is
bounded by a guard.
Deadlock is checked in every run; programs that end do so in an explicit
stuttering step.

Fairness. Threads and processes are scheduled by the kernel, so each thread's
steps are weakly fair. The remote ends of the proxies answer or close in the
end (the code has no timeouts, so without this nothing could be said). But
`sendResource` of the threaded proxy is not assumed to return: `ProxyData`
shows that a reader may sleep for ever, and then the join of its thread, the
update thread and `~Server` wait for ever, too. So `ServeEnds` and `UploadEnds`
have no fairness, and `ShutdownReclaims` holds unless some sender sleeps for
ever (`ASenderSleeps`). The scheduler has only the timer's fairness,
`WF(timer_tick)`: callers owe nothing. Nobody owes a signal, a new client, a
new receiver, an input line or a spurious wake-up, nor a kill or a new start.
Where a module holds several programs (`MCExercises`, `MCMutexes`,
`MCProxies`), each process has its own fairness condition, which stands for the
process of that number in whichever program runs. The thread of `#16` polls
without a pause, so main is not assumed to get the mutex: that the program ends
is claimed from the moment main has set the status. A program that may stay
somewhere on purpose (a consumer without a producer, the master that loops) is
covered by properties of the form `[]<>Settled`, where `Settled` says in which
states that is right; without fairness they would fail. Where a lock can be
taken by others for ever, `AllEnd` of `WaitDie` relies on every thread ending
after it had all locks once, as in `main.c`.

## 4. What the code does not do

Four runs show a disagreement between the code and its own words.

- `WaitDie_exclusion`. `wdlock_lock` waits once and then takes the lock without
  looking at the owner again (`wd_lock.c:31-41`). In the trace one waiter is
  woken by a release, a newcomer captures the lock before it runs, and the waiter
  captures it, too, while the newcomer has not released it; the run ends there,
  with the lock in the lists of both contexts. The invariants of the passing
  run hold all the same: wake-ups are not lost and lists stay linked, since
  every context takes the locks in the same order.
- `SlabCache_single`. From half a page up to a page a slab holds one object, and
  a slab that becomes full by its first allocation is filed as partly allocated
  (`slab.c:154`). The next allocation takes it from there, reads through the null
  pointer of its empty chain (`slab.c:135-136`) and crashes before it returns
  anything. Sizes of the passing run give two or more.
- `ProxyServer_shutdown`. The update thread can be cancelled in `pthread_join`,
  or in `close()` of `~Client`, after it has deleted clients that are still in the
  map, and `~Server` deletes them again.
- `LockedList`. The place of the top element is looked up, and the element moved
  to the end, with `list->head` read without the lock of the list
  (`linked_list.c:199`, `:228`). A line pushed meanwhile is greater than the top,
  which is moved all the same. The model reaches worse: lines pushed between
  `linked_list.c:204` and `:207` are lost with their nodes, and the wrong node is
  unlocked after a push at `:212`-`:222`, so that a mutex stays locked and
  everybody waits. A second sorting thread needs no push: of two threads at the
  same nodes the later one uses an `in` that the swap has made the last, and
  follows its null pointer at `:161`. With one sorting thread and no push in the
  middle of a sort the list stays whole.

The models show more, which the properties of the passing runs delimit instead
of a run of its own stating the opposite:

- `ProxyData`: `setCoherence` and `setDeleteRequest` signal nothing, and readers
  wait under a mutex of their own, so a reader can sleep through the end of the
  download. `OnlyEndIsSleptThrough` says that nothing else is slept through.
- `ProxyData`: `isFull` compares a length that includes the header with the
  Content-Length, so a body that lacks no more than the header's length passes
  for complete. `CompleteDelivery` speaks of what was received.
- `ProxyServer`: a client created at the address of one that was deleted
  (`Server.cpp:287`) and not yet erased (`:294`) is not inserted in the map
  (`:79`), which has that key. The erase then removes the entry of the deleted
  one, and the new client is *lost*: nobody joins it, its memory is not given
  back while the server runs, and `~Server` may delete it in the place of the
  deleted one, or end, while its threads run. `ClientOutlivesThreads` is about
  the others, and `LostByAddress` says that clients are lost in no other way.
- `ProxyServer`: the node of the cache is read after `data_mutex` is released
  (`Server.cpp:94-96`). `OnlyBrokenDataDies` says that it is gone then only when
  its data was marked broken.
- `ProxyServer`, `SelectProxy`: `updateCache` deletes broken data that other
  clients read. `NothingDeletedInUse` says that only broken data dies under a reader.
- `ProxyServer`: the loser of a race for a cache key leaves a `Data` that nobody
  deletes. `SelectProxy`: a client served from the cache is not deleted when it
  ends, and at shutdown one with two entries is deleted twice. `EntriesAlive`
  excludes both while the server runs, except for the leak.
- `CopyTree`: with as many threads as descriptors, each holding its source, all
  retry for ever. `ProgramsEnd` says that the copy stays nowhere else.
- `CopyTree`: a thread that does not start (`main.c:149-156`, the error is a
  positive number), a `readdir` that fails, a `write` that takes less than it was
  given (`:84`) and an older, longer destination (`:71`) leave a copy that is not
  the source, and nobody says so. `CopyComplete` says that after a copy without an
  error message what is missing was passed over in one of these ways or is below
  such an entry, and every other file was gone through to its end or is `damaged`.
- `SortedList`: `push_front` gives back a null pointer when `malloc` fails
  (`linked_list.c:4-8`), and it becomes the head of the list (`:59`): all lines
  are lost. `ListKeepsLines` is about the lines pushed since.
- `SharedCell`: a process killed after whole rounds takes all of them back, so
  producer and consumer can be let in together or a line printed again. A
  producer started again after the segment was removed makes another one, and
  consumers that are attached go on with the old. `LinesDelivered` is about runs
  before either; `SemaphoresKept` says that the right to use the cell survives
  every kill.
- `Widgets`: the start of a widget maker sets the counts to zero, so the details
  made until then are lost. `SemaphoresKept` says that nothing else loses one.
- `Widgets`: a maker that meets `SEMVMX` ends, though details are still wanted.
- `SemaphoreTest`: a slave whose `semop` failed says that it has locked the
  semaphores. It never really unlocks those of another, since the set is gone.
- `MessageBus`: the messages for a receiver that was killed, or for one that was
  interrupted and waits for room to say so, stay in the queue; when it is full of
  them nothing moves. `BusSettles` says that the programs stay nowhere else.
- `StatusQueue`: a last line `R` or `F` without a newline is counted as a
  status, and the master may stop early or wait for ever. `LinesDelivered`
  excludes such lines.
- `StatusQueue`: the master ends with the last `F` of the slaves it has heard of
  (`master.c:32-36`), and what is in the queue by then is thrown away: a slave
  whose `R` comes after that `F` loses its lines. `LinesDelivered` says that no
  other slave does, and that of such a slave nothing was printed.

## 5. Proofs

All for every value of the constants that the named assumptions allow. Each
inductive invariant was run through TLC before it was proved.

| Module | Theorems | Argument |
|---|---|---|
| `SchedulerProofs` | `SchedulerInvariant`, `TypeCorrect`, `ListIntegrity`, `SoundTurns`, `FirstComeFirstServed`, `Implementation` | The invariant is the conjunction of the five safety properties: an idle CPU with no ready thread is kept only because the ready ones are in the list (so the scan finds them) and only one node is marked running. That the list is linked well both ways is `IsList`: there is a sequence of distinct nodes from head to tail that `next` goes through forwards and `prev` backwards. `WalkIsList` says that a scan passes exactly this sequence (`Queue`), and `NewThreadLinks`, `ExitLinks` and `PushLinks` what the relinking of each function makes of it; choosing is one lemma for the four callers. `FirstComeFirstServed` is an action property: each operation keeps the order of any two ready threads. `Implementation` is the refinement of `RoundRobin`, one lemma per entry point: the line is what a scan passes without the nodes that are not ready, the first ready node is the first of the line, and a node that comes back is appended to both. |
| `WaitDieProofs` | `WaitDieInvariant`, `WithinTheArray`, `NoLostWakeup`, `OwnersRelease` | A context takes locks 1, 2, ... in order, so each list it links is l, l-1, ..., 1, and the links of a lock are the same whoever wrote them last: that is why a walk over links that others have rewritten is still right. A sleeper holds the inner lock until it sleeps, and a release needs it. |
| `ProxyDataProofs` | `ProxyDataInvariant`, `TypeCorrect`, `Ordered`, `Complete` | A reader's place is its index, or the number of pieces erased, and only the uploader erases; coherence is set after the last piece. |
| `ProxiesProofs` | `ProxiesInvariant`, `ProxiesTypeCorrect`, `InUseIsKept`, `EntriesStayAlive`, `ChosenActionsHold` | Threaded: a client that lives is in the map, about to be registered, or lost, and no two living clients have one address; so a delete by key meets the client that was joined or, where that one is deleted already, a lost one. `~Server` comes to its end when all that are not lost have ended. A `Data` is in the cache or its client's own from the moment it is made, so each way of deleting it excludes the other. Select: the two entries of a client are only in certain pairs of types together; the pairs in which one entry's action would pull the other's object away last only while the other's action is already chosen. |
| `MutexesProofs` | `PhilosophersInvariant`, `MutualExclusion`, `DeadlockFree`; `MutexesInvariant`, `MutexesTypeCorrect`, `TurnsAreKept` | A philosopher holds what its place in the loop says; among the forks held take the greatest: its holder is waiting for a greater one, which is held, or is not waiting. The existence of the greatest fork is proved by well-foundedness. Ping-pong: count the mutexes each thread has walked past; the child is one or two ahead, since a third step would need the mutex that the parent has. |
| `MessageBusProofs` | `BusInvariant`, `BusTypeCorrect`, `NobodyIsCutOff`, `LinesComeInOrder` | Follow a receiver from its one registration to its one departure. While the sender reads, `alive_recvers_num` is the number of receivers that were given a slot and whose departure it has not dealt with, whether or not it finds the slot again; a mailbox holds the answer and then lines in ascending order, newer than the last one printed, without a gap until a slot is freed. |
| `AllocatorsProofs` | `SlabsInvariant`, `ListsPartition`, `ChainsAreSound`, `GrowsOnlyWhenFull`, `EntriesAreNew`; `HeapInvariant`, `HeapIsTiled`, `AllocatorsTypeCorrect` | For the slab allocator whose slabs hold several objects (`SeveralObjects`, an explicit hypothesis that the sizes of `Allocators.cfg` satisfy; with one object `slab.c:154` does not hold, which `SlabCache_single` shows). Each list has an order, a sequence of distinct slabs in which `next` and `prev` go through it, and each slab one in which the chain goes through its free chunks. An operation moves one slab from somewhere in a list to the head of another, or one chunk from or to the head of a chain; the lemmas say what that does to one order, and that all the others keep their links. The walks by which the properties are stated are recursive functions, tied to the orders by `WalkExists` and `ChainWalked`. The heap, for every size of its memory: there is a set of areas with sizes and markers, of which each ends where another begins or with the memory, none overlaps another, and no two neighbours are free. Lemmas on bytes say what a size or a marker that is written leaves of the others (`SizeWritten`, `AreaKept`), and from these what splitting and joining make of the tags (`AreaSplit`, `AreaJoined`); lemmas on sets of areas say that the result tiles the memory (`SplitTiling`, `JoinTiling`). A turn of the loop of `myfree` joins on both sides at once, as two applications of one lemma. `AreasFound`: the walk of `myalloc` from tag to tag passes exactly the areas of the set. |
| `ExercisesProofs` | `ProgramsInvariant`, `PrintedSum`, `Spread`, `SemaphoresAreKept`, `CopiesAreComplete`, `LinesAreDelivered`, `ListsKeepLines`, `ProgramsTypeCorrect` | An invariant for each of seven programs; a step of one is no step of the others. Pi: no thread is more than one block past the global counter and one that has ended is not behind it; the check takes the counter and the flag under one mutex, and that is where this is needed. The sorted list: there is an order q of the nodes that were pushed and neither freed nor given up by a failed push in which `next` leads from `head` to the end, and the pointers of the sort stand at places of q; pushing, erasing and exchanging two nodes are lemmas on q (`PushedFirst`, `ErasedFirst`, `SwapLinks`, `SwapExchanges`). The two loops order the nodes after the head, none behind the outer pointer being less than one before it (`SwapOrders`, `TurnOrders`), and the last walk moves the head to its place (`MoveTurns`). The test: whoever has the semaphores is between its two semops. The widgets: made, held and lost details add up. The copy: an entry that is not started is unread in its directory, was skipped, or is below one that is not started; the descriptors of all threads are a recursive sum over any order of the entries (`SumExists`, `SumChanges`), of which a step changes one term. The cell: each semaphore and what all ends would undo add up to at least what `SETALL` made of it, so that ends that stop at zero can only add; before a kill of a process with whole rounds, and before a segment is replaced under a consumer, there is exactly one right to use the cell, and all consumers see one cell. The values stay small since READ and what consumers hold of it are no more than the lines handed over, and WRITE exceeds what they gave back by one, or, once the producer was killed and until it calls `SETALL` again, by what its end has undone. The status queue: messages of a slave wait in the order R, lines, F, `alive` is the number of slaves known whose F is to come, and of a slave not known nothing is printed and its R, once sent, waits. |

The named assumptions say that the constants are what the code has: sizes that
are not zero, a null that is no node, an uploader that is a sender, finitely
many nodes of the scheduler (`NodesAssumption`), clients and addresses that are
numbers (`ClientsAssumption`), numbers of rounds, nodes, descriptors and lines
that are natural (`IterationsAssumption`, `BoundsAssumption`), lines that can
be compared (`LinesAssumption`), a producer and a master that are no consumer
and no slave (`ProcessesAssumption`), a source that is a finite tree
(`TreeAssumption`), an address of garbage that is no chunk
(`GarbageAssumption`), a memory with room for the tags of one area
(`HeapAssumption`). They are evaluated by TLC in the runs.

Induction. The library's induction theorems take an operator as parameter, which
the provers do not instantiate. Where a proof needs induction over numbers it is
in terms of sets: the least element of a nonempty set of naturals (from the
well-foundedness of `<`) gives that a set with 0 and, below m, each successor has
all of 0 .. m (lemma `UpTo`), and with it that a recursive function over 0 .. m
exists and is unique (`LineExists`, `LinesAgree`; `WalkExists`, `ChainWalked`
and `HeapWalkExists` in `AllocatorsProofs`). That is why the mapping in
`Scheduler` is a recursive function and not `SelectSeq`, whose definition is
opaque to the provers.

Every invariant and every action property that a run expects to hold is stated by
a theorem, for a slab of several objects where `SlabCache` is concerned. Only
model-checked:

- every liveness property (`ReadyRuns`, `AllEnd`, `OnlyEndIsSleptThrough`,
  `ShutdownReclaims`, `EveryoneEnds`, `BusSettles`, `ProgramsEnd`)
  and the liveness of `RoundRobin`: out of the prover's reach.

## 6. Not modelled, and the plan

Left out for good: the vendored HTTP parser and its wrappers (their three results
are inputs of the models), printing, addresses and ports, the first exercises
with threads, and the programs that only make system calls. `paging` and
`planning` are pure functions of their input, a walk over four levels of a map
and a library sort: there is no state to go wrong. Message queue `#30` sends and
receives by type, and no program depends on what another does.

Planned:

1. The page table walk as an operator against a reference, scaled down from 64
   bits.

## 7. Running

`tlc -config X.cfg M` with the module named in `PROJECT.json` for each run, and
`tlapm MProofs.tla` for the proofs. The longest runs take two to three minutes with
two workers.
