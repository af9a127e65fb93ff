# A TLA+ model of bricks

bricks (`src/`) is a C++ library of building blocks: containers, allocators,
strings, synchronisation primitives, a Win32 platform layer, logging, an HTTP
client, a JSON parser and serialization.  This project models the parts with
state and with an order that matters: what threads do to each other, what is
split by a network or a file, and what sequences of calls do to the memory of
containers, allocators and strings.

Source paths below are relative to `src/`, which holds the repository; the
library itself is in `src/src/`.  Line numbers are those of the modelled commit.
`PROJECT.json` lists every component with its status, the lines each definition
stands for, the hazards, and the findings with the lines they contradict.

## 1. Inventory

| Component | State | Operations | Interacts with | Hard behaviour | What makes it correct |
|---|---|---|---|---|---|
| `SyncQueue` (datatypes.h 2484-2693) | list of pages, each a circular buffer; free list; count; mutex | Push, PushEmpty, TryPop, Find | the HTTP client has two | count read without the mutex; pages retired and used again; slot filled after the unlock | it is a FIFO queue; no page is lost; memory bounded by its fullest moment |
| `Semaphore` (threading.h 33-91) | count, mutex, condition | Signal, Wait, timed Wait, TryWait | wakes the HTTP and the logging thread | notify against time-outs and spurious wake-ups | no permit and no wake-up is lost |
| `PreshingSemaphore` (131-185) | signed count, kernel semaphore | Signal, Wait, TryWait | may be inside a benaphore | negative count while threads go to sleep | as `Semaphore` |
| `Benaphore`, `RecursiveBenaphore` (262-381) | contention, semaphore; owner, recursion | Lock, TryLock, Unlock | tests and benchmarks | hand-over to a thread that has yet to sleep; owner read without the lock | one holder; hand-over neither lost nor doubled |
| `Mutex`, `RecursiveMutex`, `PlatformMutex` (194-256) | a system lock | Lock, TryLock, Unlock | `SyncQueue`, `Semaphore` | one static CRITICAL_SECTION for all platform mutexes | mutual exclusion of each |
| HTTP client (http.cpp 657-875) | two queues, a semaphore, a flag, a thread, the next id | Init, Shutdown, Get, Post, ProcessResponses | `SyncQueue`, `Semaphore`, threads | callbacks that make requests; shutdown against start; one pass takes many requests | one answer per request, in order; the thread never sleeps on a request |
| HTTP connection (66-530) | socket, TLS contexts, what is written | InitRequest, Connect, Write, ReadBlocking, Close | the transport (mbedtls) | failure at each of ten calls and of each address; partial writes | nothing left open; the request sent whole |
| Response reading (399-583) | read buffers, an error; the body | Read, ReadBlocking, the chunk parser | the transport, `String` | any split into reads; early close; an empty body | a cut response is not parsed; a chunked body is its chunks |
| Thread table (win32_platform.cpp 290-393) | `liveThreads`, `threadCount` | CreateThread, JoinThread, WorkerThreadProc | the log, the HTTP client, the tests | a thread that runs late; joins in another order; entries given away again | every thread runs its function; the count stays right |
| File services (win32_platform.cpp) | the file, its handles | ReadEntireFile, WriteFileChunks | the system | other callers, failures and kills between two calls | no mixture of two contents; handles closed |
| `SyncRingBuffer` (datatypes.h 2179-2463) | one atomic word: count and index; slots | Push, PushEmptyRangeAdjacent, TryPop, TryPopHead | two of them in the log | slots accessed after the word was exchanged; overruns; the word comes back | slots in order; what is popped was pushed |
| Logging (logging.cpp) | text buffer, entry queue, semaphore, thread handle, endpoints, channels | Init, Shutdown, LogInternal, LoggingThread | `SyncRingBuffer`, `Semaphore`, threads | text and entry claimed separately; shutdown | each message whole, once, in order; Shutdown returns |
| Arenas, temporary memory (memory.h) | chain of pages, marks | InitArena, PushSize, ClearArena, Begin and EndTemporaryMemory, sub-arenas | everything | nesting and growth; alignment | no overlap; the end restores the beginning |
| `GenericHeap` (memory.h) | blocks in a circular list, the last allocated | Alloc, Free | a chunk of memory | merging, splitting, where the search starts | blocks tile the chunk |
| `Array`, `BucketArray` | items in a block, or in buckets | push, pop, insert, remove, move, copy, reset | everything | growth, moves between arrays, caller's buffers, buckets reserved ahead | they are sequences; blocks have one owner |
| `Hashtable` | keys and values, parallel | Get, Put, GetOrPut, Resize, iterate | everything | probes that wrap; growth | it is a map; searches end |
| `RingBuffer` | buffer, count, index | Push, TryPop, TryPopHead, Clear, iterate | `StringBuilder`, tests | full and empty | it is a bounded deque |
| `String`, `StringBuilder` (strings.h, strings.cpp) | data, length, two ownership flags | assign, copy, move, reset, Consume, search, split, replace | everything | two allocators; moves between them; lengths of 0; assignment to itself | data freed once by its allocator |
| JSON (json.h) | parser state, dom and data areas | parse in two passes, write, extract | the JSON reflector | sizes computed by one function and relied upon by another | the passes agree; nothing but JSON is accepted |
| Serialization (serialize_*.h) | buffer or tree, stack of types being reflected | the Reflect functions, for reading and writing | containers, JSON | versions with other fields | what two versions share comes back |
| Bit tricks (intrinsics.h, maths.h) | none | NextPowerOf2, Log2, AlignUp | containers, arenas | zero and width | |
| Context stack, other platform services, common, clock, `OldBucketArray`, CSV | | | | | not modelled, see 6 |

## 2. Modules

One step of a concurrent module is one step that another thread can tell apart:
an atomic access, a critical section, an access to a shared slot outside of
one, a system call.  One step of a sequential module is one call.

| Module | Models | Abstract module it implements | Run |
|---|---|---|---|
| `SyncQueue` | the paged queue | `FifoQueue` | `syncqueue` |
| `Semaphore`, `PreshingSemaphore` | the two semaphores | `CountingSemaphore` | `threading` |
| `Benaphore`, `RecursiveBenaphore` | the two locks | `ReentrantLock` | `threading` |
| `SyncRingBuffer` over `RingIndex` | its loop around the exchange | `LossyQueue`, for its slots | `threading` |
| `ThreadTable` | CreateThread, JoinThread, the start of threads | | `threading` |
| `FileIO` | reads and writes of whole files | | `threading` |
| `HttpClient` | callers, main thread and HTTP thread | | `http` |
| `HttpConnection` | one request, from InitRequest to Close | | `http` |
| `HttpRead` | Read and ReadBlocking | | `http` |
| `HttpChunks` | the chunk parser | | `http` |
| `Logging` | loggers, logging thread, Init and Shutdown, two instances of `RingIndex` | | `logging` |
| `Array`, `BucketArray` | the growable arrays | `ItemSequences` | `containers` |
| `Hashtable` | linear probing and growth | `ItemMap` | `containers` |
| `RingBuffer` over `RingIndex` | the ring of one thread | `BoundedDeque` | `containers` |
| `GenericHeap`, `MemoryArena`, `Strings`, put next to each other by `MCContainers` | the allocators, who owns the data of a String, and what their users rely on | | `containers` |
| `Intrinsics` | the bit tricks the containers size their memory with | | through `containers` |
| `TextScan` | the Consume methods | | `http` |
| `TextSearch` | search, distance, Split, CloneReplace | definitions of what each is to find | `text` |
| `JsonText` | both passes of the parser, and the writers | | `text` |
| `BinaryReflector`, `JsonReflector` over `Reflection` | write with one version of a type, read with another | | `text` |
| `ThreadCounts`, `SyncQueueProofs`, `ThreadingProofs`, `HttpProofs`, `LoggingProofs`, `ContainersProofs`, and the ends of `Semaphore` and `Benaphore` | lemmas and theorems | | |

How they fit.  `HttpClient` takes its queues as sequences and its semaphore as
a number, which is what `SyncQueue` and `Semaphore` are shown to implement; it
takes sending a request and reading its response as one step that ends.
`HttpConnection` looks inside that step and takes reading as one that ends;
`HttpRead` looks inside reading, `HttpChunks` at what is made of what was read,
with the Consume methods that `TextScan` checks by themselves.  `Logging` takes
its semaphore in the same way and shares the arithmetic of `RingIndex` with
`SyncRingBuffer` and `RingBuffer`.  `JsonReflector` writes and reads trees of
values, which `JsonText` turns into text and back.

`MCThreading`, `MCHttp`, `MCContainers` and `MCText` put components next to each
other for TLC: the variable `which` names the one that moves, and the others
stay as they are. A state of such a module is a state of one component, so
nothing is multiplied. `MCThreading` extends `RecursiveBenaphore`, `MCHttp`
extends `HttpClient`, and `MCContainers` extends `Hashtable`, whose constants
and variables keep their names there; the other components are instances. Those
that theorems are about have constants of the composite as their parameters, not
the values of one run. `SyncQueue` is checked by itself.  Its `Symmetry` and that
of `MCContainers` are about names that nothing tells apart, in runs without liveness.

Operators marked `Mutated:` are a definition with a plausible mistake.  They
are used by no specification: with the definition replaced by such a form, the
property that `PROJECT.json` names with it fails, which shows that it can.

### Threads
`SyncQueue`: `head`, `tail`, `firstFree`, `count`, `page`, `slot` are the members
of the queue and of its pages; `heap` is what the allocator has not yet given;
`live` and `free` are auxiliary copies of the two lists, so that "linked in this
order" can be said, and proved, without recursion.  A call goes through the
values of `pc`: TryPop's look at the count (`PeekCount`), the mutex (`Acquire`,
`Unlock`), the claim of a slot and its store (`PushClaim`, `PushStore`),
`PopTake`, `FindScan`.  `QueueSpec` is the queue used with Push, TryPop and Find;
`Spec` adds PushEmpty, whose slot is filled after the unlock.

`Semaphore`: a std::condition_variable gives up the mutex and sleeps in one
step, so an action goes from the lock to the unlock or to sleep.
`PreshingSemaphore`, `Benaphore`, `RecursiveBenaphore`: each atomic access is a
step, and so is each plain read that another thread can overtake, as the one of
`recursion` after contention was given up (threading.h:370).  A weak exchange
may fail for no reason.

`SyncRingBuffer`: load, exchange, access to the slot are three steps; the word
of two threads may go all the way round between two of them.

`ThreadTable`: a thread reads its entry when it first runs, which may be after
JoinThread has put another one there.  JoinThread reads the entry at
`threadCount`, past the last one in use, as the code does; past the end of a
full table it finds what happens to be there (`Garbage`).  Since the count goes
down while the entries stay where they are, CreateThread may take the entry of a
thread that is still to be joined: create A and B, join A, create C, and B's
entry is C's, before B has read it or after.  The auxiliary `overtaken` has the
threads this happened to, and `missed` the joins that then found no entry, which
the code logs.  The properties are about the threads that are not overtaken, and
about the count, which no longer is that of the threads alone.

`FileIO`: open, size, each chunk and close are steps; each may fail, and a
caller may be killed at any of them.

### HTTP
`HttpClient`: `worker` is where ThreadMain is, `pc` where each caller is.  The
id of a request is read and written back in two steps, since `nextRequestId` is
a plain variable.  A callback runs between `PopResponse` and `CallbackReturns`
and may make requests.  `HttpInit` does not touch `threadRunning`; the thread
sets it when it first runs.

`HttpConnection`: `ConnectSteps` are the calls of Connect in their order, the
last five with TLS only; each may fail, and the handshake and each write may
have to be repeated.  What mbedtls does to the descriptor is modelled from its
source (src/3rdparty/mbedtls/library/net_sockets.c): mbedtls_net_connect tries the
`addresses` of the host one after another, closes a socket that does not connect,
and keeps its number; mbedtls_net_free closes whatever number is there.  `closes`
records what Close found, and `sockets` how often each socket was closed.

`HttpRead`: the server sends any number of units and closes; `ReadData`,
`ReadNothingYet`, `ReadCloseNotify`, `ReadEnd` and `ReadError` are what the
transport may answer.  `HttpChunks`: every read looks at all of the body that
has arrived, from its first chunk.  Consume stops at a null character
(strings.h:898), and a body without a chunk ends in the assertion of Last()
(state `failed`); both are in the run.  The server is external, and so is the
transport but for its sockets.

### Logging
A logger claims text, claims an entry, clears it, fills it in, writes the text
and signals: six steps.  The logging thread checks its handle, waits, pops an
index, copies the entry, calls the endpoints, zeroes the text, and tries to
give characters back.  `Empty()` is as it is written (datatypes.h:2207),
inverted, so nothing is given back.

### Containers
`Array` and `BucketArray` share the shape of their state: `arrays` holds the
fields of several named arrays, `mem` the blocks allocated and what is in them.
Moves and copies between arrays are calls like the others.  `io` is what the
last call returned or was given, which the abstract module sees too.
`Hashtable` probes from the hash of the key; the run has hashes that collide and
go round the end.  Capacities are the powers of two of `Intrinsics`, up to a bit
that is a bound (`MaxBits`); `Resized` and `Iterate` go over the slots one after
another, as the loops of Resize and of the iterators do.  `GenericHeap` has its
blocks in order of address; the list of the code is circular through a sentinel
and in that order too.  `MemoryArena` keeps the header of each page, which is how
EndTemporaryMemory finds its way back.
Calls respect the assertions of the code: what the code asserts of its caller
is a guard.  What it does not assert is not: Pop of a `BucketArray` asserts that
there is a bucket and not that the last one has an item, and then reads the slot
before the first.  `outside` has the array this happened to, after which the
model stops; `roomy` has the arrays to which Reserve, or pushing nothing, added
buckets that may stay empty in front of or behind the items.

### Text
`Strings` (checked with the allocators) has which block a String points to, and
its two flags; texts are literals, the empty one included, which a String that is
constructed from it takes for a block of its own.  `TextScan` (checked with the reader that uses
it) and `TextSearch` are on texts of characters, since what a
piece is, is the property.  `JsonText` has a text of symbols and the stack of
open objects and arrays in place of the recursion; `sized` is what the first
pass counts and `used` what the second fills.  `Reflection` says which calls a
Reflect() function makes for a version of a type; the two reflectors keep the
calls still to come, and the types being reflected.

## 3. Runs

| Run | What it asks | Result |
|---|---|---|
| `syncqueue` | `TypeOK`, `PagesAccountedFor`, `QueueShape`, `MemoryBounded`: is the paged queue intact; `FifoInPlace`: is it a FIFO queue whose items stay put | holds |
| `syncqueue_pushempty` | `PopsWholeItems`: is what is popped whole, with PushEmpty | violated |
| `threading` | `SemaphoreNoLostWakeup`, `PreshingSleepersAccountedFor`, `BenaphoreOneBaton`, `RecursiveOneBaton`: permits and batons neither lost nor doubled; `SemaphoresImplementPermits`, `BenaphoresImplementLocks`, `RingSlotsInOrder`: refinements; `WaitersWake`: liveness, files closed included; `TableStartsRight`; `FilesAreWhole` | holds |
| `threads_early` | `RunsItsJob`: do threads always run their function | violated |
| `http` | `RequestsInOrder`, `RequestWakesThread`, `RequestsAllAnswered`, `ShutdownReturns` of the client; `ConnectionLeftClosed`; `ReadParsesOnlyWhole`, `ReadWholeIsRecognized`; `ChunkedBodyIsWhole`; `ScanLinesAreLines` | holds |
| `http_stop` | `ShutdownAlwaysReturns`, from any state | violated |
| `httpread_close` | `EndsWithConnection`: does reading end when the server has closed | violated |
| `logging` | `PrintedAsLogged`, `PermitsMatchEntries`, `ShutdownReturns`, `LoggedIsPrinted` | holds |
| `logging_shared` | `TakesWholeEntries`, with two loggers at once | violated |
| `containers` | `ContainersImplementAbstract`: sequences, a map, a deque, and a heap that finds the room it has; `BlocksAccountedFor`, `HashtableSearchEnds`, `HeapBlocksTile`, `ArenaBlocksIntact`; `StringBlocksHaveOwners` | holds |
| `text` | `SearchFindsWhatIsThere`, `JsonPassesAgree`, `JsonAcceptsOnlyJson`, `JsonParserEnds`, `RoundTrip` | holds |
| `textsearch` | `ReplacesEveryInstance` of CloneReplace | violated |

Bounds, and why they are enough to meet the cases:
- `SyncQueue`: 2 threads, 3 pages of 2 items, 2 items, 3 queued (`MaxItems`).
  Three items in pages of two make a second page and wrap around inside pages;
  pages drain, are retired and are used again.  A page between head and tail
  needs a fourth item; the theorems cover it.  PushEmpty's steps are in
  `syncqueue_pushempty` and in the theorems.
- Semaphores: 3 threads, signals of 1 and 2, 2 or 3 permits, so more threads
  than permits and signals worth two.  Benaphore: 4 threads, one inside, one
  that gives the baton on, one asleep and one that tries.  RecursiveBenaphore:
  3 threads and depth 3 (`MaxDepth`), so that an inner unlock is not the
  outermost.
- `SyncRingBuffer`: 2 threads on 2 slots, which can both be claimed and the
  word come back while a thread sleeps between load and exchange.
- `ThreadTable`: two handles that are used again after a join, in a table of
  three.  That is enough for an entry to be given away: create A and B, join A,
  create C.  A join that finds no entry leaves the count up, and so two live
  threads fill the table of three in the end; then JoinThread reads past its end.  `FileIO`: two callers,
  writes of no, one and two bytes a chunk that differ in every byte they share.
- `HttpClient`: 2 callers, 3 requests (`MaxRequests`: one being processed, one
  queued, one being made), 2 inits (`MaxInits`: what the first leaves behind).
- `HttpRead`: 7 units over buffers of 3 end in the middle of a buffer, two reads
  fill one exactly, header and body share one.  `HttpChunks`: no chunk, one or two of one
  or two characters, out of digits, line ends and the null character, with sizes in
  base two so that some have two digits, cut anywhere.  `HttpConnection`: 4 units
  written in any parts, 2 repeated handshake calls (`HandshakeSteps`),
  2 addresses (`MaxAddresses`), so that the first can fail and the second not.
  `TextScan`: up to 4 of a letter, a space, a token and either line end; of a plain
  line end right before one of two characters the code takes "\n\r" for the end of
  the first, and gives the line after it a length of -1, so they are left out
  (`LineEndsTold`).
- `Logging`: 2 loggers with 2 messages each (`MaxLogs`), 2 entries, text of 8
  characters; messages of 2 with their terminator take three, so that every
  third does not fit at the end.  `MaxBacklog` keeps the messages begun and not
  yet printed within the two entries: the code has no such limit, and when more
  than the 1024 entries of its queue are pending the oldest are overwritten.
- Containers: two arrays and up to three blocks or buckets of two, so that a
  move meets both an empty and a full one; a Reserve of one or of two buckets at
  once (`ReserveSizes`), an empty buffer to push and three buckets for two arrays,
  which is where gaps and an empty last bucket come from; four keys, two with the same hash, in
  tables of up to 8; a ring of 4 with two kinds of items; a heap of 23 units
  with headers of 2 and sizes that split blocks and just do not; arena pages of
  4 with sizes up to a whole page and two scopes; three Strings over four blocks
  in two allocators, with an empty literal and two others.
- Text: texts of up to 4 characters to search, patterns up to 3; JSON of up to 4 lexemes,
  with and without brackets around them, strings and numbers of up to 4 symbols (any order of
  digits, signs, point and exponent; control characters in strings),
  values to write of lists and objects of up to two items, twice nested;
  versions of a type with up to two fields, nested once, all pairs of them.

`CHECK_DEADLOCK FALSE` stands where the system may come to rest: after the last
permitted request, after Shutdown, when a response was read, a file written or a
text parsed, and where the caller's assertions leave no call that may follow.

### Fairness
- `threading`: a thread that is inside a call goes on, and one asleep on a
  semaphore that has a permit wakes (`Scheduled`); nobody has to begin a call.
  For the semaphores of a benaphore this is what `Semaphore` and
  `PreshingSemaphore` are shown to give.
- `http`: the system runs the HTTP thread, and calls that have begun go on.
  Nobody has to make a request, call ProcessResponses or shut down; so
  `RequestsAllAnswered` says that responses are queued, not that callbacks run.
  For reading and for a connection: what was sent arrives, the server closes in
  the end, the transport reports it, and calls return; an error never has to
  occur.
- `logging`: begun calls go on and the logging thread runs.
- `text`: the parser is not interrupted.

All are weak fairness of steps that stay enabled: the thread is ready to run,
and the scheduler of the system does not leave out a ready thread for ever.

## 4. Where the code differs from what it says

The six violated properties; `findings` in `PROJECT.json` quotes the lines.
1. `PopsWholeItems`: PushEmpty's slot is in the queue before it is filled.
   Nothing in the repository calls it on a `SyncQueue`.
2. `ShutdownAlwaysReturns`: `threadRunning = true` by the starting thread can
   follow Shutdown's `false` (http.cpp:706, 780).  The thread takes the permit,
   finds no request, and sleeps.  `ShutdownReturns` holds once the thread is in
   its loop.
3. `EndsWithConnection`: the end of the connection is stored as error 0.
4. `RunsItsJob`: JoinThread overwrites an entry before its thread has read it
   (win32_platform.cpp:382), and CreateThread gives away one whose thread is still
   to be joined (353-361).  `TableStartsRight` has it of threads that start
   before either happens.
5. `TakesWholeEntries`: with two threads logging, an entry that is claimed and
   not filled in can be taken, by the permit of the other.  For this reason
   `PrintedAsLogged` and `LoggedIsPrinted` are about loggers that do not overlap
   (the auxiliary variable `overlapped`), while `PermitsMatchEntries` holds of
   any.
6. `ReplacesEveryInstance`: CloneReplace appends the piece before a match with
   its length, and a length of 0 means the whole rest (strings.cpp:143).

The modules state a few more properties that TLC refutes when it is given them;
they are in none of the runs, and those of the runs are as weak as these make
them:
- `ClosesEachOnce` and `ClosesItsSocket` of `HttpConnection`: when no address can
  be connected mbedtls_net_connect has closed the descriptor and kept its number
  (net_sockets.c:210), and Close closes it again, whoever has that number by then;
  a request without TLS whose host is not resolved closes descriptor 0.
  `ConnectionLeftClosed` allows the second close in this case, and no other.
- `NeverFails` of `HttpChunks`: a chunked body without chunks ends in the assertion
  of Last(), and one with a line end behind a null character can be misread.
  `ChunkedBodyIsWhole` says that the first fails, and is not about the second.
- `FreesOnlyBlocks` of `Strings`: `String( "" )` sets Owned, its data is the empty
  literal (strings.cpp:81-85), and Clear frees that.  `StringBlocksHaveOwners`
  allows this one address.  Nor is it about formatting: under `FormattingSpec` it
  is refuted (a constructor that reads flags nobody has set).
- `NoGaps` and `PopFindsItems` of `BucketArray`: after a Reserve of more than one
  bucket the ones before the last stay empty, since Push stores into the last of
  the list (datatypes.h:617 and 628), and index 0 leads to a slot nobody stored to;
  after a Reserve, or a Push of nothing onto a full bucket, Pop takes index -1 of
  the empty one (718).  Both happen in `containers`.  What is claimed there is that
  nothing else brings it about (`OnlyRoomHasGaps`), that an array without gaps is a
  sequence, and that no block is lost either way.
- `BackwardVisitsAll` of `RingBuffer`: in a full ring the backward iterator stops
  after the newest item, unless that is in the last slot of the buffer, although
  it "can be iterated both from tail to head (oldest to newest) or the other way
  around" (datatypes.h:1970).  `BoundedDeque` allows this of a full one.
- `PopsPushedItems` of `SyncRingBuffer`: the item, not its slot, when the slot is
  overtaken.
- `SplitsAtSeparators` of `TextSearch`: a piece returned by Split may hold
  separators.
- `JsonAcceptsOnlyJson` names two exceptions in itself: "a leading '-' must be
  immediately followed by any digit!" (json.h:1196), but at the end of the text this
  is not looked at; and of the control characters in a string only two are refused
  (json.h:702).

## 5. Proofs

All theorems are about every set of threads, clients, items and pages and every
value of the bounds that the assumption of the module allows.

| Module | Theorem | What it says |
|---|---|---|
| `SyncQueueProofs` | `TypeCorrect`, `NoPageLost`, `ShapeKept`, `MemoryStaysBounded` | `TypeOK`, `PagesAccountedFor`, `QueueShape`, `MemoryBounded` |
| | `StoredItemsStay` | an item stays where it was stored until it is popped |
| | `QueueIsFifo` | `FifoInPlace`: it implements `FifoQueue` |
| `Semaphore` | `SemaphoreCorrect`, `SemaphoreIsCounting` | `NoLostWakeup`, types included; it implements `CountingSemaphore` |
| `Benaphore` | `BenaphoreCorrect`, `BenaphoreIsLock` | mutual exclusion and one baton; it implements `ReentrantLock` |
| `ThreadingProofs` | `RecursiveCorrect`, `RecursiveMutualExclusion`, `RecursiveIsLock` | `RecursiveOneBaton`; no two threads hold it; it implements `ReentrantLock` |
| | `SemaphoreWakes`, `PreshingWakes`, `BenaphoreHandsOver` | `SemaphoreNoLostWakeup`, `PreshingSleepersAccountedFor`, `BenaphoreOneBaton` |
| | `SemaphoresCount`, `BenaphoresAreLocks` | `SemaphoresImplementPermits`, `BenaphoresImplementLocks` |
| | `TableFindsThreads` | `TableStartsRight`: of threads whose entry was not given away |
| | `RingIsLossyQueue` | `RingSlotsInOrder`: its slots are those of `LossyQueue` |
| | `FilesKeptWhole` | `FilesAreWhole`, for chunks of any bytes and any callers |
| `HttpProofs` | `ClientInOrder`, `ClientWakesThread` | one answer per request in order; the thread does not sleep on a request |
| | `RequestsAnsweredInOrder`, `ThreadIsWoken`, `OnlyWholeIsParsed`, `ClosedOnEveryWayOut` | `RequestsInOrder`, `RequestWakesThread`, `ReadParsesOnlyWhole`, `ConnectionLeftClosed` |
| | `ScanTakesLines` | `ScanLinesAreLines`, for any texts whose line ends are told |
| `LoggingProofs` | `PermitsMatch` | `PermitsMatchEntries`, when no more messages wait than the queue has entries |
| | `PrintsAsLogged` | `PrintedAsLogged`, when the text buffer has room for them as well |
| | `LogTypesKept` | `TypeOK`, however many messages wait |
| `ContainersProofs` | `HeapTiles` | `HeapBlocksTile` |
| | `ArenaKeepsBlocks` | `ArenaBlocksIntact` |
| | `HashtableSearches` | `HashtableSearchEnds`: the count is right and no search goes round the table for ever |
| | `HashtableIsMap` | it implements `ItemMap`, of `ContainersImplementAbstract` |
| | `StringsOwnBlocks` | `StringBlocksHaveOwners`, the empty text and assignment to itself included |
| | `ArraysOwnBlocks` | `BlocksAccountedFor`, of `Array` and `BucketArray`, for any `ReserveSizes` |
| | `RingIsDeque` | it implements `BoundedDeque`, of `ContainersImplementAbstract` |

Theorems about a module by itself are stated under its assumption
(`BenaphoreAssumption` and so on: finitely many threads, special values apart
from them, bounds that are numbers, a capacity that is a power of two).  Those of
`SyncQueue`, `Logging` and `Hashtable` are named ASSUMEs of the module;
`MCThreading`, `MCHttp` and `MCContainers` assert those of their instances.  TLC evaluates
all of them on every run, and the theorems about the composites (`AllSpec`) rest
on those.  `HashtableAssumption` has hashes that are numbers, a zero key that
nobody puts (the code asserts it), and capacities that are powers of two: the
least of the code is 16, and `Hash & (capacity - 1)` relies on it.  Nothing is
assumed of the hash function; all keys may collide.  The largest capacity is a
bound: a call that would make the table grow beyond is not made.
`StringsAssumption` has addresses of literals that are not those of blocks, and a
nullptr that is neither.  `ArrayAssumption` has a caller's buffer that is none of
the allocator's blocks, and a content of free blocks that is no items;
`BucketAssumption` has bucket sizes that a power of two of `MaxBits` can hold.
`CapacityAssumption` of `RingIndex` has a size that is a power of two, as the
code asserts.
`ScanAssumption` has texts whose line ends are told:
with every `"\r"` there is a `"\n"` after it, and no plain `"\n"` before it.
`PermitsMatch` has `MaxBacklog <= EntryCapacity`
besides: without it the count of the queue stops at its capacity and the permits
go on, as they do in the code with more than 1024 messages waiting.
`PrintsAsLogged` has `TextHasRoom` too: when every message takes at most
`longest` characters with its terminator, the text buffer has room for
`MaxBacklog` of them, the one being printed among these, and for the
`longest - 1` that may be left over at the end of the buffer where the next one
does not fit.  A message that does not find its room overwrites one that waits,
in the code as in the model.  The run `logging` has exactly this much room.

How they go:
- `SyncQueue`: no conjunct of `IInv` is inductive by itself.
  `PagesAccountedFor` needs `QueueShape`, for the second page that keeps the
  oldest item when the head is retired; both need `TypeOK` and `MutexHeld`, which
  says whose turn it is and is an auxiliary of the proof.
  `PushesReady` is added: a thread about to store has an item, and a slot of a
  page to store it in.  Page-list lemmas come first (`ClaimInTail`,
  `ClaimInNewPage`, `PopStays`, `PopRetires`), then one lemma per kind of step.
  `MemoryBounded` follows with `Budget`: pushes on their way to a slot count
  against `MaxItems`, and when a page is new there is no free one, so all pages
  are in the queue and full but the first (`PagesFull`, `PagesInQueue`), and
  `NeedsPage` does the division.
- That it is a FIFO queue: what it holds are the circular items of its pages, one
  page after another.  A claim adds one at the end, a store renews the one that
  is last while the mutex is held, a pop takes the first, and a page that is
  retired has none left.  `FlattenSeq` is defined by recursion over a sequence;
  that it has the value it should is induction over the number of pages.
- The locks count threads at places of the code.  `CountMoves` of `ThreadCounts`
  says how such a count changes when one thread moves; with it, `OneBaton` (at
  most one thread inside, counted with the permits and with those about to
  signal; contention is everyone counted) is inductive for the benaphore.  The
  recursive one needs `OwnerHolds`, that the owner is the thread inside and the
  recursion count its own, and `CallsFit`, at which depth a thread can be where.
- `Semaphore`: `NoLostWakeup` with the types is inductive; the permits that a
  signal adds are matched by the threads it wakes, or nobody sleeps any more.
  `PreshingSemaphore`: a negative count is the number of threads that gave it up
  and have not been woken, less what is on its way to them.
- The refinements map the initial states and each step to a step or a stutter
  of the abstract module, under the invariant; `Holder` is the thread inside,
  which `OneBaton` makes unique.
- The thread table: JoinThread takes an entry out by the handle in it, so never
  that of another thread, and CreateThread that takes an entry makes its thread an
  overtaken one.  So every other thread that is still to be joined keeps its entry
  (`EntriesKept`), wherever the copy of `liveThreads[threadCount]` ends up; and a
  join that finds no entry is one of an overtaken thread (`FirstEntry`), which is
  what the count is off by (`TableCounts`).
- The ring buffer: the slots in use are the `count` slots before the head index,
  going round the end, and each operation gains or loses one at an end of them.
  A thread between load and exchange knows nothing but the word it loaded, and
  that is enough, since the exchange compares all of it.  `GoesRound` of
  `ThreadCounts` does the arithmetic of indices.
- `FileIO`: `FileInv` says that a writer is alone with the file (`WriterAlone`,
  which is what the sharing modes of the two opens amount to), that the file is
  the first `i` of its chunks, one after another, and that a reader has asked for
  the size of the content that is still there.  Without a writer the file stays
  the beginning of the chunks of whoever opened it last.  That a chunk makes the
  next beginning is `BeginningGrows`, by the lemmas about `FlattenSeq` that the
  queue uses too.
- `HttpClient`: `InOrder` is inductive with the types: a request is appended on
  one side and moves from the queue to the hand, to the responses, to the
  delivered ones.  `NoLostWakeup` uses that `SignalRequest` comes after each push.
- `HttpRead`: what was received was sent (`Received <= sends`), and a buffer that
  is full is followed by a new one (`ReceivedGrows`).
- `HttpConnection`: `Progress` says which calls a request without TLS makes, what
  it has of TLS, and that Close was not called before the end; `SocketsKept` says of
  the sockets that all are closed until one is connected, and then all but that.
- `TextScan`: `ScanInv` says that a String ends with the text or right before a
  line end (`EndRight`) and does not begin inside one, and so does a line that may
  be read in turn.  Then the character before a String and the one after it, which
  ConsumeLine looks at, cannot mislead it: a lone `"\r"` within a line would have
  its `"\n"` at the end of the String, which `EndRight` excludes
  (`LastLineStep`, `LineStep`).
- `Logging`: the entries in the queue are the permits, the one about to be popped
  and those whose loggers have not signalled; the bound of the backlog keeps the
  count of the queue from stopping.
- That the log prints what was logged: `Printing` says there is a list of all
  messages begun, of which the ones printed are the beginning, those in the
  queue the middle, and the one its logger is busy with the end; and a position
  of each text in a buffer that has no end, of which the text buffer is the
  remainder.  A message skips at most what is left before the end (`NextText`),
  so the texts that matter span less than one turn and share no slot
  (`TextsApart`).  The permits, counted by the first invariant, say
  that an entry that is taken is filled in.  TLC does not check `Printing`
  itself, an existence over lists, but what follows from it.
- `GenericHeap`: the links stay in the list, and a block ends before every later
  one begins (`InOrder`), without which a block that is cut off in a split could
  meet one that is there.  Two free neighbours exist only inside Free, where the
  merge is due, which is why they never do between calls.
- `MemoryArena`: what a scope has lies below the mark of every scope within it,
  on a page before the mark's, or on its page and before its position
  (`MarksRight`).  The end of temporary memory cuts the pages off at the mark
  (`CutAt`) and takes nothing of that (`CutKeeps`), and marks of outer scopes lie
  below the inner ones, so they are still good.  A push puts its block behind
  everything in use on its page (`PushGrows`).
- `Hashtable`: `Right` is inductive.  A table is `Sound` when its count is that of
  the slots in use and the search for the key of each of them ends in that slot,
  so no key is there twice; and at most half of the slots are in use.  Then a slot
  is free (`FreeSlot`), the probes for any key come to every slot
  (`ProbesReach`, because they are the remainders of consecutive numbers), so
  there is a first one to stop (`SearchStops`, `SearchFinds`).  A key that is put goes into a
  free slot, where every other search stopped later or never came by
  (`SearchKept`): nobody's search changes, and the content gains one pair
  (`PutRight`).  `Resized` is a recursion over the slots of the old table.  That
  it has a value is `RecursionUp` of `ThreadCounts`, and that the new table has
  the entries of the slots gone through, and no more of them, is induction over
  their number (`CarriesAll`); room for all is a matter of `CapacityFor`, where
  `NextPowerOf2` is shown (`NextPower`) to be the least power of two that is not below its
  argument, out of the recursion of `PowerOf2`.  What the iterators give is
  counted up in the same way (`IterateGives`).
- `Strings`: `StringsInv` says of each String at once that it has what was put in
  it (`Belongs`): a block of the allocator its flags name, with that text, or a
  literal, which it may say it owns only if that is the empty one; and that no two
  have the same block and no block is without a String.
  Every assignment clears first, which leaves all this right for a String without
  text (`ClearRight`), and then puts a literal or a new block in
  (`PutLiteral`, `PutBlock`).  A move hands a block over (`HandOverRight`) or,
  across allocators, puts in a copy and clears the source, with the flags it
  still has.
- `Array`: `ArraysRight` says that an array has a block with as many slots as its
  capacity, or the caller's buffer, or none, and that it has an allocator exactly
  if the block is to be given back.  A free block holds no items
  (`ContentsKept`), so the new block of a Reset or a Clone is none that another
  array has.  Each call changes one array, and no block but its own and a free
  one (`ArrayChanged`), except the move, after which the source has none.
- `BucketArray`: `BucketsRight` says of one array that its blocks, in use or
  retired, are different, and that its buckets fit their list and their size.  A
  call works on the array and the memory; `Fits` is the array together with all
  of the memory but what the other arrays have, and every step of a call keeps
  it (`StepsKeep`, by which the recursions over the buckets of a Reserve and the
  items of a Push keep it too).  That there is a block for each of these steps
  is counted, as `Cardinality`, from the guard of the call.  Where the gaps are does
  not matter to this, so nothing is assumed of `ReserveSizes`.
- `RingBuffer`: places are counted backward from the next slot (`SlotBehind`): the
  items of the queue are the `count` places behind it, the newest first.
  `RingMoves` says how places shift when the next slot does, and `NextSlotFree`
  that a push meets none of the items it keeps; so each operation is one of the
  deque (`PushGoesIn`, `PopsAtEnds`).  An iterator reaches the places one by one
  (`IteratorSteps`), and its ending condition holds at the last and not earlier
  (`RoundEarly`); by induction over the steps the function `seen` of `Visited`
  has the value it should (`VisitedAre`), and what it gives is the whole queue
  (`WentThrough`), but for the backward iterator of a full ring, which may be over
  after the newest.

Only model-checked: liveness under fairness, which the provers do not reach, and
everything about ENABLED: `WaitersWake`, `RequestsAllAnswered`, `ShutdownReturns`,
`LoggedIsPrinted`, `ReadWholeIsRecognized`, `JsonParserEnds`.  So are
`ChunkedBodyIsWhole`, and in `ContainersImplementAbstract` the refinements of
`Array` and `BucketArray` and the heap's `FindsRoom`.  These put their items
together with folds, and a fold takes an operator as a parameter, about which no
theorem of the library can be used.  Recursion over numbers is within reach, as a recursive
function (`CountingFromZero`, `RecursionUp` and `LeastNumber` of `ThreadCounts`);
recursion over texts and trees is not, and what is checked under `text` is about
such recursion, or folds.

## 6. What is not modelled

- Memory order: each atomic access takes effect at once, in one order for all
  threads.  The code runs on x86-64 Windows, where the plain loads and stores
  next to those atomics are not reordered in a way these models could tell, but
  compilers are not considered.
- Allocation failure: allocators have memory, or the call waits.
- Contents: which header field ParseResponse finds, TLS itself, formatting and
  conversions of numbers, channel volumes, endpoints, paths.
- The unsynchronised parts of the log: AttachEndpoint, ResetEndpoints (marked
  FIXME in the code) and the channel table.
- JSON: comments, single quotes, hexadecimal numbers, Infinity and NaN, which
  are behind flags; json_extract_value but for its size.
- `OldBucketArray`, which nothing uses; the context stack, which C++ scopes keep
  balanced; CSV and the one-off loaders of misc.cpp; FindFiles and the path
  queries; the ImGui reflector, a user interface; the platform mutex wrappers;
  https.cpp, "Unused. Just here for reference", and ca_cert.h, which is data.

Next in the plan: the platform mutexes as handles to one static lock; `Logging`
beyond its backlog; FindFiles with its nested enumeration; the refinement of
`Array` as a theorem.
