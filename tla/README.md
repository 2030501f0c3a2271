# Verification of Just_for_test_and_try

The repository holds a small C++ network library with the programs built on it
(`src/single_fs`) and two generations of a web server (`src/http_server.*`).
This directory holds TLA+ modules of the parts where threads, sockets and files
interact and of the algorithms that synchronise files, TLC configurations that
check them on small instances, and TLAPS proofs of what matters most for every
instance.

1. [The system](#1-the-system)
2. [Modules](#2-modules)
3. [Runs](#3-runs)
4. [Fairness](#4-fairness)
5. [Proofs](#5-proofs)
6. [Disagreements](#6-disagreements)
7. [Limits of the models](#7-limits-of-the-models)
8. [Not modelled](#8-not-modelled)
9. [What could come next](#9-what-could-come-next)

## 1. The system

### net.v1, the network library (`single_fs/depends/net.v1`)

| Part | State | Operations | Used by |
|---|---|---|---|
| `TaskQueue<T>` | `data_queue_`, `lock_`, `limit_` | `Push` (retries while full), `Pop()` and `Pop(timeout)` (retry while empty) | packet queues (limit 10), the tasks of the chat server and of simple_rsync |
| `StreamSocketContext` | `packet_queue_`, `recv_buffer_` and `buffer_offset_`, `ret_buf_`, `replied_`, `need_ack_` | `AsyncSendPacket`, `HandleInput` (recv, `Chunking`), `HandleOutput` (pop, `Send`) | one for each connection |
| `CommunicateLoop` | an epoll descriptor, the registered contexts | `HandleEvent`, `AddEvent`, `SetEvent`, `ClearEvent`, `Start`, `Stop` | one thread for each process |
| `NetMachine` | the loop | `AsyncListen`, `AsyncSendPacket`, `SyncSendPacket` | applications |
| `ListenSocketContext`, `ListenHandler` | the listening socket | accept, one for each edge | servers |
| `Packet`, `Channel`, `SimpleList`, `Singleton`, `Package` | data | accessors | everything |

An application thread puts a packet into the context's queue and modifies the
epoll registration; the loop thread is woken by that (all registrations are
edge-triggered), empties the queue into the socket, reads the socket until it
would block, cuts the bytes into packets and calls the application's
`OnReceived`, on the loop thread. `SyncSendPacket` polls `replied_`, which the
loop thread sets. Hard here: two threads per context without a lock on
`replied_` and `ret_buf_`; lost or dropped edges; blocking pushes and sends on
the thread that would have to make room; byte streams cut anywhere.

*Correct means*: the queue is a bounded FIFO; nothing is lost, repeated or
reordered between two applications; a synchronous call gets its own reply and
returns; a packet is not used after its deletion; a connection is deleted only
when it has ended.

### net, the older library (`single_fs/depends/net`)

Most of its files are those of net.v1, word for word. Its `HandleInput` is
another one: for each edge it parses one header (`ParseHeader`, which takes
"nothing there" for a disconnection), receives the body whole, spinning on the
loop thread until it is there, and calls `OnReceived` once. State: the contexts,
`recv_buffer_`, the packet queues. Hard here: bytes of a second packet that came
with the first; an edge whose bytes are already used up; a client that sends
half a packet holds everybody's loop; one accept for each edge of the listener.

*Correct means*: a connection is dropped only when its client has gone; a client
that waits for its answers gets them.

### Chat (`single_fs/chat`)

The loop thread turns each request into a `TaskNode` and pushes it into a task
queue; the `ChatProcess` thread pops tasks and does logins, private messages
and broadcasts. `UserConnection` maps users to end points and back; its mutex
is taken by both threads. The loop thread removes a user and deletes its
`EndPoint` when the connection closes. Hard here: an `EndPoint` looked up under
the mutex is used after it; a broadcast pushes into packet queues under the
mutex; the two bounded queues and the mutex can be waited for in a cycle.

*Correct means*: the two maps stay inverse; a private message reaches only its
receiver's connection; logins take effect; closed connections are released;
nothing is used after its release; the server does not stop.

### File store (`single_fs/depends/fs` and `single_fs/app`)

`Ifs` appends each file to `data_storage.dat`, keeps a `MetaNode` (id, start,
length) for each in a hash map, and after each PUT rewrites `meta_storage.idx`
in place. `init` reads that file at the first request after a start.
`EchoFromIfs` answers GET and PUT on the loop thread. Hard here: crashes between
the system calls of a PUT, the order of the hash map, a descriptor that is not
closed on an error path, an inverted error test.

*Correct means*: an id answered to a PUT reads back that file, whole, now and
after a restart, and is never given to another; files do not overlap; SUCCESS
carries the file.

### librsync: rdiff (`single_fs/librsync`, `depends/type/circle_queue.h`)

One process does three things in a row: `GenerateSigFile` lists the full chunks
of the old file with a weak, rolling sum and a strong one; `GenerateDeltaFile`
rolls a window over the new file (`ScanNewFile`), looks each weak sum up, and
writes the new file as copies of old chunks and literal bytes; `PatchFile`
applies that to the old file. State: the signature and its index, the list of
offset nodes, `FileMap`, a buffer onto a part of a file, `WriteFileMap`, and
`Checksum3` with the last bytes in a `CircleQueue`, a ring that grows and
shrinks. Hard here: pointers into a buffer that is read again behind them, the
end of the file, an uninitialised length, sums whose halves wrap, a ring that is
resized while it wraps, pieces and flushes that must add up.

*Correct means*: the rolled sum is the sum of the window; the scan ends and
stays in its buffer; the patched file is the new file; an unchanged file is
not sent.

### simple_rsync (`single_fs/simple_rsync`)

A client asks for the description of a file (`GET_META`), scans its own copy for
the chunks (`ScanFile1`), and builds the file from its copy and from chunks it
asks for (`GET_CHUNK`), each question a synchronous call. The server's loop
thread pushes a `TaskNode`; several `ServerProcessor` threads pop and answer.
They share one `RsyncService` with one MD4 context. Hard here: the file changes
or vanishes between two questions, or between a test and the `open`; two threads
interleave in the MD4 context.

`cp.cpp` holds five local copiers (`cp3` to `cp7`) on the same idea, which read
the second file in batches and differ in what confirms a weak match.

*Correct means*: each call is answered once; a client builds the file it was
told of; the copiers agree on what is where, however they cut their input, and
the file they build is the source.

### Web servers (`http_server.1.1.0`, `http_server.1.0.0`)

**1.1.0**: one acceptor thread pushes each accepted connection into a queue
(limit 100); the workers of `HttpWorkFlow` pop, receive one request, answer it
and close. The output of a PHP page goes through a temporary file named after
the second. Hard here: workers blocked on silent clients, a full queue that
blocks the acceptor, temporary files shared by requests of the same second, an
`epoll_event` that is or-ed into without being initialised.

**1.0.0**: one loop (`Communicate`) accepts, receives and answers; connections
stay open. After an answer a connection is switched to wait for room, then back
to wait for input, edge-triggered. State: `fd_num_` (uninitialised), the
registered descriptors. Hard here: edges between the switches, requests cut in
two, browsers that stop reading or reset, `SIGPIPE`.

*Correct means*: every request is answered, with its own page; no input is
forgotten; nothing is left behind, no temporary file and no descriptor.

`test_http_server` is a later copy of 1.1.0.

## 2. Modules

```
BoundedFifo <--refines-- TaskQueue <--- TaskQueueProofs
     :  (used as the queue of)
     +.... Connection <--- ConnectionProofs       packets as units
     +.... Chat <--- ChatProofs                   the chat server
     +.... HttpServer <--- HttpServerProofs
     +.... SimpleRsync                            the tasks of its threads
Framing <--- FramingProofs    the bytes below Connection's packets
OldNet                        the other HandleInput, and the listener
EventServer <--- EventServerProofs           http_server.1.0.0
FileStore <--- FileStoreProofs
CircleQueue
     ^
WindowScan  <--- RsyncDelta <--- RsyncInvariants <--- RsyncDeltaProofs    rdiff
            <--- SimpleRsync  the remote synchronisation
            <--- LocalCopy    cp3, cp4, cp6, cp7
```

Each `MC*` module extends the module it is named after and defines the constant
values a `.cfg` cannot express. Definitions named *Faulty ...* in comments are
variants a plausible mistake would give; no specification uses them, and each
property is known to fail when one of them takes the place of the real one.

**BoundedFifo** is what a task queue promises: `Put` when there is room, `Take`
when there is something, in order.

**TaskQueue** is `task_queue.h` statement by statement: `lock_` is a mutex
variable, each statement between lock and unlock is an action of its own
(`PushTest`, `PushAppend`, `PopTest`, `PopFront`, `PopRemove`), and so is each
sleep. `Pop(timeout)` counts its sleeps in `cost` as the code counts
`time_cost`. `put`, `taken` and `got` are history variables: the items pushed,
the items removed, and which consumer got which.

**Connection** is one TCP connection between the library's test client and a
server that sends every packet back. Per side: `packets` is `packet_queue_`,
`loop` the place of the loop thread in `HandleEvent`, `HandleInputImpl`,
`Chunking`, `OnReceived` and `HandleOutput`, `inbox` the complete packets in the
receive buffer, `hand` the packet it works on. `ready` and `wantOut` are epoll's
ready list and the registered EPOLLOUT. `stream` is the kernel's buffers of one
direction, `Window` packets long. The application thread calls `AsyncSendPacket`
or `SyncSendPacket` (`synchronous`, chosen in `Init` out of `Modes`) and deletes
each reply as the test client does. A packet is its number.

**Framing** is the same path below: `HandleOutput`'s fields in cells of four
bytes, `recv` in pieces of any size up to the room in `recv_buffer_`, `Chunking`
with its four returns, and `delete this` when `recv` returns 0. Data may hold
HEAD: when such data is taken for a frame and its lengths lead outside what was
received (`InPlace` fails), `Chunking` hands over bytes that were there before
(`Stale`) or the process dies (`ChunkCrash`). Connection assumes what Framing shows
for packets that fit: they come out whole and in order.

**Chat** has the loop thread (`loop`, `conn`, `batch`), ChatProcess (`chat`,
`job`, `target`, `rest`), the task queue, one packet queue for each connection
(`out`), the registry (`userConn`, `connUser`) and its mutex. `addUser`,
`removeUser` and `getEndPointByUser` are single actions guarded by the mutex
being free; `sendToAllUser` takes it, pushes one copy at a time and gives it
back. A request is a record of its type and name. `LoginNames` says which names a
client may log in as; two may share one, and one may have several.

**FileStore** has the two files (`data`, `size` and `entries`), what the process
keeps (`metas`, `latest`) and the descriptors that are left (`leaked`). A PUT is
four kinds of steps, one for each system call: the append, the count, each node
in an arbitrary order, the reply. `Crash` is enabled at the places
`CrashPoints` names; `Start` is `init`. `acked` is the history of answers.

**HttpServer** has the browsers (`phase`, `page`), the acceptor (`backlog`,
`held`), the queue, the workers (`work`, `job`) and the temporary files by
second (`tmp`: who created it, and what is in it). The shell creates or
truncates a file and php writes it, into the inode the shell opened (`out`) even
if the name has been removed. `trigger` is what the uninitialised `epoll_event`
turns out to be: level-triggered, edge-triggered or reported once. A fourth value
stands for a listener that is not watched at all, since `fd_num_`, which `AddEvent`
tests first, is uninitialised too.

**CircleQueue** is the ring as operators on a record of its five members. What
`Realloc` does to a ring that wraps is translated as it stands, miscount and
junk included. `Contents` is the sequence a ring stands for, `Rings(T, n)` the
rings whose positions agree with `size_`.

**WindowScan** is what both synchronisers share, as operators on records:
`Sum1` and `Update` of `Checksum3` with halves modulo `HalfWord`,
`MapFileContent` and `Read` of `FileMap` with the pointer that was last returned
(`at`), `GenerateMetaList`, and the scan. `ScanStep` is one pass of the outer
loop of `ScanNewFile` up to the first byte rolled in (`ScanBlock`) or one byte
(`ScanRoll`). The strong sum of some bytes is the bytes.

**RsyncDelta** is one run of rdiff: `stage` is the place in `main`, `scan` the
scan of the new file, `nodes` the offset list and `covered` how much of the new
file it describes, `delta` the delta file (left over from an earlier run, if there
was one), `reader` and `writer` the two buffers. `heap` is the uninitialised
`length_`; if it is beyond the buffer and the file is larger than the buffer, the
constructor of `FileMap` writes behind its array, and the run ends there
(`OverrunBuffer`, stage `overrun`). One action for each step of the
scan, which adds the nodes of a match as it finds it, and for each node written or
piece applied.

**SimpleRsync** composes clients, the task queue and the `ServerProcessor`
threads. A thread pops and tests for the file (`Process`), opens it (`Open`),
and for a description goes through `Md4Init`, `Md4Update` and `Md4Final` of each
chunk on the shared context `ctx`. A client takes the description, scans its
copy, and asks for or copies chunk after chunk. The strong sum of a file shorter than
a chunk is that of the shared ring, whose array `GetData` replaces: two threads that
do so at once may delete it twice (`OfNothing`, `FreeTwice`). `Change` replaces or removes a
file at any moment. `base` is history: the version a client was told of.

**LocalCopy** runs one of the four copiers (`method`). `curr` and `left` are the
code's two ways to count, `batch` the part of the file in memory; `Slide` is one
byte of the window, `Construct` is `construct_file`.

**EventServer** has the browsers (`peer`, `reads`, `sent`), the backlog, epoll
(`interest`, `ready`), and the loop: `batch` is what `epoll_wait` returned,
`answering` says that it is inside `SendFile`. A request is two pieces, `head`
and `tail`, which may arrive and be received in any combination. `fdNum` is
`fd_num_`: any of `FirstFdNum` before the listener is added, which counts, if there
is room for it. After a closed connection has been given back its deleted content
is asked for its descriptor: the server goes on or goes down.

**OldNet** has the clients, the backlog, and the loop with its place (`at`) in
`ParseHeader`, `Recv` and `HandleInput`. The n-th packet of a client is the units
`<<n, 1>>`, `<<n, 2>>`, ...: its code and its length, of `Word` units each, and its
body; the stream may be cut between any two. A code that came in part is dropped
with its connection, or taken for whole, with what was on the stack for the rest
(`cut`), and then the length is read out of step (`astray`). An answer goes into a
queue of `QueueLimit`; when it is full the loop waits for itself (`push`). `crowded`
is history: two connections were in the backlog at once.

## 3. Runs

All runs are exhaustive; none uses symmetry, since most check liveness.

| Run | States | Shows |
|---|---|---|
| `TaskQueue` | 61,260 | Two producers and a consumer of each kind on a queue of two. The mutex excludes (`Exclusion`), items leave in order (`Fifo`), the statements implement BoundedFifo (`ImplementsFifo`), `Push` and `Pop(timeout)` return (`PushReturns`, `TimedPopReturns`) and every item is returned by some Pop (`Delivered`). |
| `Connection` | 30,211 | In both modes the packets in all queues, buffers and hands are the requests in order (`PathIsFifo`). With synchronous requests the n-th call gets the n-th echo (`ReplyMatchesCall`), no loop waits for itself or for the other one (`SyncNeverBlocked`), and every call returns although EPOLLOUT edges that come with EPOLLIN are dropped (`SyncSendReturns`). |
| `ConnectionReplyInUse` | violation | `HandlerPacketAlive`: the reply is deleted while `OnReceived` reads it. |
| `Framing` | 69,775 | Five kinds of packets, cut by `recv` anywhere: empty, with a frame that fills the buffer, with a body one cell shorter than the buffer, and two that are refused, one of which holds HEAD. While all fit, all are delivered, also when the sender closes at once (`Delivered`). After a refused one nothing is invented, repeated or reordered, unless a packet was sent that holds HEAD (`NothingForged`). An open connection is deleted only behind a total length of one cell less than the buffer, which passes the size test and whose frame does not fit (`ClosedByPeerOrFull`); the run reaches that. |
| `Chat` | 222,933 | Two clients that log in, send and close at any time, queues of capacity one. The second may log in as the first, and under two names. No step but such a second login makes the two maps disagree (`AgreesUntilSecondLogin`), private messages stay private (`PrivateStaysPrivate`), and logins take effect and connections are released unless ChatProcess is held for ever by a full packet queue (`LoginTakesEffect`, `ReleasedUnlessHeld`). |
| `FileStore` | 17,319 | PUTs, GETs, restarts between requests, every hash order, descriptors that run out. Answered files read back (`ReadBack`), a restart recovers exactly what was in memory (`RestartRestores`), ids are never reused (`IdNeverReused`) and GETs carry the right file while a FILE can be opened (`ServedWhileFdsLast`). |
| `HttpServer` | 441,073 | Three browsers, two workers, a queue of one, two seconds, all outcomes of the uninitialised event and counter. A wrong page or length needs a second PHP request in the same second (`WrongOnlyIfShared`), every temporary file has a worker that will remove it (`NoLeftovers`), and with a level-triggered listener every request is answered unless silent connections hold all workers for ever (`AnsweredUnlessHeld`). |
| `RsyncDelta` | 1.18 million | Every new file of up to eleven bits against four old ones. Unless a constructor writes behind its buffer, which ends the run: the rolled sum is the sum of the ring's bytes (`RollingAgrees`), which are the last bytes of the file unless a weak sum collides (`WindowFollows`); the scan stays in its buffer (`ReadsStayInBuffer`) and ends (`ScanAdvances`); an unchanged file is sent as copies (`UnchangedIsCopied`); the result begins with the new file, and at most a chunk follows (`Rebuilds`). |
| `SimpleRsync` | 1.01 million | Two clients, two threads, one change of the file, which may be shorter than a chunk. A call is in one place at a time (`CallInOnePlace`), is answered unless the server dies (`Answered`), and a finished client has the file it was told of, unless the file changed meanwhile, a match reached over the end of the copy, or a mixed up strong sum met the weak sum of the chunk or a scan that had refused a match (`WrongOnlyIfMixedUp`). |
| `LocalCopy` | 121,029 | Every second file of up to nine bits, all four copiers. At each moment cp4 and cp6 have marked exactly the latest occurrences seen so far (`MarksLatest`), and cp3 and cp7 build the source (`Rebuilt`). |
| `EventServer` | 444,071 | Two browsers. While the loop waits, epoll still has every input on its list (`NoLostEdge`); requests are answered (`AnsweredUnlessStalled`) and closed connections given back (`ClosedIsReleased`) unless the server is down, deaf or stalled. |
| `OldNet` | 1.46 million | A client that waits for its answers and one that does not, cut anywhere. A connection is dropped only if its client closed it or the last that came is a part of a code or of a length (`DroppedOnlyIfClosedOrCut`), never for an edge whose input is used up; a waiting client is answered unless another holds the loop for ever, its own code was cut and taken for whole, `SIGPIPE` ends the server, or it is left in the backlog since two connected at once (`AnsweredUnlessHeld`). |

### Bounds, and why they are enough

- *Queues* have capacities of 1 or 2 instead of 10 and 100: full, empty and in
  between all occur, with more requests than fit. The proofs of TaskQueue hold
  for every capacity.
- *TaskQueue*: three items for two producers and two consumers, so that two
  pushes race for the last place and two pops for the last item; `Tries` is the
  number of sleeps before `Pop(timeout)` gives up (timeout/10 in the code).
- *Connection*: five requests (`MaxRequests`) against a path that holds two in
  each queue and each direction: enough for pipelined use to fill the request side
  and to put both loops into a full queue (section 6).
- *Framing*: a cell is four bytes, the buffer has eight cells instead of
  4 MB/4. Every boundary of the size tests is hit: a frame as long as the buffer,
  a body one cell short of it, a body as long as it. The refused packet with HEAD
  holds what looks like a whole empty frame from one place and like a frame with
  lengths that lead outside from another. Three packets, so one precedes and one
  follows the odd one.
- *Chat*: three requests are enough for a login, a message that fills the
  receiver's queue of one and a broadcast behind it; also for two logins under one
  name, or of one connection, and a message after them.
- *FileStore*: files of 0, 1 and 2 bytes, three ids, two descriptors. The proofs
  hold for every bound.
- *HttpServer*: three connections on two workers, so one waits while the others
  hold the workers; two seconds, so that files of one second overlap and the
  clock ticks at each point of a request. One PHP page and one missing name, the
  two kinds of answers: a file through `tmp` and a file directly.
- *RsyncDelta*: chunks of four bytes, so that a window has an inside; a buffer of
  seven, smaller than the files, so that windows straddle its end and are read
  again; halves modulo 4, so that sums wrap and different chunks collide;
  `CharOffset` 0, so that this is not hidden; old files with and without a
  partial chunk, with two chunks of one weak sum, and one of which a match may lie
  wholly beyond the end of a new file; a writer of six bytes and
  pieces of three, so that it is flushed inside a chunk; an uninitialised length
  of nothing, a part of the buffer, all of it, or more than it holds. The ring starts with 46 cells
  for four bytes, so it shrinks while bytes roll through.
- *SimpleRsync*: one client's copy has a window with the weak sum of the file's
  first chunk and other bytes, which the scan refuses, and after it the second
  chunk: the scan then meets a mixed up strong sum with a weak sum that is off. The
  other client has the second version, which ends in a partial chunk, or nothing;
  there is a version shorter than a chunk, of which the strong sum is that of the
  shared ring, and one that is no file. One change puts the file's replacement at every
  point of both clients' sessions.
- *LocalCopy*: batches of three bytes against chunks of four, so that no batch
  holds a window; files shorter than a chunk, than a batch, and none.
- *EventServer*: `MaxEventNum` 3 with 0, 1 or 3 counted before the start, and the
  listener itself counts: room for both browsers, for one, and not even for the
  listener. Added events carry no junk, or the worst. Two
  requests from one browser make a connection go round its switches twice.
- *OldNet*: words of two units, so that each may come in part; a body of two and a
  buffer of three, so that what follows a body fits into the buffer in part. Three
  packets, so that two may come in one receive and one is left, and so that they
  are more than the queue of two takes.

Deadlock checking is off where the program may stop: pipelined use of
Connection, Chat when held (both are what the runs are about), servers whose
browsers may all stay silent or that are down, and the programs that end
(RsyncDelta, LocalCopy, the clients of SimpleRsync).

## 4. Fairness

- *Threads keep running*: weak fairness of each thread's next step. Every thread
  here is a loop that polls or blocks in a call that returns when it can. In
  EventServer and OldNet this is the one loop thread, in SimpleRsync the threads
  of the ServerProcessor.
- *Strong fairness of `Lock`* in TaskQueue: the mutex is released before every
  sleep, so a waiting thread finds it free again and again, and a pthread mutex
  does not pass over a waiter for ever when holders sleep for 10 us to 1 s
  between attempts. Weak fairness would let two other threads alternate for
  ever.
- *Not assumed*: clients that send, close or speak at all; the clock; EPOLLOUT
  events in Chat, because Connection shows an edge may be dropped. Hence the
  "unless held" in the liveness properties.
- RsyncDelta and LocalCopy need none. That the scan ends is stated as a measure
  every step makes smaller (`ScanAdvances`).

## 5. Proofs

Eight modules hold the theorems. Everything is checked by tlapm down to the last
leaf. Each inductive invariant was checked by TLC on the component's run before
it was proved.

**TaskQueueProofs**, for any threads, items and limit. The invariant `IInv` is
`TypeOK`, `Exclusion`, `TestStillHolds`, `Fifo` and `CarriesItem`.
`TestStillHolds` is not inductive alone: that a size test still holds at the push
needs `Exclusion` (nobody changed the queue in between), and that the queue stays
one of items needs `CarriesItem` (a Push between test and push has its item, a
Pop that has not removed anything has not set `success`). From it follow
`TypeCorrect`, `MutualExclusion`, `NoStaleTest`, `FirstInFirstOut` and
`Refinement`: each `PushAppend` is a `Put` of BoundedFifo, each `PopRemove` a
`Take`, everything else a stutter.

**ConnectionProofs**, for any number of requests, any limits and both modes. The
whole path is cut into nine pieces, buffer by buffer. Every action that touches
it moves one packet from a piece to its neighbour, lets one in at the client's
queue, or lets one out at the client's `OnReceived`; `MoveHead` and its relatives
show that the concatenation is the same. That gives `PathFirstInFirstOut`. From
it, `CallInTurn` (how far a synchronous call is, by what came back of it) gives
`RepliesMatch`: the reply that ends the n-th call is the n-th echo. And the
lengths add up: with synchronous calls at most one packet is on the path
(`OneAtATime`), while a loop that waits for room needs one in its hand and one in
its way; hence `NeverBlocked`. `NoneReturned` and `Drained` are what these need
to be inductive.

**ChatProofs**, for any connections, names, requests and capacities.
All of them allow every assignment of names to clients, one name for several
clients and several for one. `PrivateMessages`: a request carries a name of its own
connection wherever it waits (`Requests`), so the registry never leads from a
name to a connection that is not its own (`Registry`), and so does what
`SendToOne` has looked up, even if the registry has changed since (`Process`).
`OnlySecondLoginDisagrees` says which step alone makes the maps disagree: a login
under a name that another connection has, or of a connection that has another name.
Nothing refuses it, and it leaves an entry of one map that the other does not lead
back to. `RegistryIsConsistent` follows: in a run without such a step the maps are
inverse to each other.

**FileStoreProofs**, for any contents, number of files, restarts and hash orders,
assuming `Orderly`: the process stops only between requests and the disk does not
fill up. Without either the property is false (section 6). The invariant says
that the known nodes are a *chain*: ids 1..n, each file starting where the
previous one ends, the last one being `latest` and ending where the data file
ends; that the answered files are their slices; and, while the metadata is being
saved, that the first `pos` nodes on disk are those of the ids already visited.
When the iterator is done these are all of them, in whatever order, and
`RecoversChain` shows that `init` then builds the same map and picks the same
latest node. It yields `TypeCorrect`, `AnsweredFilesReadBack`,
`FilesAreDisjoint`, `RestartIsHarmless` and the action properties `IdsAreStable`
and `ServedWhileFilesOpen`; the latter needs one fact more, that the data file is
there as soon as a file is (`FilesMakeData`), also after a restart.

**HttpServerProofs**, for any clients, workers, pages and seconds and any queue
limit; the assumptions only keep the kinds of pages and `None` apart. Neither
property is inductive alone. `EachOnce` says that a connection is in one place,
once in the line of those to be popped (queue, acceptor's hand, backlog) or with
one worker: without it another worker could close the connection this one
serves. `Serving` ties a worker's place to what its connection did and to its
having a temporary file. `Counted` says that two workers with the same file have
been counted twice. Then a file that was counted once belongs to one worker
(`Alone`), it is the inode that worker's php writes and afterwards holds its page
(`OwnFile`), and what was sent of it is right (`SentRight`). This gives
`TypeCorrect`, `NothingLeftBehind` and `WrongNeedsSharing`.

**EventServerProofs**, for any finite set of browsers, any numbers of requests and
of watched descriptors, and any junk in the `epoll_event`. The invariant
`Remembered` says of every watched connection that has not been reset that it is
in the batch still to be handled, or that epoll is armed for it and has it on its
list if there is input. `Batch` makes it inductive: what is reported closed was
reset, and the listener is in a batch at most once, so that `Accept` finds a
connection. That a batch has all that was ready is the pigeonhole principle
(`OrderHasAll`). This gives `NoInputForgotten`. 
The module also proves about the loop of `net`, by an instance of OldNet, for any
finite set of clients and any sizes of words, body, buffer and queue (`OldSizes`). That loop takes
an edge with nothing to receive for a disconnection. `DropInv` says that what epoll
has reported is still there when its turn comes (`StillThere`), and that what is
there then begins with the start of a packet, or with the rest of the one the loop
is inside of (`InStep`), as long as no code was cut. A connection it drops was closed,
or what came of it last is a part of the code or of the length: `DroppedForCause`.

**FramingProofs**, for any payloads, buffer size and number of packets, and for
every way `recv` and `send` cut the stream into pieces. The cells in the receive
buffer and on the wire are the end of one stream in which the frames of all
packets lie one after the other; `LaidOut` gives the place of each, zero or less
when its beginning has been used up. Receiving moves cells from one part to the
other and changes no place; `Chunking` removes a prefix and moves all places
down. What is added to it differs:

- `FittingPacketsInOrder`: if every frame fits in the buffer, `Chunking` always
  stands where a frame begins, and that frame is the next to deliver (`FitInv`).
  The packets are then delivered whole and in order, and only the peer closes the
  connection, whatever cells the bodies hold.
- `NothingIsForged` lets packets be refused, and makes no assumption about payloads:
  that no frame sent holds HEAD but at its beginning is a premise of the property
  itself (`AllMarked`), about what was sent so far. Wherever `Chunking` finds HEAD, a
  frame then begins that it has not passed yet (`MarkInv`). Without it the packets
  are forged (section 6).
- `ClosedOnlyIfFull`, of any payloads too: recv is asked for no byte at all only
  when the buffer is full behind a total length of one cell less than the buffer,
  since every other frame is refused or fits (`FullInv`).

**RsyncDeltaProofs**, for any files, any chunk, buffer and ring size, any width
and offset of the sums, and any heap word. One that is beyond the buffer ends the
run in `OverrunBuffer` where the file, too, is larger than the buffer; of what a
program does after that nothing is said. The invariants, and the predicates they
are made of, are in a module of their own,
**RsyncInvariants**. The proof goes up the layers of the model:

- *the ring*: `PushAppends`, `PopDropsFirst` and `GetDataStraightens` say that
  the operations are those on the sequence a ring stands for, wrapped or not.
  Where an array is replaced they assume that the elements do not wrap
  (`GrowsWhole`, `ShrinksWhole`): otherwise the code fails (section 6). That
  `Checksum3` stays clear of that is proved, not assumed;
- *folds*: a sum, the pushes of `Init` and a signature are folds over sequences.
  As no lemma can take what is folded as a parameter, each is unfolded on its
  own, by the smallest length at which the claim would fail;
- *the checksum*: `Update` keeps the sum that of the window, modulo `HalfWord`
  (`Agrees`);
- *the buffer*: what `MapFileContent` returns lies inside `data_` and shows the
  file where the file has bytes (`Maps`, `Mapped`, `Shows`);
- *the signature*: `SignatureDescribesOld`;
- *the scan*: `ScanOk` says where it may be (`InPlace`), that the sum is that of
  the window (`InSum`), and, if no weak sum is that of a different window
  (`Told`), that the ring holds the bytes before `curr` and the pointer shows
  those to come (`InStep`). The last needs an argument: a window with a known
  weak sum is read again, which moves the pointer while `i` goes on. Unless the
  sum misleads, such a window matches and the loop is left, so the pointer moves
  only when the loop is over.

`ScanInv` is that for the program, and gives `SumRollsRight`, `ScanReadsInside`,
`WindowKeepsUp` and the action property `ScanGoesOn`. Two invariants stand on it:

- `ListInv`: at every moment the nodes, laid one after the other, cover the new
  file up to `covered`; a copied node names bytes of the old file that are those
  of the new one there, as far as the new one goes. The delta is the first nodes of
  the list, the patch the bytes of the first of its nodes, piece by piece. That
  gives `PatchRebuilds`: only the last node may lead beyond the end.
- `SameInv`: while a file is compared with itself and no weak sum misleads, every
  chunk matches where it starts, so the scan never enters the inner loop before
  the last partial chunk: `UnchangedSendsCopies`.

Two more modules are proved about here, each as an instance (`Remote`, `Local`), so that what is
proved of the ring, the checksum and the buffer serves for them:

- SimpleRsync: `CallsAreConserved`, for any clients, threads, paths and versions,
  only assuming that `None` is no answer (`NoneIsNoAnswer`). A call moves from the
  queue to a thread to the reply; what each takes away from one count it adds to
  another (`CallInv`).
- SimpleRsync: `BuiltAsTold`, assuming of the files only that they are sequences,
  none of them the mark of a missing one, and of the heap's word that it is a length
  within the buffer (`RemoteFiles`). `BuildInv` adds to `CallInv` what is known of a
  chunk on its way: the threads that describe or scan hold it, the answer brings
  it, the scan marks it, and the bytes written are those of the first `built` chunks.
  At each place a marked chunk is one that was found where the bytes are those of
  its strong sum, and have its weak sum unless the scan had refused a match before.
  What it says of a client ends when the file changes, and what a strong sum is, if
  two threads have mixed it up, it leaves open.
- LocalCopy: `CopiesMarkLatest`, for any files and batch size (`CopyFiles` says
  that files are sequences). `CopyInv` says that whatever batches the file came in,
  the ring holds the last bytes slid over, its sum is theirs, and the chunks marked
  so far are those whose latest occurrence lies among the windows already
  closed. A step of any batch then is one more window (`Over`, `MarksEnd`).
- LocalCopy: `CopiesRebuild`, which assumes besides that the word on the heap is a
  length within the buffer. `RebuildInv` says that every entry of the description
  either leads to src as it did, or to a place of dst that counts for its method:
  one that goes over the end of dst, one with the bytes of the chunk, or in cp3 one
  with its weak sum (`CopyLists`, `FoundIn`). A mark keeps that, be it of one window
  of cp3 or one of the whole scan of cp7 (`CopyListRolls`, `CopyListSkips`). The
  construction is a fold of its own: after `j` entries what is written has the
  length of the first `j` chunks of src, and each piece of it is good
  (`BuiltUpto`, by induction over `j`).

Left to TLC is liveness under fairness, which the prover does not reach. All the
safety invariants and action properties of the runs are proved.

## 6. Disagreements

One run shows the code at odds with what the repository says of it (`PROJECT.json`,
"findings"): `Chunking` hands the reply to the polling caller before `OnReceived`
is done with it, and the caller deletes it (`ConnectionReplyInUse`).

Others were met with the same models. Each is reproduced by changing a `.cfg` as
said.

- *Framing*: the size test of `Chunking` compares the body with the buffer, but
  the frame is eight bytes longer. The run has such a packet, and it ends the
  connection: `ClosedByPeerOnly` fails.
- *Framing*: after a refused packet that holds HEAD a packet is delivered that nobody
  sent, or the process dies over its lengths. `NothingForged` without its premise
  fails.
- *Connection*: with `Modes = {FALSE}`, `NoStuckPacket` fails (an EPOLLOUT edge
  reported with EPOLLIN is dropped), and as invariants `~LoopsBlocked` fails (a
  handler that fills its own queue, two loops in `Send` to each other). net.v1's
  README promises synchronous use only.
- *Chat*: with `Closers = {e1}` and limits of 2, `NoUseAfterRelease` fails: an
  `EndPoint` is released while ChatProcess is about to use it. With
  `Closers = {e1}`, `ClosedIsReleased` fails: a broadcast and a close wait for
  each other for ever. In the run a second login makes the maps disagree
  (`RegistryAgrees` fails), and a login still queued when its connection closes
  enters the deleted `EndPoint` (`chat_process.cpp:52`).
- *FileStore*: with `CrashPoints = {"size", "entries"}`, `ReadBack` fails: a crash
  during a PUT loses or misplaces files that were answered before. Reads of
  missing ids leak FILEs, and when none is left SUCCESS carries an uninitialised
  buffer: `SuccessCarriesFile` fails.
- *FileStore*: the answer to a GET of a missing id is OTHER_ERROR, never
  FILE_DID_NOT_EXIST; the second error path overwrites the first one's answer
  (`app/server_handler.cpp:50-55`).
- *RsyncDelta*: the result is not always the new file, `PatchRestores` fails. A
  match across the end of the file or beyond it, among bytes an earlier part left in
  the buffer, appends up to a whole chunk; and a new file shorter than a chunk makes no delta,
  so that a delta left over from an earlier run is applied. For a file larger than the
  buffer the constructor of `FileMap` reads as many bytes as an uninitialised word
  says, also more than the buffer holds (`librsync/file_map.h:28`); the run reaches
  `OverrunBuffer`.
- *SimpleRsync*: a window with the weak sum of a chunk and another strong sum makes
  the scan read on from the wrong place (`rsync_service.cpp:184`), so that
  the weak sum no longer is that of the window. It then does not keep a strong sum
  that two threads have mixed up from matching: without `Refused` in `MixedUp`,
  `WrongOnlyIfMixedUp` fails.
- *SimpleRsync*: for a file shorter than a chunk two threads may delete the ring's
  array twice (`checksum3.cpp:76`); the run reaches `FreeTwice`, which ends the server.
- *CircleQueue*: growing a ring that wraps loses elements
  (`depends/type/circle_queue.h:40-50`). `Checksum3` never grows its ring.
- *HttpServer*: without the premise about `trigger`, `AnsweredUnlessHeld` fails: a
  connection stays in the backlog.
- *EventServer*: after `ClearEvent` has deleted the content of a closed connection,
  `communicate.cpp:69` asks it for its descriptor. In the run the server may go down
  there, which its properties except.
- *OldNet*: of a code that comes in pieces the first one is taken for whole
  (`depends/net/stream_socket_context.cpp:147`), and a full packet queue stops the
  loop for ever (`:69`). Both happen in the run: without `CutShort`
  `DroppedOnlyIfClosedOrCut` fails, without "push" in `HeldByOther`
  `AnsweredUnlessHeld` does.

## 7. Limits of the models

- *Connection*: packets are units and always fit (Framing has the bytes); no
  closing, no second connection, no start or stop of the loop. The packet queue
  is atomic here, and `Pop(1000)` does not wait.
- *Framing*: every field and all data are whole cells, so that after a refused
  packet four bytes of two neighbouring cells are not taken for HEAD. Cells are not
  negative, so neither are the lengths read from data that looks like a frame.
- *Chat*: `contains()`, which reads the map without the mutex, is atomic. Behaviours end
  where a released EndPoint would be used; memory is never reused. With unbounded
  requests the two queues alone close a cycle as well (a full task queue holding
  the loop thread, a full packet queue holding ChatProcess); that needs more
  requests than the run's bound, and the "unless held" properties cover it.
- *FileStore*: one `write` of a node is atomic, and metadata writes find room;
  `fwrite` of a file is one step, as much as the disk takes. Ids pass through
  `int32_t` and `atoi`, which matters from 2^31 files on.
- *HttpServer*: no resets, no failing `accept` (the code pushes the -1), no
  failing fork. PHP outputs have equal lengths, so one written over another
  replaces it. One PHP run writes its output in one step.
- *WindowScan and what uses it*: MD4 has no collisions; the strong sum of some
  bytes is the bytes. In the runs of RsyncDelta and LocalCopy a
  byte is a bit.
- *RsyncDelta*: the signature is kept as a list, not parsed back from its file.
  The old file does not change during the run. After the write behind a buffer
  nothing is modelled. The word on the heap is the same for all three `FileMap`s.
- *SimpleRsync* and *LocalCopy* leave that write out: their heap words are within
  the buffer (`Heap`).
- *SimpleRsync*: a full task queue is left out, and so are the packets below
  `AsyncSendPacket`. In the run a file changes once.
- *LocalCopy*: `cp5` is left out: it uses an MD4 context before it is
  initialised.
- *EventServer*: running out of descriptors is left out; the text of a request is
  two pieces.
- *OldNet*: after a code that was cut the length is taken to be longer than anything
  the clients still send. Clients read what they are sent; the growth of the receive buffer is
  abstracted to a buffer that has room for every body. `accept`, `bind` and
  `listen` do not fail.

## 8. Not modelled

- `Package`, `SimpleList`, `Singleton`, `Channel` of net.v1: containers, and
  parsing of fields in place, which the modelled paths use only through an
  object's identity. Nobody calls `Channel::GenerateNewId`, so all packets have
  one channel id. `Singleton` locks before it tests a second time.
- The demonstration programs of the file store and the client of `app`: drivers
  around one operation that FileStore and Connection model. `file_utils` wraps
  stdio.
- The benchmarks of simple_rsync (`scan.cpp`, `test.cpp`, `checksum1`,
  `checksum2`): loops around the scan that LocalCopy models, and sums no program
  uses.
- `test_http_server`: a copy of 1.1.0 with other paths and pages, which also
  exits on a request it cannot parse.
- Files of `net` and `net.v1` that are the same word for word are modelled once,
  and so are the headers in `single_fs/include`. `ParseHeader`, `Recv`,
  `AdjustBuffer` and `ReallocBuffer` of net.v1 are called by nobody or stand after
  a `return`.
- Logging, time, configuration and the thread wrappers: no state a property
  depends on.
- Start and stop of the loops: the programs start one and run until they are
  killed.

## 9. What could come next

1. That Connection implements a reliable channel of requests and echoes, which
   `PathFirstInFirstOut` is most of.
2. The start and stop of `CommunicateLoop`.
