------------------------------ MODULE SimpleRsync ------------------------------
(***************************************************************************)
(* simple_rsync: clients fetch files of a server. A client asks for the     *)
(* description of a file (GetMeta), looks for its chunks in the copy it has *)
(* (ScanFile1), and builds the file chunk by chunk, from its copy or by     *)
(* asking the server again (GetChunk). Each question is a synchronous call: *)
(* the loop thread of the server puts it on a TaskQueue, one of the threads *)
(* of the ServerProcessor takes it and answers. The threads share one       *)
(* RsyncService and, in it, the context of the strong sum. The files of the *)
(* server may be replaced at any time.                                      *)
(***************************************************************************)
EXTENDS WindowScan

CONSTANTS Clients, Threads,
          Paths,         \* the files of the server
          Versions,      \* the contents a file may have, and NoFile
          Copies,        \* what the clients may have of it: contents or NoFile
          Heap,          \* what an uninitialised length is; a longer one overruns
                         \* the buffer, which is left out (see RsyncDelta)
          MaxChanges,    \* bounds how often the files change
          NoFile, None

VARIABLES server,   \* "up", or "down" once it died or its loop thread hangs
          files,    \* the contents of the server's files
          queue,    \* the tasks of the TaskQueue, in order
          thread,   \* what each thread of the ServerProcessor is at
          ctx,      \* ctx_ of the shared summer: what it has absorbed
          client,   \* how far each client is
          copy,     \* the client's dst_file
          path,     \* the file it asks for
          reply,    \* the answer that waits for it, or None
          meta,     \* the chunks it builds the file from
          reader,   \* its FileMap of dst_file
          built,    \* how many of the chunks are written
          out,      \* what it has written
          changes,  \* how often the files changed
          base      \* (history) the version it was told of; None again when
                    \* the file has changed since

vars == <<server, files, queue, thread, ctx, client, copy, path, reply, meta,
          reader, built, out, changes, base>>

\* What the threads, and what a client, leave alone.
ClientState == <<client, copy, path, meta, reader, built, out>>
ServerState == <<server, files, thread, ctx, changes, base>>

Idle == [at |-> "pop", task |-> None, file |-> <<>>, list |-> <<>>]

\* What MD4_Final leaves, and what two updates make of more than a chunk of bytes:
\* no window has the sum that comes out of it.
Spent == <<None>>
Absorbed(bytes) == IF ctx = Spent \/ Len(ctx \o bytes) > Chunk THEN Spent
                                                              ELSE ctx \o bytes

Init ==
  /\ server = "up"
  /\ files \in [Paths -> Versions] /\ changes = 0
  /\ queue = <<>> /\ thread = [t \in Threads |-> Idle] /\ ctx = Spent
  /\ client = [c \in Clients |-> "start"]
  /\ copy \in Copies /\ path \in [Clients -> Paths]
  /\ reply = [c \in Clients |-> None]
  /\ meta = [c \in Clients |-> <<>>] /\ reader = [c \in Clients |-> None]
  /\ built = [c \in Clients |-> 0] /\ out = [c \in Clients |-> <<>>]
  /\ base = [c \in Clients |-> None]

--------------------------------------------------------------------------------
(* The server.                                                                 *)

\* Somebody replaces a file, or removes it.
Change(p, v) ==
  /\ changes < MaxChanges /\ v # files[p]
  /\ files' = [files EXCEPT ![p] = v] /\ changes' = changes + 1
  /\ base' = [c \in Clients |-> IF path[c] = p THEN None ELSE base[c]]
  /\ UNCHANGED <<server, queue, thread, ctx, reply>> /\ UNCHANGED ClientState

\* AsyncSendPacket of the answer: the thread is free for the next task.
Answer(t, answer) ==
  /\ reply' = [reply EXCEPT ![thread[t].task.client] = answer]
  /\ thread' = [thread EXCEPT ![t] = Idle]

\* Faulty NotFound: nothing is answered.
NotFoundSilently(task) == UNCHANGED reply

NotFound(task) == reply' = [reply EXCEPT ![task.client] = [ok |-> FALSE, data |-> <<>>]]

\* Process: the thread pops a task and looks whether its file exists.
Process(t) ==
  /\ thread[t].at = "pop" /\ queue # <<>>
  /\ queue' = Tail(queue)
  /\ LET task == Head(queue)
     IN  IF files[task.path] = NoFile
           THEN NotFound(task) /\ UNCHANGED thread
           ELSE /\ thread' = [thread EXCEPT ![t].at = "open", ![t].task = task]
                /\ UNCHANGED reply
  /\ UNCHANGED <<server, files, ctx, changes, base>> /\ UNCHANGED ClientState

\* Then it opens the file. If it is gone by now, GenerateMetaList asks for an
\* array of its size, -1, and the server aborts; GetChunk gives the packet no
\* data but its length, and the loop thread tries to send it for ever. A chunk
\* is read from its offset on: beyond the end of the file the packet holds what
\* was in the buffer.
Open(t) ==
  /\ thread[t].at = "open"
  /\ LET task == thread[t].task
         file == files[task.path]
     IN  IF file = NoFile
           THEN server' = "down" /\ UNCHANGED <<thread, reply, base>>
         ELSE IF task.req = "GET_META"
           THEN /\ thread' = [thread EXCEPT ![t].at = "init", ![t].file = file]
                /\ base' = [base EXCEPT ![task.client] = file]
                /\ UNCHANGED <<server, reply>>
         ELSE /\ Answer(t, [ok |-> TRUE, data |-> [i \in 1 .. task.length |->
                      IF task.offset + i <= Len(file) THEN file[task.offset + i]
                                                      ELSE Junk]])
              /\ UNCHANGED <<server, base>>
  /\ UNCHANGED <<files, queue, ctx, changes>> /\ UNCHANGED ClientState

\* GenerateMetaList: the strong sum of each chunk is MD4_Init, MD4_Update and
\* MD4_Final on ctx_, which all threads share. The last partial chunk is
\* described by a weak sum of zero and the strong sum of the first bytes of the
\* chunk before it (of nothing, if there is none). Two threads inside MD4_Update
\* at once may leave anything in the context.
Blocks(file) == (Len(file) + Chunk - 1) \div Chunk
BlockLength(file, k) == Min({Chunk, Len(file) - (k - 1) * Chunk})
Block(file, k) == SubSeq(file, (k - 1) * Chunk + 1,
                         (k - 1) * Chunk + BlockLength(file, k))
Summed(file, k) ==
  IF BlockLength(file, k) = Chunk THEN Block(file, k)
  ELSE IF k = 1 THEN <<>> ELSE SubSeq(Block(file, k - 1), 1, BlockLength(file, k))

Current(t)    == Len(thread[t].list) + 1
MoreBlocks(t) == Current(t) <= Blocks(thread[t].file)

Md4Init(t) ==
  /\ thread[t].at = "init" /\ MoreBlocks(t)
  /\ ctx' = <<>>
  /\ thread' = [thread EXCEPT ![t].at = "update"]
  /\ UNCHANGED <<server, files, queue, reply, changes, base>> /\ UNCHANGED ClientState

Md4Update(t) ==
  /\ thread[t].at = "update"
  /\ \/ ctx' = Absorbed(Summed(thread[t].file, Current(t)))
     \/ \E u \in Threads \ {t} : thread[u].at \in {"update", "final"} /\ ctx' = Spent
  /\ thread' = [thread EXCEPT ![t].at = "final"]
  /\ UNCHANGED <<server, files, queue, reply, changes, base>> /\ UNCHANGED ClientState

\* The strong sum of nothing is that of the ring of the summer, which has no
\* element: GetData gives it a new array and deletes the one it had. Two threads
\* that find the same array delete it twice, and the server aborts.
OfNothing(t) == Len(thread[t].file) < Chunk

FreeTwice(t) ==
  /\ thread[t].at = "update" /\ OfNothing(t)
  /\ \E u \in Threads \ {t} : thread[u].at = "update" /\ OfNothing(u)
  /\ server' = "down"
  /\ UNCHANGED <<files, queue, thread, ctx, reply, changes, base>>
  /\ UNCHANGED ClientState

Md4Final(t) ==
  /\ thread[t].at = "final"
  /\ LET file == thread[t].file
         k    == Current(t)
         full == BlockLength(file, k) = Chunk
     IN  thread' = [thread EXCEPT ![t].at = "init", ![t].list = Append(@,
           [weak |-> IF full THEN Sum1(Block(file, k)) ELSE <<0, 0>>,
            strong |-> ctx, offset |-> (k - 1) * Chunk,
            length |-> BlockLength(file, k), from |-> TRUE])]
  /\ ctx' = Spent
  /\ UNCHANGED <<server, files, queue, reply, changes, base>>
  /\ UNCHANGED ClientState

SendMeta(t) ==
  /\ thread[t].at = "init" /\ ~MoreBlocks(t)
  /\ Answer(t, [ok |-> TRUE, data |-> thread[t].list])
  /\ UNCHANGED <<server, files, queue, ctx, changes, base>> /\ UNCHANGED ClientState

Thread(t) ==
  /\ server = "up"
  /\ \/ Process(t) \/ Open(t) \/ Md4Init(t) \/ Md4Update(t) \/ Md4Final(t)
     \/ FreeTwice(t) \/ SendMeta(t)

--------------------------------------------------------------------------------
(* The client.                                                                 *)

\* SyncSendPacket, and OnReceived of the server with its Push.
Ask(c, req, offset, length) ==
  queue' = Append(queue, [client |-> c, req |-> req, path |-> path[c],
                          offset |-> offset, length |-> length])

AskMeta(c) ==
  /\ client[c] = "start"
  /\ Ask(c, "GET_META", 0, 0)
  /\ client' = [client EXCEPT ![c] = "meta"]
  /\ UNCHANGED <<copy, path, reply, meta, reader, built, out>>

\* ScanFile1 turns the chunks it finds into chunks of the client's copy.
Marked(list, hits) ==
  LET mark(m, h) == [m EXCEPT ![h.chunk] =
                       [@ EXCEPT !.from = FALSE, !.offset = h.at]]
  IN  FoldLeft(mark, list, hits)

\* Faulty Taken: the answer stays for the next call.
TakenKept(c) == client[c] \in {"meta", "chunk"} /\ reply[c] # None /\ UNCHANGED reply

Taken(c) == client[c] \in {"meta", "chunk"} /\ reply[c] # None
            /\ reply' = [reply EXCEPT ![c] = None]

\* The answer to GetMeta. Of a file that is missing there is no list, and the
\* client does not look before it goes through it.
TakeMeta(c) ==
  /\ client[c] = "meta" /\ Taken(c)
  /\ IF ~reply[c].ok
       THEN /\ client' = [client EXCEPT ![c] = "crashed"]
            /\ UNCHANGED <<meta, reader>>
       ELSE /\ client' = [client EXCEPT ![c] = "build"]
            /\ meta' = [meta EXCEPT ![c] =
                 IF copy[c] = NoFile THEN reply[c].data
                 ELSE Marked(reply[c].data,
                             Scanned(copy[c], Heap, reply[c].data).hits)]
            /\ reader' = [reader EXCEPT ![c] =
                 IF copy[c] = NoFile THEN None ELSE FileMap(copy[c], Heap)]
  /\ UNCHANGED <<queue, copy, path, built, out>>

\* ConstructFile, one chunk: asked of the server, or copied from dst_file.
Building(c) == client[c] = "build" /\ built[c] < Len(meta[c])
Done(c) == client[c] = "build" /\ built[c] = Len(meta[c])
ChunkInfo(c) == meta[c][built[c] + 1]
Write(c, bytes) == /\ out' = [out EXCEPT ![c] = @ \o bytes]
                   /\ built' = [built EXCEPT ![c] = @ + 1]

AskChunk(c) ==
  /\ Building(c) /\ ChunkInfo(c).from
  /\ Ask(c, "GET_CHUNK", ChunkInfo(c).offset, ChunkInfo(c).length)
  /\ client' = [client EXCEPT ![c] = "chunk"]
  /\ UNCHANGED <<copy, path, reply, meta, reader, built, out>>

\* Without the file there are no bytes to write: fwrite is given NULL.
TakeChunk(c) ==
  /\ client[c] = "chunk" /\ Taken(c)
  /\ IF reply[c].ok
       THEN client' = [client EXCEPT ![c] = "build"] /\ Write(c, reply[c].data)
       ELSE client' = [client EXCEPT ![c] = "crashed"] /\ UNCHANGED <<built, out>>
  /\ UNCHANGED <<queue, copy, path, meta, reader>>

CopyChunk(c) ==
  /\ Building(c) /\ ~ChunkInfo(c).from
  /\ LET r == MapFileContent(reader[c], ChunkInfo(c).offset, ChunkInfo(c).length)
     IN  /\ reader' = [reader EXCEPT ![c] = r]
         /\ Write(c, Bytes(r, ChunkInfo(c).length))
  /\ UNCHANGED <<queue, client, copy, path, reply, meta>>

Client(c) ==
  /\ \/ AskMeta(c) \/ TakeMeta(c) \/ AskChunk(c) \/ TakeChunk(c) \/ CopyChunk(c)
  /\ UNCHANGED ServerState

Next == \/ \E p \in Paths, v \in Versions : Change(p, v)
        \/ \E t \in Threads : Thread(t)
        \/ \E c \in Clients : Client(c)

\* The threads of the processor are never at rest while there is a task.
Spec == Init /\ [][Next]_vars /\ \A t \in Threads : WF_vars(Thread(t))

--------------------------------------------------------------------------------
(* Properties.                                                                 *)

Waiting(c) == client[c] \in {"meta", "chunk"}

\* A call is in one place: in the queue, with a thread, or answered; there is
\* none a client does not wait for (SyncSendPacket, ServerProcessor::Process).
CallInOnePlace ==
  \A c \in Clients :
    Cardinality({i \in DOMAIN queue : queue[i].client = c})
      + Cardinality({t \in Threads : thread[t].at # "pop" /\ thread[t].task.client = c})
      + (IF reply[c] # None THEN 1 ELSE 0)
    = IF Waiting(c) THEN 1 ELSE 0

\* The matches that reach over the end of the client's file.
PastEnd(c) == \E k \in DOMAIN meta[c] :
                ~meta[c][k].from /\ meta[c][k].offset + Chunk > Len(copy[c])

\* A window of the client's file had the weak sum of a chunk and not its strong
\* sum. The scan has read it again, and goes on with bytes that do not follow it
\* (ScanRoll): from there on the weak sum need not be that of the window.
Refused(c) == \E p \in 1 .. Len(copy[c]) - Chunk + 1, k \in DOMAIN meta[c] :
                LET w == SubSeq(copy[c], p, p + Chunk - 1)
                IN  Sum1(w) = meta[c][k].weak /\ w # meta[c][k].strong

\* The chunks taken from the client's file by a strong sum that is another's.
MixedUp(c) == \E k \in DOMAIN meta[c] :
                /\ ~meta[c][k].from
                /\ meta[c][k].strong # Block(base[c], k)
                /\ Sum1(meta[c][k].strong) = meta[c][k].weak \/ Refused(c)

\* The file a client has built is the one it was told of, if that did not change
\* meanwhile and no match reached over the end of its copy. Two threads that sum
\* at once may answer with each other's strong sums: that makes a wrong file only
\* where a mixed up sum belongs to bytes with the weak sum of the chunk, or where
\* a match was refused before.
WrongOnlyIfMixedUp ==
  \A c \in Clients :
    Done(c) /\ base[c] # None /\ ~PastEnd(c) /\ ~MixedUp(c) =>
      out[c] = base[c]

\* Every call is answered, unless the server is down: a file vanished under a
\* thread, or two threads deleted one array (ServerProcessor::Process).
Answered == \A c \in Clients :
  Waiting(c) /\ reply[c] = None ~> reply[c] # None \/ server = "down"

================================================================================
