----------------------------- MODULE RsyncInvariants ----------------------------
(***************************************************************************)
(* What the proofs about librsync and simple_rsync say of their states       *)
(* (RsyncDeltaProofs): the inductive invariants, and the predicates on       *)
(* rings, buffers, scans, lists and descriptions they are made of. Each      *)
(* invariant has its properties:                                             *)
(*   - ScanInv, of a scan: DescribesOld, RollingAgrees, ReadsStayInBuffer,   *)
(*     WindowFollows, ScanAdvances;                                          *)
(*   - ListInv, of the nodes, the delta and the result: Rebuilds;            *)
(*   - SameInv, of a file scanned for its own chunks: UnchangedIsCopied;     *)
(*   - CallInv, of the calls of the clients: CallInOnePlace;                 *)
(*   - CopyInv, of the marks of a sliding window: MarksLatest;               *)
(*   - BuildInv, of the file a client builds: WrongOnlyIfMixedUp;            *)
(*   - RebuildInv, of the file a local copy builds: Rebuilt.                 *)
(***************************************************************************)
EXTENDS RsyncDelta, FiniteSets

--------------------------------------------------------------------------------
(* The window.                                                                 *)

AllRings(T) == UNION {Rings(T, n) : n \in Nat \ {0}}

\* Rings that are filled for the first time.
Fresh(T) == {q \in AllRings(T) : q.front = 0}

\* Rings with the window of a scan. One without room has just been filled, and
\* one that pop will shrink is in its first turn: neither wraps.
Windows(T) ==
  {q \in AllRings(T) :
     /\ q.size = Chunk
     /\ q.capacity = Chunk + 1 => q.front = 0
     /\ Chunk + 1 < q.capacity \div 3 /\ q.capacity > 15 => q.front <= 1}

--------------------------------------------------------------------------------
(* The checksum.                                                               *)

\* A summer whose sum is that of its window.
Agrees(m) == m.ring \in Windows(Int) /\ m.sum = Sum1(Contents(m.ring))

--------------------------------------------------------------------------------
(* The buffer onto a file.                                                     *)

\* A FileMap: length_ bytes of the file, from offset_ on, are in the buffer.
Maps(file) ==
  {m \in [file : {file}, data : [0 .. BufferLength(file) - 1 -> Int], offset : Nat,
          length : Nat, at : Nat] :
     /\ m.length <= BufferLength(file) /\ m.offset + m.length <= Len(file)
     /\ \A i \in 0 .. m.length - 1 : m.data[i] = file[m.offset + i + 1]}

--------------------------------------------------------------------------------
(* The scan.                                                                   *)

\* Every chunk of that weak sum is told apart from the windows of the file.
Told(file, chunks) ==
  \A p \in 1 .. Len(file) - Chunk + 1, k \in DOMAIN chunks :
     LET w == SubSeq(file, p, p + Chunk - 1)
     IN  Sum1(w) = chunks[k].weak => w = chunks[k].strong

\* A scan, field by field.
Scan(curr, i, mode, summer, map, hits) ==
  [curr |-> curr, i |-> i, mode |-> mode, summer |-> summer, map |-> map,
   hits |-> hits]
IsScan(s) == s = Scan(s.curr, s.i, s.mode, s.summer, s.map, s.hits)

\* Where a scan may be: while it rolls, the block it left ends at curr - i, and a
\* chunk of buffer lies behind the pointer.
InPlace(s, file) ==
  /\ s.curr \in Nat /\ s.i \in Nat /\ s.mode \in {"block", "roll", "done"}
  /\ s.map \in Maps(file)
  /\ s.curr <= Len(file) + Chunk
  /\ s.mode = "roll" =>
       /\ s.i < Chunk /\ Chunk <= s.curr - s.i /\ s.curr - s.i <= Len(file)
       /\ s.map.at + Chunk <= BufferLength(file)

\* The sum is that of the window.
InSum(s) == /\ s.summer.ring \in AllRings(Int)
            /\ s.curr > 0 => Agrees(s.summer)

\* The chunk of bytes that ends at curr.
Before(file, curr) == SubSeq(file, curr - Chunk + 1, curr)

\* The window, and what the buffer shows of the bytes to come.
InStep(s, file) ==
  s.mode = "roll" =>
    /\ s.curr <= Len(file) =>
         Contents(s.summer.ring) = Before(file, s.curr)
    /\ \A j \in s.i .. Chunk - 1 :
         s.curr - s.i + j < Len(file) => ByteAt(s.map, j) = file[s.curr - s.i + j + 1]

ScanOk(s, file, chunks) ==
  /\ IsScan(s) /\ InPlace(s, file) /\ InSum(s)
  /\ Told(file, chunks) => InStep(s, file)

--------------------------------------------------------------------------------
(* The description of a file.                                                  *)

\* The entry of a chunk.
ChunkEntry(weak, strong, offset) ==
  [weak |-> weak, strong |-> strong, offset |-> offset, length |-> Chunk]
Entries == [weak : Int \X Int, strong : Seq(Int), offset : Nat, length : {Chunk}]

ChunkAt(file, k) == SubSeq(file, (k - 1) * Chunk + 1, (k - 1) * Chunk + Chunk)
EntryOf(file, k) ==
  ChunkEntry(Sum1(ChunkAt(file, k)), ChunkAt(file, k), (k - 1) * Chunk)

\* list describes the first n chunks of the file, in order.
DescribesChunks(list, file, n) ==
  /\ list \in Seq(Entries) /\ Len(list) = n
  /\ \A k \in 1 .. n : list[k] = EntryOf(file, k)

\* The descriptions on the way.
Described(file) == [map : Maps(file), list : Seq(Entries)]

--------------------------------------------------------------------------------
(* The program.                                                                *)

Files == /\ old \in Seq(Int) /\ new \in Seq(Int) /\ heap \in Nat
         /\ stage \notin {"sig", "overrun"} => ~Overruns(old, heap) /\ ~Overruns(new, heap)

SigOk == stage \in {"sig", "overrun"} \/ DescribesChunks(meta, old, FullChunks(old))

RunOk == stage = "scan" => ScanOk(scan, new, meta)

ScanInv == Files /\ SigOk /\ RunOk

--------------------------------------------------------------------------------
(* The lists: of offset nodes, and of the entries of a delta.                  *)

\* A list leads from p to q: R relates each element to where it starts and ends.
Leads(R, list, at, p, q) ==
  /\ at \in [1 .. Len(list) + 1 -> Nat]
  /\ at[1] = p /\ at[Len(list) + 1] = q
  /\ \A k \in 1 .. Len(list) : <<list[k], at[k], at[k + 1]>> \in R
Covers(R, list, p, q) == \E at : Leads(R, list, at, p, q)

\* What is copied from o on in the old file are the bytes from p to q of the new
\* one, as far as that goes.
CopyFits(of, nf, o, length, p, q) ==
  /\ o \in Nat /\ length \in Nat /\ o + length <= Len(of) /\ q = p + length
  /\ \A j \in 1 .. length : p + j <= Len(nf) => of[o + j] = nf[p + j]

\* A node that stands for the bytes from p to q, and an entry that holds them.
NodeFits(of, nf, x, p, q) ==
  IF x.from THEN x.offset = p /\ p + x.length = q /\ q <= Len(nf)
            ELSE CopyFits(of, nf, x.offset, x.length, p, q)

\* The bytes of a literal are those of the new file from p to q.
DataFits(nf, data, p, q) ==
  /\ q = p + Len(data)
  /\ \A j \in 1 .. Len(data) : p + j <= Len(nf) => data[j] = nf[p + j]

\* So are those an entry of the delta adds to the result, up to the end of the file.
EntryFits(of, nf, x, p, q) ==
  IF x.from THEN DataFits(nf, x.data, p, q)
            ELSE CopyFits(of, nf, x.offset, x.length, p, q)

\* An offset node, and an entry of a delta.
Nodes   == [from : BOOLEAN, offset : Int, length : Int]
Records == [from : {TRUE}, data : Seq(Int)] \cup [from : {FALSE}, offset : Int, length : Int]

\* The nodes and the entries with the places they lead from and to.
NodeSpans(of, nf)  == {t \in Nodes \X Nat \X Nat : NodeFits(of, nf, t[1], t[2], t[3])}
EntrySpans(of, nf) == {t \in Records \X Nat \X Nat : EntryFits(of, nf, t[1], t[2], t[3])}

--------------------------------------------------------------------------------
(* The writer.                                                                 *)

\* A WriteFileMap.
Writers == [file : Seq(Int), buffer : Seq(Int)]

\* The bytes appended so far, in the file and in the buffer.
Written(w) == w.file \o w.buffer

\* Where these bytes and the file both have one, it is the same.
Matches(bytes, nf) ==
  bytes \in Seq(Int) /\ \A j \in 1 .. Len(bytes) : j <= Len(nf) => bytes[j] = nf[j]

--------------------------------------------------------------------------------
(* The matches.                                                                *)

\* A match, and the step of a scan that adds one.
Hits == [at : Nat, chunk : Nat]

\* A hit is of a chunk of the old file that is the window of the new one at that place.
HitFits(of, nf, chunks, h) ==
  /\ h \in Hits /\ h.at <= Len(nf)
  /\ CopyFits(of, nf, chunks[h.chunk].offset, Chunk, h.at, h.at + Chunk)

\* A step of the scan adds no hit or one that fits.
HitsGrow(of, nf, chunks, s, t) ==
  \/ t.hits = s.hits
  \/ \E h : HitFits(of, nf, chunks, h) /\ t.hits = Append(s.hits, h)

--------------------------------------------------------------------------------
(* The delta and the patch.                                                    *)

\* Where a whole result may end.
Reach(nf, q) == Len(nf) <= q /\ q <= Len(nf) + Chunk

\* What Matched makes of a match at at, of the chunk at o.
MatchNodes(p, at, o) ==
  (IF p # at THEN <<Literal(p, at - p)>> ELSE <<>>) \o <<Copy(o, Chunk)>>

--------------------------------------------------------------------------------
(* The program, from the matches to the result.                                *)

\* The nodes found so far lead from the start of the new file to covered.
ScanList ==
  stage \in {"sig", "scan"} =>
    /\ nodes \in Seq(Nodes) /\ covered \in Nat /\ covered <= Len(new) + Chunk
    /\ Covers(NodeSpans(old, new), nodes, 0, covered)

\* The hits of the scan.
HitList == stage = "scan" => scan.hits \in Seq(Hits)

\* What is in the delta leads to a place the nodes still to be written lead on from.
DeltaList ==
  stage = "delta" =>
    /\ Len(new) >= Chunk
    /\ reader \in Maps(new) /\ nodes \in Seq(Nodes) /\ delta \in Seq(Records)
    /\ \E p \in Nat, q \in Nat :
         /\ Covers(EntrySpans(old, new), delta, 0, p)
         /\ Covers(NodeSpans(old, new), nodes, p, q) /\ Reach(new, q)

\* The delta file leads through the new file.
OpenList ==
  stage = "open" /\ Len(new) >= Chunk =>
    /\ delta \in Seq(Records)
    /\ \E q \in Nat : Covers(EntrySpans(old, new), delta, 0, q) /\ Reach(new, q)

\* What is written matches the new file up to where the nodes left lead on from.
PatchList ==
  stage = "patch" /\ Len(new) >= Chunk =>
    /\ reader \in Maps(old) /\ nodes \in Seq(Records)
    /\ writer \in Writers /\ Matches(Written(writer), new)
    /\ \E q \in Nat : /\ Covers(EntrySpans(old, new), nodes, Len(Written(writer)), q)
                      /\ Reach(new, q)

\* All the file is written.
DoneList ==
  stage = "done" /\ Len(new) >= Chunk =>
    Matches(Result, new) /\ Reach(new, Len(Result))

\* The invariant of the lists, step by step of main.
ListInv == ScanList /\ HitList /\ DeltaList /\ OpenList /\ PatchList /\ DoneList

--------------------------------------------------------------------------------
(* A file that has not changed.                                                *)

\* While a file is scanned for its own chunks, no byte is left out before the
\* last part, and the only literal is of that part.
AllCopies(list) == \A i \in 1 .. Len(list) : ~list[i].from

\* The scan is at the end of a chunk, and all before it is in copies.
InChunks ==
  /\ scan.mode \in {"block", "done"}
  /\ \E k \in Nat : covered = k * Chunk
  /\ scan.curr = covered /\ covered <= Len(new) /\ AllCopies(nodes)
  /\ scan.mode = "done" => covered + Chunk > Len(new)

\* After the scan only the last part of the file is a literal.
LastIsLiteral ==
  \A i \in 1 .. Len(nodes) : nodes[i].from => nodes[i].length = Len(new) % Chunk

\* Both hold of a file scanned for its own chunks that no weak sum misleads.
SameInv ==
  /\ stage = "sig" => nodes = <<>> /\ covered = 0
  /\ old = new /\ Told(new, meta) =>
       /\ stage = "scan" => InChunks
       /\ stage = "delta" /\ delta = <<>> => LastIsLiteral

--------------------------------------------------------------------------------
(* simple_rsync: the calls of its clients. What a request leaves behind may be  *)
(* a task of the queue, a task of one thread, or an answer; CallInv says that   *)
(* it is in one of them at a time, and in one as long as its client waits.      *)

CONSTANTS Clients, Threads, Paths, Versions, Copies, Heap, MaxChanges, None

VARIABLES server, files, queue, thread, ctx, client, copy, path, reply, built, out,
          changes, base

Remote == INSTANCE SimpleRsync

\* No answer is None: the value None of the model stands for no answer at all.
NoneIsNoAnswer == \A ok, data : [ok |-> ok, data |-> data] # None

\* A thread has its fields.
Form(y) == [at |-> y.at, task |-> y.task, file |-> y.file, list |-> y.list]

\* What the loops and threads keep has the form that their messages have.
Formed ==
  /\ \E T : queue \in Seq(T)
  /\ \A i \in DOMAIN queue : queue[i].client \in Clients
  /\ thread = [t \in Threads |-> thread[t]]
  /\ \A t \in Threads : thread[t] = Form(thread[t])
  /\ \A t \in Threads : thread[t].at # "pop" => thread[t].task.client \in Clients
  /\ reply = [c \in Clients |-> reply[c]]
  /\ client = [c \in Clients |-> client[c]]

\* Where the call of a client may be.
InQueue(c)  == {i \in DOMAIN queue : queue[i].client = c}
InThread(c) == {t \in Threads : thread[t].at # "pop" /\ thread[t].task.client = c}

\* The call of a client is in one place.
OnePlace(c) ==
  /\ \A i, j \in InQueue(c) : i = j
  /\ \A t, u \in InThread(c) : t = u
  /\ InQueue(c) # {} => InThread(c) = {} /\ reply[c] = None
  /\ InThread(c) # {} => reply[c] = None
  /\ Remote!Waiting(c) <=> InQueue(c) # {} \/ InThread(c) # {} \/ reply[c] # None

\* What holds of the calls all the time.
CallInv == Formed /\ \A c \in Clients : OnePlace(c)

--------------------------------------------------------------------------------
(* Local copies: what a sliding scan has marked (LocalCopy).                    *)

CONSTANTS Srcs, Dsts, ScanBuffer

VARIABLES method, src, dst, summer, curr, left, batch, cst

Local == INSTANCE LocalCopy

\* The files are sequences of bytes; there may be no second one.
CopyFiles == /\ Srcs \subseteq Seq(Int) /\ ScanBuffer \in Nat \ {0}
             /\ \A file \in Dsts : file = NoFile \/ file \in Seq(Int)

\* The window of nf that ends with byte n; where chunk k of file is found as it goes
\* over the first n bytes; the chunk that a weak sum leads to.
WindowAt(nf, n) == SubSeq(nf, n - Chunk + 1, n)
Places(file, nf, k, n) == {p \in 0 .. n - Chunk : SubSeq(nf, p + 1, p + Chunk) = ChunkAt(file, k)}
SumLeads(file, weak) == Max({0} \cup {k \in 1 .. FullChunks(file) : Sum1(ChunkAt(file, k)) = weak})

\* list describes file, whatever is marked in it.
Lists(list, file) ==
  /\ \E n \in Nat : n >= FullChunks(file) /\ list = [k \in 1 .. n |-> list[k]]
  /\ \A k \in 1 .. FullChunks(file) :
       list[k] = [weak |-> Sum1(ChunkAt(file, k)), strong |-> ChunkAt(file, k),
                  from |-> list[k].from, offset |-> list[k].offset, length |-> Chunk]

\* What is marked in it is found in the first n bytes of nf.
Spots(file, nf, k, n) ==
  IF k = SumLeads(file, Sum1(ChunkAt(file, k))) THEN Places(file, nf, k, n) ELSE {}
MarkedUpTo(list, file, nf, n) ==
  \A k \in 1 .. FullChunks(file) :
    IF Spots(file, nf, k, n) = {} THEN list[k].from = TRUE
    ELSE list[k].from = FALSE /\ list[k].offset = Max(Spots(file, nf, k, n))

\* more is list with chunk k found at p.
MarkedAt(more, list, file, k, p) ==
  /\ more[k].from = FALSE /\ more[k].offset = p
  /\ \A j \in 1 .. FullChunks(file) : j # k => more[j] = list[j]

\* The checksum of a window of nf that ends with byte n.
Over(m, nf, n) == Agrees(m) /\ Contents(m.ring) = WindowAt(nf, n)

\* A copy says what the list of its marks says, at every moment of the scan: the
\* part of dst that a window has been over, the window in the ring, the batch.
Marking == /\ Lists(meta, src) /\ Over(summer, dst, curr)
           /\ curr \in Chunk .. Len(dst)
           /\ method # "cp3" => MarkedUpTo(meta, src, dst, curr)

InBatch ==
  \E again \in Nat, start \in Nat, i \in Nat, fresh \in Nat :
    /\ again = IF method = "cp4" THEN Chunk ELSE 0
    /\ batch = [start |-> start, length |-> fresh + again, i |-> i, fresh |-> fresh]
    /\ again <= i /\ i <= fresh + again
    /\ start + i = curr
    /\ start + again + left = Len(dst) /\ fresh <= left

Slides == method \in {"cp3", "cp4", "cp6"}
Long == dst \in Seq(Int) /\ Len(dst) >= Chunk

CopyInv ==
  /\ src \in Seq(Int) /\ dst \in Dsts
  /\ Slides => stage # "skip"
  /\ Slides /\ stage = "describe" => summer = NewSummer
  /\ Slides /\ stage \in {"first", "batch", "slide", "construct", "done"} => dst \in Seq(Int)
  /\ Slides /\ stage = "first" =>
       /\ Lists(meta, src) /\ summer = NewSummer
       /\ \A k \in 1 .. FullChunks(src) : meta[k].from = TRUE
  /\ Slides /\ stage \in {"batch", "slide", "construct", "done"} /\ Len(dst) >= Chunk => Marking
  /\ Slides /\ stage = "batch" /\ Len(dst) >= Chunk => left = Len(dst) - curr
  /\ Slides /\ stage = "slide" /\ Len(dst) >= Chunk => left \in Nat /\ InBatch

\* What a copy does for a window w of nf: it marks the chunk that the weak sum leads
\* to; cp4 and cp6 only if that is the window.
MarksWindow(file, list, more, how, w, p) ==
  \E k : /\ k = SumLeads(file, Sum1(w))
         /\ more = IF k # 0 /\ (how = "cp3" \/ w = list[k].strong)
                     THEN Local!Mark(list, k, p) ELSE list
MarksEnd(file, nf, list, more, how, n) ==
  MarksWindow(file, list, more, how, WindowAt(nf, n), n - Chunk)

\* The cells of a ring from the start of its array, as cp6 reads them.
Cells(g) == [j \in 1 .. g.size |-> g.data[j - 1]]

--------------------------------------------------------------------------------
(* The files that the clients of simple_rsync build. BuildInv follows a chunk of  *)
(* the file from the thread that describes it, through the answer and the marks   *)
(* of the scan, to the bytes the client writes. What it says of a client ends     *)
(* when the file changes; what the strong sums are it leaves open, since threads  *)
(* may mix them up.                                                               *)

\* What a match tells of the window it is at, if that lies within the file: its strong
\* sum, and its weak sum too, unless a weak sum has misled the scan.
Seen(nf, chunks, p, k) ==
  p + Chunk <= Len(nf) =>
    /\ chunks[k].strong = SubSeq(nf, p + 1, p + Chunk)
    /\ Told(nf, chunks) => chunks[k].weak = Sum1(SubSeq(nf, p + 1, p + Chunk))

HitSeen(nf, chunks, h) ==
  /\ h \in Hits /\ h.chunk \in DOMAIN chunks /\ h.at <= Len(nf)
  /\ Seen(nf, chunks, h.at, h.chunk)

\* A checksum, and what a step may do to the checksum and the matches of a scan.
Summers == [ring : AllRings(Int), sum : Int \X Int]

\* The scans of a file for some chunks whose matches are seen.
ScanSet(nf, chunks) ==
  {s \in [curr : Nat, i : Nat, mode : {"block", "roll", "done"}, summer : Summers,
          map : Maps(nf), hits : Seq(Hits)] :
     ScanOk(s, nf, chunks) /\ \A j \in DOMAIN s.hits : HitSeen(nf, chunks, s.hits[j])}

\* The k-th chunk that is described of a file: where it lies and what it is of. Only
\* the last one may be shorter than Chunk.
BlockLies(f, k, o, l) ==
  /\ o = (k - 1) * Chunk /\ o \in Nat /\ l \in Nat /\ l <= Chunk /\ o + l <= Len(f)
  /\ Remote!BlockLength(f, k) = l /\ Remote!Block(f, k) = SubSeq(f, o + 1, o + l)
  /\ \/ l = Chunk /\ k * Chunk = o + l
     \/ k = Remote!Blocks(f) /\ o + l = Len(f)

\* The first k chunks of a file.
Upto(f, k) == SubSeq(f, 1, IF k * Chunk <= Len(f) THEN k * Chunk ELSE Len(f))

\* What is said of the k-th chunk of a file with that strong sum, and what is left of it
\* once it is found at p.
WeakOf(f, k) == IF Remote!BlockLength(f, k) = Chunk THEN Remote!Sum1(Remote!Block(f, k))
                                                    ELSE <<0, 0>>
Says(f, k, strong) ==
  [weak |-> WeakOf(f, k), strong |-> strong, offset |-> (k - 1) * Chunk,
   length |-> Remote!BlockLength(f, k), from |-> TRUE]
CopiedFrom(f, k, strong, p) ==
  [weak |-> WeakOf(f, k), strong |-> strong, offset |-> p,
   length |-> Remote!BlockLength(f, k), from |-> FALSE]

\* The description of the first n chunks of a file, whatever their strong sums are.
BlockList(list, f, n) ==
  /\ n \in Nat /\ n <= Remote!Blocks(f)
  /\ \E T : list \in Seq(T)
  /\ Len(list) = n
  /\ \A k \in 1 .. n : list[k] = Says(f, k, list[k].strong)

\* It stays in the description as it is, or is found in the file nf.
SaidOrFound(x, list, f, nf, k) ==
  \/ x = Says(f, k, x.strong)
  \/ /\ nf \in Seq(Int)
     /\ \E p \in Nat : x = CopiedFrom(f, k, x.strong, p) /\ Seen(nf, list, p, k)

\* The chunks a client builds the file f from with a copy nf.
MetaFits(m, f, nf) ==
  /\ Remote!Blocks(f) \in Nat
  /\ \E E : m \in [1 .. Remote!Blocks(f) -> E]
  /\ \A k \in 1 .. Remote!Blocks(f) : SaidOrFound(m[k], m, f, nf, k)

\* What a mark makes of an entry.
MarkedTo(x, p) == [x EXCEPT !.from = FALSE, !.offset = p]

\* The marks of a list: what each entry may have become. An entry keeps its sums.
EntryMarks(list, f, k) ==
  {Says(f, k, list[k].strong)} \cup {CopiedFrom(f, k, list[k].strong, p) : p \in Nat}
Marks(list, f, nf) ==
  {m \in [1 .. Len(list) -> UNION {EntryMarks(list, f, k) : k \in 1 .. Len(list)}] :
     \A k \in 1 .. Len(list) :
        \/ m[k] = Says(f, k, list[k].strong)
        \/ \E p \in Nat : m[k] = CopiedFrom(f, k, list[k].strong, p) /\ Seen(nf, list, p, k)}
SeenHits(list, nf) == {h \in Hits : h.at \in Nat /\ HitSeen(nf, list, h)}
Mark(m, h) == [m EXCEPT ![h.chunk] = MarkedTo(@, h.at)]

\* What ~PastEnd and ~MixedUp say of the chunks m for a file f and a copy nf.
RightMeta(m, f, nf) ==
  \A k \in DOMAIN m : ~m[k].from =>
     /\ ~(m[k].offset + Chunk > Len(nf))
     /\ m[k].strong # Remote!Block(f, k) => Told(nf, m) /\ Sum1(m[k].strong) # m[k].weak

\* What the files and copies hold: bytes, if they exist. An uninitialised length is one
\* within the buffer.
RemoteFiles ==
  /\ NoFile \notin Seq(Int)
  /\ \A v \in Versions : v = NoFile \/ v \in Seq(Int)
  /\ \A d \in Copies, c \in Clients : d[c] = NoFile \/ d[c] \in Seq(Int)
  /\ Heap \in 0 .. MapBuffer

\* A task is its client's: the client waits for that answer, and asked for the chunk it
\* builds, if the file is still the one it was told of.
Asks(c, x) ==
  /\ x.path = path[c]
  /\ x.req = "GET_META" => client[c] = "meta"
  /\ x.req # "GET_META" =>
       /\ client[c] = "chunk"
       /\ base[c] # None => /\ x.offset = built[c] * Chunk
                            /\ x.length = Remote!BlockLength(base[c], built[c] + 1)

\* What a thread has described so far is the file its client was told of.
Describes(y) ==
  y.at \notin {"pop", "open"} =>
    /\ y.task.req = "GET_META"
    /\ y.file \in Seq(Int) /\ base[y.task.client] \in {None, y.file}
    /\ BlockList(y.list, y.file, Len(y.list))
    /\ y.at # "init" => Len(y.list) + 1 <= Remote!Blocks(y.file)

TasksFit == \A i \in DOMAIN queue : Asks(queue[i].client, queue[i])
ThreadFits(y) ==
  /\ y.at # "pop" => Asks(y.task.client, y.task)
  /\ y.at \in {"pop", "open"} => y.list = <<>>
  /\ Describes(y)

\* The answer to a client.
AnswerFits(c) ==
  base[c] # None /\ reply[c] # None /\ reply[c].ok =>
    /\ client[c] = "meta" => BlockList(reply[c].data, base[c], Remote!Blocks(base[c]))
    /\ client[c] = "chunk" => reply[c].data = Remote!Block(base[c], built[c] + 1)

\* What a client has written is the beginning of the file, unless it was misled.
WrittenFits(c) ==
  base[c] # None /\ client[c] \in {"build", "chunk"} =>
    /\ MetaFits(meta[c], base[c], copy[c])
    /\ built[c] \in Nat /\ built[c] <= Remote!Blocks(base[c])
    /\ client[c] = "chunk" => built[c] + 1 <= Remote!Blocks(base[c])
    /\ RightMeta(meta[c], base[c], copy[c]) =>
         /\ out[c] = Upto(base[c], built[c])
         /\ copy[c] # NoFile => reader[c] \in Maps(copy[c])

ClientFits(c) ==
  /\ base[c] # None => base[c] \in Seq(Int) /\ files[path[c]] = base[c]
  /\ client[c] \in {"start", "meta"} => built[c] = 0 /\ out[c] = <<>>
  /\ AnswerFits(c) /\ WrittenFits(c)

\* The form of the state.
Fields ==
  /\ files = [p \in Paths |-> files[p]]
  /\ \A p \in Paths : files[p] = NoFile \/ files[p] \in Seq(Int)
  /\ \A c \in Clients : path[c] \in Paths /\ (copy[c] = NoFile \/ copy[c] \in Seq(Int))
  /\ base = [c \in Clients |-> base[c]] /\ meta = [c \in Clients |-> meta[c]]
  /\ reader = [c \in Clients |-> reader[c]] /\ out = [c \in Clients |-> out[c]]
  /\ built = [c \in Clients |-> built[c]]

\* The invariant of a synchronisation.
BuildInv ==
  /\ CallInv /\ Fields /\ TasksFit
  /\ \A t \in Threads : ThreadFits(thread[t])
  /\ \A c \in Clients : ClientFits(c)

\* What a client's part of it is about.
Side(c) == <<base[c], reply[c], client[c], built[c], out[c], meta[c], reader[c], copy[c],
              path[c], files[path[c]]>>

--------------------------------------------------------------------------------
(* What the local copies build (LocalCopy): an entry of the description either     *)
(* stays or leads to a place that cp3 or cp7 has found (CopyLists), so that the     *)
(* construction, a fold of its own, writes src chunk by chunk (RebuildInv).         *)

\* The entries of a description whose chunks are found in another file: which places
\* in nf count as a place of a chunk of file (cp3 looks at the weak sum only); that
\* an entry still leads to the file, or to such a place; the lists of such entries.
CopyEntries ==
  [weak : Int \X Int, strong : Seq(Int), from : BOOLEAN, offset : Nat, length : {Chunk}]
    \cup [from : {TRUE}, offset : Nat, length : Nat]
Takes(how, file, nf, k, p) ==
  /\ how = "cp3" => Sum1(SubSeq(nf, p + 1, p + Chunk)) = Sum1(ChunkAt(file, k))
  /\ how # "cp3" => SubSeq(nf, p + 1, p + Chunk) = ChunkAt(file, k)
FoundIn(how, file, nf) ==
  {t \in (1 .. FullChunks(file)) \X Nat :
     t[2] <= Len(nf) /\ (t[2] + Chunk <= Len(nf) => Takes(how, file, nf, t[1], t[2]))}
KeptOrFound(x, file, S, k) ==
  \/ x.from = TRUE /\ x.offset = (k - 1) * Chunk /\ x.length = Remote!BlockLength(file, k)
  \/ x.from = FALSE /\ k <= FullChunks(file) /\ <<k, x.offset>> \in S
FullEntry(x, file, k) ==
  x = [weak |-> Sum1(ChunkAt(file, k)), strong |-> ChunkAt(file, k),
       from |-> x.from, offset |-> x.offset, length |-> Chunk]
CopyLists(file, S) ==
  {list \in [1 .. Remote!Blocks(file) -> CopyEntries] :
     /\ \A k \in 1 .. FullChunks(file) : FullEntry(list[k], file, k)
     /\ \A k \in 1 .. Remote!Blocks(file) : KeptOrFound(list[k], file, S, k)}

\* The two files construct_file reads, and what it writes for an entry.
Worlds(file, nf) == [src : Maps(file), dst : Maps(nf), out : Seq(Int)]
PutOf(s, x) ==
  LET part == IF x.from THEN "src" ELSE "dst"
      fm   == Local!MapFileContent(s[part], x.offset, x.length)
  IN  IF x.offset > Len(s[part].file) THEN s
      ELSE [s EXCEPT ![part] = fm, !.out = @ \o Local!Bytes(fm, x.length)]

\* The bytes of an entry: as many as it says, and those of its file if they are there.
PartOf(x, b, file, nf) ==
  /\ b \in Seq(Int) /\ Len(b) = x.length
  /\ x.from = TRUE /\ x.offset + x.length <= Len(file) =>
       b = SubSeq(file, x.offset + 1, x.offset + x.length)
  /\ x.from = FALSE /\ x.offset + x.length <= Len(nf) =>
       b = SubSeq(nf, x.offset + 1, x.offset + x.length)
Readable(x, file, nf) ==
  /\ x.from \in BOOLEAN /\ x.offset \in Nat /\ x.length \in Nat /\ x.length <= Chunk
  /\ x.from = TRUE => x.offset <= Len(file)
  /\ x.from = FALSE => x.offset <= Len(nf)

\* What may be built for the k-th chunk of file: it; or, of a place that goes over the
\* end of nf, anything; or, in cp3, other bytes with its weak sum.
GoodPiece(how, b, x, file, nf, k) ==
  \/ b = Remote!Block(file, k)
  \/ x.from = FALSE /\ x.offset + Chunk > Len(nf)
  \/ how = "cp3" /\ x.from = FALSE /\ Sum1(b) = x.weak

\* The first j chunks are built: they have their length, and each piece is good.
BuiltUpto(how, b, list, file, nf, j) ==
  /\ Len(b) = Len(Upto(file, j))
  /\ \A k \in 1 .. j : \A o, l \in Nat :
       BlockLies(file, k, o, l) =>
         o + l <= Len(b) /\ GoodPiece(how, SubSeq(b, o + 1, o + l), list[k], file, nf, k)

CopyDescribes == meta \in CopyLists(src, FoundIn(method, src, dst))
RebuildInv ==
  /\ stage \notin {"describe", "crashed"} => dst \in Seq(Int)
  /\ stage = "skip" => method = "cp7"
  /\ stage \in {"first", "batch", "slide"} => method # "cp7"
  /\ method \in {"cp3", "cp7"} /\ stage \notin {"describe", "crashed"} /\ Len(dst) >= Chunk =>
       CopyDescribes
  /\ method \in {"cp3", "cp7"} /\ stage = "done" /\ Len(dst) >= Chunk =>
       cst \in Seq(Int) /\ BuiltUpto(method, cst, meta, src, dst, Remote!Blocks(src))

================================================================================
