-------------------------------- MODULE LocalCopy ------------------------------
(***************************************************************************)
(* cp.cpp of simple_rsync: four ways to rebuild a local file src from the   *)
(* chunks of it that a second file dst holds. All of them describe src the   *)
(* same way. cp3, cp4 and cp6 slide a window over every byte of dst, read in *)
(* batches; they differ in what confirms a weak match (nothing, the bytes    *)
(* read, or the bytes in the ring of the checksum), and cp3 alone builds the *)
(* file. cp7, the one main calls, skips a chunk after a match, as ScanFile1  *)
(* does, and builds the file. ScanFile of RsyncService is cp4 over the       *)
(* description it was sent. cp5 is left out: the context of its strong sum   *)
(* is used before it is initialised.                                         *)
(***************************************************************************)
EXTENDS WindowScan

CONSTANTS Srcs, Dsts,     \* the contents of the files; NoFile for no dst
          ScanBuffer,     \* SCAN_BUFFER_SIZE
          Heap,           \* what an uninitialised length is; a longer one
                          \* overruns the buffer, which is left out (see RsyncDelta)
          NoFile

ASSUME CopyAssumption == ScanBuffer \in Nat \ {0} /\ Heap \in 0 .. MapBuffer

VARIABLES method, src, dst,
          stage,    \* the part of the function
          meta,     \* file_meta: the chunks of src, and its last partial chunk
          summer,
          curr,     \* the bytes of dst that have been through the window
          left,     \* total_left: those that have not, by whole batches
          batch,    \* the batch: where it starts in dst, its length, i, and how
                    \* many of its bytes are new
          cst       \* the file that is built

vars == <<method, src, dst, stage, meta, summer, curr, left, batch, cst>>

Sliding == {"cp3", "cp4", "cp6"}
NoBatch == [start |-> 0, length |-> 0, i |-> 0, fresh |-> 0]

Init ==
  /\ method \in Sliding \cup {"cp7"}
  /\ src \in Srcs /\ dst \in Dsts
  /\ stage = "describe"
  /\ meta = <<>> /\ summer = NewSummer /\ curr = 0 /\ left = 0
  /\ batch = NoBatch /\ cst = <<>>

--------------------------------------------------------------------------------
(* The description of src: the full chunks with their sums, and a last partial  *)
(* chunk that no sum leads to.                                                  *)

Full == SubSeq(meta, 1, FullChunks(src))

Describe ==
  /\ stage = "describe"
  /\ LET chunk(k) == SubSeq(src, (k - 1) * Chunk + 1, k * Chunk)
         full == [k \in 1 .. FullChunks(src) |->
                    [weak |-> Sum1(chunk(k)), strong |-> chunk(k), from |-> TRUE,
                     offset |-> (k - 1) * Chunk, length |-> Chunk]]
         last == Len(src) % Chunk
     IN  meta' = full \o
           (IF last = 0 THEN <<>>
            ELSE <<[from |-> TRUE, offset |-> Len(src) - last, length |-> last]>>)
  /\ stage' = IF dst = NoFile THEN "crashed"
              ELSE IF method = "cp7" THEN "skip" ELSE "first"
  /\ UNCHANGED <<method, src, dst, summer, curr, left, batch, cst>>

Mark(list, k, at) == [list EXCEPT ![k].from = FALSE, ![k].offset = at]

--------------------------------------------------------------------------------
(* cp3, cp4 and cp6.                                                           *)

\* Faulty Confirmed: a weak sum is enough for every method.
ConfirmedWeakly(k, bytes) == k # 0

\* What makes a weak match a match.
Confirmed(k, bytes) == k # 0 /\ (method = "cp3" \/ bytes = meta[k].strong)

\* The window at the start of dst. A shorter dst is read over its end.
First ==
  /\ stage = "first"
  /\ LET bytes == [i \in 1 .. Chunk |-> IF i <= Len(dst) THEN dst[i] ELSE Junk]
         m     == SummerInit(summer, bytes)
         k     == Lookup(Full, m.sum)
     IN  /\ summer' = m
         /\ meta' = IF Confirmed(k, bytes) THEN Mark(meta, k, 0) ELSE meta
  /\ curr' = Chunk /\ left' = Len(dst) - Chunk
  /\ stage' = "batch"
  /\ UNCHANGED <<method, src, dst, batch, cst>>

\* cp4 reads the window before the new bytes again.
Refill ==
  /\ stage = "batch" /\ left > 0
  /\ LET fresh == Min({ScanBuffer, left})
         again == IF method = "cp4" THEN Chunk ELSE 0
     IN  batch' = [start |-> curr - again, length |-> fresh + again,
                   i |-> again, fresh |-> fresh]
  /\ stage' = "slide"
  /\ UNCHANGED <<method, src, dst, meta, summer, curr, left, cst>>

\* Faulty Window: where the window was before the byte.
WindowBefore == curr - Chunk

\* Where the window is once the next byte is in it.
Window == curr - Chunk + 1

\* One byte of the batch. The strong sum is taken of the last bytes read, or in
\* cp6 of the ring, which that puts in order.
Slide ==
  /\ stage = "slide" /\ batch.i < batch.length
  /\ LET byte(i) == dst[batch.start + i + 1]
         m    == Update(summer, byte(batch.i))
         k    == Lookup(Full, m.sum)
         ring == GetData(m.ring)
         b    == IF method = "cp6"
                   THEN [j \in 1 .. ring.size |-> ring.data[j - 1]]
                   ELSE [j \in 1 .. Chunk |-> byte(batch.i - Chunk + j)]
     IN  /\ summer' = IF method = "cp6" /\ k # 0 THEN [m EXCEPT !.ring = ring] ELSE m
         /\ meta' = IF Confirmed(k, b) THEN Mark(meta, k, Window) ELSE meta
  /\ curr' = curr + 1
  /\ batch' = [batch EXCEPT !.i = @ + 1]
  /\ UNCHANGED <<method, src, dst, stage, left, cst>>

BatchDone ==
  /\ stage = "slide" /\ batch.i = batch.length
  /\ left' = left - batch.fresh
  /\ batch' = NoBatch
  /\ stage' = "batch"
  /\ UNCHANGED <<method, src, dst, meta, summer, curr, cst>>

\* cp4 and cp6 only look.
ScanDone ==
  /\ stage = "batch" /\ left <= 0
  /\ stage' = IF method = "cp3" THEN "construct" ELSE "done"
  /\ UNCHANGED <<method, src, dst, meta, summer, curr, left, batch, cst>>

--------------------------------------------------------------------------------

\* cp7.
Skip ==
  /\ stage = "skip"
  /\ LET mark(list, h) == Mark(list, h.chunk, h.at)
     IN  meta' = FoldLeft(mark, meta, Scanned(dst, Heap, Full).hits)
  /\ stage' = "construct"
  /\ UNCHANGED <<method, src, dst, summer, curr, left, batch, cst>>

\* construct_file: a position beyond the end of a file gives no bytes.
Construct ==
  /\ stage = "construct"
  /\ LET put(s, c) ==
           LET part == IF c.from THEN "src" ELSE "dst"
               fm   == MapFileContent(s[part], c.offset, c.length)
           IN  IF c.offset > Len(s[part].file) THEN s
               ELSE [s EXCEPT ![part] = fm, !.out = @ \o Bytes(fm, c.length)]
     IN  cst' = FoldLeft(put, [src |-> FileMap(src, Heap), dst |-> FileMap(dst, Heap),
                               out |-> <<>>], meta).out
  /\ stage' = "done"
  /\ UNCHANGED <<method, src, dst, meta, summer, curr, left, batch>>

Next == Describe \/ First \/ Refill \/ Slide \/ BatchDone \/ ScanDone \/ Skip
        \/ Construct

Spec == Init /\ [][Next]_vars

--------------------------------------------------------------------------------
(* Properties.                                                                 *)

Scanning == stage \in {"batch", "slide", "construct", "done"}

\* Where the bytes of chunk k are in the part of dst a window has been over.
Occurrences(k, bytes) ==
  {p \in 0 .. bytes - Chunk : SubSeq(dst, p + 1, p + Chunk) = Full[k].strong}

\* What a sliding scan has marked, at every moment: of the chunks with one weak
\* sum the last, if it has been seen in dst, with its latest place. The batches,
\* the two ways to count curr and the ring make no difference (cp4, cp6).
MarksLatest ==
  method \in {"cp4", "cp6"} /\ Scanning /\ Len(dst) >= Chunk =>
    \A k \in DOMAIN Full :
      LET found == IF k = Lookup(Full, Full[k].weak) THEN Occurrences(k, curr) ELSE {}
      IN  IF found = {} THEN meta[k].from
          ELSE ~meta[k].from /\ meta[k].offset = Max(found)

PastEnd(k) == ~meta[k].from /\ meta[k].offset + Chunk > Len(dst)
BlockOf(file, k) == SubSeq(file, (k - 1) * Chunk + 1, Min({k * Chunk, Len(file)}))

\* The file that is built is src, chunk by chunk: cp3 may take other bytes for a
\* chunk, if they have its weak sum; and a chunk said to be over the end of dst is
\* not what is found there (construct_file).
Rebuilt ==
  stage = "done" /\ method \in {"cp3", "cp7"} /\ Len(dst) >= Chunk =>
    /\ Len(cst) = Len(src)
    /\ \A k \in DOMAIN meta :
         \/ BlockOf(cst, k) = BlockOf(src, k)
         \/ PastEnd(k)
         \/ method = "cp3" /\ ~meta[k].from /\ Sum1(BlockOf(cst, k)) = meta[k].weak

================================================================================
