------------------------------- MODULE WindowScan ------------------------------
(***************************************************************************)
(* The search both synchronisers make: the chunks of one file are described *)
(* by a weak and a strong sum, and a window of one chunk is rolled over     *)
(* another file to find them again. The pieces are the checksum (Checksum3),*)
(* the buffered reader (FileMap) and the scan itself (ScanNewFile of        *)
(* librsync and ScanFile1 of simple_rsync, which differ only in what they   *)
(* note of a match: here the match is kept, as the position and the number  *)
(* of the chunk). A file is the sequence of its bytes; positions count from *)
(* 0, as in the code. The strong sum of some bytes is the bytes themselves: *)
(* MD4 is taken to be free of collisions.                                   *)
(***************************************************************************)
EXTENDS CircleQueue, SequencesExt, FiniteSetsExt

CONSTANTS Chunk,        \* CHUNK_SIZE
          HalfWord,     \* 2^16: each half of a checksum is kept modulo this
          CharOffset,   \* CHAR_OFFSET
          MapBuffer,    \* DEFAULT_BUFFER_LENGTH of a FileMap
          RingSize      \* the elements the ring of a Checksum3 is made for

ASSUME ScanAssumption ==
  /\ {Chunk, HalfWord, MapBuffer, RingSize} \subseteq Nat \ {0}
  /\ CharOffset \in Nat /\ Junk \in Int
  /\ Chunk <= MapBuffer

--------------------------------------------------------------------------------
(* Checksum3: a sum is the pair of its halves.                                 *)

AddByte(s, b) == <<s[1] + b + CharOffset, s[2] + s[1] + b + CharOffset>>

\* The halves before they wrap.
Sums(bytes) == FoldLeft(AddByte, <<0, 0>>, bytes)
Sum1(bytes) == <<Sums(bytes)[1] % HalfWord, Sums(bytes)[2] % HalfWord>>

NewSummer == [ring |-> NewRing(RingSize), sum |-> <<0, 0>>]

SummerInit(m, bytes) ==
  [ring |-> FoldLeft(Push, Clear(m.ring), bytes), sum |-> Sum1(bytes)]

\* Faulty Update: the byte that leaves is not weighed by the length of the window.
UpdateUnweighed(m, next) ==
  LET ring == Push(m.ring, next)
      out  == FrontOf(ring) + CharOffset
      s1   == m.sum[1] + next + CharOffset - out
  IN  [ring |-> Pop(ring), sum |-> <<s1 % HalfWord, (m.sum[2] + s1 - out) % HalfWord>>]

Update(m, next) ==
  LET ring == Push(m.ring, next)
      out  == FrontOf(ring) + CharOffset
      s1   == m.sum[1] + next + CharOffset - out
      s2   == m.sum[2] + s1 - (Chunk % HalfWord) * out
  IN  [ring |-> Pop(ring), sum |-> <<s1 % HalfWord, s2 % HalfWord>>]

--------------------------------------------------------------------------------
(* FileMap: a buffer onto a part of a file. at is where the pointer that the   *)
(* last MapFileContent returned points into data_.                             *)

BufferLength(file) == Min({MapBuffer, Len(file)})

Read(fm, offset, length) ==
  LET n == Min({length, Len(fm.file) - offset})
  IN  [fm EXCEPT !.offset = offset, !.length = n, !.at = 0,
                 !.data = [i \in DOMAIN @ |->
                             IF i < n THEN fm.file[offset + i + 1] ELSE @[i]]]

\* length_ is set only for a file smaller than the buffer: of any other, the
\* constructor reads as much as the word that was on the heap says. A negative
\* word counts as a huge one.
FileMap(file, heap) ==
  Read([file |-> file, data |-> [i \in 0 .. BufferLength(file) - 1 |-> Junk],
        offset |-> 0, length |-> 0, at |-> 0],
       0, IF Len(file) < MapBuffer THEN Len(file) ELSE heap)

\* A word beyond the buffer lets fread write the rest of a longer file behind the
\* array. What the process does then is nothing this module says.
Overruns(file, heap) == heap > MapBuffer /\ Len(file) > MapBuffer

\* Faulty MapFileContent: only the start must be in the buffer.
MapFileContentStart(fm, offset, length) ==
  IF offset >= fm.offset /\ offset < fm.length + fm.offset
    THEN [fm EXCEPT !.at = offset - fm.offset]
    ELSE Read(fm, offset, BufferLength(fm.file))

MapFileContent(fm, offset, length) ==
  IF offset >= fm.offset /\ offset + length < fm.length + fm.offset
    THEN [fm EXCEPT !.at = offset - fm.offset]
    ELSE Read(fm, offset, BufferLength(fm.file))

\* What the returned pointer shows.
ByteAt(fm, i) == IF fm.at + i \in DOMAIN fm.data THEN fm.data[fm.at + i] ELSE Junk
Bytes(fm, n)  == [i \in 1 .. n |-> ByteAt(fm, i - 1)]

--------------------------------------------------------------------------------
(* The description of a file: its full chunks in order.                        *)

\* Faulty FullChunks: a chunk is full only if something follows it.
FullChunksBefore(file) == (Len(file) - 1) \div Chunk

FullChunks(file) == Len(file) \div Chunk

DescribeChunk(s, k) ==
  LET fm == MapFileContent(s.map, (k - 1) * Chunk, Chunk)
      b  == Bytes(fm, Chunk)
  IN  [map |-> fm, list |-> Append(s.list,
         [weak |-> Sum1(b), strong |-> b, offset |-> (k - 1) * Chunk, length |-> Chunk])]

GenerateMetaList(file, heap) ==
  FoldLeft(DescribeChunk, [map |-> FileMap(file, heap), list |-> <<>>],
           [k \in 1 .. FullChunks(file) |-> k])

\* sum_offset: the last chunk of that weak sum, 0 if none has it. The table of
\* 4096 marks before it only saves lookups that would fail.
Lookup(meta, weak) == Max({0} \cup {k \in DOMAIN meta : meta[k].weak = weak})

--------------------------------------------------------------------------------
(* The scan.                                                                   *)

StartScan(file, heap) ==
  [curr |-> 0, i |-> 0, mode |-> "block", summer |-> NewSummer,
   map |-> FileMap(file, heap), hits |-> <<>>]

\* Faulty Found: the weak sum is enough.
FoundWeakly(fm, meta, k) == k # 0

Found(fm, meta, k) == k # 0 /\ Bytes(fm, Chunk) = meta[k].strong
Hit(s, position, k) == Append(s.hits, [at |-> position, chunk |-> k])

\* Faulty ScanBlock: the bytes after a window that was read again are not.
ScanBlockStale(s, meta) ==
  LET first  == MapFileContent(s.map, s.curr, Chunk)
      summer == SummerInit(s.summer, Bytes(first, Chunk))
      k      == Lookup(meta, summer.sum)
  IN  IF s.curr + Chunk > Len(s.map.file) THEN [s EXCEPT !.mode = "done"]
      ELSE IF Found(first, meta, k)
        THEN [s EXCEPT !.curr = @ + Chunk, !.summer = summer, !.map = first,
                       !.hits = Hit(s, s.curr, k)]
        ELSE [s EXCEPT !.curr = @ + Chunk, !.summer = summer, !.map = first,
                       !.i = 0, !.mode = "roll"]

\* The window of the next block, and if it matches no chunk the bytes after it.
ScanBlock(s, meta) ==
  LET size   == Len(s.map.file)
      first  == MapFileContent(s.map, s.curr, Chunk)
      summer == SummerInit(s.summer, Bytes(first, Chunk))
      curr   == s.curr + Chunk
      k      == Lookup(meta, summer.sum)
      again  == IF k # 0 THEN MapFileContent(first, curr - Chunk, Chunk) ELSE first
      missed == MapFileContent(again, curr, Min({size - curr, Chunk}))
  IN  IF s.curr + Chunk > size THEN [s EXCEPT !.mode = "done"]
      ELSE IF Found(again, meta, k)
        THEN [s EXCEPT !.curr = curr, !.summer = summer, !.map = again,
                       !.hits = Hit(s, curr - Chunk, k)]
        ELSE [s EXCEPT !.curr = curr, !.summer = summer, !.map = missed,
                       !.i = 0, !.mode = "roll"]

\* Faulty ScanRoll: a match starts the block where the window began.
ScanRollBack(s, meta) ==
  LET summer == Update(s.summer, ByteAt(s.map, s.i))
      k      == Lookup(meta, summer.sum)
      start  == s.curr - Chunk + 1
      again  == IF k # 0 THEN MapFileContent(s.map, start, Chunk) ELSE s.map
      last   == s.i + 1 = Chunk
  IN  IF Found(again, meta, k)
        THEN [s EXCEPT !.summer = summer, !.map = again, !.mode = "block",
                       !.i = 0, !.curr = start, !.hits = Hit(s, start, k)]
        ELSE [s EXCEPT !.summer = summer, !.map = again, !.curr = @ + 1,
                       !.i = IF last THEN 0 ELSE @ + 1,
                       !.mode = IF last THEN "block" ELSE "roll"]

\* One byte further. A window whose weak sum is known is read again, and buf
\* stays where it was read; after a match curr is not moved on.
ScanRoll(s, meta) ==
  LET summer == Update(s.summer, ByteAt(s.map, s.i))
      k      == Lookup(meta, summer.sum)
      start  == s.curr - Chunk + 1
      again  == IF k # 0 THEN MapFileContent(s.map, start, Chunk) ELSE s.map
      last   == s.i + 1 = Chunk
  IN  IF Found(again, meta, k)
        THEN [s EXCEPT !.summer = summer, !.map = again, !.mode = "block",
                       !.i = 0, !.hits = Hit(s, start, k)]
        ELSE [s EXCEPT !.summer = summer, !.map = again, !.curr = @ + 1,
                       !.i = IF last THEN 0 ELSE @ + 1,
                       !.mode = IF last THEN "block" ELSE "roll"]

ScanStep(s, meta) == IF s.mode = "roll" THEN ScanRoll(s, meta)
                                        ELSE ScanBlock(s, meta)

\* The whole scan. A scan that is done stays done; it makes fewer steps than
\* twice the bytes there are.
Scanned(file, heap, meta) ==
  LET step(s, n) == ScanStep(s, meta)
  IN  FoldLeft(step, StartScan(file, heap),
               [n \in 1 .. 2 * (Len(file) + Chunk) |-> n])

================================================================================
