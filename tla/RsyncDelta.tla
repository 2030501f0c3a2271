------------------------------- MODULE RsyncDelta ------------------------------
(***************************************************************************)
(* librsync: rdiff describes an old file (GenerateSigFile), finds its chunks *)
(* again in a new one and writes the difference (GenerateDeltaFile), and    *)
(* applies the difference to the old file (PatchFile). One process does the *)
(* three in a row; it may be run again over the delta of an earlier run.    *)
(* The state is what survives each step: the signature, the scan, the list  *)
(* of offset nodes, the delta file, and the writer of the result.           *)
(***************************************************************************)
EXTENDS WindowScan

CONSTANTS Olds, News,    \* the contents the two files may have
          HeapWords,     \* what an uninitialised length may be, read as size_t
          WriteLength,   \* BUFFER_LENGTH: the buffer of a WriteFileMap
          Piece,         \* WRITE_LENGTH_OF_OLD_FILE
          Leftovers,     \* the delta files of earlier runs, NoFile for none
          NoFile

ASSUME DeltaAssumption ==
  /\ {WriteLength, Piece} \subseteq Nat \ {0}
  /\ Piece < WriteLength /\ WriteLength <= MapBuffer
  /\ HeapWords \subseteq Nat
  /\ Olds \cup News \subseteq Seq(Int)

VARIABLES stage,    \* the next step of main; "crashed" once it died, and "overrun"
                    \* once a constructor wrote behind its array
          old, new, \* the two files
          heap,     \* what a word of the heap happens to hold
          meta,     \* the chunks of the old file, as the signature lists them
          scan,     \* the scan of the new file
          nodes,    \* offset_list, from the node to be written or applied on
          covered,  \* how far the nodes reach: offset, in ScanNewFile
          delta,    \* the delta file
          reader,   \* the FileMap of the file the nodes are filled from
          writer    \* the WriteFileMap of the result

vars == <<stage, old, new, heap, meta, scan, nodes, covered, delta, reader, writer>>

Literal(offset, length) == [from |-> TRUE, offset |-> offset, length |-> length]
Copy(offset, length)    == [from |-> FALSE, offset |-> offset, length |-> length]

Init ==
  /\ stage = "sig"
  /\ old \in Olds /\ new \in News /\ heap \in HeapWords
  /\ delta \in Leftovers
  /\ meta = <<>> /\ nodes = <<>> /\ covered = 0
  /\ scan = NoFile /\ reader = NoFile /\ writer = NoFile

--------------------------------------------------------------------------------
(* GenerateSigFile and GenerateDeltaFile.                                      *)

\* The FileMap of the old file, then that of the new one.
OverrunBuffer ==
  /\ stage = "sig"
  /\ Overruns(old, heap) \/ Overruns(new, heap)
  /\ stage' = "overrun"
  /\ UNCHANGED <<old, new, heap, meta, scan, nodes, covered, delta, reader, writer>>

GenerateSigFile ==
  /\ stage = "sig"
  /\ ~Overruns(old, heap) /\ ~Overruns(new, heap)
  /\ meta' = GenerateMetaList(old, heap).list
  /\ scan' = StartScan(new, heap)
  /\ stage' = "scan"
  /\ UNCHANGED <<old, new, heap, nodes, covered, delta, reader, writer>>

\* The nodes of a match: the bytes since the last one, and the chunk.
Matched(h) ==
  (IF covered # h.at THEN <<Literal(covered, h.at - covered)>> ELSE <<>>)
  \o <<Copy(meta[h.chunk].offset, Chunk)>>

ScanNewFile ==
  /\ stage = "scan" /\ scan.mode # "done"
  /\ scan' = ScanStep(scan, meta)
  /\ IF scan'.hits = scan.hits
       THEN UNCHANGED <<nodes, covered>>
       ELSE LET h == Last(scan'.hits)
            IN  nodes' = nodes \o Matched(h) /\ covered' = h.at + Chunk
  /\ UNCHANGED <<stage, old, new, heap, meta, delta, reader, writer>>

\* The bytes after the last match.
Remainder ==
  IF covered < Len(new) THEN <<Literal(covered, Len(new) - covered)>> ELSE <<>>

\* A new file of less than one chunk ends GenerateDeltaFile before the delta
\* file is opened: main goes on to patch with what lies at its place.
ScanDone ==
  /\ stage = "scan" /\ scan.mode = "done"
  /\ scan' = NoFile
  /\ IF Len(new) < Chunk
       THEN stage' = "open" /\ UNCHANGED <<nodes, delta>>
       ELSE stage' = "delta" /\ nodes' = nodes \o Remainder /\ delta' = <<>>
  /\ reader' = FileMap(new, heap)
  /\ UNCHANGED <<old, new, heap, meta, covered, writer>>

\* A literal is appended with its bytes; memmove takes a negative length for a
\* huge one, and a length beyond the writer's buffer runs over its end.
WriteNode ==
  /\ stage = "delta" /\ nodes # <<>>
  /\ LET n == Head(nodes)
         r == MapFileContent(reader, n.offset, n.length)
     IN  IF n.from /\ n.length \notin 0 .. WriteLength
           THEN stage' = "crashed" /\ UNCHANGED <<nodes, delta, reader>>
           ELSE /\ IF n.from
                     THEN /\ reader' = r
                          /\ delta' = Append(delta, [from |-> TRUE,
                                                     data |-> Bytes(r, n.length)])
                     ELSE delta' = Append(delta, n) /\ UNCHANGED reader
                /\ nodes' = Tail(nodes)
                /\ UNCHANGED stage
  /\ UNCHANGED <<old, new, heap, meta, scan, covered, writer>>

DeltaDone ==
  /\ stage = "delta" /\ nodes = <<>>
  /\ stage' = "open"
  /\ UNCHANGED <<old, new, heap, meta, scan, nodes, covered, delta, reader, writer>>

--------------------------------------------------------------------------------
(* PatchFile.                                                                  *)

\* WriteFileMap: the bytes already in the file and those still in the buffer.
Flush(w) == [file |-> w.file \o w.buffer, buffer |-> <<>>]
\* Faulty AppendData: a full buffer is emptied, not written.
AppendDataLate(w, data) ==
  LET v == IF WriteLength - Len(w.buffer) < Len(data)
             THEN [w EXCEPT !.buffer = <<>>] ELSE w
  IN  [v EXCEPT !.buffer = @ \o data]

AppendData(w, data) ==
  LET v == IF WriteLength - Len(w.buffer) <= Len(data) THEN Flush(w) ELSE w
  IN  [v EXCEPT !.buffer = @ \o data]

\* Without a delta file there is nothing to read a magic number from.
OpenDelta ==
  /\ stage = "open"
  /\ IF delta = NoFile
       THEN stage' = "crashed" /\ UNCHANGED <<nodes, reader, writer>>
       ELSE /\ stage' = "patch" /\ nodes' = delta
            /\ reader' = FileMap(old, heap)
            /\ writer' = [file |-> <<>>, buffer |-> <<>>]
  /\ UNCHANGED <<old, new, heap, meta, scan, covered, delta>>

\* A node is moved in pieces: what is copied is read from the old file piece by
\* piece, and a literal is cut.
Size(n) == IF n.from THEN Len(n.data) ELSE n.length

CopyPiece(n, size) ==
  LET r == MapFileContent(reader, n.offset, size)
  IN  /\ reader' = r /\ writer' = AppendData(writer, Bytes(r, size))

LiteralPiece(n, size) ==
  /\ writer' = AppendData(writer, SubSeq(n.data, 1, size))
  /\ UNCHANGED reader

RestOf(n, size) ==
  IF n.from THEN [from |-> TRUE, data |-> SubSeq(n.data, size + 1, Len(n.data))]
            ELSE Copy(n.offset + size, n.length - size)

PatchPiece ==
  /\ stage = "patch" /\ nodes # <<>>
  /\ LET n    == Head(nodes)
         size == Min({Piece, Size(n)})
     IN  /\ IF n.from THEN LiteralPiece(n, size) ELSE CopyPiece(n, size)
         /\ nodes' = (IF size = Size(n) THEN <<>> ELSE <<RestOf(n, size)>>)
                     \o Tail(nodes)
  /\ UNCHANGED <<stage, old, new, heap, meta, scan, covered, delta>>

\* The destructor of the writer.
PatchDone ==
  /\ stage = "patch" /\ nodes = <<>>
  /\ stage' = "done"
  /\ writer' = Flush(writer)
  /\ UNCHANGED <<old, new, heap, meta, scan, nodes, covered, delta, reader>>

Next == \/ OverrunBuffer \/ GenerateSigFile \/ ScanNewFile \/ ScanDone \/ WriteNode \/ DeltaDone
        \/ OpenDelta \/ PatchPiece \/ PatchDone

Spec == Init /\ [][Next]_vars

--------------------------------------------------------------------------------
(* Properties.                                                                 *)

Result == writer.file

\* After any number of updates the rolled sum is the sum of the bytes that are
\* in the ring, computed afresh, and these are one chunk: the halves wrap, and
\* the ring shrinks and wraps, without losing a byte (Checksum3::Update).
RollingAgrees ==
  stage = "scan" /\ scan.curr > 0 =>
    /\ scan.summer.ring.size = Chunk
    /\ scan.summer.sum = Sum1(Contents(scan.summer.ring))

\* Unless a constructor has left the array of its FileMap, the scan never looks
\* beyond it, not even where it rolls on over the end of the file (ScanNewFile,
\* MapFileContent).
ReadsStayInBuffer ==
  stage = "scan" /\ scan.mode = "roll" =>
    scan.map.at + scan.i \in DOMAIN scan.map.data

\* Two windows that a weak sum does not tell from a chunk, though they differ.
Collides ==
  \E p \in 1 .. Len(new) - Chunk + 1, k \in DOMAIN meta :
     LET w == SubSeq(new, p, p + Chunk - 1)
     IN  Sum1(w) = meta[k].weak /\ w # meta[k].strong

\* Unless a weak sum misleads it, the window rolls over the new file in step:
\* what is in the ring are the bytes before curr (ScanNewFile).
WindowFollows ==
  stage = "scan" /\ scan.mode = "roll" /\ scan.curr <= Len(new) /\ ~Collides =>
    Contents(scan.summer.ring) = SubSeq(new, scan.curr - Chunk + 1, scan.curr)

\* A finished patch has rebuilt the new file, followed by at most a chunk of what
\* a match across or beyond the end of the file adds (PatchFile). A new file
\* shorter than a chunk has no delta of its own.
Rebuilds ==
  stage = "done" /\ Len(new) >= Chunk =>
    IsPrefix(new, Result) /\ Len(Result) <= Len(new) + Chunk

\* An unchanged file is sent as copies and its last partial chunk, provided the
\* weak sums tell its chunks apart (ScanNewFile).
UnchangedIsCopied ==
  stage = "delta" /\ delta = <<>> /\ old = new /\ ~Collides =>
    \A n \in Range(nodes) : n.from => n.length = Len(new) % Chunk

ScanLeft(s) == 2 * (Len(new) + Chunk - s.curr) + (IF s.mode = "roll" THEN 1 ELSE 0)

\* The scan ends: every step moves curr on or, after a match, leaves the loop
\* that found it, and curr is bounded by the size of the file (ScanNewFile).
ScanAdvances ==
  [][stage = "scan" /\ stage' = "scan" /\ scan'.mode # "done" =>
       0 <= ScanLeft(scan') /\ ScanLeft(scan') < ScanLeft(scan)]_vars

\* "patched file ok": the result is the new file.
PatchRestores == stage = "done" => Result = new

================================================================================
