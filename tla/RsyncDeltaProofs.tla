---------------------------- MODULE RsyncDeltaProofs ---------------------------
(***************************************************************************)
(* The signature and the scan of librsync, for files of every content and  *)
(* every Chunk, HalfWord, CharOffset, MapBuffer and RingSize, and for every *)
(* word of the heap, as long as none made a constructor write behind its   *)
(* array (stage "overrun"). The proof goes up the layers of the model:     *)
(*   - the ring: a push appends and a pop drops the first element, through  *)
(*     growing, shrinking and wrapping (CircleQueue);                       *)
(*   - folds: FoldLeft over a sequence is a walk from left to right. What   *)
(*     is folded is not a parameter of the lemmas, so Sums, the pushes of   *)
(*     Init and the chunks of a signature unfold it one by one;             *)
(*   - the checksum: Update keeps the sum that of the window (Agrees);      *)
(*   - the buffer: what MapFileContent returns shows the bytes asked for    *)
(*     and lies inside data_ (Mapped, Shows);                               *)
(*   - the scan: ScanOk, the invariant of ScanNewFile, by block and by byte.*)
(* ScanInv puts these together for the program, and two invariants go on    *)
(* from it to what main does with the scan:                                 *)
(*   - ListInv: nodes, entries of the delta and bytes of the result each lead *)
(*     through the new file without a gap (Covers), from the match that is   *)
(*     found to the byte that is written, so that the result is the file;    *)
(*   - SameInv: a file scanned for its own chunks is cut at their ends.      *)
(* The last parts are about simple_rsync, which uses this library: where the *)
(* calls of its clients are (CallInv), what its local copies mark while     *)
(* they slide the window over a file (CopyInv), that a client builds the    *)
(* file it was told of (BuildInv), and that a local copy builds the file it *)
(* describes (RebuildInv).                                                  *)
(***************************************************************************)
EXTENDS RsyncInvariants, SequenceTheorems, FiniteSetTheorems,
        WellFoundedInduction, TLAPS

--------------------------------------------------------------------------------
(* The ring.                                                                   *)

\* A ring has its fields, and its two positions are size_ apart.
LEMMA RingFacts ==
  ASSUME NEW T, NEW n \in Nat \ {0}, NEW q \in Rings(T, n)
  PROVE  /\ q = [data |-> q.data, capacity |-> n, size |-> q.size,
                 front |-> q.front, end |-> q.end]
         /\ q.capacity = n
         /\ q.data \in [0 .. n - 1 -> T]
         /\ q.size \in 0 .. n - 1 /\ q.front \in 0 .. n - 1 /\ q.end \in 0 .. n - 1
         /\ q.end = IF q.front + q.size < n THEN q.front + q.size
                                            ELSE q.front + q.size - n
  BY DEF Rings, Cell

\* The elements of a ring are in its array.
LEMMA CellsInside ==
  ASSUME NEW T, NEW n \in Nat \ {0}, NEW q \in Rings(T, n), NEW i \in 1 .. q.size
  PROVE  Cell(q, i) \in 0 .. n - 1 /\ Cell(q, i) # q.end
  BY RingFacts DEF Cell

\* So what a ring stands for is a sequence of elements.
LEMMA ContentsIsSeq ==
  ASSUME NEW T, NEW n \in Nat \ {0}, NEW q \in Rings(T, n)
  PROVE  Contents(q) \in Seq(T) /\ Len(Contents(q)) = q.size
<1>1. \A i \in 1 .. q.size : q.data[Cell(q, i)] \in T
  BY RingFacts, CellsInside
<1>2. Contents(q) \in [1 .. q.size -> T] /\ q.size \in Nat
  BY <1>1, RingFacts DEF Contents
<1> QED
  BY <1>2

\* A ring whose elements lie in one piece keeps them, in any array that has room
\* for one more.
LEMMA ReallocKeeps ==
  ASSUME NEW T, Junk \in T, NEW n \in Nat \ {0}, NEW q \in Rings(T, n),
         q.front + q.size < n, NEW m \in Nat \ {0}, q.size < m
  PROVE  /\ Realloc(q, m) \in Rings(T, m)
         /\ Contents(Realloc(q, m)) = Contents(q)
         /\ Realloc(q, m).front = 0 /\ Realloc(q, m).size = q.size
<1> DEFINE r == Realloc(q, m)
<1>1. /\ r.data = Moved(q, m) /\ r.capacity = m /\ r.size = q.size
      /\ r.front = 0 /\ r.end = q.size
      /\ r = [data |-> r.data, capacity |-> r.capacity, size |-> r.size,
              front |-> r.front, end |-> r.end]
  BY DEF Realloc
<1> HIDE DEF r
<1>2. q.front <= q.end /\ (q.front = q.end <=> q.size = 0)
  BY RingFacts
<1>3. Moved(q, m) = [i \in 0 .. m - 1 |-> IF i < q.size THEN q.data[q.front + i]
                                                       ELSE Junk]
  <2>1. ASSUME NEW i \in 0 .. m - 1, i < q.size
        PROVE  q.front + i < q.capacity
    BY <2>1, RingFacts
  <2>2. CASE q.front < q.end
    <3>1. ~(q.front > q.end)
      BY <1>2, RingFacts
    <3> QED
      BY <2>1, <2>2, <3>1 DEF Moved
  <2>3. CASE q.front = q.end
    <3>1. ~(q.front > q.end) /\ ~(q.front < q.end) /\ q.size = 0
      BY <1>2, <2>3, RingFacts
    <3> QED
      BY <3>1 DEF Moved
  <2> QED
    BY <1>2, <2>2, <2>3, RingFacts
<1>4. \A i \in 0 .. m - 1 : i < q.size => q.data[q.front + i] \in T
  <2>1. \A i \in 0 .. m - 1 : i < q.size => q.front + i \in 0 .. n - 1
    BY RingFacts
  <2> QED
    BY <2>1, RingFacts
<1>5. r.data \in [0 .. m - 1 -> T]
  BY <1>1, <1>3, <1>4
<1>6. r \in Rings(T, m)
  <2>1. r.end = Cell(r, r.size + 1)
    BY <1>1, RingFacts DEF Cell
  <2>2. r.size \in 0 .. m - 1 /\ r.front \in 0 .. m - 1 /\ r.end \in 0 .. m - 1
    BY <1>1, RingFacts
  <2> QED
    BY <1>1, <1>5, <2>1, <2>2 DEF Rings
<1>7. \A i \in 1 .. q.size : r.data[Cell(r, i)] = q.data[Cell(q, i)]
  <2>1. \A i \in 1 .. q.size : Cell(r, i) = i - 1 /\ Cell(q, i) = q.front + (i - 1)
    BY <1>1, RingFacts DEF Cell
  <2>2. \A i \in 1 .. q.size : Moved(q, m)[i - 1] = q.data[q.front + (i - 1)]
    BY <1>3, RingFacts
  <2> QED
    BY <1>1, <2>1, <2>2
<1>8. Contents(r) = Contents(q)
  BY <1>1, <1>7 DEF Contents
<1> QED
  BY <1>1, <1>6, <1>8 DEF r

\* push with room in the array appends to the sequence, and leaves a ring.
LEMMA PushWithRoom ==
  ASSUME NEW T, NEW n \in Nat \ {0}, NEW q \in Rings(T, n), NEW t \in T,
         q.size < n - 1
  PROVE  /\ Push(q, t) \in Rings(T, n)
         /\ Contents(Push(q, t)) = Append(Contents(q), t)
         /\ Push(q, t).front = q.front /\ Push(q, t).size = q.size + 1
<1> DEFINE p == Push(q, t)
<1>1. /\ ~(q.size >= q.capacity - 1)
      /\ q = [data |-> q.data, capacity |-> n, size |-> q.size,
              front |-> q.front, end |-> q.end]
  BY RingFacts
<1>2. p = [data |-> [q.data EXCEPT ![q.end] = t], capacity |-> n,
           size |-> q.size + 1, front |-> q.front, end |-> After(q, q.end)]
  <2>1. Push(q, t) = [q EXCEPT !.data[q.end] = t, !.end = After(q, q.end),
                               !.size = @ + 1]
    BY <1>1 DEF Push
  <2> DEFINE x == [q.data EXCEPT ![q.end] = t]
             a == After(q, q.end)
             u == [data |-> x, capacity |-> n, size |-> q.size, front |-> q.front,
                   end |-> q.end]
             v == [data |-> x, capacity |-> n, size |-> q.size, front |-> q.front,
                   end |-> a]
  <2>2. [q EXCEPT !.data = x] = u
    BY <1>1
  <2>3. [u EXCEPT !.end = a] = v
    OBVIOUS
  <2>4. [v EXCEPT !.size = q.size + 1] =
          [data |-> x, capacity |-> n, size |-> q.size + 1, front |-> q.front,
           end |-> a]
    OBVIOUS
  <2> HIDE DEF u, v
  <2> QED
    BY <2>1, <2>2, <2>3, <2>4
<1> HIDE DEF p
<1>3. p \in Rings(T, n)
  <2>1. p.end = IF q.end = n - 1 THEN 0 ELSE q.end + 1
    BY <1>2, RingFacts DEF After
  <2>2. p.end = Cell(p, p.size + 1)
    BY <1>2, <2>1, RingFacts DEF Cell
  <2>3. p.data \in [0 .. n - 1 -> T] /\ p.size \in 0 .. n - 1
        /\ p.front \in 0 .. n - 1 /\ p.end \in 0 .. n - 1
    BY <1>2, <2>1, RingFacts
  <2> QED
    BY <1>2, <2>2, <2>3 DEF Rings
<1>4. \A i \in 1 .. q.size : p.data[Cell(p, i)] = q.data[Cell(q, i)]
  <2>1. \A i \in 1 .. q.size : Cell(p, i) = Cell(q, i)
    BY <1>2, RingFacts DEF Cell
  <2>2. \A i \in 1 .. q.size : Cell(q, i) \in 0 .. n - 1 /\ Cell(q, i) # q.end
    BY CellsInside
  <2>3. p.data = [q.data EXCEPT ![q.end] = t] /\ q.data \in [0 .. n - 1 -> T]
    BY <1>2, RingFacts
  <2>4. \A j \in 0 .. n - 1 : j # q.end => p.data[j] = q.data[j]
    BY <2>3
  <2> QED
    BY <2>1, <2>2, <2>4
<1>5. p.data[Cell(p, q.size + 1)] = t
  <2>1. Cell(p, q.size + 1) = q.end
    BY <1>2, RingFacts DEF Cell
  <2> QED
    BY <1>2, <2>1, RingFacts
<1>6. \A i \in 1 .. q.size + 1 :
        p.data[Cell(p, i)] = Append(Contents(q), t)[i]
  <2>1. \A i \in 1 .. q.size : Append(Contents(q), t)[i] = q.data[Cell(q, i)]
    BY ContentsIsSeq, RingFacts DEF Contents
  <2>2. Append(Contents(q), t)[q.size + 1] = t
    BY ContentsIsSeq, RingFacts
  <2>3. \A i \in 1 .. q.size + 1 : i \in 1 .. q.size \/ i = q.size + 1
    BY RingFacts
  <2> QED
    BY <1>4, <1>5, <2>1, <2>2, <2>3
<1>7. Contents(p) = Append(Contents(q), t)
  <2>1. /\ Append(Contents(q), t) \in Seq(T)
        /\ Len(Append(Contents(q), t)) = q.size + 1
    BY ContentsIsSeq
  <2>2. Contents(p) \in Seq(T) /\ Len(Contents(p)) = q.size + 1
    BY <1>2, <1>3, ContentsIsSeq
  <2>3. \A i \in 1 .. q.size + 1 : Contents(p)[i] = p.data[Cell(p, i)]
    BY <1>2 DEF Contents
  <2> QED
    BY <1>6, <2>1, <2>2, <2>3
<1>8. p.front = q.front /\ p.size = q.size + 1
  BY <1>2
<1> QED
  BY <1>3, <1>7, <1>8 DEF p

\* The elements do not wrap around the end of an array that push or pop is
\* about to replace.
GrowsWhole(q, n)   == q.size >= n - 1 => q.front = 0
Thin(q, n)         == q.size < n \div 3 /\ n > 15
ShrinksWhole(q, n) == Thin(q, n) => q.front + q.size < n

\* Where there is no room, push goes on with a ring of twice the cells.
GrowsTo(T, q, t, m) ==
  \E r \in Rings(T, m) :
     /\ r.size < m - 1 /\ r.size = q.size
     /\ r.front = 0 /\ q.front = 0
     /\ Contents(r) = Contents(q) /\ Push(q, t) = Push(r, t)

\* Without room, push goes on with the ring twice as long.
LEMMA PushGrows ==
  ASSUME NEW T, Junk \in T, NEW n \in Nat \ {0}, NEW q \in Rings(T, n), NEW t \in T,
         ~(q.size < n - 1), GrowsWhole(q, n)
  PROVE  GrowsTo(T, q, t, 2 * n)
<1>1. q.size >= n - 1 /\ q.front = 0 /\ q.capacity = n /\ q.size \in 0 .. n - 1
  BY RingFacts DEF GrowsWhole
<1>2. PICK m \in Nat \ {0} : m = 2 * n
  OBVIOUS
<1>3. q.front + q.size < n /\ q.size < m
  BY <1>1, <1>2
<1>4. PICK r : r = Realloc(q, m)
  OBVIOUS
<1>5. /\ r \in Rings(T, m) /\ Contents(r) = Contents(q)
      /\ r.front = 0 /\ r.size = q.size
  <2>1. \A k \in Nat \ {0} : q.size < k =>
          /\ Realloc(q, k) \in Rings(T, k)
          /\ Contents(Realloc(q, k)) = Contents(q)
          /\ Realloc(q, k).front = 0 /\ Realloc(q, k).size = q.size
    BY <1>3, ReallocKeeps
  <2> QED
    BY <1>3, <1>4, <2>1
<1>6. r.size < m - 1
  BY <1>1, <1>2, <1>5
<1>7. r.capacity = m
  BY <1>5, RingFacts
<1>8. ~(r.size >= r.capacity - 1) /\ q.size >= q.capacity - 1
  BY <1>1, <1>2, <1>5, <1>6, <1>7
<1>9. Realloc(q, 2 * q.capacity) = r
  BY <1>1, <1>2, <1>4
<1>10. Push(q, t) = Push(r, t)
  BY <1>8, <1>9 DEF Push
<1> QED
  BY <1>1, <1>2, <1>5, <1>6, <1>10 DEF GrowsTo

\* It leaves a ring, of twice the cells where there was no room.
LEMMA PushIsRing ==
  ASSUME NEW T, Junk \in T, NEW n \in Nat \ {0}, NEW q \in Rings(T, n), NEW t \in T,
         GrowsWhole(q, n)
  PROVE  /\ q.size < n - 1 => Push(q, t) \in Rings(T, n)
         /\ ~(q.size < n - 1) => Push(q, t) \in Rings(T, 2 * n)
<1>1. CASE q.size < n - 1
  BY <1>1, PushWithRoom
<1>2. CASE ~(q.size < n - 1)
  <2>1. PICK m \in Nat \ {0} : m = 2 * n /\ GrowsTo(T, q, t, m)
    <3>1. GrowsTo(T, q, t, 2 * n)
      BY <1>2, PushGrows
    <3> QED
      BY <3>1
  <2>2. PICK r \in Rings(T, m) :
          /\ r.size < m - 1 /\ r.size = q.size
          /\ r.front = 0 /\ q.front = 0
          /\ Contents(r) = Contents(q) /\ Push(q, t) = Push(r, t)
    BY <2>1 DEF GrowsTo
  <2>3. Push(r, t) \in Rings(T, m)
    BY <2>2, PushWithRoom
  <2> QED
    BY <1>2, <2>1, <2>2, <2>3
<1> QED
  BY <1>1, <1>2

\* It appends to the sequence.
LEMMA PushContents ==
  ASSUME NEW T, Junk \in T, NEW n \in Nat \ {0}, NEW q \in Rings(T, n), NEW t \in T,
         GrowsWhole(q, n)
  PROVE  Contents(Push(q, t)) = Append(Contents(q), t)
<1>1. CASE q.size < n - 1
  BY <1>1, PushWithRoom
<1>2. CASE ~(q.size < n - 1)
  <2>1. PICK m \in Nat \ {0} : m = 2 * n /\ GrowsTo(T, q, t, m)
    <3>1. GrowsTo(T, q, t, 2 * n)
      BY <1>2, PushGrows
    <3> QED
      BY <3>1
  <2>2. PICK r \in Rings(T, m) :
          /\ r.size < m - 1 /\ r.size = q.size
          /\ r.front = 0 /\ q.front = 0
          /\ Contents(r) = Contents(q) /\ Push(q, t) = Push(r, t)
    BY <2>1 DEF GrowsTo
  <2>3. Contents(Push(r, t)) = Append(Contents(r), t)
    BY <2>2, PushWithRoom
  <2> QED
    BY <1>2, <2>1, <2>2, <2>3
<1> QED
  BY <1>1, <1>2

\* push appends to the sequence and leaves a ring, of twice the cells where there
\* was no room: then the elements must not wrap around the end of the array.
THEOREM PushAppends ==
  ASSUME NEW T, Junk \in T, NEW n \in Nat \ {0}, NEW q \in Rings(T, n), NEW t \in T,
         GrowsWhole(q, n)
  PROVE  /\ q.size < n - 1 => Push(q, t) \in Rings(T, n)
         /\ ~(q.size < n - 1) => Push(q, t) \in Rings(T, 2 * n)
         /\ Contents(Push(q, t)) = Append(Contents(q), t)
  BY PushIsRing, PushContents

\* It leaves front where it was.
LEMMA PushKeepsFront ==
  ASSUME NEW T, Junk \in T, NEW n \in Nat \ {0}, NEW q \in Rings(T, n), NEW t \in T,
         GrowsWhole(q, n)
  PROVE  Push(q, t).front = q.front
<1>1. CASE q.size < n - 1
  BY <1>1, PushWithRoom
<1>2. CASE ~(q.size < n - 1)
  <2>1. PICK m \in Nat \ {0} : m = 2 * n /\ GrowsTo(T, q, t, m)
    <3>1. GrowsTo(T, q, t, 2 * n)
      BY <1>2, PushGrows
    <3> QED
      BY <3>1
  <2>2. PICK r \in Rings(T, m) :
          /\ r.size < m - 1 /\ r.size = q.size
          /\ r.front = 0 /\ q.front = 0
          /\ Contents(r) = Contents(q) /\ Push(q, t) = Push(r, t)
    BY <2>1 DEF GrowsTo
  <2>3. Push(r, t).front = r.front
    BY <2>2, PushWithRoom
  <2> QED
    BY <2>2, <2>3
<1> QED
  BY <1>1, <1>2

\* front is the first element; moved on, it leaves a ring without that element.
Dropped(q) == [q EXCEPT !.front = After(q, q.front), !.size = @ - 1]

\* It drops the first element.
LEMMA FrontMovesOn ==
  ASSUME NEW T, NEW n \in Nat \ {0}, NEW q \in Rings(T, n), q.size > 0
  PROVE  /\ FrontOf(q) = Head(Contents(q))
         /\ Dropped(q) \in Rings(T, n)
         /\ Contents(Dropped(q)) = Tail(Contents(q))
         /\ Dropped(q).front = (IF q.front = n - 1 THEN 0 ELSE q.front + 1)
         /\ Dropped(q).size = q.size - 1
<1> DEFINE p == Dropped(q)
<1>1. /\ ~(q.size <= 0)
      /\ q = [data |-> q.data, capacity |-> n, size |-> q.size,
              front |-> q.front, end |-> q.end]
  BY RingFacts
<1>2. /\ p = [data |-> q.data, capacity |-> n, size |-> q.size - 1,
              front |-> After(q, q.front), end |-> q.end]
      /\ After(q, q.front) = IF q.front = n - 1 THEN 0 ELSE q.front + 1
  <2>1. p = [q EXCEPT !.front = After(q, q.front), !.size = @ - 1]
    BY DEF Dropped
  <2>2. After(q, q.front) = IF q.front = n - 1 THEN 0 ELSE q.front + 1
    BY RingFacts DEF After
  <2> DEFINE a == After(q, q.front)
             u == [data |-> q.data, capacity |-> n, size |-> q.size, front |-> a,
                   end |-> q.end]
  <2>3. [q EXCEPT !.front = a] = u
    BY <1>1
  <2>4. [u EXCEPT !.size = q.size - 1] =
          [data |-> q.data, capacity |-> n, size |-> q.size - 1, front |-> a,
           end |-> q.end]
    OBVIOUS
  <2> HIDE DEF u
  <2> QED
    BY <2>1, <2>2, <2>3, <2>4
<1> HIDE DEF p
<1>3. FrontOf(q) = Head(Contents(q))
  <2>1. Cell(q, 1) = q.front
    BY RingFacts DEF Cell
  <2>2. Contents(q)[1] = q.data[q.front]
    BY <2>1, RingFacts DEF Contents
  <2> QED
    BY <2>2, ContentsIsSeq DEF FrontOf
<1>4. p \in Rings(T, n)
  <2>1. p.end = Cell(p, p.size + 1)
    BY <1>2, RingFacts DEF Cell
  <2>2. p.size \in 0 .. n - 1 /\ p.front \in 0 .. n - 1
    BY <1>2, RingFacts
  <2> QED
    BY <1>2, <2>1, <2>2, RingFacts DEF Rings
<1>5. \A i \in 1 .. q.size - 1 : Contents(p)[i] = Contents(q)[i + 1]
  <2>1. \A i \in 1 .. q.size - 1 : Cell(p, i) = Cell(q, i + 1)
    BY <1>2, RingFacts DEF Cell
  <2> QED
    BY <1>2, <2>1, RingFacts DEF Contents
<1>6. Contents(p) = Tail(Contents(q))
  <2>1. Contents(p) \in Seq(T) /\ Len(Contents(p)) = q.size - 1
    BY <1>2, <1>4, ContentsIsSeq
  <2>2. /\ Tail(Contents(q)) \in Seq(T) /\ Len(Tail(Contents(q))) = q.size - 1
        /\ \A i \in 1 .. q.size - 1 : Tail(Contents(q))[i] = Contents(q)[i + 1]
    BY ContentsIsSeq, RingFacts
  <2> QED
    BY <1>5, <2>1, <2>2
<1>7. p.front = After(q, q.front) /\ p.size = q.size - 1
  BY <1>2
<1> QED
  BY <1>2, <1>3, <1>4, <1>6, <1>7 DEF p

\* pop takes the first element away and leaves a ring, of half the cells where
\* few were used: then the elements must not wrap around the end of the array.
THEOREM PopDropsFirst ==
  ASSUME NEW T, Junk \in T, NEW n \in Nat \ {0}, NEW q \in Rings(T, n), q.size > 0,
         ShrinksWhole(q, n)
  PROVE  /\ FrontOf(q) = Head(Contents(q))
         /\ Contents(Pop(q)) = Tail(Contents(q))
         /\ Thin(q, n) => Pop(q) \in Rings(T, n \div 2) /\ Pop(q).front = 1
         /\ ~Thin(q, n) => Pop(q) \in Rings(T, n)
         /\ Pop(q).size = q.size - 1
<1>1. q.capacity = n /\ q.size \in 0 .. n - 1 /\ ~(q.size <= 0)
  BY RingFacts
<1>2. FrontOf(q) = Head(Contents(q))
  BY FrontMovesOn
<1>3. CASE ~Thin(q, n)
  <2>1. Pop(q) = Dropped(q)
    BY <1>1, <1>3 DEF Pop, Dropped, Thin
  <2> QED
    BY <1>2, <1>3, <2>1, FrontMovesOn
<1>4. CASE Thin(q, n)
  <2>1. PICK m \in Nat \ {0} : m = n \div 2 /\ m > 1 /\ q.size < m
    <3>1. n \div 2 \in Nat \ {0} /\ n \div 2 > 1 /\ q.size < n \div 2
      BY <1>1, <1>4 DEF Thin
    <3> QED
      BY <3>1
  <2>2. PICK r : r = Realloc(q, m)
    OBVIOUS
  <2>3. /\ r \in Rings(T, m) /\ Contents(r) = Contents(q)
        /\ r.front = 0 /\ r.size = q.size
    <3>1. \A k \in Nat \ {0} : q.size < k =>
            /\ Realloc(q, k) \in Rings(T, k)
            /\ Contents(Realloc(q, k)) = Contents(q)
            /\ Realloc(q, k).front = 0 /\ Realloc(q, k).size = q.size
      BY <1>4, ReallocKeeps DEF ShrinksWhole
    <3> QED
      BY <2>1, <2>2, <3>1
  <2>4. Pop(q) = Dropped(r)
    <3>1. Realloc(q, q.capacity \div 2) = r
      BY <1>1, <2>1, <2>2
    <3> QED
      BY <1>1, <1>4, <2>3, <3>1 DEF Pop, Dropped, Thin
  <2>5. r.size > 0
    BY <2>3
  <2>6. /\ Dropped(r) \in Rings(T, m) /\ Contents(Dropped(r)) = Tail(Contents(r))
        /\ Dropped(r).front = (IF r.front = m - 1 THEN 0 ELSE r.front + 1)
        /\ Dropped(r).size = r.size - 1
    BY <2>3, <2>5, FrontMovesOn
  <2> QED
    BY <1>2, <1>4, <2>1, <2>3, <2>4, <2>6
<1> QED
  BY <1>3, <1>4

\* GetData moves the elements of a wrapped ring to the front of the array, in
\* their order (cp6 takes the strong sum of data_ itself, CircleQueue::GetData).
THEOREM GetDataStraightens ==
  ASSUME NEW T, NEW n \in Nat \ {0}, NEW q \in Rings(T, n)
  PROVE  /\ Contents(GetData(q)) = Contents(q)
         /\ \A i \in 1 .. q.size : GetData(q).data[i - 1] = Contents(q)[i]
<1> DEFINE g == GetData(q)
<1>1. /\ g.data = Moved(q, n) /\ g.capacity = n /\ g.size = q.size
      /\ g.front = 0
  BY RingFacts DEF GetData, Realloc
<1> HIDE DEF g
<1>2. \A i \in 1 .. q.size : Moved(q, n)[i - 1] = q.data[Cell(q, i)]
  <2>1. CASE q.front < q.end
    <3>1. \A i \in 1 .. q.size : Moved(q, n)[i - 1] = q.data[q.front + i - 1]
      BY <2>1, RingFacts DEF Moved
    <3>2. \A i \in 1 .. q.size : Cell(q, i) = q.front + i - 1
      BY <2>1, RingFacts DEF Cell
    <3> QED
      BY <3>1, <3>2
  <2>2. CASE q.front > q.end
    <3>1. q.size = n - q.front + q.end
      BY <2>2, RingFacts
    <3>2. \A i \in 1 .. q.size : Moved(q, n)[i - 1] =
            q.data[IF i - 1 >= n - q.front THEN i - 1 - (n - q.front)
                                           ELSE q.front + (i - 1)]
      <4>1. ASSUME NEW i \in 1 .. q.size
            PROVE  /\ i - 1 \in 0 .. n - 1 /\ q.capacity = n
                   /\ i - 1 < n - q.front + q.end
                   /\ i - 1 >= n - q.front => i - 1 - (n - q.front) < n
                   /\ ~(i - 1 >= n - q.front) => q.front + (i - 1) < n
        BY <2>2, <3>1, RingFacts
      <4>2. ~(q.front < q.end)
        BY <2>2, RingFacts
      <4> QED
        BY <2>2, <4>1, <4>2 DEF Moved
    <3>3. \A i \in 1 .. q.size : Cell(q, i) =
            IF i - 1 >= n - q.front THEN i - 1 - (n - q.front) ELSE q.front + (i - 1)
      BY <2>2, <3>1, RingFacts DEF Cell
    <3> QED
      BY <3>2, <3>3
  <2>3. CASE q.front = q.end
    BY <2>3, RingFacts
  <2> QED
    BY <2>1, <2>2, <2>3, RingFacts
<1>3. \A i \in 1 .. q.size : Cell(g, i) = i - 1
  BY <1>1, RingFacts DEF Cell
<1>4. Contents(g) = Contents(q)
  BY <1>1, <1>2, <1>3 DEF Contents
<1>5. \A i \in 1 .. q.size : g.data[i - 1] = Contents(q)[i]
  BY <1>1, <1>2 DEF Contents
<1> QED
  BY <1>4, <1>5 DEF g

--------------------------------------------------------------------------------
(* Induction, and what FoldLeft is.                                            *)

\* A set of numbers with 0, and with k + 1 for each k, has all of them.
LEMMA SetInduction ==
  ASSUME NEW S \in SUBSET Nat, 0 \in S, \A k \in S : k + 1 \in S
  PROVE  S = Nat
<1> DEFINE Less == {p \in Nat \X Nat : p[1] < p[2]}
<1>1. SUFFICES ASSUME Nat \ S # {} PROVE FALSE
  OBVIOUS
<1>2. IsWellFoundedOn(Less, Nat)
  BY NatLessThanWellFounded DEF OpToRel
<1>3. PICK m \in Nat \ S : \A k \in Nat \ S : ~(<<k, m>> \in Less)
  <2> HIDE DEF Less
  <2> QED
    BY <1>1, <1>2, WFMin
<1>4. m # 0 /\ m \in Nat
  OBVIOUS
<1>5. m - 1 \in Nat /\ (m - 1) + 1 = m /\ m - 1 < m
  BY <1>4
<1>6. <<m - 1, m>> \in Less
  BY <1>5
<1>7. m - 1 \in S
  BY <1>3, <1>5, <1>6
<1> QED
  BY <1>5, <1>7

\* The greatest and the least of some numbers.
LEMMA MaxIs ==
  ASSUME NEW s \in SUBSET Int, NEW m \in s, \A k \in s : k <= m
  PROVE  Max(s) = m
<1>1. \A k \in s : m >= k
  OBVIOUS
<1>2. Max(s) \in s /\ \A k \in s : Max(s) >= k
  BY <1>1 DEF Max
<1>3. Max(s) \in Int /\ m \in Int /\ Max(s) >= m /\ m >= Max(s)
  BY <1>1, <1>2
<1> QED
  BY <1>3

LEMMA MinIs ==
  ASSUME NEW x \in Int, NEW y \in Int
  PROVE  Min({x, y}) = IF x <= y THEN x ELSE y
  BY DEF Min

\* A set of numbers with an upper bound has a greatest element.
LEMMA BoundedMax ==
  ASSUME NEW n \in Nat, NEW s \in SUBSET (0 .. n), s # {}
  PROVE  Max(s) \in s /\ \A k \in s : k <= Max(s)
<1> DEFINE S == {k \in Nat : \A t \in SUBSET (0 .. k) :
                    t # {} => \E m \in t : \A j \in t : j <= m}
<1>1. 0 \in S
  <2>1. ASSUME NEW t \in SUBSET (0 .. 0), t # {}
        PROVE  \E m \in t : \A j \in t : j <= m
    <3>1. \A j \in t : j = 0
      OBVIOUS
    <3>2. 0 \in t
      BY <2>1, <3>1
    <3> QED
      BY <3>1, <3>2
  <2> QED
    BY <2>1
<1>2. ASSUME NEW k \in S PROVE k + 1 \in S
  <2>1. k \in Nat /\ k + 1 \in Nat
    OBVIOUS
  <2>2. ASSUME NEW t \in SUBSET (0 .. k + 1), t # {}
        PROVE  \E m \in t : \A j \in t : j <= m
    <3>1. CASE k + 1 \in t
      BY <2>1, <3>1
    <3>2. CASE k + 1 \notin t
      <4>1. t \in SUBSET (0 .. k)
        BY <2>1, <3>2
      <4> QED
        BY <2>2, <4>1
    <3> QED
      BY <3>1, <3>2
  <2> QED
    BY <2>1, <2>2
<1>3. S = Nat
  <2>1. S \in SUBSET Nat
    OBVIOUS
  <2> HIDE DEF S
  <2> QED
    BY <1>1, <1>2, <2>1, SetInduction
<1>4. PICK m \in s : \A j \in s : j <= m
  <2>1. n \in S
    BY <1>3
  <2> QED
    BY <2>1
<1>5. Max(s) = m
  <2>1. s \in SUBSET Int
    OBVIOUS
  <2> QED
    BY <1>4, <2>1, MaxIs
<1> QED
  BY <1>4, <1>5

\* it folds F over w: what it makes of a set of positions comes from what it
\* makes of the set without the last one, and from what lies there.
Step(F, w, it, s) == it[s] = F[it[s \ {Max(s)}]][w[Max(s)]]

FoldsUp(F, zero, w, n, it) ==
  /\ it = [s \in SUBSET (1 .. n) |-> it[s]] /\ it[{}] = zero
  /\ \A s \in SUBSET (1 .. n) : s # {} => Step(F, w, it, s)

\* There is such a function.
LEMMA FoldExists ==
  ASSUME NEW F, NEW zero, NEW w, NEW n \in Nat
  PROVE  \E it : FoldsUp(F, zero, w, n, it)
<1> DEFINE S == {k \in Nat : \E it : FoldsUp(F, zero, w, k, it)}
<1>1. 0 \in S
  <2>1. SUBSET (1 .. 0) = {{}}
    OBVIOUS
  <2>2. PICK it : it = [s \in SUBSET (1 .. 0) |-> zero]
    OBVIOUS
  <2>3. it = [s \in SUBSET (1 .. 0) |-> it[s]]
    BY <2>2
  <2>4. it[{}] = zero
    BY <2>1, <2>2
  <2>5. FoldsUp(F, zero, w, 0, it)
    BY <2>1, <2>3, <2>4 DEF FoldsUp
  <2> QED
    BY <2>5
<1>2. ASSUME NEW l \in S PROVE l + 1 \in S
  <2>1. PICK it : FoldsUp(F, zero, w, l, it)
    OBVIOUS
  <2>2. l \in Nat
    OBVIOUS
  <2>3. PICK on : on = [s \in SUBSET (1 .. l + 1) |->
                          IF l + 1 \in s THEN F[it[s \ {l + 1}]][w[l + 1]] ELSE it[s]]
    OBVIOUS
  <2>4. \A s \in SUBSET (1 .. l) : on[s] = it[s]
    <3>1. ASSUME NEW s \in SUBSET (1 .. l)
          PROVE  s \in SUBSET (1 .. l + 1) /\ l + 1 \notin s
      BY <2>2
    <3> QED
      BY <2>3, <3>1
  <2>5. ASSUME NEW s \in SUBSET (1 .. l + 1), s # {}
        PROVE  Step(F, w, on, s)
    <3>1. CASE l + 1 \in s
      <4>1. Max(s) = l + 1
        <5>1. s \in SUBSET Int /\ \A k \in s : k <= l + 1
          BY <2>2
        <5> QED
          BY <3>1, <5>1, MaxIs
      <4>2. s \ {l + 1} \in SUBSET (1 .. l)
        BY <2>2
      <4>3. on[s \ {l + 1}] = it[s \ {l + 1}]
        BY <2>4, <4>2
      <4>4. on[s] = F[it[s \ {l + 1}]][w[l + 1]]
        BY <2>3, <3>1
      <4> QED
        BY <4>1, <4>3, <4>4 DEF Step
    <3>2. CASE l + 1 \notin s
      <4>1. s \in SUBSET (1 .. l)
        BY <2>2, <3>2
      <4>2. PICK x : x = Max(s)
        OBVIOUS
      <4>3. s \ {x} \in SUBSET (1 .. l)
        BY <4>1
      <4>4. on[s] = it[s] /\ on[s \ {x}] = it[s \ {x}]
        BY <2>4, <4>1, <4>3
      <4>5. it[s] = F[it[s \ {x}]][w[x]]
        BY <2>1, <2>5, <4>1, <4>2 DEF FoldsUp, Step
      <4> QED
        BY <4>2, <4>4, <4>5 DEF Step
    <3> QED
      BY <3>1, <3>2
  <2>6. on[{}] = zero
    <3>1. {} \in SUBSET (1 .. l) /\ it[{}] = zero
      BY <2>1 DEF FoldsUp
    <3> QED
      BY <2>4, <3>1
  <2>7. on = [s \in SUBSET (1 .. l + 1) |-> on[s]]
    BY <2>3
  <2>8. FoldsUp(F, zero, w, l + 1, on)
    BY <2>5, <2>6, <2>7 DEF FoldsUp
  <2> QED
    BY <2>2, <2>8
<1>3. S = Nat
  <2>1. S \in SUBSET Nat
    OBVIOUS
  <2> HIDE DEF S
  <2> QED
    BY <1>1, <1>2, <2>1, SetInduction
<1> QED
  BY <1>3

\* The same, where F is a function from X and Y to X, of a function it that is
\* known to fold F only where F is defined.
FoldsTyped(X, F, zero, w, n, it) ==
  /\ it[{}] = zero
  /\ \A s \in SUBSET (1 .. n) :
       s # {} /\ it[s \ {Max(s)}] \in X => Step(F, w, it, s)

\* It stays in X.
LEMMA FoldTyped ==
  ASSUME NEW X, NEW Y, NEW F \in [X -> [Y -> X]], NEW zero \in X, NEW n \in Nat,
         NEW w \in [1 .. n -> Y], NEW it, FoldsTyped(X, F, zero, w, n, it)
  PROVE  \A s \in SUBSET (1 .. n) : it[s] \in X
<1> DEFINE S == {k \in Nat : k <= n => \A s \in SUBSET (1 .. k) : it[s] \in X}
<1>1. 0 \in S
  <2>1. SUBSET (1 .. 0) = {{}}
    OBVIOUS
  <2> QED
    BY <2>1 DEF FoldsTyped
<1>2. ASSUME NEW k \in S PROVE k + 1 \in S
  <2>1. k \in Nat /\ k + 1 \in Nat
    OBVIOUS
  <2>2. ASSUME k + 1 <= n, NEW s \in SUBSET (1 .. k + 1), s # {}
        PROVE  it[s] \in X
    <3>1. PICK x \in s : x = Max(s) /\ \A j \in s : j <= x
      <4>1. s \in SUBSET (0 .. k + 1)
        BY <2>1
      <4> QED
        BY <2>1, <2>2, <4>1, BoundedMax
    <3>2. x \in 1 .. n /\ s \in SUBSET (1 .. n)
      BY <2>1, <2>2
    <3>3. s \ {x} \in SUBSET (1 .. k)
      <4>1. ASSUME NEW j \in s, j # x PROVE j \in 1 .. k
        <5>1. j \in 1 .. k + 1 /\ x \in 1 .. k + 1 /\ j <= x
          BY <3>1
        <5> QED
          BY <2>1, <4>1, <5>1
      <4> QED
        BY <4>1
    <3>4. it[s \ {x}] \in X
      <4>1. k <= n
        BY <2>1, <2>2
      <4> QED
        BY <3>3, <4>1
    <3>5. it[s] = F[it[s \ {x}]][w[x]]
      BY <2>2, <3>1, <3>2, <3>4 DEF FoldsTyped, Step
    <3>6. w[x] \in Y
      BY <3>2
    <3> QED
      BY <3>4, <3>5, <3>6
  <2>3. it[{}] \in X
    BY DEF FoldsTyped
  <2> QED
    BY <2>1, <2>2, <2>3
<1>3. S = Nat
  <2>1. S \in SUBSET Nat
    OBVIOUS
  <2> HIDE DEF S
  <2> QED
    BY <1>1, <1>2, <2>1, SetInduction
<1>4. n \in S
  BY <1>3
<1> QED
  BY <1>4

\* What it finds at the largest place is of its kind.
LEMMA MaxIsPlace ==
  ASSUME NEW Y, NEW n \in Nat, NEW w \in [1 .. n -> Y],
         NEW s \in SUBSET (1 .. n), s # {}
  PROVE  w[Max(s)] \in Y
<1>1. s \in SUBSET (0 .. n)
  OBVIOUS
<1>2. Max(s) \in s
  BY <1>1, BoundedMax
<1> QED
  BY <1>2

\* Some function folds it.
Folded(X, F, zero, w, n, g) ==
  /\ g = [s \in SUBSET (1 .. n) |-> g[s]] /\ g[{}] = zero
  /\ \A s \in SUBSET (1 .. n) : s # {} => g[s \ {Max(s)}] \in X /\ Step(F, w, g, s)

LEMMA FoldFound ==
  ASSUME NEW X, NEW Y, NEW F \in [X -> [Y -> X]], NEW zero \in X, NEW n \in Nat,
         NEW w \in [1 .. n -> Y]
  PROVE  \E g : Folded(X, F, zero, w, n, g)
<1>1. PICK g : FoldsUp(F, zero, w, n, g)
  BY FoldExists
<1>2. \A s \in SUBSET (1 .. n) : g[s] \in X
  <2>1. FoldsTyped(X, F, zero, w, n, g)
    BY <1>1 DEF FoldsUp, FoldsTyped
  <2> QED
    BY <2>1, FoldTyped
<1>3. \A s \in SUBSET (1 .. n) : s # {} => g[s \ {Max(s)}] \in X
  <2>1. \A s \in SUBSET (1 .. n) : \A x : s \ {x} \in SUBSET (1 .. n)
    OBVIOUS
  <2> QED
    BY <1>2, <2>1
<1> QED
  BY <1>1, <1>3 DEF FoldsUp, Folded

\* So folding goes through w from left to right.
LeftToRight(X, F, zero, w, n, last) ==
  \E h \in [0 .. n -> X] :
     /\ h[0] = zero /\ h[n] = last
     /\ \A k \in 1 .. n : h[k] = F[h[k - 1]][w[k]]

LEMMA FoldSteps ==
  ASSUME NEW X, NEW Y, NEW F \in [X -> [Y -> X]], NEW zero \in X, NEW n \in Nat,
         NEW w \in [1 .. n -> Y], NEW it, FoldsTyped(X, F, zero, w, n, it)
  PROVE  LeftToRight(X, F, zero, w, n, it[1 .. n])
<1>1. \A s \in SUBSET (1 .. n) : it[s] \in X
  BY FoldTyped
<1>2. PICK h : h = [k \in 0 .. n |-> it[1 .. k]]
  OBVIOUS
<1>3. h \in [0 .. n -> X]
  <2>1. ASSUME NEW k \in 0 .. n PROVE it[1 .. k] \in X
    <3>1. 1 .. k \in SUBSET (1 .. n)
      OBVIOUS
    <3> QED
      BY <3>1, <1>1
  <2> QED
    BY <1>2, <2>1
<1>4. h[0] = zero
  <2>1. 1 .. 0 = {} /\ 0 \in 0 .. n
    OBVIOUS
  <2> QED
    BY <2>1, <1>2 DEF FoldsTyped
<1>5. ASSUME NEW k \in 1 .. n PROVE h[k] = F[h[k - 1]][w[k]]
  <2>1. PICK j \in 0 .. n : k = j + 1
    <3>1. k - 1 \in 0 .. n /\ k = (k - 1) + 1
      OBVIOUS
    <3> QED
      BY <3>1
  <2>2. PICK s : s = 1 .. j + 1
    OBVIOUS
  <2>3. Max(s) = j + 1
    <3>1. s \in SUBSET Int /\ j + 1 \in s /\ \A i \in s : i <= j + 1
      BY <2>2
    <3> QED
      BY <3>1, MaxIs
  <2>4. s \ {j + 1} = 1 .. j
    <3>1. \A i : i \in s \ {j + 1} <=> i \in 1 .. j
      BY <2>2
    <3> QED
      BY <3>1
  <2>5. h[k] = it[s] /\ h[j] = it[s \ {j + 1}] /\ j = k - 1
    <3>1. k \in 0 .. n /\ j = k - 1
      BY <2>1
    <3> QED
      BY <1>2, <2>1, <2>2, <2>4, <3>1
  <2>6. s # {} /\ s \in SUBSET (1 .. n) /\ s \ {j + 1} \in SUBSET (1 .. n)
    <3>1. j \in Nat /\ j + 1 <= n
      BY <2>1
    <3>2. 1 .. j \in SUBSET (1 .. n) /\ 1 .. j + 1 \in SUBSET (1 .. n)
      BY <3>1
    <3>3. j + 1 \in s
      BY <2>2, <3>1
    <3> QED
      BY <2>2, <2>4, <3>2, <3>3
  <2>7. Step(F, w, it, s)
    <3>1. it[s \ {j + 1}] \in X
      BY <1>1, <2>6
    <3> QED
      BY <2>3, <2>6, <3>1 DEF FoldsTyped
  <2> QED
    BY <2>1, <2>3, <2>5, <2>7 DEF Step
<1>6. h[n] = it[1 .. n]
  BY <1>2
<1> QED
  BY <1>3, <1>4, <1>5, <1>6 DEF LeftToRight

--------------------------------------------------------------------------------
(* The sums.                                                                   *)

\* The sums of some bytes, one after the other.
LEMMA SumsSteps ==
  ASSUME NEW n \in Nat, NEW w \in [1 .. n -> Int]
  PROVE  \E h \in [0 .. n -> Int \X Int] :
           /\ h[0] = <<0, 0>> /\ h[n] = Sums(w)
           /\ \A k \in 1 .. n : h[k] = AddByte(h[k - 1], w[k])
<1> DEFINE X == Int \X Int
           F == [s \in X |-> [b \in Int |-> AddByte(s, b)]]
           P(f) == f = [s \in SUBSET (DOMAIN w) |->
                          IF s = {} THEN <<0, 0>>
                          ELSE AddByte(f[s \ {Max(s)}], w[Max(s)])]
           it == CHOOSE f : P(f)
<1>1. DOMAIN w = 1 .. n
  OBVIOUS
<1>2. F \in [X -> [Int -> X]] /\ <<0, 0>> \in X
  BY ScanAssumption DEF AddByte
<1>3. \A s \in X, b \in Int : F[s][b] = AddByte(s, b)
  OBVIOUS
<1>4. ASSUME NEW f, NEW s \in SUBSET (1 .. n), s # {}, f[s \ {Max(s)}] \in X
      PROVE  Step(F, w, f, s) <=> f[s] = AddByte(f[s \ {Max(s)}], w[Max(s)])
  <2> HIDE DEF F, X
  <2>1. w[Max(s)] \in Int
    BY <1>1, <1>4, MaxIsPlace
  <2> QED
    BY <1>3, <1>4, <2>1 DEF Step
<1>5. \E f : P(f)
  <2> HIDE DEF F, X
  <2>1. PICK g : Folded(X, F, <<0, 0>>, w, n, g)
    BY <1>1, <1>2, FoldFound
  <2>2. \A s \in SUBSET (1 .. n) : s # {} => g[s] = AddByte(g[s \ {Max(s)}], w[Max(s)])
    BY <1>4, <2>1 DEF Folded
  <2>3. g[{}] = <<0, 0>> /\ g = [s \in SUBSET (1 .. n) |-> g[s]]
    BY <2>1 DEF Folded
  <2>4. P(g)
    BY <1>1, <2>2, <2>3
  <2> QED
    BY <2>4
<1>6. P(it)
  <2> HIDE DEF P
  <2> QED
    BY <1>5
<1>7. Sums(w) = it[DOMAIN w]
  BY DEF Sums, FoldLeft, MapThenFoldSet
<1> HIDE DEF it, F, X
<1>8. /\ it[{}] = <<0, 0>>
      /\ \A s \in SUBSET (1 .. n) :
           s # {} => it[s] = AddByte(it[s \ {Max(s)}], w[Max(s)])
  BY <1>1, <1>6
<1>9. FoldsTyped(X, F, <<0, 0>>, w, n, it)
  BY <1>4, <1>8 DEF FoldsTyped
<1>10. LeftToRight(X, F, <<0, 0>>, w, n, it[1 .. n])
  <2>1. PICK zero : zero = <<0, 0>>
    OBVIOUS
  <2>2. zero \in X /\ FoldsTyped(X, F, zero, w, n, it)
    BY <1>2, <1>9, <2>1
  <2>3. LeftToRight(X, F, zero, w, n, it[1 .. n])
    BY <1>2, <2>2, FoldSteps
  <2> QED
    BY <2>1, <2>3
<1>11. PICK h \in [0 .. n -> X] :
           /\ h[0] = <<0, 0>> /\ h[n] = it[1 .. n]
           /\ \A k \in 1 .. n : h[k] = F[h[k - 1]][w[k]]
  BY <1>10 DEF LeftToRight
<1>12. ASSUME NEW k \in 1 .. n PROVE h[k] = AddByte(h[k - 1], w[k])
  <2>1. k - 1 \in 0 .. n /\ h[k - 1] \in X /\ w[k] \in Int
    OBVIOUS
  <2> QED
    BY <2>1, <1>3, <1>11
<1> QED
  BY <1>1, <1>7, <1>11, <1>12 DEF X

\* Sums of sequences that agree as far as they go agree.
LEMMA SumsTyped ==
  ASSUME NEW n \in Nat, NEW w \in [1 .. n -> Int]
  PROVE  Sums(w) \in Int \X Int
<1>1. PICK h \in [0 .. n -> Int \X Int] : h[n] = Sums(w)
  BY SumsSteps
<1>2. n \in 0 .. n
  OBVIOUS
<1> QED
  BY <1>1, <1>2

\* One byte more.
LEMMA SumsAppend ==
  ASSUME NEW w \in Seq(Int), NEW b \in Int
  PROVE  Sums(Append(w, b)) = AddByte(Sums(w), b)
<1>1. PICK n \in Nat : n = Len(w) /\ w \in [1 .. n -> Int]
  OBVIOUS
<1>2. PICK v : v = Append(w, b)
  OBVIOUS
<1>3. /\ v \in [1 .. n + 1 -> Int] /\ v[n + 1] = b
      /\ \A k \in 1 .. n : v[k] = w[k]
  <2>1. /\ v \in Seq(Int) /\ Len(v) = n + 1 /\ v[n + 1] = b
        /\ \A k \in 1 .. n : v[k] = w[k]
    BY <1>1, <1>2, AppendProperties
  <2> QED
    BY <2>1
<1>4. PICK h \in [0 .. n -> Int \X Int] :
        /\ h[0] = <<0, 0>> /\ h[n] = Sums(w)
        /\ \A k \in 1 .. n : h[k] = AddByte(h[k - 1], w[k])
  BY <1>1, SumsSteps
<1>5. PICK g \in [0 .. n + 1 -> Int \X Int] :
        /\ g[0] = <<0, 0>> /\ g[n + 1] = Sums(v)
        /\ \A k \in 1 .. n + 1 : g[k] = AddByte(g[k - 1], v[k])
  <2>1. n + 1 \in Nat
    OBVIOUS
  <2> QED
    BY <2>1, <1>3, SumsSteps
<1> DEFINE S == {k \in Nat : k <= n => g[k] = h[k]}
<1>6. 0 \in S
  BY <1>4, <1>5
<1>7. ASSUME NEW k \in S PROVE k + 1 \in S
  <2>1. k \in Nat
    OBVIOUS
  <2>2. CASE k + 1 <= n
    <3>1. k + 1 \in 1 .. n /\ k + 1 \in 1 .. n + 1 /\ (k + 1) - 1 = k /\ k <= n
      BY <2>1, <2>2
    <3>2. g[k + 1] = AddByte(g[k], v[k + 1]) /\ h[k + 1] = AddByte(h[k], w[k + 1])
      BY <3>1, <1>4, <1>5
    <3>3. g[k] = h[k] /\ v[k + 1] = w[k + 1]
      BY <3>1, <1>3
    <3> QED
      BY <2>1, <3>2, <3>3
  <2> QED
    BY <2>1, <2>2
<1>8. S = Nat
  <2>1. S \in SUBSET Nat
    OBVIOUS
  <2> HIDE DEF S
  <2> QED
    BY <1>6, <1>7, <2>1, SetInduction
<1>9. g[n] = h[n]
  <2>1. n \in S
    BY <1>8
  <2> QED
    BY <2>1
<1>10. n + 1 \in 1 .. n + 1 /\ (n + 1) - 1 = n
  OBVIOUS
<1>11. g[n + 1] = AddByte(g[n], v[n + 1])
  BY <1>5, <1>10
<1> QED
  BY <1>2, <1>3, <1>4, <1>5, <1>9, <1>11

LEMMA FirstByte ==
  ASSUME NEW b \in Int
  PROVE  AddByte(<<0, 0>>, b) = <<b + CharOffset, b + CharOffset>>
<1>1. PICK o \in Int : o = CharOffset
  BY ScanAssumption
<1>2. AddByte(<<0, 0>>, b) = <<0 + b + o, 0 + 0 + b + o>>
  BY <1>1 DEF AddByte
<1>3. 0 + b + o = b + o /\ 0 + 0 + b + o = b + o
  OBVIOUS
<1> QED
  BY <1>1, <1>2, <1>3

\* One byte less: the first one is in the second half once for every byte.
LEMMA SumsTail ==
  ASSUME NEW w \in Seq(Int), w # <<>>
  PROVE  /\ Sums(Tail(w))[1] = Sums(w)[1] - (w[1] + CharOffset)
         /\ Sums(Tail(w))[2] = Sums(w)[2] - Len(w) * (w[1] + CharOffset)
<1>1. PICK n \in Nat : Len(w) = n + 1 /\ w \in [1 .. n + 1 -> Int]
  <2>1. Len(w) \in Nat \ {0} /\ w \in [1 .. Len(w) -> Int]
    OBVIOUS
  <2>2. Len(w) - 1 \in Nat /\ Len(w) = (Len(w) - 1) + 1
    BY <2>1
  <2> QED
    BY <2>1, <2>2
<1>2. PICK v : v = Tail(w)
  OBVIOUS
<1>3. v \in [1 .. n -> Int] /\ \A k \in 1 .. n : v[k] = w[k + 1]
  <2>1. w # <<>> /\ v \in Seq(Int) /\ Len(v) = n
    BY <1>1, <1>2, HeadTailProperties
  <2>2. \A k \in 1 .. n : v[k] = w[k + 1]
    BY <1>1, <1>2, <2>1
  <2> QED
    BY <2>1, <2>2
<1>4. PICK h \in [0 .. n + 1 -> Int \X Int] :
        /\ h[0] = <<0, 0>> /\ h[n + 1] = Sums(w)
        /\ \A k \in 1 .. n + 1 : h[k] = AddByte(h[k - 1], w[k])
  <2>1. n + 1 \in Nat
    OBVIOUS
  <2> QED
    BY <1>1, <2>1, SumsSteps
<1>5. PICK g \in [0 .. n -> Int \X Int] :
        /\ g[0] = <<0, 0>> /\ g[n] = Sums(v)
        /\ \A k \in 1 .. n : g[k] = AddByte(g[k - 1], v[k])
  BY <1>3, SumsSteps
<1>6. CharOffset \in Int /\ w[1] \in Int
  <2>1. CharOffset \in Int
    BY ScanAssumption
  <2>2. w[1] \in Int
    <3>1. 1 \in 1 .. n + 1
      OBVIOUS
    <3> QED
      BY <1>1, <3>1
  <2> QED
    BY <2>1, <2>2
<1>7. PICK res \in Int : res = w[1] + CharOffset
  <2>1. PICK a \in Int, o \in Int : a = w[1] /\ o = CharOffset
    BY <1>6
  <2>2. a + o \in Int
    OBVIOUS
  <2> QED
    BY <2>1, <2>2
<1> DEFINE S == {k \in Nat : k <= n => /\ g[k][1] = h[k + 1][1] - res
                                       /\ g[k][2] = h[k + 1][2] - (k + 1) * res}
<1>8. 0 \in S
  <2>1. h[1] = AddByte(h[0], w[1])
    <3>1. 1 \in 1 .. n + 1 /\ 1 - 1 = 0
      OBVIOUS
    <3> QED
      BY <1>4, <3>1
  <2>2. h[1] = <<w[1] + CharOffset, w[1] + CharOffset>>
    BY <1>4, <1>6, <2>1, FirstByte
  <2>3. h[1][1] = res /\ h[1][2] = res
    BY <1>7, <2>2
  <2>4. (0 + 1) * res = res /\ 0 + 1 = 1
    BY <1>7
  <2>5. g[0][1] = 0 /\ g[0][2] = 0
    BY <1>5
  <2>6. g[0][1] = h[0 + 1][1] - res /\ g[0][2] = h[0 + 1][2] - (0 + 1) * res
    BY <1>7, <2>3, <2>4, <2>5
  <2> QED
    BY <2>6
<1>9. ASSUME NEW k \in S PROVE k + 1 \in S
  <2>1. k \in Nat /\ k + 1 \in Nat
    OBVIOUS
  <2>2. CASE k + 1 <= n
    <3>1. /\ k + 1 \in 1 .. n /\ k + 2 \in 1 .. n + 1 /\ (k + 1) - 1 = k
          /\ (k + 2) - 1 = k + 1 /\ k <= n /\ k \in 0 .. n /\ k + 1 \in 0 .. n + 1
          /\ (k + 1) + 1 = k + 2
      BY <2>1, <2>2
    <3>2. g[k + 1] = AddByte(g[k], v[k + 1]) /\ h[k + 2] = AddByte(h[k + 1], w[k + 2])
      <4>1. g[k + 1] = AddByte(g[(k + 1) - 1], v[k + 1])
        BY <3>1, <1>5
      <4>2. h[k + 2] = AddByte(h[(k + 2) - 1], w[k + 2])
        BY <3>1, <1>4
      <4> QED
        BY <3>1, <4>1, <4>2
    <3>3. PICK b \in Int : b = v[k + 1] /\ b = w[k + 2]
      BY <3>1, <1>3
    <3>4. PICK c \in Int, d \in Int, e \in Int, f \in Int :
            g[k][1] = c /\ g[k][2] = d /\ h[k + 1][1] = e /\ h[k + 1][2] = f
      BY <3>1
    <3>5. c = e - res /\ d = f - (k + 1) * res
      BY <3>1, <3>4
    <3>6. PICK g1 \in Int, g2 \in Int, h1 \in Int, h2 \in Int :
            /\ g[k + 1][1] = g1 /\ g[k + 1][2] = g2
            /\ h[k + 2][1] = h1 /\ h[k + 2][2] = h2
      <4>1. k + 1 \in 0 .. n /\ k + 2 \in 0 .. n + 1
        BY <3>1
      <4> QED
        BY <4>1
    <3>7. /\ g1 = c + b + CharOffset /\ g2 = d + c + b + CharOffset
          /\ h1 = e + b + CharOffset /\ h2 = f + e + b + CharOffset
      <4>1. /\ g[k + 1] = <<c + b + CharOffset, d + c + b + CharOffset>>
            /\ h[k + 2] = <<e + b + CharOffset, f + e + b + CharOffset>>
        BY <3>2, <3>3, <3>4 DEF AddByte
      <4> QED
        BY <3>6, <4>1
    <3>8. (k + 2) * res = (k + 1) * res + res
      OBVIOUS
    <3>9. /\ g[k + 1][1] = h[k + 2][1] - res
          /\ g[k + 1][2] = h[k + 2][2] - (k + 2) * res
      <4>1. PICK p \in Int, q \in Int : p = (k + 1) * res /\ q = (k + 2) * res
        BY <2>1
      <4>2. c = e - res /\ d = f - p /\ q = p + res
        BY <3>5, <3>8, <4>1
      <4>3. g1 = h1 - res
        BY <1>6, <3>7, <4>2
      <4>4. g2 = h2 - q
        BY <1>6, <3>7, <4>2
      <4> QED
        BY <3>6, <4>1, <4>3, <4>4
    <3> QED
      BY <2>1, <3>1, <3>9
  <2> QED
    BY <2>1, <2>2
<1>10. S = Nat
  <2>1. S \in SUBSET Nat
    OBVIOUS
  <2> HIDE DEF S
  <2> QED
    BY <1>8, <1>9, <2>1, SetInduction
<1>11. g[n][1] = h[n + 1][1] - res /\ g[n][2] = h[n + 1][2] - (n + 1) * res
  <2>1. n \in S
    BY <1>10
  <2> QED
    BY <2>1
<1> QED
  BY <1>1, <1>2, <1>4, <1>5, <1>7, <1>11, SMTT(30)

\* Division leaves a remainder below the divisor.
LEMMA DivMod ==
  ASSUME NEW H \in Nat \ {0}, NEW a \in Int
  PROVE  /\ a = H * (a \div H) + (a % H) /\ a \div H \in Int
         /\ a % H \in Int /\ 0 <= a % H /\ a % H < H
OBVIOUS

\* A multiple of the modulus does not matter.
LEMMA Wraps ==
  ASSUME NEW H \in Nat \ {0}, NEW a \in Int, NEW k \in Int
  PROVE  (a + H * k) % H = a % H
<1>1. PICK x \in Int : x = a + H * k
  OBVIOUS
<1>2. PICK q \in Int, r \in Int : a = H * q + r /\ r = a % H /\ 0 <= r /\ r < H
  BY DivMod
<1>3. PICK p \in Int, s \in Int : x = H * p + s /\ s = x % H /\ 0 <= s /\ s < H
  BY DivMod
<1>4. PICK d \in Int : d = p - q - k
  OBVIOUS
<1>5. H * d = r - s
  <2>1. H * d = H * p - H * q - H * k
    BY <1>4
  <2>2. PICK u \in Int, v \in Int, t \in Int : u = H * p /\ v = H * q /\ t = H * k
    OBVIOUS
  <2>3. u + s = v + r + t
    BY <1>1, <1>2, <1>3, <2>2
  <2> QED
    BY <2>1, <2>2, <2>3
<1>6. H * d < H /\ H * d > 0 - H
  BY <1>2, <1>3, <1>5
<1>7. d < 1
  <2>1. ASSUME d >= 1 PROVE FALSE
    <3>1. H * d >= H
      BY <2>1
    <3> QED
      BY <1>6, <3>1
  <2> QED
    BY <2>1
<1>8. d > 0 - 1
  <2>1. ASSUME d <= 0 - 1 PROVE FALSE
    <3>1. H * d <= 0 - H
      BY <2>1
    <3> QED
      BY <1>6, <3>1
  <2> QED
    BY <2>1
<1>9. d = 0
  BY <1>7, <1>8
<1>10. r = s
  BY <1>5, <1>9
<1> QED
  BY <1>1, <1>2, <1>3, <1>10

\* Rolled on, the halves are what they would be if they had not wrapped before.
LEMMA RollsModulo ==
  ASSUME NEW S1 \in Int, NEW S2 \in Int, NEW res \in Int, NEW into \in Int
  PROVE  LET s1 == (S1 % HalfWord) + into - res
             s2 == (S2 % HalfWord) + s1 - (Chunk % HalfWord) * res
         IN  /\ s1 % HalfWord = (S1 - res + into) % HalfWord
             /\ s2 % HalfWord = (S2 - Chunk * res + (S1 - res + into)) % HalfWord
<1>1. PICK H \in Nat \ {0} : H = HalfWord
  BY ScanAssumption
<1>2. Chunk \in Int
  BY ScanAssumption
<1>3. PICK q1 \in Int, a \in Int : S1 = H * q1 + a /\ a = S1 % H
  BY DivMod
<1>4. PICK q2 \in Int, b \in Int : S2 = H * q2 + b /\ b = S2 % H
  BY DivMod
<1>5. PICK q3 \in Int, c \in Int : Chunk = H * q3 + c /\ c = Chunk % H
  BY <1>2, DivMod
<1>6. PICK s1 \in Int : s1 = a + into - res
  OBVIOUS
<1>7. PICK s2 \in Int : s2 = b + s1 - c * res
  OBVIOUS
<1>8. PICK u \in Int, v \in Int, x \in Int, y \in Int, z \in Int, t \in Int :
        /\ u = H * q1 /\ v = H * q2 /\ x = c * res /\ y = q3 * res
        /\ z = Chunk * res /\ t = H * y
  BY <1>2
<1>9. S1 - res + into = s1 + u
  <2>1. S1 = u + a
    BY <1>3, <1>8
  <2> QED
    BY <1>6, <2>1
<1>10. S2 - z + (S1 - res + into) = s2 + (v + u - t)
  <2>1. S2 = v + b /\ s2 = b + s1 - x
    BY <1>4, <1>7, <1>8
  <2>2. z = t + x
    <3>1. Chunk * res = (H * q3) * res + c * res
      BY <1>5
    <3>2. (H * q3) * res = H * (q3 * res)
      OBVIOUS
    <3> QED
      BY <1>8, <3>1, <3>2
  <2> QED
    BY <1>9, <2>1, <2>2
<1>11. s1 % H = (S1 - res + into) % H
  <2>1. (s1 + H * q1) % H = s1 % H
    BY Wraps
  <2> QED
    BY <1>8, <1>9, <2>1
<1>12. s2 % H = (S2 - z + (S1 - res + into)) % H
  <2>1. PICK k \in Int : k = q2 + q1 - y
    OBVIOUS
  <2>2. H * k = v + u - t
    BY <1>8, <2>1
  <2>3. (s2 + H * k) % H = s2 % H
    BY Wraps
  <2> QED
    BY <1>10, <2>2, <2>3
<1> QED
  BY <1>1, <1>3, <1>4, <1>5, <1>6, <1>7, <1>8, <1>11, <1>12

--------------------------------------------------------------------------------
(* The window.                                                                 *)

\* Clear leaves no element, and front at 0.
LEMMA ClearIsFresh ==
  ASSUME NEW T, NEW q \in AllRings(T)
  PROVE  Clear(q) \in Fresh(T) /\ Contents(Clear(q)) = <<>>
<1>1. PICK n \in Nat \ {0} : q \in Rings(T, n)
  BY DEF AllRings
<1> DEFINE c == [data |-> q.data, capacity |-> n, size |-> 0, front |-> 0, end |-> 0]
<1>2. Clear(q) = c
  <2>1. q = [data |-> q.data, capacity |-> n, size |-> q.size,
             front |-> q.front, end |-> q.end]
    BY <1>1, RingFacts
  <2>2. Clear(q) = [q EXCEPT !.front = 0, !.size = 0, !.end = 0]
    BY DEF Clear
  <2> DEFINE u == [data |-> q.data, capacity |-> n, size |-> q.size,
                   front |-> 0, end |-> q.end]
             v == [data |-> q.data, capacity |-> n, size |-> 0,
                   front |-> 0, end |-> q.end]
  <2>3. [q EXCEPT !.front = 0] = u
    BY <2>1
  <2>4. [u EXCEPT !.size = 0] = v
    OBVIOUS
  <2>5. [v EXCEPT !.end = 0] = c
    OBVIOUS
  <2> HIDE DEF u, v, c
  <2> QED
    BY <2>2, <2>3, <2>4, <2>5
<1>3. c \in Rings(T, n)
  <2>1. q.data \in [0 .. n - 1 -> T]
    BY <1>1, RingFacts
  <2>2. c.end = Cell(c, c.size + 1)
    BY DEF Cell
  <2> QED
    BY <2>1, <2>2 DEF Rings
<1>4. Contents(c) = <<>>
  <2>1. Contents(c) \in Seq(T) /\ Len(Contents(c)) = 0
    <3> HIDE DEF c
    <3>1. Contents(c) \in Seq(T) /\ Len(Contents(c)) = c.size
      BY <1>3, ContentsIsSeq
    <3> QED
      BY <3>1 DEF c
  <2> HIDE DEF c
  <2> QED
    BY <2>1
<1>5. c \in Fresh(T)
  BY <1>3 DEF Fresh, AllRings
<1> QED
  BY <1>2, <1>4, <1>5

\* A push leaves front there.
LEMMA PushOnFresh ==
  ASSUME NEW T, Junk \in T, NEW q \in Fresh(T), NEW b \in T
  PROVE  /\ Push(q, b) \in Fresh(T)
         /\ Contents(Push(q, b)) = Append(Contents(q), b)
<1>1. PICK n \in Nat \ {0} : q \in Rings(T, n) /\ q.front = 0
  BY DEF Fresh, AllRings
<1>2. PICK m \in Nat \ {0} : m = IF q.size < n - 1 THEN n ELSE 2 * n
  <2>1. 2 * n \in Nat \ {0}
    OBVIOUS
  <2> QED
    BY <2>1
<1>3. /\ Push(q, b) \in Rings(T, m)
      /\ Contents(Push(q, b)) = Append(Contents(q), b)
      /\ Push(q, b).front = q.front
  <2>1. q \in Rings(T, n) /\ GrowsWhole(q, n)
    BY <1>1 DEF GrowsWhole
  <2>2. /\ q.size < n - 1 => Push(q, b) \in Rings(T, n)
        /\ ~(q.size < n - 1) => Push(q, b) \in Rings(T, 2 * n)
        /\ Contents(Push(q, b)) = Append(Contents(q), b)
    <3>1. q.size < n - 1 => Push(q, b) \in Rings(T, n)
      BY <2>1, PushIsRing
    <3>2. ~(q.size < n - 1) => Push(q, b) \in Rings(T, 2 * n)
      BY <2>1, PushIsRing
    <3>3. Contents(Push(q, b)) = Append(Contents(q), b)
      BY <2>1, PushContents
    <3> QED
      BY <3>1, <3>2, <3>3
  <2>3. Push(q, b).front = q.front
    BY <2>1, PushKeepsFront
  <2> QED
    BY <1>2, <2>2, <2>3
<1> QED
  BY <1>1, <1>3 DEF Fresh, AllRings

\* The first bytes fill the ring one after the other.
Fills(T, r, n, w) ==
  \E h \in [0 .. n -> Fresh(T)] :
     /\ h[0] = r /\ h[n] = FoldLeft(Push, r, w)
     /\ \A k \in 1 .. n : h[k] = Push(h[k - 1], w[k])

LEMMA PushSteps ==
  ASSUME NEW T, Junk \in T, NEW r \in Fresh(T), NEW n \in Nat, NEW w \in [1 .. n -> T]
  PROVE  Fills(T, r, n, w)
<1> DEFINE X == Fresh(T)
           F == [s \in X |-> [b \in T |-> Push(s, b)]]
           P(f) == f = [s \in SUBSET (DOMAIN w) |->
                          IF s = {} THEN r ELSE Push(f[s \ {Max(s)}], w[Max(s)])]
           it == CHOOSE f : P(f)
<1>1. DOMAIN w = 1 .. n
  OBVIOUS
<1>2. F \in [X -> [T -> X]] /\ r \in X
  <2>1. \A s \in X, b \in T : Push(s, b) \in X
    BY PushOnFresh
  <2> HIDE DEF X
  <2> QED
    BY <2>1 DEF X
<1>3. \A s \in X, b \in T : F[s][b] = Push(s, b)
  OBVIOUS
<1>4. ASSUME NEW f, NEW s \in SUBSET (1 .. n), s # {}, f[s \ {Max(s)}] \in X
      PROVE  Step(F, w, f, s) <=> f[s] = Push(f[s \ {Max(s)}], w[Max(s)])
  <2> HIDE DEF F, X
  <2>1. w[Max(s)] \in T
    BY <1>1, <1>4, MaxIsPlace
  <2> QED
    BY <1>3, <1>4, <2>1 DEF Step
<1>5. \E f : P(f)
  <2> HIDE DEF F, X
  <2>1. PICK g : Folded(X, F, r, w, n, g)
    BY <1>1, <1>2, FoldFound
  <2>2. \A s \in SUBSET (1 .. n) : s # {} => g[s] = Push(g[s \ {Max(s)}], w[Max(s)])
    BY <1>4, <2>1 DEF Folded
  <2>3. g[{}] = r /\ g = [s \in SUBSET (1 .. n) |-> g[s]]
    BY <2>1 DEF Folded
  <2>4. P(g)
    BY <1>1, <2>2, <2>3
  <2> QED
    BY <2>4
<1>6. P(it)
  <2> HIDE DEF P
  <2> QED
    BY <1>5
<1>7. FoldLeft(Push, r, w) = it[DOMAIN w]
  BY DEF FoldLeft, MapThenFoldSet
<1> HIDE DEF it, F, X
<1>8. /\ it[{}] = r
      /\ \A s \in SUBSET (1 .. n) :
           s # {} => it[s] = Push(it[s \ {Max(s)}], w[Max(s)])
  BY <1>1, <1>6
<1>9. FoldsTyped(X, F, r, w, n, it)
  BY <1>4, <1>8 DEF FoldsTyped
<1>10. LeftToRight(X, F, r, w, n, it[1 .. n])
  BY <1>2, <1>9, FoldSteps
<1>11. PICK h \in [0 .. n -> X] :
           /\ h[0] = r /\ h[n] = it[1 .. n]
           /\ \A k \in 1 .. n : h[k] = F[h[k - 1]][w[k]]
  BY <1>10 DEF LeftToRight
<1>12. ASSUME NEW k \in 1 .. n PROVE h[k] = Push(h[k - 1], w[k])
  <2>1. k - 1 \in 0 .. n /\ h[k - 1] \in X /\ w[k] \in T
    OBVIOUS
  <2> QED
    BY <2>1, <1>3, <1>11
<1> QED
  BY <1>1, <1>7, <1>11, <1>12 DEF X, Fills

\* A prefix and the byte after it.
LEMMA SubSeqGrows ==
  ASSUME NEW T, NEW w \in Seq(T), NEW k \in Nat, k + 1 <= Len(w)
  PROVE  Append(SubSeq(w, 1, k), w[k + 1]) = SubSeq(w, 1, k + 1)
<1>1. PICK n \in Nat : n = Len(w)
  OBVIOUS
<1>2. k \in 0 .. n /\ k + 1 \in 0 .. n /\ k + 1 \in 1 .. n
  BY <1>1
<1>3. w[k + 1] \in T
  BY <1>1, <1>2
<1>4. /\ SubSeq(w, 1, k) \in Seq(T) /\ Len(SubSeq(w, 1, k)) = k
      /\ \A i \in 1 .. k : SubSeq(w, 1, k)[i] = w[i]
  BY <1>1, <1>2, SubSeqProperties
<1>5. /\ SubSeq(w, 1, k + 1) \in Seq(T) /\ Len(SubSeq(w, 1, k + 1)) = k + 1
      /\ \A i \in 1 .. k + 1 : SubSeq(w, 1, k + 1)[i] = w[i]
  BY <1>1, <1>2, SubSeqProperties
<1>6. PICK a \in Seq(T), b \in Seq(T), t \in T :
        a = SubSeq(w, 1, k) /\ b = SubSeq(w, 1, k + 1) /\ t = w[k + 1]
  BY <1>3, <1>4, <1>5
<1>7. /\ Append(a, t) \in Seq(T) /\ Len(Append(a, t)) = k + 1
      /\ Append(a, t)[k + 1] = t /\ \A i \in 1 .. k : Append(a, t)[i] = a[i]
  BY <1>4, <1>6, AppendProperties
<1>8. \A i \in 1 .. k + 1 : Append(a, t)[i] = b[i]
  <2>1. ASSUME NEW i \in 1 .. k + 1 PROVE Append(a, t)[i] = b[i]
    <3>1. CASE i \in 1 .. k
      BY <1>4, <1>5, <1>6, <1>7, <3>1
    <3>2. CASE i = k + 1
      BY <1>5, <1>6, <1>7, <3>2
    <3>3. i \in 1 .. k \/ i = k + 1
      OBVIOUS
    <3> QED
      BY <3>1, <3>2, <3>3
  <2> QED
    BY <2>1
<1>9. Append(a, t) = b
  <2>1. Len(b) = k + 1
    BY <1>5, <1>6
  <2> QED
    BY <1>7, <1>8, <2>1, SeqEqual
<1> QED
  BY <1>6, <1>9

\* A ring that is filled holds what it was filled with.
LEMMA FilledRing ==
  ASSUME NEW T, Junk \in T, NEW r \in Fresh(T), Contents(r) = <<>>, NEW w \in Seq(T)
  PROVE  FoldLeft(Push, r, w) \in Fresh(T) /\ Contents(FoldLeft(Push, r, w)) = w
<1>1. PICK n \in Nat : n = Len(w) /\ w \in [1 .. n -> T]
  OBVIOUS
<1>2. PICK h \in [0 .. n -> Fresh(T)] :
        /\ h[0] = r /\ h[n] = FoldLeft(Push, r, w)
        /\ \A k \in 1 .. n : h[k] = Push(h[k - 1], w[k])
  <2>1. Fills(T, r, n, w)
    BY <1>1, PushSteps
  <2> QED
    BY <2>1 DEF Fills
<1> DEFINE S == {k \in Nat : k <= n => Contents(h[k]) = SubSeq(w, 1, k)}
<1>3. 0 \in S
  <2>1. SubSeq(w, 1, 0) = <<>>
    BY <1>1, SubSeqProperties, EmptySeq
  <2> QED
    BY <1>2, <2>1
<1>4. ASSUME NEW k \in S PROVE k + 1 \in S
  <2>1. k \in Nat
    OBVIOUS
  <2>2. CASE k + 1 <= n
    <3>1. k + 1 \in 1 .. n /\ (k + 1) - 1 = k /\ k <= n /\ k \in 0 .. n
      BY <2>1, <2>2
    <3>2. h[k + 1] = Push(h[k], w[k + 1])
      BY <1>2, <3>1
    <3>3. h[k] \in Fresh(T) /\ w[k + 1] \in T
      BY <1>1, <3>1
    <3>4. Contents(h[k + 1]) = Append(Contents(h[k]), w[k + 1])
      BY <3>2, <3>3, PushOnFresh
    <3>5. Contents(h[k]) = SubSeq(w, 1, k)
      BY <3>1
    <3>6. Append(SubSeq(w, 1, k), w[k + 1]) = SubSeq(w, 1, k + 1)
      BY <1>1, <2>1, <2>2, SubSeqGrows
    <3>7. Contents(h[k + 1]) = SubSeq(w, 1, k + 1)
      BY <3>4, <3>5, <3>6
    <3> QED
      BY <2>1, <3>7
  <2> QED
    BY <2>1, <2>2
<1>5. S = Nat
  <2>1. S \in SUBSET Nat
    OBVIOUS
  <2> HIDE DEF S
  <2> QED
    BY <1>3, <1>4, <2>1, SetInduction
<1>6. Contents(h[n]) = SubSeq(w, 1, n)
  <2>1. n \in S
    BY <1>5
  <2> QED
    BY <2>1
<1>7. SubSeq(w, 1, n) = w
  <2>1. /\ SubSeq(w, 1, n) \in Seq(T) /\ Len(SubSeq(w, 1, n)) = n
        /\ \A i \in 1 .. n : SubSeq(w, 1, n)[i] = w[i]
    BY <1>1, SubSeqProperties
  <2> QED
    BY <1>1, <2>1, SeqEqual
<1>8. h[n] \in Fresh(T)
  OBVIOUS
<1> QED
  BY <1>2, <1>6, <1>7, <1>8

\* A ring filled with one chunk is a window.
LEMMA FilledWindow ==
  ASSUME NEW T, NEW q \in Fresh(T), Len(Contents(q)) = Chunk
  PROVE  q \in Windows(T)
<1>1. PICK n \in Nat \ {0} : q \in Rings(T, n) /\ q.front = 0
  BY DEF Fresh, AllRings
<1>2. q.size = Chunk
  BY <1>1, ContentsIsSeq
<1>3. q \in AllRings(T)
  BY <1>1 DEF AllRings
<1> QED
  BY <1>1, <1>2, <1>3 DEF Windows

\* A window is one chunk.
LEMMA WindowContents ==
  ASSUME NEW T, NEW q \in Windows(T)
  PROVE  Contents(q) \in Seq(T) /\ Len(Contents(q)) = Chunk
<1>1. PICK n \in Nat \ {0} : q \in Rings(T, n) /\ q.size = Chunk
  BY DEF Windows, AllRings
<1> QED
  BY <1>1, ContentsIsSeq

\* A byte more and a byte less: the window rolls on.
LEMMA WindowRolls ==
  ASSUME NEW T, Junk \in T, NEW q \in Windows(T), NEW t \in T
  PROVE  /\ Pop(Push(q, t)) \in Windows(T)
         /\ FrontOf(Push(q, t)) = Head(Append(Contents(q), t))
         /\ Contents(Pop(Push(q, t))) = Tail(Append(Contents(q), t))
<1>1. PICK n \in Nat \ {0} :
        /\ q \in Rings(T, n) /\ q.size = Chunk
        /\ n = Chunk + 1 => q.front = 0
        /\ Chunk + 1 < n \div 3 /\ n > 15 => q.front <= 1
  <2>1. PICK n \in Nat \ {0} : q \in Rings(T, n)
    BY DEF Windows, AllRings
  <2>2. q.capacity = n
    BY <2>1, RingFacts
  <2> QED
    BY <2>1, <2>2 DEF Windows
<1>2. Chunk \in Nat \ {0} /\ q.size \in 0 .. n - 1 /\ q.front \in 0 .. n - 1
  BY <1>1, RingFacts, ScanAssumption
<1>3. GrowsWhole(q, n)
  BY <1>1, <1>2 DEF GrowsWhole
<1>4. PICK m \in Nat \ {0} : m = IF q.size < n - 1 THEN n ELSE 2 * n
  <2>1. 2 * n \in Nat \ {0}
    OBVIOUS
  <2> QED
    BY <2>1
<1>5. PICK p : p = Push(q, t)
  OBVIOUS
<1>6. p \in Rings(T, m)
  <2>1. q.size < n - 1 => Push(q, t) \in Rings(T, n)
    BY <1>1, <1>3, PushAppends
  <2>2. ~(q.size < n - 1) => Push(q, t) \in Rings(T, 2 * n)
    BY <1>1, <1>3, PushAppends
  <2> QED
    BY <1>4, <1>5, <2>1, <2>2
<1>7. Contents(p) = Append(Contents(q), t)
  BY <1>1, <1>3, <1>5, PushContents
<1>8. p.front = q.front
  BY <1>1, <1>3, <1>5, PushKeepsFront
<1>9. p.size = Chunk + 1
  <2>1. Contents(q) \in Seq(T) /\ Len(Contents(q)) = Chunk
    BY WindowContents
  <2>2. Len(Append(Contents(q), t)) = Chunk + 1
    BY <2>1, AppendProperties
  <2>3. Len(Contents(p)) = p.size
    BY <1>6, ContentsIsSeq
  <2> QED
    BY <1>7, <2>2, <2>3
<1>10. ShrinksWhole(p, m) /\ (m = Chunk + 1 => FALSE)
  <2>1. CASE q.size < n - 1
    <3>1. m = n
      BY <1>4, <2>1
    <3> QED
      BY <1>1, <1>2, <1>8, <1>9, <2>1, <3>1 DEF ShrinksWhole, Thin
  <2>2. CASE ~(q.size < n - 1)
    <3>1. m = 2 * n /\ n = Chunk + 1
      BY <1>1, <1>2, <1>4, <2>2
    <3> QED
      BY <1>1, <1>2, <1>8, <1>9, <3>1 DEF ShrinksWhole, Thin
  <2> QED
    BY <2>1, <2>2
<1>11. p.size > 0
  BY <1>2, <1>9
<1>12. FrontOf(p) = Head(Contents(p)) /\ Contents(Pop(p)) = Tail(Contents(p))
  BY <1>6, <1>10, <1>11, PopDropsFirst
<1>13. Pop(p).size = Chunk
  <2>1. Pop(p).size = p.size - 1
    BY <1>6, <1>10, <1>11, PopDropsFirst
  <2> QED
    BY <1>2, <1>9, <2>1
<1>14. Pop(p) \in Windows(T)
  <2>1. CASE Thin(p, m)
    <3>1. PICK l \in Nat \ {0} : l = m \div 2 /\ l # Chunk + 1
      <4>1. m \div 2 \in Nat \ {0} /\ m \div 2 # Chunk + 1
        BY <1>2, <1>9, <2>1 DEF Thin
      <4> QED
        BY <4>1
    <3>2. Pop(p) \in Rings(T, l) /\ Pop(p).front = 1
      BY <1>6, <1>10, <1>11, <2>1, <3>1, PopDropsFirst
    <3>3. Pop(p).capacity = l
      BY <3>2, RingFacts
    <3> QED
      BY <1>13, <3>1, <3>2, <3>3 DEF Windows, AllRings
  <2>2. CASE ~Thin(p, m)
    <3>1. Pop(p) \in Rings(T, m)
      BY <1>6, <1>10, <1>11, <2>2, PopDropsFirst
    <3>2. Pop(p).capacity = m
      BY <3>1, RingFacts
    <3>3. ~(Chunk + 1 < m \div 3 /\ m > 15) /\ m # Chunk + 1
      BY <1>9, <1>10, <2>2 DEF Thin
    <3> QED
      BY <1>13, <3>1, <3>2, <3>3 DEF Windows, AllRings
  <2> QED
    BY <2>1, <2>2
<1> QED
  BY <1>5, <1>7, <1>12, <1>14

--------------------------------------------------------------------------------
(* The checksum.                                                               *)

\* What the assumption says of the parts.
LEMMA ChunkFacts == Chunk \in Nat \ {0} /\ CharOffset \in Int /\ Junk \in Int
  BY ScanAssumption

\* Init makes the sum of the chunk it is given.
LEMMA InitAgrees ==
  ASSUME NEW m, m.ring \in AllRings(Int), NEW w \in Seq(Int), Len(w) = Chunk
  PROVE  Agrees(SummerInit(m, w)) /\ Contents(SummerInit(m, w).ring) = w
<1>1. PICK r : r = Clear(m.ring)
  OBVIOUS
<1>2. r \in Fresh(Int) /\ Contents(r) = <<>>
  BY <1>1, ClearIsFresh
<1>3. PICK q : q = FoldLeft(Push, r, w)
  OBVIOUS
<1>4. q \in Fresh(Int) /\ Contents(q) = w
  BY <1>2, <1>3, ChunkFacts, FilledRing
<1>5. q \in Windows(Int)
  BY <1>4, FilledWindow
<1>6. SummerInit(m, w) = [ring |-> q, sum |-> Sum1(w)]
  BY <1>1, <1>3 DEF SummerInit
<1>7. SummerInit(m, w).ring = q /\ SummerInit(m, w).sum = Sum1(w)
  BY <1>6
<1> QED
  BY <1>4, <1>5, <1>7 DEF Agrees

\* A byte more and a byte less: the sum of the window that has rolled on.
LEMMA UpdateAgrees ==
  ASSUME NEW m, Agrees(m), NEW next \in Int
  PROVE  /\ Agrees(Update(m, next))
         /\ Contents(Update(m, next).ring) = Tail(Append(Contents(m.ring), next))
<1>1. PICK q, c : q = m.ring /\ c = Contents(q)
  OBVIOUS
<1>2. q \in Windows(Int) /\ m.sum = Sum1(c)
  BY <1>1 DEF Agrees
<1>3. c \in Seq(Int) /\ Len(c) = Chunk
  BY <1>1, <1>2, WindowContents
<1>4. PICK p : p = Push(q, next)
  OBVIOUS
<1>5. /\ Pop(p) \in Windows(Int) /\ FrontOf(p) = Head(Append(c, next))
      /\ Contents(Pop(p)) = Tail(Append(c, next))
  BY <1>1, <1>2, <1>4, ChunkFacts, WindowRolls
<1>6. PICK S1 \in Int, S2 \in Int : Sums(c) = <<S1, S2>>
  <2>1. PICK n \in Nat : c \in [1 .. n -> Int]
    BY <1>3
  <2> QED
    BY <2>1, SumsTyped
<1>7. PICK res \in Int : res = FrontOf(p) + CharOffset
  <2>1. Head(Append(c, next)) \in Int
    <3>1. Append(c, next) \in Seq(Int) /\ Append(c, next) # <<>>
      BY <1>3, AppendProperties
    <3> QED
      BY <3>1, HeadTailProperties
  <2> QED
    BY <1>5, <2>1, ChunkFacts
<1>8. PICK into \in Int : into = next + CharOffset
  BY ChunkFacts
<1>9. PICK s1, s2 : /\ s1 = (S1 % HalfWord) + into - res
                    /\ s2 = (S2 % HalfWord) + s1 - (Chunk % HalfWord) * res
  OBVIOUS
<1>10. m.sum[1] = S1 % HalfWord /\ m.sum[2] = S2 % HalfWord
  BY <1>2, <1>6 DEF Sum1
<1>11. S1 % HalfWord \in Int /\ S2 % HalfWord \in Int
  BY ScanAssumption
<1>12. m.sum[1] + next + CharOffset - res = s1
  BY <1>8, <1>9, <1>10, <1>11, ChunkFacts
<1>13. Update(m, next) = [ring |-> Pop(p), sum |-> <<s1 % HalfWord, s2 % HalfWord>>]
  BY <1>1, <1>4, <1>7, <1>9, <1>10, <1>12 DEF Update
<1>14. PICK d : d = Tail(Append(c, next))
  OBVIOUS
<1>15. /\ Sums(d)[1] = S1 - res + into
       /\ Sums(d)[2] = S2 - Chunk * res + (S1 - res + into)
  <2>1. PICK a : a = Append(c, next)
    OBVIOUS
  <2>2. a \in Seq(Int) /\ Len(a) = Chunk + 1
    BY <1>3, <2>1, ChunkFacts, AppendProperties
  <2>3. a # <<>> /\ Head(a) = a[1]
    BY <2>2, ChunkFacts, HeadTailProperties
  <2>4. Sums(a) = <<S1 + next + CharOffset, S2 + S1 + next + CharOffset>>
    <3>1. Sums(a) = AddByte(Sums(c), next)
      BY <1>3, <2>1, SumsAppend
    <3> QED
      BY <1>6, <3>1 DEF AddByte
  <2>5. a[1] + CharOffset = res
    BY <1>5, <1>7, <2>1, <2>3
  <2>6. PICK A1 \in Int, A2 \in Int, x \in Int, y \in Int :
          /\ A1 = S1 + next + CharOffset /\ A2 = S2 + S1 + next + CharOffset
          /\ x = Chunk * res /\ y = (Chunk + 1) * res
    BY ChunkFacts
  <2>7. /\ Sums(Tail(a))[1] = Sums(a)[1] - (a[1] + CharOffset)
        /\ Sums(Tail(a))[2] = Sums(a)[2] - Len(a) * (a[1] + CharOffset)
    BY <2>2, <2>3, SumsTail
  <2>8. Sums(a)[1] = A1 /\ Sums(a)[2] = A2
    BY <2>4, <2>6
  <2>9. Sums(Tail(a))[1] = A1 - res /\ Sums(Tail(a))[2] = A2 - y
    BY <2>2, <2>5, <2>6, <2>7, <2>8
  <2>10. y = x + res
    BY <2>6, ChunkFacts
  <2>11. A1 - res = S1 - res + into /\ A2 - y = S2 - x + (S1 - res + into)
    BY <1>8, <2>6, <2>10, ChunkFacts
  <2> QED
    BY <1>14, <2>1, <2>6, <2>9, <2>11
<1>16. /\ s1 % HalfWord = (S1 - res + into) % HalfWord
       /\ s2 % HalfWord = (S2 - Chunk * res + (S1 - res + into)) % HalfWord
  BY <1>9, RollsModulo
<1>17. Sum1(d) = <<s1 % HalfWord, s2 % HalfWord>>
  BY <1>15, <1>16 DEF Sum1
<1>18. /\ Update(m, next).ring = Pop(p)
       /\ Update(m, next).sum = <<s1 % HalfWord, s2 % HalfWord>>
  BY <1>13
<1> QED
  BY <1>1, <1>5, <1>14, <1>17, <1>18 DEF Agrees

\* The constructor makes a ring.
LEMMA NewRingIsRing == NewSummer.ring \in AllRings(Int)
<1>1. PICK n \in Nat \ {0} : n = RingSize + 10
  BY ScanAssumption
<1>2. PICK q : q = NewRing(RingSize)
  OBVIOUS
<1>3. q = [data |-> [i \in 0 .. n - 1 |-> Junk], capacity |-> n,
           size |-> 0, front |-> 0, end |-> 0]
  <2>1. RingSize + 9 = n - 1
    BY <1>1, ScanAssumption
  <2> QED
    BY <1>1, <1>2, <2>1 DEF NewRing
<1>4. q \in Rings(Int, n)
  <2>1. q.data \in [0 .. n - 1 -> Int]
    BY <1>3, ChunkFacts
  <2>2. q.end = Cell(q, q.size + 1)
    BY <1>3 DEF Cell
  <2> QED
    BY <1>3, <2>1, <2>2 DEF Rings
<1>5. NewSummer.ring = q
  BY <1>2 DEF NewSummer
<1> QED
  BY <1>4, <1>5 DEF AllRings

--------------------------------------------------------------------------------
(* The buffer onto a file.                                                     *)

\* The buffer is as long as the file, or as it may be.
LEMMA BufferLengthIs ==
  ASSUME NEW file \in Seq(Int)
  PROVE  /\ BufferLength(file) \in Nat
         /\ BufferLength(file) <= MapBuffer /\ BufferLength(file) <= Len(file)
         /\ BufferLength(file) = MapBuffer \/ BufferLength(file) = Len(file)
<1>1. MapBuffer \in Nat /\ Len(file) \in Nat
  BY ScanAssumption
<1>2. BufferLength(file) = IF MapBuffer <= Len(file) THEN MapBuffer ELSE Len(file)
  BY <1>1, MinIs DEF BufferLength
<1> QED
  BY <1>1, <1>2

\* What Read brings in.
LEMMA ReadIs ==
  ASSUME NEW file \in Seq(Int), NEW m \in Maps(file), NEW offset \in Nat,
         offset <= Len(file), NEW length \in Nat, length <= BufferLength(file)
  PROVE  /\ Read(m, offset, length) \in Maps(file)
         /\ Read(m, offset, length).offset = offset
         /\ Read(m, offset, length).at = 0
         /\ Read(m, offset, length).length =
              IF length <= Len(file) - offset THEN length ELSE Len(file) - offset
<1>1. PICK b \in Nat, L \in Nat : b = BufferLength(file) /\ L = Len(file)
  BY BufferLengthIs
<1>2. PICK n \in Nat : /\ n = IF length <= L - offset THEN length ELSE L - offset
                       /\ n = Min({length, L - offset})
  <2>1. L - offset \in Int /\ length \in Int
    OBVIOUS
  <2>2. Min({length, L - offset})
          = IF length <= L - offset THEN length ELSE L - offset
    BY <2>1, MinIs
  <2>3. (IF length <= L - offset THEN length ELSE L - offset) \in Nat
    BY <1>1
  <2> QED
    BY <2>2, <2>3
<1>3. n <= b /\ offset + n <= L
  BY <1>1, <1>2
<1>4. /\ m.data \in [0 .. b - 1 -> Int] /\ DOMAIN m.data = 0 .. b - 1
      /\ m = [file |-> file, data |-> m.data, offset |-> m.offset,
              length |-> m.length, at |-> m.at]
  BY <1>1 DEF Maps
<1>5. PICK data : data = [i \in 0 .. b - 1 |-> IF i < n THEN file[offset + i + 1]
                                                 ELSE m.data[i]]
  OBVIOUS
<1>6. data \in [0 .. b - 1 -> Int]
  <2>1. ASSUME NEW i \in 0 .. b - 1, i < n PROVE file[offset + i + 1] \in Int
    <3>1. offset + i + 1 \in 1 .. Len(file)
      BY <1>1, <1>3, <2>1
    <3> QED
      BY <3>1
  <2> QED
    BY <1>4, <1>5, <2>1
<1> DEFINE r == [file |-> file, data |-> data, offset |-> offset, length |-> n,
                 at |-> 0]
<1>7. Read(m, offset, length) = r
  <2>1. m.file = file
    BY <1>4
  <2>2. Min({length, Len(m.file) - offset}) = n
    BY <1>1, <1>2, <2>1
  <2>3. Read(m, offset, length) =
          [m EXCEPT !.offset = offset, !.length = n, !.at = 0, !.data = data]
    BY <1>4, <1>5, <2>1, <2>2 DEF Read
  <2> DEFINE u == [file |-> file, data |-> m.data, offset |-> offset,
                   length |-> m.length, at |-> m.at]
             v == [file |-> file, data |-> m.data, offset |-> offset,
                   length |-> n, at |-> m.at]
             w == [file |-> file, data |-> m.data, offset |-> offset,
                   length |-> n, at |-> 0]
  <2>4. [m EXCEPT !.offset = offset] = u
    BY <1>4
  <2>5. [u EXCEPT !.length = n] = v
    OBVIOUS
  <2>6. [v EXCEPT !.at = 0] = w
    OBVIOUS
  <2>7. [w EXCEPT !.data = data] = r
    OBVIOUS
  <2> HIDE DEF u, v, w, r
  <2> QED
    BY <2>3, <2>4, <2>5, <2>6, <2>7
<1>8. \A i \in 0 .. n - 1 : data[i] = file[offset + i + 1]
  <2>1. \A i \in 0 .. n - 1 : i \in 0 .. b - 1 /\ i < n
    BY <1>3
  <2> QED
    BY <1>5, <2>1
<1>9. r \in Maps(file)
  BY <1>1, <1>3, <1>6, <1>8 DEF Maps
<1> QED
  BY <1>1, <1>2, <1>7, <1>9

\* What the pointer returned for these bytes shows.
Shows(m, file, offset, n) == \A i \in 0 .. n - 1 : ByteAt(m, i) = file[offset + i + 1]

\* The buffer holds more than the length bytes from there on, or starts with them
\* and is full, or ends where the file does.
Mapped(r, file, offset, length) ==
  /\ r \in Maps(file) /\ r.offset + r.at = offset
  /\ \/ r.at + length < r.length
     \/ r.at = 0 /\ r.length = BufferLength(file)
     \/ r.at = 0 /\ r.length = Len(file) - offset

\* So it is after MapFileContent, from wherever the buffer was.
LEMMA MappedContent ==
  ASSUME NEW file \in Seq(Int), NEW m \in Maps(file), NEW offset \in Nat,
         offset <= Len(file), NEW length \in Nat
  PROVE  Mapped(MapFileContent(m, offset, length), file, offset, length)
<1> DEFINE r == MapFileContent(m, offset, length)
<1>1. PICK b \in Nat, L \in Nat : b = BufferLength(file) /\ L = Len(file)
  BY BufferLengthIs
<1>2. m.offset \in Nat /\ m.length \in Nat /\ m.file = file
  BY DEF Maps
<1>3. CASE offset >= m.offset /\ offset + length < m.length + m.offset
  <2>1. r = [m EXCEPT !.at = offset - m.offset]
    BY <1>3 DEF MapFileContent
  <2>2. m = [file |-> file, data |-> m.data, offset |-> m.offset,
             length |-> m.length, at |-> m.at]
    BY DEF Maps
  <2>3. r = [file |-> file, data |-> m.data, offset |-> m.offset,
             length |-> m.length, at |-> offset - m.offset]
    BY <2>1, <2>2
  <2>4. offset - m.offset \in Nat
    BY <1>2, <1>3
  <2>5. r \in Maps(file)
    BY <2>3, <2>4 DEF Maps
  <2>6. r.offset = m.offset /\ r.at = offset - m.offset /\ r.length = m.length
    BY <2>3
  <2>7. r.offset + r.at = offset /\ r.at + length < r.length
    BY <1>2, <1>3, <2>6
  <2> QED
    BY <2>5, <2>7 DEF Mapped
<1>4. CASE ~(offset >= m.offset /\ offset + length < m.length + m.offset)
  <2>1. r = Read(m, offset, b)
    BY <1>1, <1>2, <1>4 DEF MapFileContent
  <2>2. /\ r \in Maps(file) /\ r.offset = offset /\ r.at = 0
        /\ r.length = IF b <= L - offset THEN b ELSE L - offset
    BY <1>1, <2>1, ReadIs
  <2>3. r.offset + r.at = offset /\ (r.length = b \/ r.length = L - offset)
    BY <2>2
  <2>4. r.length = BufferLength(file) \/ r.length = Len(file) - offset
    BY <1>1, <2>3
  <2> HIDE DEF r
  <2>5. r \in Maps(file) /\ r.at = 0 /\ r.offset + r.at = offset
    BY <2>2, <2>3
  <2>6. \/ r.at = 0 /\ r.length = BufferLength(file)
        \/ r.at = 0 /\ r.length = Len(file) - offset
    BY <2>4, <2>5
  <2>7. Mapped(r, file, offset, length)
    BY <2>5, <2>6 DEF Mapped
  <2> QED
    BY <2>7 DEF r
<1> QED
  BY <1>3, <1>4

\* Then the pointer shows the bytes asked for, as far as the file goes.
LEMMA MappedBytes ==
  ASSUME NEW file \in Seq(Int), NEW offset \in Nat, offset <= Len(file),
         NEW length \in Nat, length <= BufferLength(file),
         NEW r, Mapped(r, file, offset, length),
         NEW n \in Nat, n <= length, offset + n <= Len(file)
  PROVE  Shows(r, file, offset, n)
<1>1. PICK b \in Nat, L \in Nat : b = BufferLength(file) /\ L = Len(file)
  BY BufferLengthIs
<1>2. /\ r \in Maps(file) /\ r.offset + r.at = offset
      /\ \/ r.at + length < r.length
         \/ r.at = 0 /\ r.length = b
         \/ r.at = 0 /\ r.length = L - offset
  BY <1>1 DEF Mapped
<1>3. /\ r.offset \in Nat /\ r.at \in Nat /\ r.length \in Nat /\ r.length <= b
      /\ DOMAIN r.data = 0 .. b - 1
      /\ \A i \in 0 .. r.length - 1 : r.data[i] = file[r.offset + i + 1]
  BY <1>1, <1>2 DEF Maps
<1>4. PICK at \in Nat, from \in Nat, l \in Nat :
        at = r.at /\ from = r.offset /\ l = r.length
  BY <1>3
<1>5. /\ from + at = offset /\ l <= b
      /\ at + length < l \/ (at = 0 /\ l = b) \/ (at = 0 /\ l = L - offset)
  BY <1>2, <1>3, <1>4
<1>6. ASSUME NEW i \in 0 .. n - 1
      PROVE  ByteAt(r, i) = file[offset + i + 1]
  <2>1. at + i \in 0 .. l - 1
    <3>1. i \in Nat /\ i < n /\ n <= length /\ n <= L - offset /\ length <= b
      BY <1>1
    <3>2. at + i < l
      <4>1. CASE at + length < l
        BY <3>1, <4>1
      <4>2. CASE at = 0 /\ l = b
        BY <3>1, <4>2
      <4>3. CASE at = 0 /\ l = L - offset
        BY <3>1, <4>3
      <4> QED
        BY <1>5, <4>1, <4>2, <4>3
    <3> QED
      BY <3>1, <3>2
  <2>2. at + i \in DOMAIN r.data
    <3>1. at + i \in 0 .. b - 1
      BY <1>5, <2>1
    <3> QED
      BY <1>3, <3>1
  <2>3. r.data[at + i] = file[from + (at + i) + 1]
    BY <1>3, <1>4, <2>1
  <2>4. from + (at + i) + 1 = offset + i + 1
    BY <1>5
  <2> QED
    BY <1>4, <2>2, <2>3, <2>4 DEF ByteAt
<1> QED
  BY <1>6 DEF Shows

\* A byte of data_ or junk.
LEMMA ByteIsInt ==
  ASSUME NEW file \in Seq(Int), NEW m \in Maps(file), NEW i
  PROVE  ByteAt(m, i) \in Int
<1>1. m.data \in [0 .. BufferLength(file) - 1 -> Int]
  BY DEF Maps
<1>2. CASE m.at + i \in DOMAIN m.data
  BY <1>1, <1>2 DEF ByteAt
<1>3. CASE m.at + i \notin DOMAIN m.data
  BY <1>3, ChunkFacts DEF ByteAt
<1> QED
  BY <1>2, <1>3

LEMMA BytesAreSeq ==
  ASSUME NEW file \in Seq(Int), NEW m \in Maps(file), NEW n \in Nat
  PROVE  Bytes(m, n) \in Seq(Int) /\ Len(Bytes(m, n)) = n
<1>1. Bytes(m, n) \in [1 .. n -> Int]
  BY ByteIsInt DEF Bytes
<1> QED
  BY <1>1

\* The constructor makes a FileMap, from any length within the buffer.
LEMMA FileMapIsMap ==
  ASSUME NEW file \in Seq(Int), NEW word \in 0 .. MapBuffer
  PROVE  FileMap(file, word) \in Maps(file)
<1>1. PICK b \in Nat, L \in Nat : b = BufferLength(file) /\ L = Len(file)
  BY BufferLengthIs
<1>2. MapBuffer \in Nat /\ word \in Nat
  BY ScanAssumption
<1>3. PICK m : m = [file |-> file, data |-> [i \in 0 .. b - 1 |-> Junk],
                    offset |-> 0, length |-> 0, at |-> 0]
  OBVIOUS
<1>4. m \in Maps(file)
  <2>1. [i \in 0 .. b - 1 |-> Junk] \in [0 .. b - 1 -> Int]
    BY ChunkFacts
  <2> QED
    BY <1>1, <1>3, <2>1 DEF Maps
<1>5. PICK n \in Nat : n = IF L < MapBuffer THEN L ELSE word
  BY <1>2
<1>6. n <= b
  BY <1>1, <1>2, <1>5, BufferLengthIs
<1>7. FileMap(file, word) = Read(m, 0, n)
  BY <1>1, <1>3, <1>5 DEF FileMap
<1>8. 0 <= Len(file) /\ 0 \in Nat
  OBVIOUS
<1> QED
  BY <1>1, <1>4, <1>6, <1>7, <1>8, ReadIs

\* Where it stays in its array it does what a length within the buffer would do.
LEMMA WordWithin ==
  ASSUME NEW file \in Seq(Int), NEW word \in Nat, ~Overruns(file, word)
  PROVE  \E w \in 0 .. MapBuffer : FileMap(file, word) = FileMap(file, w)
<1>1. PICK L \in Nat, M \in Nat : L = Len(file) /\ M = MapBuffer
  BY ScanAssumption
<1>2. CASE word <= M
  BY <1>1, <1>2
<1>3. CASE word > M
  <2>1. L <= M /\ M \in 0 .. MapBuffer
    BY <1>1, <1>3 DEF Overruns
  <2>2. CASE L < M
    BY <1>1, <2>1, <2>2 DEF FileMap
  <2>3. CASE L = M
    <3>1. Min({word, L - 0}) = L /\ Min({M, L - 0}) = L
      BY <1>3, <2>3, MinIs
    <3>2. FileMap(file, word) = FileMap(file, M)
      BY <1>1, <2>3, <3>1 DEF FileMap, Read
    <3> QED
      BY <2>1, <3>2
  <2> QED
    BY <1>1, <2>1, <2>2, <2>3
<1> QED
  BY <1>1, <1>2, <1>3

LEMMA FileMapStays ==
  ASSUME NEW file \in Seq(Int), NEW word \in Nat, ~Overruns(file, word)
  PROVE  FileMap(file, word) \in Maps(file)
  BY WordWithin, FileMapIsMap

\* The bytes shown are those of the file.
LEMMA BytesShown ==
  ASSUME NEW file \in Seq(Int), NEW m \in Maps(file), NEW p \in Nat, NEW n \in Nat,
         p + n <= Len(file), Shows(m, file, p, n)
  PROVE  Bytes(m, n) = SubSeq(file, p + 1, p + n)
<1>1. PICK L \in Nat : L = Len(file)
  OBVIOUS
<1>2. PICK b \in Seq(Int) : b = Bytes(m, n) /\ Len(b) = n
  BY BytesAreSeq
<1>3. PICK w \in Seq(Int) : /\ w = SubSeq(file, p + 1, p + n) /\ Len(w) = n
                            /\ \A i \in 1 .. n : w[i] = file[p + i]
  <2>1. /\ SubSeq(file, p + 1, p + n) \in Seq(Int)
        /\ Len(SubSeq(file, p + 1, p + n)) = n
    <3>1. \A i \in p + 1 .. p + n : i \in 1 .. Len(file)
      BY <1>1
    <3> QED
      BY <3>1, SubSeqProperties
  <2>2. \A i \in 1 .. n : SubSeq(file, p + 1, p + n)[i] = file[p + i]
    <3>1. ASSUME NEW i \in 1 .. n
          PROVE  SubSeq(file, p + 1, p + n)[i] = file[(p + 1) + i - 1]
      <4>1. \A j \in p + 1 .. p + n : j \in 1 .. Len(file)
        BY <1>1
      <4>2. i \in 1 .. Len(SubSeq(file, p + 1, p + n))
        BY <2>1
      <4> QED
        BY <4>1, <4>2, SubSeqProperties
    <3>2. \A i \in 1 .. n : (p + 1) + i - 1 = p + i
      OBVIOUS
    <3> QED
      BY <3>1, <3>2
  <2> QED
    BY <2>1, <2>2
<1>4. ASSUME NEW i \in 1 .. n PROVE b[i] = w[i]
  <2>1. b[i] = ByteAt(m, i - 1)
    BY <1>2 DEF Bytes
  <2>2. i - 1 \in 0 .. n - 1 /\ p + (i - 1) + 1 = p + i
    OBVIOUS
  <2>3. ByteAt(m, i - 1) = file[p + (i - 1) + 1]
    BY <2>2 DEF Shows
  <2> QED
    BY <1>3, <2>1, <2>2, <2>3
<1> QED
  BY <1>2, <1>3, <1>4, SeqEqual

\* The window one byte further on.
LEMMA WindowShifts ==
  ASSUME NEW T, NEW w \in Seq(T), NEW p \in Nat, NEW n \in Nat \ {0},
         p + n + 1 <= Len(w)
  PROVE  Tail(Append(SubSeq(w, p + 1, p + n), w[p + n + 1]))
           = SubSeq(w, p + 2, p + n + 1)
<1>1. PICK L \in Nat : L = Len(w)
  OBVIOUS
<1>2. PICK a \in Seq(T) : /\ a = SubSeq(w, p + 1, p + n) /\ Len(a) = n
                          /\ \A i \in 1 .. n : a[i] = w[p + i]
  <2>1. \A i \in p + 1 .. p + n : i \in 1 .. Len(w)
    BY <1>1
  <2>2. /\ SubSeq(w, p + 1, p + n) \in Seq(T)
        /\ Len(SubSeq(w, p + 1, p + n)) = n
    BY <2>1, SubSeqProperties
  <2>3. ASSUME NEW i \in 1 .. n
        PROVE  SubSeq(w, p + 1, p + n)[i] = w[(p + 1) + i - 1]
    <3>1. i \in 1 .. Len(SubSeq(w, p + 1, p + n))
      BY <2>2
    <3> QED
      BY <2>1, <3>1, SubSeqProperties
  <2>4. \A i \in 1 .. n : (p + 1) + i - 1 = p + i
    OBVIOUS
  <2> QED
    BY <2>2, <2>3, <2>4
<1>3. PICK b \in Seq(T) : /\ b = SubSeq(w, p + 2, p + n + 1) /\ Len(b) = n
                          /\ \A i \in 1 .. n : b[i] = w[p + i + 1]
  <2>1. \A i \in p + 2 .. p + n + 1 : i \in 1 .. Len(w)
    BY <1>1
  <2>2. /\ SubSeq(w, p + 2, p + n + 1) \in Seq(T)
        /\ Len(SubSeq(w, p + 2, p + n + 1)) = n
    BY <2>1, SubSeqProperties
  <2>3. ASSUME NEW i \in 1 .. n
        PROVE  SubSeq(w, p + 2, p + n + 1)[i] = w[(p + 2) + i - 1]
    <3>1. i \in 1 .. Len(SubSeq(w, p + 2, p + n + 1))
      BY <2>2
    <3> QED
      BY <2>1, <3>1, SubSeqProperties
  <2>4. \A i \in 1 .. n : (p + 2) + i - 1 = p + i + 1
    OBVIOUS
  <2> QED
    BY <2>2, <2>3, <2>4
<1>4. PICK t \in T : t = w[p + n + 1]
  <2>1. p + n + 1 \in 1 .. Len(w)
    BY <1>1
  <2> QED
    BY <2>1
<1>5. PICK c \in Seq(T) : /\ c = Append(a, t) /\ Len(c) = n + 1 /\ c[n + 1] = t
                          /\ \A i \in 1 .. n : c[i] = a[i]
  <2>1. Append(a, t) \in Seq(T) /\ Len(Append(a, t)) = n + 1
    BY <1>2, AppendProperties
  <2>2. Append(a, t)[n + 1] = t
    BY <1>2, AppendProperties
  <2>3. \A i \in 1 .. n : Append(a, t)[i] = a[i]
    BY <1>2, AppendProperties
  <2> QED
    BY <2>1, <2>2, <2>3
<1>6. PICK d \in Seq(T) : /\ d = Tail(c) /\ Len(d) = n
                          /\ \A i \in 1 .. n : d[i] = c[i + 1]
  <2>1. c # <<>>
    <3>1. Len(c) # 0
      BY <1>5
    <3> QED
      BY <3>1
  <2>2. Tail(c) \in Seq(T) /\ Len(Tail(c)) = n
    BY <1>5, <2>1, HeadTailProperties
  <2>3. \A i \in 1 .. n : Tail(c)[i] = c[i + 1]
    BY <1>5, <2>2
  <2> QED
    BY <2>2, <2>3
<1>7. ASSUME NEW i \in 1 .. n PROVE d[i] = b[i]
  <2>1. CASE i + 1 \in 1 .. n
    <3>1. c[i + 1] = w[p + (i + 1)] /\ p + (i + 1) = p + i + 1
      BY <1>2, <1>5, <2>1
    <3> QED
      BY <1>3, <1>6, <3>1
  <2>2. CASE i = n
    BY <1>3, <1>4, <1>5, <1>6, <2>2
  <2>3. i + 1 \in 1 .. n \/ i = n
    OBVIOUS
  <2> QED
    BY <2>1, <2>2, <2>3
<1>8. d = b
  BY <1>3, <1>6, <1>7, SeqEqual
<1> QED
  BY <1>2, <1>3, <1>4, <1>5, <1>6, <1>8

--------------------------------------------------------------------------------
(* The scan.                                                                   *)

\* sum_offset finds a chunk of that weak sum.
LEMMA LookupIs ==
  ASSUME NEW chunks, NEW N \in Nat, DOMAIN chunks \subseteq 1 .. N, NEW weak,
         NEW k, k = Lookup(chunks, weak), k # 0
  PROVE  k \in DOMAIN chunks /\ chunks[k].weak = weak
<1>1. PICK s : s = {0} \cup {j \in DOMAIN chunks : chunks[j].weak = weak}
  OBVIOUS
<1>2. s \in SUBSET (0 .. N) /\ s # {}
  BY <1>1
<1>3. Max(s) \in s
  BY <1>2, BoundedMax
<1>4. Max(s) = k
  BY <1>1 DEF Lookup
<1> QED
  BY <1>1, <1>3, <1>4

\* It holds of a new scan.
LEMMA StartIsOk ==
  ASSUME NEW file \in Seq(Int), NEW word \in 0 .. MapBuffer, NEW chunks
  PROVE  ScanOk(StartScan(file, word), file, chunks)
<1> DEFINE s == StartScan(file, word)
<1>1. s = [curr |-> 0, i |-> 0, mode |-> "block", summer |-> NewSummer,
           map |-> FileMap(file, word), hits |-> <<>>]
  BY DEF StartScan
<1>2. /\ s.curr = 0 /\ s.i = 0 /\ s.mode = "block" /\ s.summer = NewSummer
      /\ s.map = FileMap(file, word) /\ s.hits = <<>>
  BY <1>1
<1>3. IsScan(s)
  BY <1>1, <1>2 DEF IsScan, Scan
<1>4. InPlace(s, file)
  <2>1. 0 <= Len(file) + Chunk
    BY ChunkFacts
  <2> QED
    BY <1>2, <2>1, FileMapIsMap DEF InPlace
<1>5. InSum(s)
  BY <1>2, NewRingIsRing DEF InSum
<1>6. InStep(s, file)
  BY <1>2 DEF InStep
<1> QED
  BY <1>3, <1>4, <1>5, <1>6 DEF ScanOk

\* A window that may run over the end of the file: a chunk of buffer lies behind
\* the pointer.
LEMMA MappedInside ==
  ASSUME NEW file \in Seq(Int), Chunk <= Len(file),
         NEW offset \in Nat, NEW length \in Nat,
         length = Chunk \/ offset + length = Len(file),
         NEW r, Mapped(r, file, offset, length)
  PROVE  r.at + Chunk <= BufferLength(file)
<1>1. PICK b \in Nat, L \in Nat, c \in Nat :
        b = BufferLength(file) /\ L = Len(file) /\ c = Chunk
  BY BufferLengthIs, ChunkFacts
<1>2. c <= b
  BY <1>1, BufferLengthIs, ScanAssumption
<1>3. /\ r \in Maps(file) /\ r.offset + r.at = offset
      /\ r.at + length < r.length \/ r.at = 0
  BY DEF Mapped
<1>4. PICK at \in Nat, from \in Nat, l \in Nat :
        at = r.at /\ from = r.offset /\ l = r.length /\ l <= b /\ from + l <= L
  BY <1>1, <1>3 DEF Maps
<1>5. from + at = offset /\ (at + length < l \/ at = 0)
  BY <1>3, <1>4
<1>6. length = c \/ offset + length = L
  <2>1. length = Chunk \/ offset + length = Len(file)
    OBVIOUS
  <2> QED
    BY <1>1, <2>1
<1>7. CASE at + length < l
  <2>1. offset + length < L
    <3>1. from + l <= L /\ from + at = offset
      BY <1>4, <1>5
    <3> QED
      BY <1>7, <3>1
  <2>2. length = c
    BY <1>1, <1>6, <2>1
  <2> QED
    BY <1>1, <1>4, <1>7, <2>2
<1>8. CASE at = 0
  BY <1>1, <1>2, <1>4, <1>8
<1> QED
  BY <1>5, <1>7, <1>8

\* The window of the next block.
LEMMA BlockWindow ==
  ASSUME NEW file \in Seq(Int), NEW m \in Maps(file), NEW pos \in Nat,
         pos + Chunk <= Len(file),
         NEW u, u.ring \in AllRings(Int)
  PROVE  LET v == SummerInit(u, Bytes(MapFileContent(m, pos, Chunk), Chunk))
         IN  Agrees(v) /\ Contents(v.ring) = SubSeq(file, pos + 1, pos + Chunk)
<1> DEFINE r == MapFileContent(m, pos, Chunk)
<1>1. Chunk \in Nat /\ pos <= Len(file) /\ Chunk <= BufferLength(file)
  BY ChunkFacts, BufferLengthIs, ScanAssumption
<1>2. Mapped(r, file, pos, Chunk)
  BY <1>1, MappedContent
<1> HIDE DEF r
<1>3. r \in Maps(file)
  BY <1>2 DEF Mapped
<1>4. Shows(r, file, pos, Chunk)
  BY <1>1, <1>2, MappedBytes
<1>5. Bytes(r, Chunk) = SubSeq(file, pos + 1, pos + Chunk)
  BY <1>1, <1>3, <1>4, BytesShown
<1>6. PICK w \in Seq(Int) : w = Bytes(r, Chunk) /\ Len(w) = Chunk
  BY <1>1, <1>3, BytesAreSeq
<1>7. Agrees(SummerInit(u, w)) /\ Contents(SummerInit(u, w).ring) = w
  BY <1>6, InitAgrees
<1> QED
  BY <1>5, <1>6, <1>7 DEF r

\* A summer that agrees has a ring.
LEMMA AgreesIsRing ==
  ASSUME NEW m, Agrees(m) PROVE m.ring \in AllRings(Int)
BY DEF Agrees, Windows

\* The buffer after a block that matched nothing.
LEMMA BlockMap ==
  ASSUME NEW file \in Seq(Int), NEW m \in Maps(file), NEW pos \in Nat,
         Chunk <= pos, pos <= Len(file),
         NEW r, r = MapFileContent(m, pos, Min({Len(file) - pos, Chunk}))
  PROVE  /\ r \in Maps(file) /\ r.at + Chunk <= BufferLength(file)
         /\ \A j \in 0 .. Chunk - 1 : pos + j < Len(file) =>
              ByteAt(r, j) = file[pos + j + 1]
<1>1. PICK b \in Nat, L \in Nat, c \in Nat :
        b = BufferLength(file) /\ L = Len(file) /\ c = Chunk
  BY BufferLengthIs, ChunkFacts
<1>2. c <= b /\ c <= L
  BY <1>1, BufferLengthIs, ScanAssumption
<1>3. PICK n \in Nat : /\ n = Min({L - pos, c})
                       /\ n = IF L - pos <= c THEN L - pos ELSE c
  <2>1. L - pos \in Int /\ c \in Int /\ L - pos >= 0
    BY <1>1
  <2>2. Min({L - pos, c}) = IF L - pos <= c THEN L - pos ELSE c
    BY <2>1, MinIs
  <2> QED
    BY <2>1, <2>2
<1>4. n <= b /\ n <= c /\ pos + n <= L /\ (n = c \/ pos + n = L)
  BY <1>1, <1>2, <1>3
<1>5. r = MapFileContent(m, pos, n)
  BY <1>1, <1>3
<1>6. Mapped(r, file, pos, n)
  BY <1>5, MappedContent
<1>7. r \in Maps(file)
  BY <1>6 DEF Mapped
<1>8. r.at + Chunk <= BufferLength(file)
  BY <1>1, <1>2, <1>4, <1>6, MappedInside
<1>9. Shows(r, file, pos, n)
  BY <1>1, <1>4, <1>6, MappedBytes
<1>10. ASSUME NEW j \in 0 .. Chunk - 1, pos + j < Len(file)
       PROVE  ByteAt(r, j) = file[pos + j + 1]
  <2>1. j \in 0 .. n - 1
    BY <1>1, <1>3, <1>10
  <2> QED
    BY <1>9, <2>1 DEF Shows
<1> QED
  BY <1>7, <1>8, <1>10

\* The scans a step leaves, as ScanBlock and ScanRoll write them and field by field.
BlockFound(s, pos, sum3, map, hits) ==
  [s EXCEPT !.curr = pos, !.summer = sum3, !.map = map, !.hits = hits]
BlockMissed(s, pos, sum3, map, i, mode) ==
  [s EXCEPT !.curr = pos, !.summer = sum3, !.map = map, !.i = i, !.mode = mode]
RollFound(s, sum3, map, mode, i, hits) ==
  [s EXCEPT !.summer = sum3, !.map = map, !.mode = mode, !.i = i, !.hits = hits]
RollMissed(s, sum3, map, pos, i, mode) ==
  [s EXCEPT !.summer = sum3, !.map = map, !.curr = pos, !.i = i, !.mode = mode]

\* These are the same.
LEMMA BlockFoundIs ==
  ASSUME NEW s, IsScan(s), NEW pos, NEW sum3, NEW map, NEW hits
  PROVE  BlockFound(s, pos, sum3, map, hits)
           = Scan(pos, s.i, s.mode, sum3, map, hits)
<1> DEFINE p == [curr |-> pos, i |-> s.i, mode |-> s.mode, summer |-> s.summer,
                 map |-> s.map, hits |-> s.hits]
           q == [curr |-> pos, i |-> s.i, mode |-> s.mode, summer |-> sum3,
                 map |-> s.map, hits |-> s.hits]
           r == [curr |-> pos, i |-> s.i, mode |-> s.mode, summer |-> sum3,
                 map |-> map, hits |-> s.hits]
           t == [curr |-> pos, i |-> s.i, mode |-> s.mode, summer |-> sum3,
                 map |-> map, hits |-> hits]
<1>1. [s EXCEPT !.curr = pos] = p
  BY DEF IsScan, Scan
<1>2. [p EXCEPT !.summer = sum3] = q
  OBVIOUS
<1>3. [q EXCEPT !.map = map] = r
  OBVIOUS
<1>4. [r EXCEPT !.hits = hits] = t
  OBVIOUS
<1>5. BlockFound(s, pos, sum3, map, hits) = t
  <2> HIDE DEF p, q, r, t
  <2> QED
    BY <1>1, <1>2, <1>3, <1>4 DEF BlockFound
<1> QED
  BY <1>5 DEF Scan

LEMMA BlockMissedIs ==
  ASSUME NEW s, IsScan(s), NEW pos, NEW sum3, NEW map, NEW i, NEW mode
  PROVE  BlockMissed(s, pos, sum3, map, i, mode)
           = Scan(pos, i, mode, sum3, map, s.hits)
<1> DEFINE p == [curr |-> pos, i |-> s.i, mode |-> s.mode, summer |-> s.summer,
                 map |-> s.map, hits |-> s.hits]
           q == [curr |-> pos, i |-> s.i, mode |-> s.mode, summer |-> sum3,
                 map |-> s.map, hits |-> s.hits]
           r == [curr |-> pos, i |-> s.i, mode |-> s.mode, summer |-> sum3,
                 map |-> map, hits |-> s.hits]
           t == [curr |-> pos, i |-> i, mode |-> s.mode, summer |-> sum3,
                 map |-> map, hits |-> s.hits]
           u == [curr |-> pos, i |-> i, mode |-> mode, summer |-> sum3,
                 map |-> map, hits |-> s.hits]
<1>1. [s EXCEPT !.curr = pos] = p
  BY DEF IsScan, Scan
<1>2. [p EXCEPT !.summer = sum3] = q
  OBVIOUS
<1>3. [q EXCEPT !.map = map] = r
  OBVIOUS
<1>4. [r EXCEPT !.i = i] = t
  OBVIOUS
<1>5. [t EXCEPT !.mode = mode] = u
  OBVIOUS
<1>6. BlockMissed(s, pos, sum3, map, i, mode) = u
  <2> HIDE DEF p, q, r, t, u
  <2> QED
    BY <1>1, <1>2, <1>3, <1>4, <1>5 DEF BlockMissed
<1> QED
  BY <1>6 DEF Scan

LEMMA RollFoundIs ==
  ASSUME NEW s, IsScan(s), NEW sum3, NEW map, NEW mode, NEW i, NEW hits
  PROVE  RollFound(s, sum3, map, mode, i, hits)
           = Scan(s.curr, i, mode, sum3, map, hits)
<1> DEFINE p == [curr |-> s.curr, i |-> s.i, mode |-> s.mode, summer |-> sum3,
                 map |-> s.map, hits |-> s.hits]
           q == [curr |-> s.curr, i |-> s.i, mode |-> s.mode, summer |-> sum3,
                 map |-> map, hits |-> s.hits]
           r == [curr |-> s.curr, i |-> s.i, mode |-> mode, summer |-> sum3,
                 map |-> map, hits |-> s.hits]
           t == [curr |-> s.curr, i |-> i, mode |-> mode, summer |-> sum3,
                 map |-> map, hits |-> s.hits]
           u == [curr |-> s.curr, i |-> i, mode |-> mode, summer |-> sum3,
                 map |-> map, hits |-> hits]
<1>1. [s EXCEPT !.summer = sum3] = p
  BY DEF IsScan, Scan
<1>2. [p EXCEPT !.map = map] = q
  OBVIOUS
<1>3. [q EXCEPT !.mode = mode] = r
  OBVIOUS
<1>4. [r EXCEPT !.i = i] = t
  OBVIOUS
<1>5. [t EXCEPT !.hits = hits] = u
  OBVIOUS
<1>6. RollFound(s, sum3, map, mode, i, hits) = u
  <2> HIDE DEF p, q, r, t, u
  <2> QED
    BY <1>1, <1>2, <1>3, <1>4, <1>5 DEF RollFound
<1> QED
  BY <1>6 DEF Scan

LEMMA RollMissedIs ==
  ASSUME NEW s, IsScan(s), NEW sum3, NEW map, NEW pos, NEW i, NEW mode
  PROVE  RollMissed(s, sum3, map, pos, i, mode)
           = Scan(pos, i, mode, sum3, map, s.hits)
<1> DEFINE p == [curr |-> s.curr, i |-> s.i, mode |-> s.mode, summer |-> sum3,
                 map |-> s.map, hits |-> s.hits]
           q == [curr |-> s.curr, i |-> s.i, mode |-> s.mode, summer |-> sum3,
                 map |-> map, hits |-> s.hits]
           r == [curr |-> pos, i |-> s.i, mode |-> s.mode, summer |-> sum3,
                 map |-> map, hits |-> s.hits]
           t == [curr |-> pos, i |-> i, mode |-> s.mode, summer |-> sum3,
                 map |-> map, hits |-> s.hits]
           u == [curr |-> pos, i |-> i, mode |-> mode, summer |-> sum3,
                 map |-> map, hits |-> s.hits]
<1>1. [s EXCEPT !.summer = sum3] = p
  BY DEF IsScan, Scan
<1>2. [p EXCEPT !.map = map] = q
  OBVIOUS
<1>3. [q EXCEPT !.curr = pos] = r
  OBVIOUS
<1>4. [r EXCEPT !.i = i] = t
  OBVIOUS
<1>5. [t EXCEPT !.mode = mode] = u
  OBVIOUS
<1>6. RollMissed(s, sum3, map, pos, i, mode) = u
  <2> HIDE DEF p, q, r, t, u
  <2> QED
    BY <1>1, <1>2, <1>3, <1>4, <1>5 DEF RollMissed
<1> QED
  BY <1>6 DEF Scan

\* A block keeps ScanOk: it reads its window afresh.
LEMMA BlockKeepsOk ==
  ASSUME NEW file \in Seq(Int), NEW chunks, NEW s, ScanOk(s, file, chunks),
         s.mode # "roll"
  PROVE  ScanOk(ScanBlock(s, chunks), file, chunks)
<1> DEFINE first  == MapFileContent(s.map, s.curr, Chunk)
           sum3 == SummerInit(s.summer, Bytes(first, Chunk))
           pos   == s.curr + Chunk
           k      == Lookup(chunks, sum3.sum)
           again  == IF k # 0 THEN MapFileContent(first, pos - Chunk, Chunk)
                              ELSE first
           missed == MapFileContent(again, pos, Min({Len(file) - pos, Chunk}))
           hits   == Hit(s, pos - Chunk, k)
           t      == ScanBlock(s, chunks)
<1>1. IsScan(s) /\ InPlace(s, file) /\ InSum(s)
  BY DEF ScanOk
<1>2. /\ s.curr \in Nat /\ s.i \in Nat /\ s.map \in Maps(file) /\ s.map.file = file
      /\ s.curr <= Len(file) + Chunk /\ Chunk \in Nat \ {0}
  BY <1>1, ChunkFacts DEF InPlace, Maps
<1>3. CASE s.curr + Chunk > Len(file)
  <2>1. t = [s EXCEPT !.mode = "done"]
    BY <1>2, <1>3 DEF ScanBlock
  <2>2. t = Scan(s.curr, s.i, "done", s.summer, s.map, s.hits)
    BY <1>1, <2>1 DEF IsScan, Scan
  <2> HIDE DEF t
  <2>3. /\ t.curr = s.curr /\ t.i = s.i /\ t.mode = "done" /\ t.summer = s.summer
        /\ t.map = s.map /\ t.hits = s.hits
    BY <2>2 DEF Scan
  <2>4. IsScan(t) /\ InSum(t) /\ InStep(t, file)
    BY <1>1, <2>2, <2>3 DEF IsScan, InSum, InStep
  <2>5. InPlace(t, file)
    BY <1>2, <2>3 DEF InPlace
  <2> QED
    BY <2>4, <2>5 DEF ScanOk, t
<1>4. CASE s.curr + Chunk <= Len(file)
  <2>1. pos \in Nat /\ pos <= Len(file) /\ Chunk <= pos /\ pos > 0
        /\ pos - Chunk = s.curr /\ pos <= Len(file) + Chunk /\ pos - 0 = pos
    BY <1>2, <1>4
  <2>2. /\ Agrees(sum3)
        /\ Contents(sum3.ring) = SubSeq(file, s.curr + 1, s.curr + Chunk)
    <3>1. s.summer.ring \in AllRings(Int)
      BY <1>1 DEF InSum
    <3> QED
      BY <1>2, <1>4, <3>1, BlockWindow
  <2>3. first \in Maps(file)
    <3>1. s.curr <= Len(file) /\ Chunk \in Nat
      BY <1>2, <1>4
    <3>2. Mapped(first, file, s.curr, Chunk)
      BY <1>2, <3>1, MappedContent
    <3> QED
      BY <3>2 DEF Mapped
  <2>4. again \in Maps(file)
    <3>1. s.curr <= Len(file) /\ Chunk \in Nat
      BY <1>2, <1>4
    <3>2. Mapped(MapFileContent(first, s.curr, Chunk), file, s.curr, Chunk)
      BY <1>2, <2>3, <3>1, MappedContent
    <3>3. MapFileContent(first, s.curr, Chunk) \in Maps(file)
      BY <3>2 DEF Mapped
    <3> QED
      BY <2>1, <2>3, <3>3
  <2>5. /\ missed \in Maps(file) /\ missed.at + Chunk <= BufferLength(file)
        /\ \A j \in 0 .. Chunk - 1 : pos + j < Len(file) =>
             ByteAt(missed, j) = file[pos + j + 1]
    BY <2>1, <2>4, BlockMap
  <2>6. \/ t = Scan(pos, s.i, s.mode, sum3, again, hits)
        \/ t = Scan(pos, 0, "roll", sum3, missed, s.hits)
    <3>1. \/ t = BlockFound(s, pos, sum3, again, hits)
          \/ t = BlockMissed(s, pos, sum3, missed, 0, "roll")
      BY <1>2, <1>4 DEF ScanBlock, BlockFound, BlockMissed
    <3> HIDE DEF t, pos, sum3, again, missed, hits
    <3>2. BlockFound(s, pos, sum3, again, hits)
            = Scan(pos, s.i, s.mode, sum3, again, hits)
      BY <1>1, BlockFoundIs
    <3>3. BlockMissed(s, pos, sum3, missed, 0, "roll")
            = Scan(pos, 0, "roll", sum3, missed, s.hits)
      BY <1>1, BlockMissedIs
    <3> QED
      BY <3>1, <3>2, <3>3
  <2>7. s.mode \in {"block", "done"}
    BY <1>1 DEF InPlace
  <2>8. pos - Chunk + 1 = s.curr + 1
    BY <2>1
  <2> HIDE DEF t, pos, sum3, again, missed, hits
  <2>9. CASE t = Scan(pos, s.i, s.mode, sum3, again, hits)
    <3>1. /\ t.curr = pos /\ t.i = s.i /\ t.mode = s.mode /\ t.summer = sum3
          /\ t.map = again /\ t.hits = hits
      BY <2>9 DEF Scan
    <3>2. IsScan(t)
      BY <2>9, <3>1 DEF IsScan
    <3>3. InPlace(t, file)
      BY <1>2, <2>1, <2>4, <2>7, <3>1 DEF InPlace
    <3>4. InSum(t)
      BY <2>2, <3>1, AgreesIsRing DEF InSum
    <3>5. InStep(t, file)
      BY <3>1 DEF InStep
    <3> QED
      BY <3>2, <3>3, <3>4, <3>5 DEF ScanOk, t
  <2>10. CASE t = Scan(pos, 0, "roll", sum3, missed, s.hits)
    <3>1. /\ t.curr = pos /\ t.i = 0 /\ t.mode = "roll" /\ t.summer = sum3
          /\ t.map = missed /\ t.hits = s.hits
      BY <2>10 DEF Scan
    <3>2. IsScan(t)
      BY <2>10, <3>1 DEF IsScan
    <3>3. InPlace(t, file)
      <4>1. 0 < Chunk /\ 0 \in Nat /\ Chunk <= pos - 0 /\ pos - 0 <= Len(file)
        BY <1>2, <2>1
      <4> QED
        BY <2>1, <2>5, <3>1, <4>1 DEF InPlace
    <3>4. InSum(t)
      BY <2>2, <3>1, AgreesIsRing DEF InSum
    <3>5. InStep(t, file)
      <4>1. Contents(sum3.ring) = Before(file, pos)
        BY <2>2, <2>8 DEF pos, Before
      <4>2. \A j \in 0 .. Chunk - 1 : pos - 0 + j < Len(file) =>
              ByteAt(missed, j) = file[pos - 0 + j + 1]
        BY <2>1, <2>5
      <4> QED
        BY <3>1, <4>1, <4>2 DEF InStep
    <3> QED
      BY <3>2, <3>3, <3>4, <3>5 DEF ScanOk, t
  <2> QED
    BY <2>6, <2>9, <2>10 DEF t
<1> QED
  BY <1>2, <1>3, <1>4

\* A window of the file whose weak sum is that of a chunk is found.
LEMMA WindowIsFound ==
  ASSUME NEW file \in Seq(Int), NEW chunks,
         NEW N \in Nat, DOMAIN chunks \subseteq 1 .. N, Told(file, chunks),
         NEW start \in Nat, start + Chunk <= Len(file),
         NEW w, w = SubSeq(file, start + 1, start + Chunk),
         NEW m \in Maps(file),
         NEW k, k = Lookup(chunks, Sum1(w)), k # 0
  PROVE  Found(MapFileContent(m, start, Chunk), chunks, k)
<1> DEFINE r == MapFileContent(m, start, Chunk)
<1>1. Chunk \in Nat /\ start <= Len(file) /\ Chunk <= BufferLength(file)
  BY ChunkFacts, BufferLengthIs, ScanAssumption
<1>2. Mapped(r, file, start, Chunk)
  BY <1>1, MappedContent
<1> HIDE DEF r
<1>3. r \in Maps(file)
  BY <1>2 DEF Mapped
<1>4. Shows(r, file, start, Chunk)
  BY <1>1, <1>2, MappedBytes
<1>5. Bytes(r, Chunk) = w
  BY <1>1, <1>3, <1>4, BytesShown
<1>6. k \in DOMAIN chunks /\ chunks[k].weak = Sum1(w)
  BY LookupIs
<1>7. w = chunks[k].strong
  <2>1. /\ start + 1 \in 1 .. Len(file) - Chunk + 1
        /\ start + 1 + Chunk - 1 = start + Chunk
    BY <1>1
  <2> QED
    BY <1>6, <2>1 DEF Told
<1> QED
  BY <1>5, <1>7 DEF Found, r

\* A byte keeps ScanOk: if no weak sum misleads the scan, a window that is read
\* again matches, so that the pointer never moves while the loop goes on.
LEMMA RollKeepsOk ==
  ASSUME NEW file \in Seq(Int), NEW chunks,
         NEW N \in Nat, DOMAIN chunks \subseteq 1 .. N,
         NEW s, ScanOk(s, file, chunks), s.mode = "roll"
  PROVE  ScanOk(ScanRoll(s, chunks), file, chunks)
<1> DEFINE next   == ByteAt(s.map, s.i)
           sum3 == Update(s.summer, next)
           k      == Lookup(chunks, sum3.sum)
           start  == s.curr - Chunk + 1
           again  == IF k # 0 THEN MapFileContent(s.map, start, Chunk) ELSE s.map
           found  == Found(again, chunks, k)
           hits   == Hit(s, start, k)
           ended  == Scan(s.curr, 0, "block", sum3, again, hits)
           rest   == Scan(s.curr + 1, 0, "block", sum3, again, s.hits)
           on     == Scan(s.curr + 1, s.i + 1, "roll", sum3, again, s.hits)
           t      == ScanRoll(s, chunks)
<1>1. IsScan(s) /\ InPlace(s, file) /\ InSum(s)
  BY DEF ScanOk
<1>2. PICK c \in Nat, L \in Nat : c = Chunk /\ L = Len(file) /\ c > 0
  BY ChunkFacts
<1>3. PICK x \in Nat, i \in Nat : x = s.curr /\ i = s.i
  BY <1>1 DEF InPlace
<1>4. /\ s.map \in Maps(file) /\ i < c /\ c <= x - i /\ x - i <= L
      /\ s.map.at + Chunk <= BufferLength(file)
  BY <1>1, <1>2, <1>3 DEF InPlace
<1>5. /\ start \in Nat /\ start <= Len(file) /\ c <= L /\ start + Chunk = x + 1
      /\ x > 0 /\ x + 1 <= L + c
  <2>1. start = x - c + 1
    BY <1>2, <1>3
  <2>2. /\ x - c + 1 \in Nat /\ x - c + 1 <= L /\ c <= L /\ x - c + 1 + c = x + 1
        /\ x > 0 /\ x + 1 <= L + c
    BY <1>2, <1>4
  <2> QED
    BY <1>2, <2>1, <2>2
<1>6. next \in Int
  BY <1>4, ByteIsInt
<1>7. Agrees(s.summer)
  BY <1>1, <1>3, <1>5 DEF InSum
<1>8. /\ Agrees(sum3)
      /\ Contents(sum3.ring) = Tail(Append(Contents(s.summer.ring), next))
  BY <1>6, <1>7, UpdateAgrees
<1>9. again \in Maps(file) /\ again.at + Chunk <= BufferLength(file)
  <2>1. Mapped(MapFileContent(s.map, start, Chunk), file, start, Chunk)
    BY <1>2, <1>4, <1>5, MappedContent
  <2>2. MapFileContent(s.map, start, Chunk) \in Maps(file)
    BY <2>1 DEF Mapped
  <2>3. MapFileContent(s.map, start, Chunk).at + Chunk <= BufferLength(file)
    BY <1>2, <1>5, <2>1, MappedInside
  <2> QED
    BY <1>4, <2>2, <2>3
<1>10. t = IF found THEN ended ELSE IF s.i + 1 = Chunk THEN rest ELSE on
  <2> DEFINE i1    == IF s.i + 1 = Chunk THEN 0 ELSE s.i + 1
             mode1 == IF s.i + 1 = Chunk THEN "block" ELSE "roll"
  <2>1. t = IF found THEN RollFound(s, sum3, again, "block", 0, hits)
                     ELSE RollMissed(s, sum3, again, s.curr + 1, i1, mode1)
    <3>1. s = Scan(s.curr, s.i, s.mode, s.summer, s.map, s.hits)
      BY <1>1 DEF IsScan
    <3> QED
      BY <3>1 DEF ScanRoll, RollFound, RollMissed, Scan
  <2> HIDE DEF t, sum3, again, hits, found
  <2>2. RollFound(s, sum3, again, "block", 0, hits) = ended
    BY <1>1, RollFoundIs
  <2>3. RollMissed(s, sum3, again, s.curr + 1, i1, mode1)
          = Scan(s.curr + 1, i1, mode1, sum3, again, s.hits)
    BY <1>1, RollMissedIs
  <2>4. Scan(s.curr + 1, i1, mode1, sum3, again, s.hits)
          = IF s.i + 1 = Chunk THEN rest ELSE on
    OBVIOUS
  <2> QED
    BY <2>1, <2>2, <2>3, <2>4
<1>11. ASSUME Told(file, chunks), ~found, x + 1 <= L
       PROVE  Contents(sum3.ring) = Before(file, x + 1) /\ again = s.map
  <2>1. InStep(s, file)
    BY <1>11 DEF ScanOk
  <2>2. x <= Len(file) /\ s.i \in s.i .. Chunk - 1 /\ s.curr - s.i + s.i = x
        /\ x < Len(file)
    <3>1. x < L /\ i \in i .. c - 1 /\ x - i + i = x
      BY <1>4, <1>11
    <3> QED
      BY <1>2, <1>3, <3>1
  <2>3. Contents(s.summer.ring) = SubSeq(file, x - Chunk + 1, x)
    <3>1. Contents(s.summer.ring) = Before(file, x)
      BY <1>3, <2>1, <2>2 DEF InStep
    <3> QED
      BY <3>1 DEF Before
  <2>4. next = file[x + 1]
    BY <2>1, <2>2 DEF InStep
  <2>5. PICK p \in Nat : p = x - c
    BY <1>4
  <2>6. /\ x - Chunk + 1 = p + 1 /\ x = p + c /\ x + 1 = p + c + 1
        /\ p + 2 = start + 1 /\ p + c + 1 = start + Chunk /\ p + c + 1 <= Len(file)
    <3>1. start = x - c + 1
      BY <1>2, <1>3
    <3>2. /\ x - c + 1 = p + 1 /\ x = p + c /\ x + 1 = p + c + 1
          /\ p + 2 = x - c + 1 + 1
          /\ p + c + 1 = x - c + 1 + c /\ p + c + 1 <= L
      BY <1>11, <2>5
    <3> QED
      BY <1>2, <3>1, <3>2
  <2>7. Tail(Append(SubSeq(file, p + 1, p + c), file[p + c + 1]))
          = SubSeq(file, p + 2, p + c + 1)
    BY <1>2, <2>6, WindowShifts
  <2>8. Contents(sum3.ring) = SubSeq(file, start + 1, start + Chunk)
    BY <1>8, <2>3, <2>4, <2>6, <2>7
  <2>9. k = Lookup(chunks, Sum1(SubSeq(file, start + 1, start + Chunk)))
    BY <1>8, <2>8 DEF Agrees
  <2>10. start + Chunk <= Len(file)
    BY <1>2, <1>5, <1>11
  <2> HIDE DEF k, start
  <2>11. k # 0 => Found(MapFileContent(s.map, start, Chunk), chunks, k)
    BY <1>4, <1>5, <1>11, <2>9, <2>10, WindowIsFound
  <2>12. Contents(sum3.ring) = Before(file, x + 1)
    <3>1. (x + 1) - Chunk + 1 = start + 1 /\ x + 1 = start + Chunk
      BY <1>2, <2>6
    <3> QED
      BY <2>8, <3>1 DEF Before
  <2> QED
    BY <1>11, <2>11, <2>12
<1> HIDE DEF t, sum3, again, hits, found, k
<1>12. CASE found
  <2>1. t = ended
    BY <1>10, <1>12
  <2>2. /\ t.curr = x /\ t.i = 0 /\ t.mode = "block" /\ t.summer = sum3
        /\ t.map = again /\ t.hits = hits
    BY <1>3, <2>1 DEF Scan
  <2>3. IsScan(t)
    BY <1>3, <2>1, <2>2 DEF IsScan
  <2>4. InPlace(t, file)
    BY <1>2, <1>5, <1>9, <2>2 DEF InPlace
  <2>5. InSum(t)
    BY <1>8, <2>2, AgreesIsRing DEF InSum
  <2>6. InStep(t, file)
    BY <2>2 DEF InStep
  <2> QED
    BY <2>3, <2>4, <2>5, <2>6 DEF ScanOk, t
<1>13. CASE ~found /\ s.i + 1 = Chunk
  <2>1. t = rest
    BY <1>10, <1>13
  <2>2. /\ t.curr = x + 1 /\ t.i = 0 /\ t.mode = "block" /\ t.summer = sum3
        /\ t.map = again /\ t.hits = s.hits
    BY <1>3, <2>1 DEF Scan
  <2>3. IsScan(t)
    BY <1>3, <2>1, <2>2 DEF IsScan
  <2>4. InPlace(t, file)
    BY <1>2, <1>5, <1>9, <2>2 DEF InPlace
  <2>5. InSum(t)
    BY <1>8, <2>2, AgreesIsRing DEF InSum
  <2>6. InStep(t, file)
    BY <2>2 DEF InStep
  <2> QED
    BY <2>3, <2>4, <2>5, <2>6 DEF ScanOk, t
<1>14. CASE ~found /\ s.i + 1 # Chunk
  <2>1. t = on
    BY <1>10, <1>14
  <2>2. /\ t.curr = x + 1 /\ t.i = i + 1 /\ t.mode = "roll" /\ t.summer = sum3
        /\ t.map = again /\ t.hits = s.hits
    BY <1>3, <2>1 DEF Scan
  <2>3. IsScan(t)
    BY <1>3, <2>1, <2>2 DEF IsScan
  <2>4. InPlace(t, file)
    <3>1. /\ i + 1 < Chunk /\ Chunk <= (x + 1) - (i + 1)
          /\ (x + 1) - (i + 1) <= Len(file) /\ x + 1 <= Len(file) + Chunk
      <4>1. i + 1 # c
        BY <1>2, <1>3, <1>14
      <4>2. /\ i + 1 < c /\ c <= (x + 1) - (i + 1)
            /\ (x + 1) - (i + 1) <= L /\ x + 1 <= L + c
        BY <1>4, <1>5, <4>1
      <4> QED
        BY <1>2, <4>2
    <3> QED
      BY <1>9, <2>2, <3>1 DEF InPlace
  <2>5. InSum(t)
    BY <1>8, <2>2, AgreesIsRing DEF InSum
  <2>6. ASSUME Told(file, chunks) PROVE InStep(t, file)
    <3>1. CASE x + 1 <= L
      <4>1. Contents(sum3.ring) = Before(file, x + 1) /\ again = s.map
        BY <1>11, <1>14, <2>6, <3>1
      <4>2. ASSUME NEW j \in i + 1 .. Chunk - 1, (x + 1) - (i + 1) + j < Len(file)
            PROVE  ByteAt(again, j) = file[(x + 1) - (i + 1) + j + 1]
        <5>1. j \in i .. Chunk - 1 /\ (x + 1) - (i + 1) + j = x - i + j
          BY <1>2
        <5>2. InStep(s, file)
          BY <2>6 DEF ScanOk
        <5>3. x - i + j < Len(file) => ByteAt(s.map, j) = file[x - i + j + 1]
          BY <1>3, <5>1, <5>2 DEF InStep
        <5> QED
          BY <4>1, <4>2, <5>1, <5>3
      <4>3. Contents(t.summer.ring) = Before(file, t.curr)
        BY <2>2, <4>1
      <4>4. ASSUME NEW j \in t.i .. Chunk - 1, t.curr - t.i + j < Len(file)
            PROVE  ByteAt(t.map, j) = file[t.curr - t.i + j + 1]
        <5>1. j \in i + 1 .. Chunk - 1 /\ (x + 1) - (i + 1) + j < Len(file)
          BY <2>2, <4>4
        <5> QED
          BY <2>2, <4>2, <5>1
      <4> QED
        BY <4>3, <4>4 DEF InStep
    <3>2. CASE x + 1 > L
      <4>1. ~(x + 1 <= Len(file))
        BY <1>2, <3>2
      <4>2. \A j \in i + 1 .. Chunk - 1 : ~((x + 1) - (i + 1) + j < Len(file))
        BY <1>2, <3>2
      <4> QED
        BY <2>2, <4>1, <4>2 DEF InStep
    <3> QED
      BY <1>2, <3>1, <3>2
  <2> QED
    BY <2>3, <2>4, <2>5, <2>6 DEF ScanOk, t
<1> QED
  BY <1>12, <1>13, <1>14

--------------------------------------------------------------------------------
(* The description of a file.                                                  *)

\* Append, with what the longer sequence holds.
LEMMA Appended ==
  ASSUME NEW T, NEW l \in Seq(T), NEW e \in T, NEW n \in Nat, Len(l) = n
  PROVE  /\ Append(l, e) \in Seq(T) /\ Len(Append(l, e)) = n + 1
         /\ Append(l, e)[n + 1] = e
         /\ \A k \in 1 .. n : Append(l, e)[k] = l[k]
<1>1. Append(l, e) \in Seq(T) /\ Len(Append(l, e)) = n + 1
  BY AppendProperties
<1>2. Append(l, e)[n + 1] = e
  BY AppendProperties
<1>3. \A k \in 1 .. n : Append(l, e)[k] = l[k]
  BY AppendProperties
<1> QED
  BY <1>1, <1>2, <1>3

\* A full chunk lies inside the file.
LEMMA ChunkInside ==
  ASSUME NEW file \in Seq(Int), NEW k \in 1 .. FullChunks(file)
  PROVE  (k - 1) * Chunk \in Nat /\ (k - 1) * Chunk + Chunk <= Len(file)
<1>1. PICK c \in Nat \ {0} : c = Chunk
  BY ChunkFacts
<1>2. PICK L \in Nat : L = Len(file)
  OBVIOUS
<1>3. PICK n \in Int, rest \in Int : n = L \div c /\ L = c * n + rest /\ 0 <= rest
  <2>1. L = c * (L \div c) + (L % c)
    BY <1>1, <1>2, DivMod
  <2>2. L \div c \in Int /\ L % c \in Int /\ 0 <= L % c
    BY <1>1, <1>2
  <2> QED
    BY <2>1, <2>2
<1>4. k \in 1 .. n
  BY <1>1, <1>2, <1>3 DEF FullChunks
<1>5. PICK j \in Nat, d \in Nat : k = j + 1 /\ n = k + d
  <2>1. k - 1 \in Nat /\ n - k \in Nat /\ k = (k - 1) + 1 /\ n = k + (n - k)
    BY <1>3, <1>4
  <2> QED
    BY <2>1
<1>6. PICK x \in Nat, y \in Nat : x = j * c /\ y = d * c
  OBVIOUS
<1>7. c * n = x + c + y
  <2>1. c * (j + 1 + d) = j * c + c + d * c
    OBVIOUS
  <2> QED
    BY <1>5, <1>6, <2>1
<1>8. x + c <= L
  BY <1>3, <1>7
<1>9. (k - 1) * c = x
  BY <1>5, <1>6
<1> QED
  BY <1>1, <1>2, <1>8, <1>9

\* A checksum is a pair of numbers.
LEMMA SumIsPair ==
  ASSUME NEW w \in Seq(Int) PROVE Sum1(w) \in Int \X Int
<1>1. PICK n \in Nat : w \in [1 .. n -> Int]
  OBVIOUS
<1>2. PICK a \in Int, b \in Int : Sums(w) = <<a, b>>
  BY <1>1, SumsTyped
<1>3. Sum1(w) = <<a % HalfWord, b % HalfWord>>
  BY <1>2 DEF Sum1
<1>4. a % HalfWord \in Int /\ b % HalfWord \in Int
  BY ScanAssumption
<1> QED
  BY <1>3, <1>4

\* One chunk more is described, whatever the buffer held.
LEMMA ChunkDescribed ==
  ASSUME NEW file \in Seq(Int), NEW k \in 1 .. FullChunks(file),
         NEW s, s.map \in Maps(file)
  PROVE  /\ DescribeChunk(s, k) = [map |-> DescribeChunk(s, k).map,
                                   list |-> Append(s.list, EntryOf(file, k))]
         /\ DescribeChunk(s, k).list = Append(s.list, EntryOf(file, k))
         /\ DescribeChunk(s, k).map \in Maps(file)
         /\ EntryOf(file, k) \in Entries
<1>1. PICK o \in Nat : o = (k - 1) * Chunk /\ o + Chunk <= Len(file)
  BY ChunkInside
<1>2. PICK m : m = MapFileContent(s.map, o, Chunk)
  OBVIOUS
<1>3. Chunk \in Nat /\ o <= Len(file) /\ Chunk <= BufferLength(file)
  BY <1>1, ChunkFacts, BufferLengthIs, ScanAssumption
<1>4. Mapped(m, file, o, Chunk)
  BY <1>2, <1>3, MappedContent
<1>5. m \in Maps(file)
  BY <1>4 DEF Mapped
<1>6. Shows(m, file, o, Chunk)
  BY <1>1, <1>3, <1>4, MappedBytes
<1>7. PICK w \in Seq(Int) : w = Bytes(m, Chunk)
  BY <1>3, <1>5, BytesAreSeq
<1>8. w = ChunkAt(file, k)
  <2>1. w = SubSeq(file, o + 1, o + Chunk)
    BY <1>1, <1>3, <1>5, <1>6, <1>7, BytesShown
  <2> QED
    BY <1>1, <2>1 DEF ChunkAt
<1>9. Sum1(w) \in Int \X Int
  BY SumIsPair
<1>10. EntryOf(file, k) = ChunkEntry(Sum1(w), w, o)
  BY <1>1, <1>8 DEF EntryOf
<1>11. EntryOf(file, k) \in Entries
  BY <1>9, <1>10 DEF ChunkEntry, Entries
<1>12. DescribeChunk(s, k)
         = [map |-> m, list |-> Append(s.list, ChunkEntry(Sum1(w), w, o))]
  BY <1>1, <1>2, <1>7 DEF DescribeChunk, ChunkEntry
<1>13. /\ DescribeChunk(s, k).map = m
       /\ DescribeChunk(s, k).list = Append(s.list, ChunkEntry(Sum1(w), w, o))
  BY <1>12
<1> QED
  BY <1>5, <1>10, <1>11, <1>12, <1>13

DescribeSteps(file, zero) ==
  \E h \in [0 .. FullChunks(file) -> Described(file)] :
     /\ h[0] = zero
     /\ h[FullChunks(file)]
          = FoldLeft(DescribeChunk, zero, [k \in 1 .. FullChunks(file) |-> k])
     /\ \A k \in 1 .. FullChunks(file) : h[k] = DescribeChunk(h[k - 1], k)

\* A list of chunks is built from the first to the last.
LEMMA DescribedStepByStep ==
  ASSUME NEW file \in Seq(Int), NEW zero \in Described(file)
  PROVE  DescribeSteps(file, zero)
<1>1. PICK n \in Nat : n = FullChunks(file)
  BY ChunkFacts DEF FullChunks
<1> DEFINE X == Described(file)
           Y == 1 .. n
           w == [k \in 1 .. n |-> k]
           F == [s \in X |-> [k \in Y |-> DescribeChunk(s, k)]]
           P(f) == f = [s \in SUBSET (DOMAIN w) |->
                          IF s = {} THEN zero
                          ELSE DescribeChunk(f[s \ {Max(s)}], w[Max(s)])]
           it == CHOOSE f : P(f)
<1>2. DOMAIN w = 1 .. n /\ w \in [1 .. n -> Y]
  OBVIOUS
<1>3. F \in [X -> [Y -> X]] /\ zero \in X
  <2>1. ASSUME NEW s \in X, NEW k \in Y PROVE DescribeChunk(s, k) \in X
    <3>1. s.map \in Maps(file) /\ s.list \in Seq(Entries)
      BY DEF Described
    <3>2. PICK m \in Maps(file), e \in Entries :
            DescribeChunk(s, k) = [map |-> m, list |-> Append(s.list, e)]
      BY <1>1, <3>1, ChunkDescribed
    <3>3. Append(s.list, e) \in Seq(Entries)
      BY <3>1, AppendProperties
    <3> QED
      BY <3>2, <3>3 DEF Described
  <2> HIDE DEF X
  <2> QED
    BY <2>1 DEF X
<1>4. \A s \in X, k \in Y : F[s][k] = DescribeChunk(s, k)
  OBVIOUS
<1>5. ASSUME NEW f, NEW s \in SUBSET (1 .. n), s # {}, f[s \ {Max(s)}] \in X
      PROVE  Step(F, w, f, s) <=> f[s] = DescribeChunk(f[s \ {Max(s)}], w[Max(s)])
  <2> HIDE DEF F, X, Y, w
  <2>1. w[Max(s)] \in Y
    BY <1>2, <1>5, MaxIsPlace
  <2> QED
    BY <1>4, <1>5, <2>1 DEF Step
<1>6. \E f : P(f)
  <2> HIDE DEF F, X, w, Y
  <2>1. PICK g : Folded(X, F, zero, w, n, g)
    BY <1>2, <1>3, FoldFound
  <2>2. \A s \in SUBSET (1 .. n) : s # {} => g[s] = DescribeChunk(g[s \ {Max(s)}], w[Max(s)])
    BY <1>5, <2>1 DEF Folded
  <2>3. g[{}] = zero /\ g = [s \in SUBSET (1 .. n) |-> g[s]]
    BY <2>1 DEF Folded
  <2>4. P(g)
    BY <1>2, <2>2, <2>3
  <2> QED
    BY <2>4
<1>7. P(it)
  <2> HIDE DEF P
  <2> QED
    BY <1>6
<1>8. FoldLeft(DescribeChunk, zero, w) = it[DOMAIN w]
  BY DEF FoldLeft, MapThenFoldSet
<1> HIDE DEF it, F, X, w, Y
<1>9. /\ it[{}] = zero
      /\ \A s \in SUBSET (1 .. n) :
           s # {} => it[s] = DescribeChunk(it[s \ {Max(s)}], w[Max(s)])
  BY <1>2, <1>7
<1>10. FoldsTyped(X, F, zero, w, n, it)
  BY <1>5, <1>9 DEF FoldsTyped
<1>11. LeftToRight(X, F, zero, w, n, it[1 .. n])
  BY <1>2, <1>3, <1>10, FoldSteps
<1>12. PICK h \in [0 .. n -> X] :
           /\ h[0] = zero /\ h[n] = it[1 .. n]
           /\ \A k \in 1 .. n : h[k] = F[h[k - 1]][w[k]]
  BY <1>11 DEF LeftToRight
<1>13. ASSUME NEW k \in 1 .. n PROVE h[k] = DescribeChunk(h[k - 1], k)
  <2>1. k - 1 \in 0 .. n /\ h[k - 1] \in X /\ w[k] = k /\ k \in Y
    BY DEF w, Y
  <2> QED
    BY <2>1, <1>4, <1>12
<1>14. FoldLeft(DescribeChunk, zero, [k \in 1 .. n |-> k]) = h[n]
  BY <1>2, <1>8, <1>12 DEF w
<1> QED
  BY <1>1, <1>12, <1>13, <1>14 DEF X, DescribeSteps

\* The list describes the full chunks of the file, in order.
LEMMA ListDescribesFile ==
  ASSUME NEW file \in Seq(Int), NEW word \in 0 .. MapBuffer
  PROVE  DescribesChunks(GenerateMetaList(file, word).list, file, FullChunks(file))
<1>1. PICK n \in Nat : n = FullChunks(file)
  BY ChunkFacts DEF FullChunks
<1>2. PICK zero : zero = [map |-> FileMap(file, word), list |-> <<>>]
  OBVIOUS
<1>3. zero \in Described(file)
  <2>1. FileMap(file, word) \in Maps(file)
    BY FileMapIsMap
  <2>2. <<>> \in Seq(Entries)
    OBVIOUS
  <2> QED
    BY <1>2, <2>1, <2>2 DEF Described
<1>4. PICK h \in [0 .. n -> Described(file)] :
        /\ h[0] = zero
        /\ h[n] = FoldLeft(DescribeChunk, zero, [k \in 1 .. n |-> k])
        /\ \A k \in 1 .. n : h[k] = DescribeChunk(h[k - 1], k)
  <2>1. DescribeSteps(file, zero)
    BY <1>3, DescribedStepByStep
  <2> QED
    BY <1>1, <2>1 DEF DescribeSteps
<1> DEFINE S == {j \in Nat : j <= n => DescribesChunks(h[j].list, file, j)}
<1>5. 0 \in S
  <2>1. h[0].list = <<>>
    BY <1>2, <1>4
  <2>2. <<>> \in Seq(Entries) /\ Len(<<>>) = 0 /\ 1 .. 0 = {}
    OBVIOUS
  <2>3. DescribesChunks(h[0].list, file, 0)
    BY <2>1, <2>2 DEF DescribesChunks
  <2> QED
    BY <2>3
<1>6. ASSUME NEW j \in S PROVE j + 1 \in S
  <2>1. j \in Nat /\ j + 1 \in Nat
    OBVIOUS
  <2>2. ASSUME j + 1 <= n PROVE DescribesChunks(h[j + 1].list, file, j + 1)
    <3>1. j <= n /\ j \in 0 .. n /\ j + 1 \in 1 .. n /\ (j + 1) - 1 = j
      BY <2>1, <2>2
    <3>2. DescribesChunks(h[j].list, file, j)
      BY <3>1
    <3> HIDE DEF S
    <3>3. h[j + 1] = DescribeChunk(h[j], j + 1)
      BY <1>4, <3>1
    <3>4. h[j].map \in Maps(file)
      <4>1. h[j] \in Described(file)
        BY <3>1
      <4> QED
        BY <4>1 DEF Described
    <3>5. j + 1 \in 1 .. FullChunks(file)
      BY <1>1, <3>1
    <3>6. /\ h[j + 1].list = Append(h[j].list, EntryOf(file, j + 1))
          /\ EntryOf(file, j + 1) \in Entries
      <4>1. PICK s, k \in 1 .. FullChunks(file) : s = h[j] /\ k = j + 1
        BY <3>5
      <4>2. s.map \in Maps(file)
        BY <3>4, <4>1
      <4>3. DescribeChunk(s, k).list = Append(s.list, EntryOf(file, k))
        BY <4>2, ChunkDescribed
      <4>4. EntryOf(file, k) \in Entries
        BY <4>2, ChunkDescribed
      <4> QED
        BY <3>3, <4>1, <4>3, <4>4
    <3>7. PICK l \in Seq(Entries), e \in Entries :
            l = h[j].list /\ Len(l) = j /\ e = EntryOf(file, j + 1)
      BY <3>2, <3>6 DEF DescribesChunks
    <3>8. Append(l, e) \in Seq(Entries) /\ Len(Append(l, e)) = j + 1
      BY <3>7, Appended
    <3>9. ASSUME NEW k \in 1 .. j + 1 PROVE Append(l, e)[k] = EntryOf(file, k)
      <4>1. CASE k \in 1 .. j
        <5>1. Append(l, e)[k] = l[k]
          BY <3>7, <4>1, Appended
        <5> QED
          BY <3>2, <3>7, <4>1, <5>1 DEF DescribesChunks
      <4>2. CASE k = j + 1
        <5>1. Append(l, e)[j + 1] = e
          BY <3>7, Appended
        <5> QED
          BY <3>7, <4>2, <5>1
      <4>3. k \in 1 .. j \/ k = j + 1
        BY <2>1
      <4> QED
        BY <4>1, <4>2, <4>3
    <3> QED
      BY <3>6, <3>7, <3>8, <3>9 DEF DescribesChunks
  <2> QED
    BY <2>1, <2>2
<1>7. S = Nat
  <2>1. S \in SUBSET Nat
    OBVIOUS
  <2> HIDE DEF S
  <2> QED
    BY <1>5, <1>6, <2>1, SetInduction
<1>8. DescribesChunks(h[n].list, file, n)
  <2>1. n \in S /\ n <= n
    BY <1>7
  <2> QED
    BY <2>1
<1>9. GenerateMetaList(file, word) = h[n]
  BY <1>1, <1>2, <1>4 DEF GenerateMetaList
<1> QED
  BY <1>1, <1>8, <1>9

--------------------------------------------------------------------------------
(* The program.                                                                *)

\* How the scan moves on: by a block, unless the file has no more.
LEMMA BlockMoves ==
  ASSUME NEW s, IsScan(s), NEW chunks
  PROVE  \/ ScanBlock(s, chunks).mode = "done"
         \/ ScanBlock(s, chunks).curr = s.curr + Chunk
<1>1. CASE s.curr + Chunk > Len(s.map.file)
  <2>1. ScanBlock(s, chunks) = [s EXCEPT !.mode = "done"]
    BY <1>1 DEF ScanBlock
  <2>2. [s EXCEPT !.mode = "done"]
          = Scan(s.curr, s.i, "done", s.summer, s.map, s.hits)
    BY DEF IsScan, Scan
  <2> QED
    BY <2>1, <2>2 DEF Scan
<1>2. CASE ~(s.curr + Chunk > Len(s.map.file))
  <2>1. PICK sum3, again, hits, missed :
          \/ ScanBlock(s, chunks) = BlockFound(s, s.curr + Chunk, sum3, again, hits)
          \/ ScanBlock(s, chunks) =
               BlockMissed(s, s.curr + Chunk, sum3, missed, 0, "roll")
    BY <1>2 DEF ScanBlock, BlockFound, BlockMissed
  <2>2. BlockFound(s, s.curr + Chunk, sum3, again, hits)
          = Scan(s.curr + Chunk, s.i, s.mode, sum3, again, hits)
    BY BlockFoundIs
  <2>3. BlockMissed(s, s.curr + Chunk, sum3, missed, 0, "roll")
          = Scan(s.curr + Chunk, 0, "roll", sum3, missed, s.hits)
    BY BlockMissedIs
  <2> QED
    BY <2>1, <2>2, <2>3 DEF Scan
<1> QED
  BY <1>1, <1>2

\* By a byte, unless the window was found.
LEMMA RollMoves ==
  ASSUME NEW s, IsScan(s), NEW chunks
  PROVE  \/ /\ ScanRoll(s, chunks).mode = "block"
            /\ ScanRoll(s, chunks).curr = s.curr
         \/ ScanRoll(s, chunks).curr = s.curr + 1
<1>1. PICK sum3, again, hits, i, mode :
        \/ ScanRoll(s, chunks) = RollFound(s, sum3, again, "block", 0, hits)
        \/ ScanRoll(s, chunks) = RollMissed(s, sum3, again, s.curr + 1, i, mode)
  <2>1. s = Scan(s.curr, s.i, s.mode, s.summer, s.map, s.hits)
    BY DEF IsScan
  <2> QED
    BY <2>1 DEF ScanRoll, RollFound, RollMissed, Scan
<1>2. RollFound(s, sum3, again, "block", 0, hits)
        = Scan(s.curr, 0, "block", sum3, again, hits)
  BY RollFoundIs
<1>3. RollMissed(s, sum3, again, s.curr + 1, i, mode)
        = Scan(s.curr + 1, i, mode, sum3, again, s.hits)
  BY RollMissedIs
<1> QED
  BY <1>1, <1>2, <1>3 DEF Scan

\* The numbers of the chunks.
LEMMA MetaDomain ==
  ASSUME Files, DescribesChunks(meta, old, FullChunks(old))
  PROVE  FullChunks(old) \in Nat /\ DOMAIN meta \subseteq 1 .. FullChunks(old)
<1>1. FullChunks(old) \in Nat
  <2>1. PICK L \in Nat, c \in Nat \ {0} : L = Len(old) /\ c = Chunk
    BY ChunkFacts DEF Files
  <2>2. L \div c \in Nat
    BY <2>1
  <2> QED
    BY <2>1, <2>2 DEF FullChunks
<1> QED
  BY <1>1 DEF DescribesChunks

\* A step of the scan keeps ScanOk.
LEMMA StepKeepsOk ==
  ASSUME ScanInv, stage = "scan"
  PROVE  ScanOk(ScanStep(scan, meta), new, meta)
<1>1. ScanOk(scan, new, meta) /\ new \in Seq(Int)
  BY DEF ScanInv, RunOk, Files
<1>2. FullChunks(old) \in Nat /\ DOMAIN meta \subseteq 1 .. FullChunks(old)
  BY MetaDomain DEF ScanInv, SigOk
<1>3. CASE scan.mode = "roll"
  <2>1. ScanOk(ScanRoll(scan, meta), new, meta)
    BY <1>1, <1>2, <1>3, RollKeepsOk
  <2> QED
    BY <1>3, <2>1 DEF ScanStep
<1>4. CASE scan.mode # "roll"
  <2>1. ScanOk(ScanBlock(scan, meta), new, meta)
    BY <1>1, <1>4, BlockKeepsOk
  <2> QED
    BY <1>4, <2>1 DEF ScanStep
<1> QED
  BY <1>3, <1>4

\* The invariant: of the files, the signature and the scan.
LEMMA ScanInvHolds == Spec => []ScanInv
<1>1. Init => ScanInv
  BY DeltaAssumption DEF Init, ScanInv, Files, SigOk, RunOk
<1>2. ScanInv /\ [Next]_vars => ScanInv'
  <2> SUFFICES ASSUME ScanInv, [Next]_vars PROVE ScanInv'
    OBVIOUS
  <2>1. Files /\ SigOk /\ RunOk
    BY DEF ScanInv
  <2>2. CASE GenerateSigFile
    <3>1. Files'
      BY <2>1, <2>2 DEF GenerateSigFile, Files
    <3>2. SigOk'
      <4>1. DescribesChunks(GenerateMetaList(old, heap).list, old, FullChunks(old))
        <5>1. PICK w \in 0 .. MapBuffer : FileMap(old, heap) = FileMap(old, w)
          BY <2>1, <2>2, WordWithin DEF GenerateSigFile, Files
        <5>2. GenerateMetaList(old, heap) = GenerateMetaList(old, w)
          BY <5>1 DEF GenerateMetaList
        <5> QED
          BY <2>1, <5>2, ListDescribesFile DEF Files
      <4> QED
        BY <2>2, <4>1 DEF GenerateSigFile, SigOk
    <3>3. RunOk'
      <4>1. ScanOk(StartScan(new, heap), new, meta')
        <5>1. PICK w \in 0 .. MapBuffer : FileMap(new, heap) = FileMap(new, w)
          BY <2>1, <2>2, WordWithin DEF GenerateSigFile, Files
        <5>2. StartScan(new, heap) = StartScan(new, w)
          BY <5>1 DEF StartScan
        <5> QED
          BY <2>1, <5>2, StartIsOk DEF Files
      <4> QED
        BY <2>2, <4>1 DEF GenerateSigFile, RunOk
    <3> QED
      BY <3>1, <3>2, <3>3 DEF ScanInv
  <2>3. CASE ScanNewFile
    <3>1. Files' /\ SigOk'
      BY <2>1, <2>3 DEF ScanNewFile, Files, SigOk
    <3>2. RunOk'
      <4>1. ScanOk(ScanStep(scan, meta), new, meta)
        BY <2>3, StepKeepsOk DEF ScanNewFile
      <4> QED
        BY <2>3, <4>1 DEF ScanNewFile, RunOk
    <3> QED
      BY <3>1, <3>2 DEF ScanInv
  <2>4. CASE ScanDone
    BY <2>1, <2>4 DEF ScanDone, ScanInv, Files, SigOk, RunOk
  <2>5. CASE WriteNode
    BY <2>1, <2>5 DEF WriteNode, ScanInv, Files, SigOk, RunOk
  <2>6. CASE DeltaDone
    BY <2>1, <2>6 DEF DeltaDone, ScanInv, Files, SigOk, RunOk
  <2>7. CASE OpenDelta
    BY <2>1, <2>7 DEF OpenDelta, ScanInv, Files, SigOk, RunOk
  <2>8. CASE PatchPiece
    BY <2>1, <2>8 DEF PatchPiece, ScanInv, Files, SigOk, RunOk
  <2>9. CASE PatchDone
    BY <2>1, <2>9 DEF PatchDone, ScanInv, Files, SigOk, RunOk
  <2>10. CASE OverrunBuffer
    BY <2>1, <2>10 DEF OverrunBuffer, ScanInv, Files, SigOk, RunOk
  <2>11. CASE UNCHANGED vars
    BY <2>1, <2>11 DEF vars, ScanInv, Files, SigOk, RunOk
  <2> QED
    BY <2>2, <2>3, <2>4, <2>5, <2>6, <2>7, <2>8, <2>9, <2>10, <2>11 DEF Next
<1> QED
  BY <1>1, <1>2, PTL DEF Spec

\* The signature describes the full chunks of the old file in order, each with
\* the sums of its own bytes (GenerateSigFile).
THEOREM SignatureDescribesOld ==
  Spec => [](stage \notin {"sig", "overrun"} => DescribesChunks(meta, old, FullChunks(old)))
<1>1. ScanInv => (stage \notin {"sig", "overrun"} => DescribesChunks(meta, old, FullChunks(old)))
  BY DEF ScanInv, SigOk
<1> QED
  BY <1>1, ScanInvHolds, PTL

\* The rolled sum is that of the chunk of bytes in the ring (Checksum3::Update).
THEOREM SumRollsRight == Spec => []RollingAgrees
<1>1. ScanInv => RollingAgrees
  <2>1. ASSUME ScanInv, stage = "scan", scan.curr > 0 PROVE Agrees(scan.summer)
    BY <2>1 DEF ScanInv, RunOk, ScanOk, InSum
  <2>2. ASSUME NEW m, Agrees(m)
        PROVE  m.ring.size = Chunk /\ m.sum = Sum1(Contents(m.ring))
    BY <2>2 DEF Agrees, Windows
  <2> QED
    BY <2>1, <2>2 DEF RollingAgrees
<1> QED
  BY <1>1, ScanInvHolds, PTL

\* As long as no constructor has left the array of its FileMap, the scan reads
\* inside it (ScanNewFile).
THEOREM ScanReadsInside == Spec => []ReadsStayInBuffer
<1>1. ASSUME ScanInv, stage = "scan", scan.mode = "roll"
      PROVE  scan.map.at + scan.i \in DOMAIN scan.map.data
  <2>1. /\ scan.map \in Maps(new) /\ scan.i \in Nat /\ scan.i < Chunk
        /\ scan.map.at + Chunk <= BufferLength(new) /\ new \in Seq(Int)
    BY <1>1 DEF ScanInv, RunOk, ScanOk, InPlace, Files
  <2>2. PICK at \in Nat, b \in Nat, c \in Nat, i \in Nat :
          at = scan.map.at /\ b = BufferLength(new) /\ c = Chunk /\ i = scan.i
    BY <2>1, BufferLengthIs, ChunkFacts DEF Maps
  <2>3. DOMAIN scan.map.data = 0 .. b - 1
    BY <2>1, <2>2 DEF Maps
  <2>4. at + i \in 0 .. b - 1
    <3>1. at + c <= b /\ i < c
      BY <2>1, <2>2
    <3> QED
      BY <3>1
  <2> QED
    BY <2>2, <2>3, <2>4
<1>2. ScanInv => ReadsStayInBuffer
  BY <1>1 DEF ReadsStayInBuffer
<1> QED
  BY <1>2, ScanInvHolds, PTL

\* While no weak sum misleads it, the window rolls over the new file in step
\* (ScanNewFile).
THEOREM WindowKeepsUp == Spec => []WindowFollows
<1>1. ASSUME ~Collides PROVE Told(new, meta)
  BY <1>1 DEF Collides, Told
<1>2. ASSUME ScanInv, stage = "scan", scan.mode = "roll", scan.curr <= Len(new),
             ~Collides
      PROVE  Contents(scan.summer.ring)
               = SubSeq(new, scan.curr - Chunk + 1, scan.curr)
  <2>1. InStep(scan, new)
    BY <1>1, <1>2 DEF ScanInv, RunOk, ScanOk
  <2> QED
    BY <1>2, <2>1 DEF InStep, Before
<1>3. ScanInv => WindowFollows
  BY <1>2 DEF WindowFollows
<1> QED
  BY <1>3, ScanInvHolds, PTL

\* What is left of a scan goes down and stays above zero (ScanNewFile).
THEOREM ScanGoesOn == Spec => ScanAdvances
<1>1. ASSUME ScanInv, [Next]_vars
      PROVE  [stage = "scan" /\ stage' = "scan" /\ scan'.mode # "done" =>
               0 <= ScanLeft(scan') /\ ScanLeft(scan') < ScanLeft(scan)]_vars
  <2>1. CASE ScanNewFile
    <3> SUFFICES ASSUME scan'.mode # "done"
                 PROVE  0 <= ScanLeft(scan') /\ ScanLeft(scan') < ScanLeft(scan)
      OBVIOUS
    <3>1. scan' = ScanStep(scan, meta) /\ stage = "scan" /\ new' = new
      BY <2>1 DEF ScanNewFile
    <3>2. ScanOk(scan, new, meta) /\ ScanOk(scan', new, meta) /\ new \in Seq(Int)
      BY <1>1, <3>1, StepKeepsOk DEF ScanInv, RunOk, Files
    <3>3. PICK x \in Nat, y \in Nat, L \in Nat, c \in Nat :
            /\ x = scan.curr /\ y = scan'.curr /\ L = Len(new) /\ c = Chunk /\ c > 0
            /\ y <= L + c
      BY <3>2, ChunkFacts DEF ScanOk, InPlace
    <3>4. \/ scan.mode # "roll" /\ y = x + c
          \/ scan.mode = "roll" /\ scan'.mode = "block" /\ y = x
          \/ scan.mode = "roll" /\ y = x + 1
      <4>1. CASE scan.mode = "roll"
        BY <3>1, <3>2, <3>3, <4>1, RollMoves DEF ScanStep, ScanOk
      <4>2. CASE scan.mode # "roll"
        BY <3>1, <3>2, <3>3, <4>2, BlockMoves DEF ScanStep, ScanOk
      <4> QED
        BY <4>1, <4>2
    <3>5. /\ ScanLeft(scan) = 2 * (L + c - x) + (IF scan.mode = "roll" THEN 1 ELSE 0)
          /\ ScanLeft(scan') = 2 * (L + c - y) + (IF scan'.mode = "roll" THEN 1 ELSE 0)
      BY <3>1, <3>3 DEF ScanLeft
    <3>6. PICK p \in Nat, q \in Nat :
            /\ p = (IF scan.mode = "roll" THEN 1 ELSE 0)
            /\ q = (IF scan'.mode = "roll" THEN 1 ELSE 0)
      OBVIOUS
    <3>7. \/ p = 0 /\ q <= 1 /\ y = x + c
          \/ p = 1 /\ q = 0 /\ y = x
          \/ p = 1 /\ q <= 1 /\ y = x + 1
      BY <3>4, <3>6
    <3>8. 0 <= 2 * (L + c - y) + q /\ 2 * (L + c - y) + q < 2 * (L + c - x) + p
      <4>1. PICK d \in Nat : L + c = y + d
        <5>1. L + c - y \in Nat /\ L + c = y + (L + c - y)
          BY <3>3
        <5> QED
          BY <5>1
      <4>2. PICK e \in Nat : /\ y = x + e
                            /\ \/ p = 0 /\ q <= 1 /\ e > 0
                               \/ p = 1 /\ q = 0 /\ e = 0
                               \/ p = 1 /\ q <= 1 /\ e = 1
        <5>1. CASE p = 0 /\ q <= 1 /\ y = x + c
          BY <3>3, <5>1
        <5>2. CASE p = 1 /\ q = 0 /\ y = x
          <6>1. y = x + 0
            BY <5>2
          <6> QED
            BY <5>2, <6>1
        <5>3. CASE p = 1 /\ q <= 1 /\ y = x + 1
          BY <5>3
        <5> QED
          BY <3>7, <5>1, <5>2, <5>3
      <4>3. 0 <= 2 * d + q /\ 2 * d + q < 2 * (d + e) + p
        BY <4>2
      <4>4. L + c - y = d /\ L + c - x = d + e
        BY <4>1, <4>2
      <4> QED
        BY <4>3, <4>4
    <3> QED
      BY <3>5, <3>6, <3>8
  <2>2. CASE UNCHANGED vars
    BY <2>2
  <2>3. CASE ~ScanNewFile /\ Next
    <3>1. ~(stage = "scan" /\ stage' = "scan")
      BY <2>3 DEF Next, OverrunBuffer, GenerateSigFile, ScanDone, WriteNode, DeltaDone,
                  OpenDelta, PatchPiece, PatchDone
    <3> QED
      BY <3>1
  <2> QED
    BY <1>1, <2>1, <2>2, <2>3
<1>2. ScanInv /\ [Next]_vars =>
        [stage = "scan" /\ stage' = "scan" /\ scan'.mode # "done" =>
           0 <= ScanLeft(scan') /\ ScanLeft(scan') < ScanLeft(scan)]_vars
  BY <1>1
<1> QED
  BY <1>2, ScanInvHolds, PTL DEF Spec, ScanAdvances

--------------------------------------------------------------------------------
(* The lists: of offset nodes, and of the entries of a delta.                  *)

\* The empty list leads from a place to itself.
LEMMA CoversNothing ==
  ASSUME NEW R, NEW p \in Nat
  PROVE  Covers(R, <<>>, p, p)
<1>1. Leads(R, <<>>, [k \in 1 .. 1 |-> p], p, p)
  BY DEF Leads
<1> QED
  BY <1>1 DEF Covers

\* And nowhere else.
LEMMA CoveredNothing ==
  ASSUME NEW R, NEW p, NEW q, Covers(R, <<>>, p, q)
  PROVE  p = q
  BY DEF Covers, Leads

\* One element more.
LEMMA CoversMore ==
  ASSUME NEW T, NEW R, NEW list \in Seq(T), NEW x \in T, NEW p, NEW q \in Nat,
         NEW r \in Nat, Covers(R, list, p, q), <<x, q, r>> \in R
  PROVE  Append(list, x) \in Seq(T) /\ Covers(R, Append(list, x), p, r)
<1>1. PICK n \in Nat : n = Len(list)
  OBVIOUS
<1>2. PICK at : Leads(R, list, at, p, q)
  BY DEF Covers
<1>3. /\ at \in [1 .. n + 1 -> Nat] /\ at[1] = p /\ at[n + 1] = q
      /\ \A k \in 1 .. n : <<list[k], at[k], at[k + 1]>> \in R
  BY <1>1, <1>2 DEF Leads
<1>4. PICK l : l = Append(list, x)
  OBVIOUS
<1>5. l \in Seq(T) /\ Len(l) = n + 1
  BY <1>1, <1>4, AppendProperties
<1>6. l[n + 1] = x
  BY <1>1, <1>4, AppendProperties
<1>7. \A k \in 1 .. n : l[k] = list[k]
  BY <1>1, <1>4, AppendProperties
<1>8. PICK to : to = [k \in 1 .. n + 2 |-> IF k = n + 2 THEN r ELSE at[k]]
  OBVIOUS
<1>9. to \in [1 .. (n + 1) + 1 -> Nat]
  BY <1>3, <1>8
<1>10. to[1] = p /\ to[(n + 1) + 1] = r /\ to[n + 1] = q
  BY <1>3, <1>8
<1>11. ASSUME NEW k \in 1 .. n + 1 PROVE <<l[k], to[k], to[k + 1]>> \in R
  <2>1. CASE k = n + 1
    BY <1>6, <1>10, <2>1
  <2>2. CASE k \in 1 .. n
    <3>1. to[k] = at[k] /\ to[k + 1] = at[k + 1]
      BY <1>8, <2>2
    <3> QED
      BY <1>3, <1>7, <2>2, <3>1
  <2> QED
    BY <2>1, <2>2
<1>12. Leads(R, l, to, p, r)
  BY <1>5, <1>9, <1>10, <1>11 DEF Leads
<1> QED
  BY <1>4, <1>5, <1>12 DEF Covers

\* The first element and the others.
Parts(R, x, list, p, q) ==
  \E r \in Nat : <<x, p, r>> \in R /\ Covers(R, list, r, q)

\* A list is its first element and the others, which start where it ends.
LEMMA CoversParts ==
  ASSUME NEW T, NEW R, NEW list \in Seq(T), list # <<>>, NEW p, NEW q,
         Covers(R, list, p, q)
  PROVE  Head(list) \in T /\ Tail(list) \in Seq(T)
         /\ Parts(R, Head(list), Tail(list), p, q)
<1>1. PICK n \in Nat : n + 1 = Len(list)
  <2>1. Len(list) \in Nat /\ Len(list) # 0
    OBVIOUS
  <2> QED
    BY <2>1
<1>2. PICK at : Leads(R, list, at, p, q)
  BY DEF Covers
<1>3. /\ at \in [1 .. n + 2 -> Nat] /\ at[1] = p /\ at[n + 2] = q
      /\ \A k \in 1 .. n + 1 : <<list[k], at[k], at[k + 1]>> \in R
  BY <1>1, <1>2 DEF Leads
<1>4. PICK l : l = Tail(list)
  OBVIOUS
<1>5. Head(list) = list[1] /\ Head(list) \in T
  BY <1>1
<1>6. l \in Seq(T) /\ Len(l) = n
  BY <1>1, <1>4
<1>7. \A k \in 1 .. n : l[k] = list[k + 1]
  BY <1>1, <1>4
<1>8. PICK to : to = [k \in 1 .. n + 1 |-> at[k + 1]]
  OBVIOUS
<1>9. to \in [1 .. n + 1 -> Nat] /\ to[1] = at[2] /\ to[n + 1] = q
  BY <1>3, <1>8
<1>10. ASSUME NEW k \in 1 .. n PROVE <<l[k], to[k], to[k + 1]>> \in R
  <2>1. to[k] = at[k + 1] /\ to[k + 1] = at[(k + 1) + 1] /\ k + 1 \in 1 .. n + 1
    BY <1>8
  <2> QED
    BY <1>3, <1>7, <2>1
<1>11. Leads(R, l, to, at[2], q)
  BY <1>6, <1>9, <1>10 DEF Leads
<1>12. <<list[1], p, at[2]>> \in R /\ at[2] \in Nat
  <2>1. 1 \in 1 .. n + 1 /\ 1 + 1 = 2 /\ 2 \in 1 .. n + 2
    OBVIOUS
  <2> QED
    BY <1>3, <2>1
<1> QED
  BY <1>4, <1>5, <1>6, <1>11, <1>12 DEF Covers, Parts

\* An element in front.
LEMMA CoversInFront ==
  ASSUME NEW T, NEW R, NEW list \in Seq(T), NEW x \in T, NEW p \in Nat, NEW r \in Nat,
         NEW q, Covers(R, list, r, q), <<x, p, r>> \in R
  PROVE  <<x>> \o list \in Seq(T) /\ Covers(R, <<x>> \o list, p, q)
<1>1. PICK n \in Nat : n = Len(list)
  OBVIOUS
<1>2. PICK at : Leads(R, list, at, r, q)
  BY DEF Covers
<1>3. /\ at \in [1 .. n + 1 -> Nat] /\ at[1] = r /\ at[n + 1] = q
      /\ \A k \in 1 .. n : <<list[k], at[k], at[k + 1]>> \in R
  BY <1>1, <1>2 DEF Leads
<1>4. PICK l : l = <<x>> \o list
  OBVIOUS
<1>5. l \in Seq(T) /\ Len(l) = n + 1
  BY <1>1, <1>4
<1>6. l[1] = x
  BY <1>1, <1>4
<1>7. \A k \in 2 .. n + 1 : l[k] = list[k - 1]
  BY <1>1, <1>4
<1>8. PICK to : to = [k \in 1 .. n + 2 |-> IF k = 1 THEN p ELSE at[k - 1]]
  OBVIOUS
<1>9. to \in [1 .. (n + 1) + 1 -> Nat]
  BY <1>3, <1>8
<1>10. to[1] = p /\ to[2] = r /\ to[(n + 1) + 1] = q
  BY <1>3, <1>8
<1>11. ASSUME NEW k \in 1 .. n + 1 PROVE <<l[k], to[k], to[k + 1]>> \in R
  <2>1. CASE k = 1
    BY <1>6, <1>10, <2>1
  <2>2. CASE k \in 2 .. n + 1
    <3>1. /\ to[k] = at[k - 1] /\ to[k + 1] = at[(k - 1) + 1]
          /\ k - 1 \in 1 .. n
      BY <1>8, <2>2
    <3> QED
      BY <1>3, <1>7, <2>2, <3>1
  <2>3. k = 1 \/ k \in 2 .. n + 1
    OBVIOUS
  <2> QED
    BY <2>1, <2>2, <2>3
<1>12. Leads(R, l, to, p, q)
  BY <1>5, <1>9, <1>10, <1>11 DEF Leads
<1> QED
  BY <1>4, <1>5, <1>12 DEF Covers

\* A node that fits leads from p to q, and no other does.
LEMMA NodeSpan ==
  ASSUME NEW of, NEW nf, NEW x, NEW p, NEW q
  PROVE  <<x, p, q>> \in NodeSpans(of, nf)
           <=> x \in Nodes /\ p \in Nat /\ q \in Nat /\ NodeFits(of, nf, x, p, q)
  BY DEF NodeSpans

\* The same of an entry.
LEMMA EntrySpan ==
  ASSUME NEW of, NEW nf, NEW x, NEW p, NEW q
  PROVE  <<x, p, q>> \in EntrySpans(of, nf)
           <=> x \in Records /\ p \in Nat /\ q \in Nat /\ EntryFits(of, nf, x, p, q)
  BY DEF EntrySpans

--------------------------------------------------------------------------------
(* The writer.                                                                 *)

\* A flush writes what is in the buffer and loses nothing.
LEMMA FlushWrites ==
  ASSUME NEW w \in Writers
  PROVE  Flush(w) \in Writers /\ Flush(w).file = Written(w) /\ Written(Flush(w)) = Written(w)
<1>1. PICK x \in Seq(Int), y \in Seq(Int) : x = w.file /\ y = w.buffer
  BY DEF Writers
<1>2. PICK f \in Seq(Int) : f = w.file \o w.buffer
  <2>1. x \o y \in Seq(Int)
    OBVIOUS
  <2> QED
    BY <1>1, <2>1
<1>3. Flush(w) = [file |-> f, buffer |-> <<>>]
  BY <1>2 DEF Flush
<1>4. f \o <<>> = f
  OBVIOUS
<1>5. <<>> \in Seq(Int)
  OBVIOUS
<1> QED
  BY <1>2, <1>3, <1>4, <1>5 DEF Writers, Written

\* AppendData writes its bytes after all the others.
LEMMA AppendDataWrites ==
  ASSUME NEW w \in Writers, NEW data \in Seq(Int)
  PROVE  /\ AppendData(w, data) \in Writers
         /\ Written(AppendData(w, data)) = Written(w) \o data
<1>1. ASSUME NEW v \in Writers
      PROVE  /\ [v EXCEPT !.buffer = @ \o data] \in Writers
             /\ Written([v EXCEPT !.buffer = @ \o data]) = Written(v) \o data
  <2>1. PICK f \in Seq(Int), b \in Seq(Int) : f = v.file /\ b = v.buffer
    BY DEF Writers
  <2>2. [v EXCEPT !.buffer = @ \o data] = [file |-> f, buffer |-> b \o data]
    <3>1. v = [file |-> f, buffer |-> b]
      BY <2>1 DEF Writers
    <3>2. PICK c : c = b \o data
      OBVIOUS
    <3>3. [v EXCEPT !.buffer = @ \o data] = [v EXCEPT !.buffer = c]
      BY <2>1, <3>2
    <3>4. [v EXCEPT !.buffer = c] = [file |-> f, buffer |-> c]
      BY <3>1
    <3> QED
      BY <3>2, <3>3, <3>4
  <2>3. b \o data \in Seq(Int)
    OBVIOUS
  <2>4. f \o (b \o data) = (f \o b) \o data
    OBVIOUS
  <2> QED
    BY <2>1, <2>2, <2>3, <2>4 DEF Writers, Written
<1>2. AppendData(w, data) = [Flush(w) EXCEPT !.buffer = @ \o data]
      \/ AppendData(w, data) = [w EXCEPT !.buffer = @ \o data]
  BY DEF AppendData
<1> QED
  BY <1>1, <1>2, FlushWrites

\* Bytes that fit where the others end fit together with them.
LEMMA MatchesMore ==
  ASSUME NEW nf \in Seq(Int), NEW bytes, Matches(bytes, nf), NEW data \in Seq(Int),
         NEW q, DataFits(nf, data, Len(bytes), q)
  PROVE  Matches(bytes \o data, nf) /\ Len(bytes \o data) = q
<1>1. PICK n \in Nat, m \in Nat : n = Len(bytes) /\ m = Len(data)
  BY DEF Matches
<1>2. PICK w : w = bytes \o data
  OBVIOUS
<1>3. bytes \in Seq(Int) /\ \A j \in 1 .. n : j <= Len(nf) => bytes[j] = nf[j]
  BY <1>1 DEF Matches
<1>4. w \in Seq(Int) /\ Len(w) = n + m
  BY <1>1, <1>2, <1>3
<1>5. \A j \in 1 .. n : w[j] = bytes[j]
  BY <1>1, <1>2, <1>3
<1>6. \A j \in 1 .. m : w[n + j] = data[j]
  BY <1>1, <1>2, <1>3
<1>7. q = n + m /\ \A j \in 1 .. m : n + j <= Len(nf) => data[j] = nf[n + j]
  BY <1>1 DEF DataFits
<1>8. ASSUME NEW j \in 1 .. n + m, j <= Len(nf) PROVE w[j] = nf[j]
  <2>1. CASE j \in 1 .. n
    BY <1>3, <1>5, <1>8, <2>1
  <2>2. CASE j \notin 1 .. n
    <3>1. PICK i \in 1 .. m : j = n + i
      <4>1. j - n \in 1 .. m /\ j = n + (j - n)
        BY <2>2
      <4> QED
        BY <4>1
    <3> QED
      BY <1>6, <1>7, <1>8, <3>1
  <2> QED
    BY <2>1, <2>2
<1> QED
  BY <1>2, <1>4, <1>7, <1>8 DEF Matches

\* The first bytes of the data, and the others.
LEMMA DataIsCut ==
  ASSUME NEW nf \in Seq(Int), NEW data \in Seq(Int), NEW p \in Nat, NEW q,
         DataFits(nf, data, p, q), NEW n \in Nat, n <= Len(data)
  PROVE  /\ SubSeq(data, 1, n) \in Seq(Int)
         /\ DataFits(nf, SubSeq(data, 1, n), p, p + n)
         /\ SubSeq(data, n + 1, Len(data)) \in Seq(Int)
         /\ DataFits(nf, SubSeq(data, n + 1, Len(data)), p + n, q)
<1>1. PICK m \in Nat : m = Len(data)
  OBVIOUS
<1>2. q = p + m /\ \A j \in 1 .. m : p + j <= Len(nf) => data[j] = nf[p + j]
  BY <1>1 DEF DataFits
<1>3. PICK a : a = SubSeq(data, 1, n)
  OBVIOUS
<1>4. a \in Seq(Int) /\ Len(a) = n
  <2>1. \A i \in 1 .. n : i \in 1 .. Len(data)
    BY <1>1
  <2> QED
    BY <1>3, <2>1, SubSeqProperties
<1>5. \A i \in 1 .. n : a[i] = data[i]
  BY <1>1, <1>3
<1>6. PICK b : b = SubSeq(data, n + 1, m)
  OBVIOUS
<1>7. b \in Seq(Int) /\ Len(b) = m - n
  BY <1>1, <1>6
<1>8. \A i \in 1 .. m - n : b[i] = data[n + i]
  BY <1>1, <1>6, SMTT(30)
<1>9. DataFits(nf, a, p, p + n)
  <2>1. \A j \in 1 .. n : j \in 1 .. m
    BY <1>1
  <2> QED
    BY <1>2, <1>4, <1>5, <2>1 DEF DataFits
<1>10. DataFits(nf, b, p + n, q)
  <2>1. q = p + n + (m - n)
    BY <1>1, <1>2
  <2>2. \A j \in 1 .. m - n : n + j \in 1 .. m /\ p + n + j = p + (n + j)
    BY <1>1
  <2> QED
    BY <1>2, <1>7, <1>8, <2>1, <2>2 DEF DataFits
<1> QED
  BY <1>1, <1>3, <1>4, <1>6, <1>7, <1>9, <1>10

\* So is what is copied.
LEMMA CopyIsCut ==
  ASSUME NEW of \in Seq(Int), NEW nf \in Seq(Int), NEW o, NEW length,
         NEW p \in Nat, NEW q,
         CopyFits(of, nf, o, length, p, q), NEW n \in Nat, n <= length
  PROVE  /\ CopyFits(of, nf, o, n, p, p + n)
         /\ CopyFits(of, nf, o + n, length - n, p + n, q)
<1>1. PICK m \in Nat, x \in Nat : m = length /\ x = o
  BY DEF CopyFits
<1>2. PICK L \in Nat, N \in Nat : L = Len(of) /\ N = Len(nf)
  OBVIOUS
<1>3. /\ q = p + m /\ x + m <= L
      /\ \A j \in 1 .. m : p + j <= N => of[x + j] = nf[p + j]
  BY <1>1, <1>2 DEF CopyFits
<1>4. CopyFits(of, nf, o, n, p, p + n)
  <2>1. x + n <= L /\ \A j \in 1 .. n : j \in 1 .. m
    BY <1>1, <1>3
  <2> QED
    BY <1>1, <1>2, <1>3, <2>1 DEF CopyFits
<1>5. CopyFits(of, nf, o + n, length - n, p + n, q)
  <2>1. x + n \in Nat /\ m - n \in Nat /\ x + n + (m - n) <= L /\ q = p + n + (m - n)
    BY <1>1, <1>3
  <2>2. \A j \in 1 .. m - n : n + j \in 1 .. m /\ p + n + j = p + (n + j)
                              /\ x + n + j = x + (n + j)
    BY <1>1
  <2>3. \A j \in 1 .. m - n : p + n + j <= N => of[x + n + j] = nf[p + n + j]
    BY <1>3, <2>2
  <2> QED
    BY <1>1, <1>2, <2>1, <2>3 DEF CopyFits
<1> QED
  BY <1>4, <1>5

--------------------------------------------------------------------------------
(* The matches.                                                                *)

\* A file has a whole number of full chunks.
LEMMA FullChunksIs ==
  ASSUME NEW file \in Seq(Int) PROVE FullChunks(file) \in Nat
<1>1. PICK L \in Nat, c \in Nat \ {0} : L = Len(file) /\ c = Chunk
  BY ChunkFacts
<1>2. L \div c \in Nat
  BY <1>1
<1> QED
  BY <1>1, <1>2 DEF FullChunks

\* What the strong sum of a chunk is of, and where the chunk lies.
LEMMA ChunkHas ==
  ASSUME NEW of \in Seq(Int), NEW chunks, DescribesChunks(chunks, of, FullChunks(of)),
         NEW k \in DOMAIN chunks
  PROVE  /\ k \in 1 .. FullChunks(of)
         /\ chunks[k].offset = (k - 1) * Chunk
         /\ chunks[k].offset \in Nat /\ chunks[k].offset + Chunk <= Len(of)
         /\ \A j \in 1 .. Chunk : chunks[k].strong[j] = of[chunks[k].offset + j]
<1>1. k \in 1 .. FullChunks(of)
  BY FullChunksIs DEF DescribesChunks
<1>2. chunks[k] = ChunkEntry(Sum1(ChunkAt(of, k)), ChunkAt(of, k), (k - 1) * Chunk)
  BY <1>1 DEF DescribesChunks, EntryOf
<1>3. chunks[k].offset = (k - 1) * Chunk /\ chunks[k].strong = ChunkAt(of, k)
  BY <1>2 DEF ChunkEntry
<1>4. PICK o \in Nat, c \in Nat : o = (k - 1) * Chunk /\ c = Chunk /\ o + c <= Len(of)
  BY <1>1, ChunkInside, ChunkFacts
<1>5. \A j \in 1 .. c : ChunkAt(of, k)[j] = of[o + j]
  <2>1. PICK w : w = SubSeq(of, o + 1, o + c)
    OBVIOUS
  <2>2. \A j \in 1 .. c : w[j] = of[o + j]
    <3>1. o + 1 \in 1 .. Len(of) + 1 /\ o + c \in (o + 1) - 1 .. Len(of)
      BY <1>4
    <3>2. \A i \in 1 .. (o + c) - (o + 1) + 1 :
            SubSeq(of, o + 1, o + c)[i] = of[(o + 1) + i - 1]
      BY <3>1, SubSeqProperties
    <3>3. \A j \in 1 .. c : j \in 1 .. (o + c) - (o + 1) + 1 /\ (o + 1) + j - 1 = o + j
      OBVIOUS
    <3> QED
      BY <2>1, <3>2, <3>3
  <2> QED
    BY <1>4, <2>1, <2>2 DEF ChunkAt
<1>6. \A j \in 1 .. Chunk : chunks[k].strong[j] = of[chunks[k].offset + j]
  BY <1>3, <1>4, <1>5
<1> QED
  BY <1>1, <1>3, <1>4, <1>6

\* A window that was found is the chunk, as far as the file goes.
LEMMA FoundCopies ==
  ASSUME NEW of \in Seq(Int), NEW nf \in Seq(Int), Chunk <= Len(nf),
         NEW chunks, DescribesChunks(chunks, of, FullChunks(of)),
         NEW p \in Nat, p <= Len(nf), NEW r, Mapped(r, nf, p, Chunk),
         NEW weak, NEW k, k = Lookup(chunks, weak), Found(r, chunks, k)
  PROVE  k \in Nat /\ CopyFits(of, nf, chunks[k].offset, Chunk, p, p + Chunk)
<1>1. PICK c \in Nat, L \in Nat : c = Chunk /\ L = Len(nf)
  BY ChunkFacts
<1>2. k \in DOMAIN chunks
  <2>1. DOMAIN chunks \subseteq 1 .. FullChunks(of) /\ FullChunks(of) \in Nat /\ k # 0
    BY FullChunksIs DEF DescribesChunks, Found
  <2> QED
    BY <2>1, LookupIs
<1>3. /\ k \in 1 .. FullChunks(of)
      /\ chunks[k].offset \in Nat /\ chunks[k].offset + Chunk <= Len(of)
      /\ \A j \in 1 .. Chunk : chunks[k].strong[j] = of[chunks[k].offset + j]
  BY <1>2, ChunkHas
<1>4. PICK n \in Nat : n = IF p + c <= L THEN c ELSE L - p
  <2>1. (IF p + c <= L THEN c ELSE L - p) \in Nat
    BY <1>1
  <2> QED
    BY <2>1
<1>5. Shows(r, nf, p, n)
  <2>1. n <= Chunk /\ p + n <= Len(nf) /\ Chunk \in Nat /\ Chunk <= BufferLength(nf)
    <3>1. n <= c /\ p + n <= L
      BY <1>1, <1>4
    <3>2. Chunk \in Nat /\ Chunk <= BufferLength(nf)
      BY BufferLengthIs, ScanAssumption
    <3> QED
      BY <1>1, <3>1, <3>2
  <2> QED
    BY <2>1, MappedBytes
<1>6. ASSUME NEW j \in 1 .. Chunk, p + j <= Len(nf)
      PROVE  of[chunks[k].offset + j] = nf[p + j]
  <2>1. j - 1 \in 0 .. n - 1 /\ p + (j - 1) + 1 = p + j
    BY <1>1, <1>4, <1>6
  <2>2. ByteAt(r, j - 1) = nf[p + (j - 1) + 1]
    BY <1>5, <2>1 DEF Shows
  <2>3. Bytes(r, Chunk)[j] = ByteAt(r, j - 1)
    BY DEF Bytes
  <2>4. Bytes(r, Chunk) = chunks[k].strong
    BY DEF Found
  <2> QED
    BY <1>3, <2>1, <2>2, <2>3, <2>4
<1> QED
  BY <1>1, <1>3, <1>6 DEF CopyFits

\* A step by block does (ScanNewFile).
LEMMA BlockHits ==
  ASSUME NEW of \in Seq(Int), NEW nf \in Seq(Int),
         NEW chunks, DescribesChunks(chunks, of, FullChunks(of)),
         NEW s, ScanOk(s, nf, chunks), s.mode # "roll"
  PROVE  HitsGrow(of, nf, chunks, s, ScanBlock(s, chunks))
<1> DEFINE first  == MapFileContent(s.map, s.curr, Chunk)
           sum3 == SummerInit(s.summer, Bytes(first, Chunk))
           pos   == s.curr + Chunk
           k      == Lookup(chunks, sum3.sum)
           again  == IF k # 0 THEN MapFileContent(first, pos - Chunk, Chunk)
                              ELSE first
           missed == MapFileContent(again, pos, Min({Len(nf) - pos, Chunk}))
           h      == [at |-> pos - Chunk, chunk |-> k]
           t      == ScanBlock(s, chunks)
<1>1. IsScan(s) /\ InPlace(s, nf)
  BY DEF ScanOk
<1>2. /\ s.curr \in Nat /\ s.map \in Maps(nf) /\ s.map.file = nf
      /\ Chunk \in Nat \ {0}
  BY <1>1, ChunkFacts DEF InPlace, Maps
<1>3. CASE s.curr + Chunk > Len(nf)
  <2>1. t = [s EXCEPT !.mode = "done"]
    BY <1>2, <1>3 DEF ScanBlock
  <2>2. t = Scan(s.curr, s.i, "done", s.summer, s.map, s.hits)
    BY <1>1, <2>1 DEF IsScan, Scan
  <2>3. t.hits = s.hits
    BY <2>2 DEF Scan
  <2> QED
    BY <2>3 DEF HitsGrow
<1>4. CASE s.curr + Chunk <= Len(nf)
  <2>1. \/ t = BlockFound(s, pos, sum3, again, Append(s.hits, h))
           /\ Found(again, chunks, k)
        \/ t = BlockMissed(s, pos, sum3, missed, 0, "roll")
    BY <1>2, <1>4 DEF ScanBlock, BlockFound, BlockMissed, Hit
  <2>2. CASE t = BlockMissed(s, pos, sum3, missed, 0, "roll")
    <3> HIDE DEF t, pos, sum3, again, missed, h
    <3>1. t = Scan(pos, 0, "roll", sum3, missed, s.hits)
      BY <1>1, <2>2, BlockMissedIs
    <3>2. t.hits = s.hits
      BY <3>1 DEF Scan
    <3> QED
      BY <3>2 DEF HitsGrow, t
  <2>3. CASE t = BlockFound(s, pos, sum3, again, Append(s.hits, h))
             /\ Found(again, chunks, k)
    <3>1. s.curr <= Len(nf) /\ Chunk <= Len(nf) /\ pos - Chunk = s.curr
      BY <1>2, <1>4
    <3>2. first \in Maps(nf)
      <4>1. Mapped(first, nf, s.curr, Chunk)
        BY <1>2, <3>1, MappedContent
      <4> QED
        BY <4>1 DEF Mapped
    <3>3. Mapped(again, nf, s.curr, Chunk)
      <4>1. k # 0
        BY <2>3 DEF Found
      <4>2. again = MapFileContent(first, s.curr, Chunk)
        BY <3>1, <4>1
      <4> HIDE DEF again
      <4> QED
        BY <1>2, <3>1, <3>2, <4>2, MappedContent
    <3> HIDE DEF t, again, first
    <3>4. k \in Nat /\ CopyFits(of, nf, chunks[k].offset, Chunk, s.curr, s.curr + Chunk)
      BY <1>2, <2>3, <3>1, <3>3, FoundCopies
    <3> HIDE DEF k
    <3>5. HitFits(of, nf, chunks, h)
      BY <1>2, <3>1, <3>4 DEF HitFits, Hits
    <3> HIDE DEF h, pos, sum3
    <3>6. t = Scan(pos, s.i, s.mode, sum3, again, Append(s.hits, h))
      BY <1>1, <2>3, BlockFoundIs
    <3>7. t.hits = Append(s.hits, h)
      BY <3>6 DEF Scan
    <3> QED
      BY <3>5, <3>7 DEF HitsGrow, t
  <2> QED
    BY <2>1, <2>2, <2>3
<1> QED
  BY <1>2, <1>3, <1>4

\* A step by byte does (ScanNewFile).
LEMMA RollHits ==
  ASSUME NEW of \in Seq(Int), NEW nf \in Seq(Int),
         NEW chunks, DescribesChunks(chunks, of, FullChunks(of)),
         NEW s, ScanOk(s, nf, chunks), s.mode = "roll"
  PROVE  HitsGrow(of, nf, chunks, s, ScanRoll(s, chunks))
<1> DEFINE sum3 == Update(s.summer, ByteAt(s.map, s.i))
           k      == Lookup(chunks, sum3.sum)
           start  == s.curr - Chunk + 1
           again  == IF k # 0 THEN MapFileContent(s.map, start, Chunk) ELSE s.map
           i      == IF s.i + 1 = Chunk THEN 0 ELSE s.i + 1
           mode   == IF s.i + 1 = Chunk THEN "block" ELSE "roll"
           h      == [at |-> start, chunk |-> k]
           t      == ScanRoll(s, chunks)
<1>1. IsScan(s) /\ InPlace(s, nf)
  BY DEF ScanOk
<1>2. PICK c \in Nat, L \in Nat, x \in Nat, y \in Nat :
        c = Chunk /\ L = Len(nf) /\ x = s.curr /\ y = s.i
  <2>1. Chunk \in Nat /\ Len(nf) \in Nat
    BY ChunkFacts
  <2>2. s.curr \in Nat /\ s.i \in Nat
    BY <1>1 DEF InPlace
  <2> HIDE DEF sum3, k, start, again, i, mode, h, t
  <2> QED
    BY <2>1, <2>2
<1>3. s.map \in Maps(nf) /\ y < c /\ c <= x - y /\ x - y <= L
  BY <1>1, <1>2 DEF InPlace
<1>4. \/ t = RollFound(s, sum3, again, "block", 0, Append(s.hits, h))
         /\ Found(again, chunks, k)
      \/ t = RollMissed(s, sum3, again, s.curr + 1, i, mode)
  <2>1. s = Scan(s.curr, s.i, s.mode, s.summer, s.map, s.hits)
    BY <1>1 DEF IsScan
  <2> QED
    BY <2>1 DEF ScanRoll, RollFound, RollMissed, Scan, Hit
<1>5. CASE t = RollMissed(s, sum3, again, s.curr + 1, i, mode)
  <2> HIDE DEF t, sum3, again, i, mode
  <2>1. t = Scan(s.curr + 1, i, mode, sum3, again, s.hits)
    BY <1>1, <1>5, RollMissedIs
  <2>2. t.hits = s.hits
    BY <2>1 DEF Scan
  <2> QED
    BY <2>2 DEF HitsGrow, t
<1>6. CASE t = RollFound(s, sum3, again, "block", 0, Append(s.hits, h))
           /\ Found(again, chunks, k)
  <2>1. start \in Nat /\ start <= Len(nf) /\ Chunk <= Len(nf) /\ Chunk \in Nat
    <3>1. x - c + 1 \in Nat /\ x - c + 1 <= L /\ c <= L
      BY <1>3
    <3> QED
      BY <1>2, <3>1
  <2>2. Mapped(again, nf, start, Chunk)
    <3>1. k # 0
      BY <1>6 DEF Found
    <3>2. again = MapFileContent(s.map, start, Chunk)
      BY <3>1
    <3> HIDE DEF again, start
    <3> QED
      BY <1>3, <2>1, <3>2, MappedContent
  <2> HIDE DEF t, again, start
  <2>3. k \in Nat /\ CopyFits(of, nf, chunks[k].offset, Chunk, start, start + Chunk)
    BY <1>6, <2>1, <2>2, FoundCopies
  <2> HIDE DEF k
  <2>4. HitFits(of, nf, chunks, h)
    BY <2>1, <2>3 DEF HitFits, Hits
  <2> HIDE DEF h, sum3
  <2>5. t = Scan(s.curr, 0, "block", sum3, again, Append(s.hits, h))
    BY <1>1, <1>6, RollFoundIs
  <2>6. t.hits = Append(s.hits, h)
    BY <2>5 DEF Scan
  <2> QED
    BY <2>4, <2>6 DEF HitsGrow, t
<1> QED
  BY <1>4, <1>5, <1>6

--------------------------------------------------------------------------------
(* The delta and the patch.                                                    *)

\* The bytes a literal is written with.
LEMMA LiteralReads ==
  ASSUME NEW of, NEW nf \in Seq(Int), NEW m \in Maps(nf), NEW x \in Nodes, x.from,
         x.length \in 0 .. WriteLength, NEW p \in Nat, NEW q, NodeFits(of, nf, x, p, q),
         NEW r, r = MapFileContent(m, x.offset, x.length)
  PROVE  /\ r \in Maps(nf) /\ Bytes(r, x.length) \in Seq(Int)
         /\ DataFits(nf, Bytes(r, x.length), p, q)
<1>1. WriteLength \in Nat /\ WriteLength <= MapBuffer /\ MapBuffer \in Nat
  BY DeltaAssumption, ScanAssumption
<1>2. PICK n \in Nat, L \in Nat : n = x.length /\ L = Len(nf)
  BY <1>1
<1>3. x.offset = p /\ p + n = q /\ q <= L
  BY <1>2 DEF NodeFits
<1>4. p <= L /\ n <= L /\ p + n <= L
  BY <1>2, <1>3
<1>5. n <= BufferLength(nf)
  BY <1>1, <1>2, <1>4, BufferLengthIs
<1>6. Mapped(r, nf, p, n)
  BY <1>2, <1>3, <1>4, MappedContent
<1>7. r \in Maps(nf)
  BY <1>6 DEF Mapped
<1>8. Shows(r, nf, p, n)
  BY <1>2, <1>4, <1>5, <1>6, MappedBytes
<1>9. Bytes(r, n) \in Seq(Int) /\ Len(Bytes(r, n)) = n
  BY <1>7, BytesAreSeq
<1>10. \A j \in 1 .. n : Bytes(r, n)[j] = nf[p + j]
  <2>1. ASSUME NEW j \in 1 .. n PROVE Bytes(r, n)[j] = nf[p + j]
    <3>1. j - 1 \in 0 .. n - 1 /\ p + (j - 1) + 1 = p + j
      OBVIOUS
    <3>2. ByteAt(r, j - 1) = nf[p + (j - 1) + 1]
      BY <1>8, <3>1 DEF Shows
    <3> QED
      BY <3>1, <3>2 DEF Bytes
  <2> QED
    BY <2>1
<1>11. DataFits(nf, Bytes(r, n), p, q)
  BY <1>3, <1>9, <1>10 DEF DataFits
<1> QED
  BY <1>2, <1>7, <1>9, <1>11

\* The bytes a piece is copied with.
LEMMA CopyReads ==
  ASSUME NEW of \in Seq(Int), NEW nf \in Seq(Int), NEW m \in Maps(of), NEW o,
         NEW length, NEW p \in Nat, NEW q, CopyFits(of, nf, o, length, p, q),
         NEW n \in Nat, n <= length, n <= Piece,
         NEW r, r = MapFileContent(m, o, n)
  PROVE  /\ r \in Maps(of) /\ Bytes(r, n) \in Seq(Int)
         /\ DataFits(nf, Bytes(r, n), p, p + n)
<1>1. Piece \in Nat /\ Piece <= MapBuffer /\ MapBuffer \in Nat
  BY DeltaAssumption, ScanAssumption
<1>2. PICK L \in Nat, x \in Nat, l \in Nat : L = Len(of) /\ x = o /\ l = length
  BY DEF CopyFits
<1>3. x + l <= L /\ \A j \in 1 .. l : p + j <= Len(nf) => of[x + j] = nf[p + j]
  BY <1>2 DEF CopyFits
<1>4. x <= L /\ n <= L /\ x + n <= L /\ n <= l
  BY <1>2, <1>3
<1>5. n <= BufferLength(of)
  BY <1>1, <1>2, <1>4, BufferLengthIs
<1>6. Mapped(r, of, x, n)
  BY <1>2, <1>4, MappedContent
<1>7. r \in Maps(of)
  BY <1>6 DEF Mapped
<1>8. Shows(r, of, x, n)
  BY <1>2, <1>4, <1>5, <1>6, MappedBytes
<1>9. Bytes(r, n) \in Seq(Int) /\ Len(Bytes(r, n)) = n
  BY <1>7, BytesAreSeq
<1>10. ASSUME NEW j \in 1 .. n, p + j <= Len(nf) PROVE Bytes(r, n)[j] = nf[p + j]
  <2>1. j - 1 \in 0 .. n - 1 /\ x + (j - 1) + 1 = x + j /\ j \in 1 .. l
    BY <1>4
  <2>2. ByteAt(r, j - 1) = of[x + (j - 1) + 1]
    BY <1>8, <2>1 DEF Shows
  <2>3. Bytes(r, n)[j] = ByteAt(r, j - 1)
    BY DEF Bytes
  <2> QED
    BY <1>3, <1>10, <2>1, <2>2, <2>3
<1>11. DataFits(nf, Bytes(r, n), p, p + n)
  BY <1>9, <1>10 DEF DataFits
<1> QED
  BY <1>7, <1>9, <1>11

\* One or two elements after a list.
LEMMA OneMore ==
  ASSUME NEW T, NEW list \in Seq(T), NEW x \in T
  PROVE  list \o <<x>> = Append(list, x) /\ list \o (<<>> \o <<x>>) = Append(list, x)
  OBVIOUS

\* Two elements more.
LEMMA TwoMore ==
  ASSUME NEW T, NEW list \in Seq(T), NEW x \in T, NEW y \in T
  PROVE  list \o (<<x>> \o <<y>>) = Append(Append(list, x), y)
  OBVIOUS

\* A node of the bytes from p to q.
LEMMA LiteralSpans ==
  ASSUME NEW of, NEW nf \in Seq(Int), NEW p \in Nat, NEW q \in Nat, q <= Len(nf)
  PROVE  /\ Literal(p, q - p) \in Nodes
         /\ <<Literal(p, q - p), p, q>> \in NodeSpans(of, nf)
<1>1. Literal(p, q - p) = [from |-> TRUE, offset |-> p, length |-> q - p]
  BY DEF Literal
<1>2. Literal(p, q - p) \in Nodes
  <2>1. PICK l \in Int : l = q - p
    OBVIOUS
  <2>2. Literal(p, l) \in Nodes
    BY DEF Literal, Nodes
  <2> QED
    BY <2>1, <2>2
<1>3. NodeFits(of, nf, Literal(p, q - p), p, q)
  <2>1. p + (q - p) = q
    OBVIOUS
  <2> QED
    BY <1>1, <2>1 DEF NodeFits
<1> QED
  BY <1>2, <1>3, NodeSpan

\* The node of a match.
LEMMA CopySpans ==
  ASSUME NEW of, NEW nf, NEW o, NEW length, NEW p \in Nat, NEW q \in Nat,
         CopyFits(of, nf, o, length, p, q)
  PROVE  /\ Copy(o, length) \in Nodes
         /\ <<Copy(o, length), p, q>> \in NodeSpans(of, nf)
         /\ Copy(o, length) \in Records
         /\ <<Copy(o, length), p, q>> \in EntrySpans(of, nf)
<1>1. Copy(o, length) = [from |-> FALSE, offset |-> o, length |-> length]
  BY DEF Copy
<1>2. o \in Int /\ length \in Int
  BY DEF CopyFits
<1>3. Copy(o, length) \in Nodes /\ Copy(o, length) \in Records
  BY <1>1, <1>2 DEF Nodes, Records
<1>4. NodeFits(of, nf, Copy(o, length), p, q) /\ EntryFits(of, nf, Copy(o, length), p, q)
  BY <1>1 DEF NodeFits, EntryFits
<1> QED
  BY <1>3, <1>4, NodeSpan, EntrySpan

\* A match: its nodes go on from where the others end.
LEMMA MatchCovers ==
  ASSUME NEW of \in Seq(Int), NEW nf \in Seq(Int), NEW list \in Seq(Nodes),
         NEW p \in Nat, Covers(NodeSpans(of, nf), list, 0, p),
         NEW at \in Nat, at <= Len(nf), NEW o,
         CopyFits(of, nf, o, Chunk, at, at + Chunk),
         NEW more, more = MatchNodes(p, at, o)
  PROVE  /\ list \o more \in Seq(Nodes)
         /\ Covers(NodeSpans(of, nf), list \o more, 0, at + Chunk)
<1>1. at + Chunk \in Nat
  BY ChunkFacts
<1>2. PICK R : R = NodeSpans(of, nf)
  OBVIOUS
<1>3. PICK c \in Nodes : c = Copy(o, Chunk) /\ <<c, at, at + Chunk>> \in R
  BY <1>1, <1>2, CopySpans
<1>4. CASE p # at
  <2>1. PICK l \in Nodes : l = Literal(p, at - p) /\ <<l, p, at>> \in R
    BY <1>2, LiteralSpans
  <2>2. PICK a : a = Append(list, l)
    OBVIOUS
  <2>3. a \in Seq(Nodes) /\ Covers(R, a, 0, at)
    BY <1>2, <2>1, <2>2, CoversMore
  <2>4. Append(a, c) \in Seq(Nodes) /\ Covers(R, Append(a, c), 0, at + Chunk)
    BY <1>1, <1>3, <2>3, CoversMore
  <2>5. more = <<l>> \o <<c>>
    BY <1>3, <1>4, <2>1 DEF MatchNodes
  <2>6. list \o more = Append(a, c)
    <3>1. list \o (<<l>> \o <<c>>) = Append(Append(list, l), c)
      BY TwoMore
    <3> QED
      BY <2>2, <2>5, <3>1
  <2> QED
    BY <1>2, <2>4, <2>6
<1>5. CASE p = at
  <2>1. Append(list, c) \in Seq(Nodes) /\ Covers(R, Append(list, c), 0, at + Chunk)
    BY <1>1, <1>2, <1>3, <1>5, CoversMore
  <2>2. more = <<>> \o <<c>>
    BY <1>3, <1>5 DEF MatchNodes
  <2>3. list \o more = Append(list, c)
    BY <2>2, OneMore
  <2> QED
    BY <1>2, <2>1, <2>3
<1> QED
  BY <1>4, <1>5

\* The bytes after the last match.
LEMMA RemainderCovers ==
  ASSUME NEW of \in Seq(Int), NEW nf \in Seq(Int), NEW list \in Seq(Nodes),
         NEW p \in Nat, p <= Len(nf) + Chunk, Covers(NodeSpans(of, nf), list, 0, p),
         NEW more, more = IF p < Len(nf) THEN <<Literal(p, Len(nf) - p)>> ELSE <<>>
  PROVE  /\ list \o more \in Seq(Nodes)
         /\ \E q \in Nat : Covers(NodeSpans(of, nf), list \o more, 0, q) /\ Reach(nf, q)
<1>1. PICK L \in Nat, c \in Nat : L = Len(nf) /\ c = Chunk
  BY ChunkFacts
<1>2. CASE p < L
  <2>1. PICK l \in Nodes : l = Literal(p, L - p) /\ <<l, p, L>> \in NodeSpans(of, nf)
    <3>1. p \in Nat /\ L <= Len(nf)
      BY <1>1
    <3> QED
      BY <3>1, LiteralSpans
  <2>2. /\ Append(list, l) \in Seq(Nodes)
        /\ Covers(NodeSpans(of, nf), Append(list, l), 0, L)
    BY <2>1, CoversMore
  <2>3. more = <<l>>
    BY <1>1, <1>2, <2>1
  <2>4. list \o more = Append(list, l)
    BY <2>3, OneMore
  <2>5. Reach(nf, L)
    BY <1>1 DEF Reach
  <2> QED
    BY <2>2, <2>4, <2>5
<1>3. CASE ~(p < L)
  <2>1. more = <<>>
    BY <1>1, <1>3
  <2>2. list \o more = list
    BY <2>1
  <2>3. Reach(nf, p)
    BY <1>1, <1>3 DEF Reach
  <2> QED
    BY <2>2, <2>3
<1> QED
  BY <1>2, <1>3

--------------------------------------------------------------------------------
(* The program, from the matches to the result.                                *)

\* It holds at the start.
LEMMA ListInvStarts == ASSUME Init PROVE ListInv
<1>1. old \in Seq(Int) /\ new \in Seq(Int) /\ nodes = <<>> /\ covered = 0 /\ stage = "sig"
  BY DeltaAssumption DEF Init
<1>2. nodes \in Seq(Nodes) /\ covered \in Nat /\ covered <= Len(new) + Chunk
  BY <1>1, ChunkFacts
<1>3. Covers(NodeSpans(old, new), nodes, 0, covered)
  BY <1>1, CoversNothing
<1> QED
  BY <1>1, <1>2, <1>3 DEF ListInv, ScanList, HitList, DeltaList, OpenList, PatchList,
                          DoneList

\* GenerateSigFile keeps it.
LEMMA SigKeepsLists ==
  ASSUME ScanInv, ListInv, GenerateSigFile PROVE ListInv'
<1>1. /\ stage = "sig" /\ stage' = "scan" /\ old' = old /\ new' = new
      /\ nodes' = nodes /\ covered' = covered /\ scan' = StartScan(new, heap)
  BY DEF GenerateSigFile
<1>2. ScanList'
  BY <1>1 DEF ListInv, ScanList
<1>3. HitList'
  <2>1. scan'.hits = <<>>
    BY <1>1 DEF StartScan
  <2> QED
    BY <2>1 DEF HitList
<1> QED
  BY <1>1, <1>2, <1>3 DEF ListInv, DeltaList, OpenList, PatchList, DoneList

\* A step adds a match that fits, or none.
LEMMA StepHits ==
  ASSUME ScanInv, stage = "scan"
  PROVE  HitsGrow(old, new, meta, scan, ScanStep(scan, meta))
<1>1. /\ ScanOk(scan, new, meta) /\ new \in Seq(Int) /\ old \in Seq(Int)
      /\ DescribesChunks(meta, old, FullChunks(old))
  BY DEF ScanInv, RunOk, Files, SigOk
<1>2. CASE scan.mode = "roll"
  BY <1>1, <1>2, RollHits DEF ScanStep
<1>3. CASE scan.mode # "roll"
  BY <1>1, <1>3, BlockHits DEF ScanStep
<1> QED
  BY <1>2, <1>3

\* A step of the scan keeps it: a match is added where the last one ended.
LEMMA ScanKeepsLists ==
  ASSUME ScanInv, ListInv, ScanNewFile PROVE ListInv'
<1>1. /\ stage = "scan" /\ stage' = "scan" /\ old' = old /\ new' = new
      /\ scan' = ScanStep(scan, meta)
  BY DEF ScanNewFile
<1>2. old \in Seq(Int) /\ new \in Seq(Int)
  BY DEF ScanInv, Files
<1>3. /\ nodes \in Seq(Nodes) /\ covered \in Nat /\ covered <= Len(new) + Chunk
      /\ Covers(NodeSpans(old, new), nodes, 0, covered) /\ scan.hits \in Seq(Hits)
  BY <1>1 DEF ListInv, ScanList, HitList
<1>4. HitsGrow(old, new, meta, scan, scan')
  BY <1>1, StepHits
<1>5. ScanList' /\ HitList'
  <2>1. CASE scan'.hits = scan.hits
    <3>1. nodes' = nodes /\ covered' = covered
      BY <2>1 DEF ScanNewFile
    <3> QED
      BY <1>1, <1>3, <2>1, <3>1 DEF ScanList, HitList
  <2>2. CASE scan'.hits # scan.hits
    <3>1. PICK h : HitFits(old, new, meta, h) /\ scan'.hits = Append(scan.hits, h)
      BY <1>4, <2>2 DEF HitsGrow
    <3>2. /\ h \in Hits /\ h.at \in Nat /\ h.at <= Len(new)
          /\ CopyFits(old, new, meta[h.chunk].offset, Chunk, h.at, h.at + Chunk)
      BY <3>1 DEF HitFits, Hits
    <3>3. scan'.hits \in Seq(Hits) /\ Last(scan'.hits) = h
      BY <1>3, <3>1, <3>2 DEF Last
    <3>4. nodes' = nodes \o Matched(h) /\ covered' = h.at + Chunk
      BY <2>2, <3>3 DEF ScanNewFile
    <3>5. /\ nodes' \in Seq(Nodes)
          /\ Covers(NodeSpans(old, new), nodes', 0, h.at + Chunk)
      <4>1. PICK at \in Nat : at = h.at
        BY <3>2
      <4>2. PICK o, more : o = meta[h.chunk].offset /\ more = Matched(h)
        OBVIOUS
      <4>3. more = MatchNodes(covered, at, o)
        BY <4>1, <4>2 DEF Matched, MatchNodes
      <4>4. at <= Len(new) /\ CopyFits(old, new, o, Chunk, at, at + Chunk)
        BY <3>2, <4>1, <4>2
      <4>5. /\ nodes \o more \in Seq(Nodes)
            /\ Covers(NodeSpans(old, new), nodes \o more, 0, at + Chunk)
        BY <1>2, <1>3, <4>3, <4>4, MatchCovers
      <4> QED
        BY <3>4, <4>1, <4>2, <4>5
    <3>6. h.at + Chunk \in Nat /\ h.at + Chunk <= Len(new) + Chunk
      BY <1>2, <3>2, ChunkFacts
    <3> QED
      BY <1>1, <3>3, <3>4, <3>5, <3>6 DEF ScanList, HitList
  <2> QED
    BY <2>1, <2>2
<1> QED
  BY <1>1, <1>5 DEF ListInv, DeltaList, OpenList, PatchList, DoneList

\* The end of the scan keeps it: the bytes left are added.
LEMMA ScanDoneKeepsLists ==
  ASSUME ScanInv, ListInv, ScanDone PROVE ListInv'
<1>1. /\ stage = "scan" /\ old' = old /\ new' = new /\ reader' = FileMap(new, heap)
      /\ stage' = IF Len(new) < Chunk THEN "open" ELSE "delta"
  BY DEF ScanDone
<1>2. old \in Seq(Int) /\ new \in Seq(Int) /\ heap \in Nat /\ ~Overruns(new, heap)
  BY <1>1 DEF ScanInv, Files
<1>3. PICK L \in Nat, c \in Nat : L = Len(new) /\ c = Chunk
  BY <1>2, ChunkFacts
<1>4. CASE L < c
  <2>1. stage' = "open" /\ ~(Len(new) >= Chunk)
    BY <1>1, <1>3, <1>4
  <2> QED
    BY <1>1, <2>1 DEF ListInv, ScanList, HitList, DeltaList, OpenList, PatchList,
                      DoneList
<1>5. CASE ~(L < c)
  <2>1. stage' = "delta" /\ nodes' = nodes \o Remainder /\ delta' = <<>>
        /\ Len(new) >= Chunk
    BY <1>3, <1>5 DEF ScanDone
  <2>2. reader' \in Maps(new)
    BY <1>1, <1>2, FileMapStays
  <2>3. /\ nodes \in Seq(Nodes) /\ covered \in Nat /\ covered <= Len(new) + Chunk
        /\ Covers(NodeSpans(old, new), nodes, 0, covered)
    BY <1>1 DEF ListInv, ScanList
  <2>4. nodes' \in Seq(Nodes)
        /\ \E q \in Nat : Covers(NodeSpans(old, new), nodes', 0, q) /\ Reach(new, q)
    BY <1>2, <2>1, <2>3, RemainderCovers DEF Remainder
  <2>5. Covers(EntrySpans(old, new), delta', 0, 0) /\ delta' \in Seq(Records)
    BY <2>1, CoversNothing
  <2>6. DeltaList'
    BY <1>1, <2>1, <2>2, <2>4, <2>5 DEF DeltaList
  <2> QED
    BY <2>1, <2>6 DEF ListInv, ScanList, HitList, OpenList, PatchList, DoneList
<1> QED
  BY <1>4, <1>5

\* The entry of a literal.
LEMMA DataSpans ==
  ASSUME NEW of, NEW nf, NEW data \in Seq(Int), NEW p \in Nat, NEW q \in Nat,
         DataFits(nf, data, p, q)
  PROVE  /\ [from |-> TRUE, data |-> data] \in Records
         /\ <<[from |-> TRUE, data |-> data], p, q>> \in EntrySpans(of, nf)
<1>1. PICK e : e = [from |-> TRUE, data |-> data]
  OBVIOUS
<1>2. e \in Records
  BY <1>1 DEF Records
<1>3. EntryFits(of, nf, e, p, q)
  BY <1>1 DEF EntryFits
<1> QED
  BY <1>1, <1>2, <1>3, EntrySpan

\* Writing a node keeps it: the first node becomes the last entry.
LEMMA WriteKeepsLists ==
  ASSUME ScanInv, ListInv, WriteNode PROVE ListInv'
<1>1. /\ stage = "delta" /\ nodes # <<>> /\ old' = old /\ new' = new
      /\ old \in Seq(Int) /\ new \in Seq(Int)
  BY DEF WriteNode, ScanInv, Files
<1>2. /\ Len(new) >= Chunk /\ reader \in Maps(new)
      /\ nodes \in Seq(Nodes) /\ delta \in Seq(Records)
  BY <1>1 DEF ListInv, DeltaList
<1>3. PICK p \in Nat, q \in Nat :
        /\ Covers(EntrySpans(old, new), delta, 0, p)
        /\ Covers(NodeSpans(old, new), nodes, p, q) /\ Reach(new, q)
  BY <1>1 DEF ListInv, DeltaList
<1>4. PICK x, rest : x = Head(nodes) /\ rest = Tail(nodes)
  OBVIOUS
<1>5. x \in Nodes /\ rest \in Seq(Nodes) /\ Parts(NodeSpans(old, new), x, rest, p, q)
  BY <1>1, <1>2, <1>3, <1>4, CoversParts
<1>6. PICK r \in Nat : /\ <<x, p, r>> \in NodeSpans(old, new)
                       /\ Covers(NodeSpans(old, new), rest, r, q)
  BY <1>5 DEF Parts
<1>7. NodeFits(old, new, x, p, r)
  BY <1>6, NodeSpan
<1>8. CASE x.from /\ x.length \notin 0 .. WriteLength
  <2>1. stage' = "crashed"
    BY <1>4, <1>8 DEF WriteNode
  <2> QED
    BY <2>1 DEF ListInv, ScanList, HitList, DeltaList, OpenList, PatchList, DoneList
<1>9. CASE ~(x.from /\ x.length \notin 0 .. WriteLength)
  <2>1. stage' = "delta" /\ nodes' = rest
    BY <1>1, <1>4, <1>9 DEF WriteNode
  <2>2. /\ reader' \in Maps(new) /\ delta' \in Seq(Records)
        /\ Covers(EntrySpans(old, new), delta', 0, r)
    <3>1. CASE x.from
      <4>1. PICK m, data : /\ m = MapFileContent(reader, x.offset, x.length)
                           /\ data = Bytes(m, x.length)
        OBVIOUS
      <4>2. reader' = m /\ delta' = Append(delta, [from |-> TRUE, data |-> data])
        BY <1>4, <1>9, <3>1, <4>1 DEF WriteNode
      <4>3. m \in Maps(new) /\ data \in Seq(Int) /\ DataFits(new, data, p, r)
        BY <1>1, <1>2, <1>5, <1>7, <1>9, <3>1, <4>1, LiteralReads
      <4>4. PICK e \in Records : /\ e = [from |-> TRUE, data |-> data]
                                 /\ <<e, p, r>> \in EntrySpans(old, new)
        BY <4>3, DataSpans
      <4> QED
        BY <1>2, <1>3, <4>2, <4>3, <4>4, CoversMore
    <3>2. CASE ~x.from
      <4>1. reader' = reader /\ delta' = Append(delta, x)
        BY <1>4, <1>9, <3>2 DEF WriteNode
      <4>2. CopyFits(old, new, x.offset, x.length, p, r)
        BY <1>7, <3>2 DEF NodeFits
      <4>3. x = Copy(x.offset, x.length)
        BY <1>5, <3>2 DEF Nodes, Copy
      <4>4. x \in Records /\ <<x, p, r>> \in EntrySpans(old, new)
        BY <4>2, <4>3, CopySpans
      <4> QED
        BY <1>2, <1>3, <4>1, <4>4, CoversMore
    <3> QED
      BY <3>1, <3>2
  <2>3. DeltaList'
    BY <1>1, <1>2, <1>3, <1>5, <1>6, <2>1, <2>2 DEF DeltaList
  <2> QED
    BY <2>1, <2>3 DEF ListInv, ScanList, HitList, OpenList, PatchList, DoneList
<1> QED
  BY <1>8, <1>9

\* The end of the delta keeps it.
LEMMA DeltaDoneKeepsLists ==
  ASSUME ListInv, DeltaDone PROVE ListInv'
<1>1. /\ stage = "delta" /\ nodes = <<>> /\ stage' = "open" /\ old' = old
      /\ new' = new /\ delta' = delta
  BY DEF DeltaDone
<1>2. delta \in Seq(Records)
  BY <1>1 DEF ListInv, DeltaList
<1>3. PICK p \in Nat, q \in Nat :
        /\ Covers(EntrySpans(old, new), delta, 0, p)
        /\ Covers(NodeSpans(old, new), nodes, p, q) /\ Reach(new, q)
  BY <1>1 DEF ListInv, DeltaList
<1>4. p = q
  BY <1>1, <1>3, CoveredNothing
<1>5. OpenList'
  BY <1>1, <1>2, <1>3, <1>4 DEF OpenList
<1> QED
  BY <1>1, <1>5 DEF ListInv, ScanList, HitList, DeltaList, PatchList, DoneList

\* Opening the delta keeps it: the entries are the nodes to be patched.
LEMMA OpenKeepsLists ==
  ASSUME ScanInv, ListInv, OpenDelta PROVE ListInv'
<1>1. stage = "open" /\ old' = old /\ new' = new
  BY DEF OpenDelta
<1>2. CASE delta = NoFile
  <2>1. stage' = "crashed"
    BY <1>2 DEF OpenDelta
  <2> QED
    BY <2>1 DEF ListInv, ScanList, HitList, DeltaList, OpenList, PatchList, DoneList
<1>3. CASE delta # NoFile
  <2>1. /\ stage' = "patch" /\ nodes' = delta /\ reader' = FileMap(old, heap)
        /\ writer' = [file |-> <<>>, buffer |-> <<>>]
    BY <1>3 DEF OpenDelta
  <2>2. ASSUME Len(new) >= Chunk
        PROVE  /\ reader' \in Maps(old) /\ nodes' \in Seq(Records)
               /\ writer' \in Writers /\ Matches(Written(writer'), new)
               /\ \E q \in Nat :
                    /\ Covers(EntrySpans(old, new), nodes', Len(Written(writer')), q)
                    /\ Reach(new, q)
    <3>1. reader' \in Maps(old)
      BY <1>1, <2>1, FileMapStays DEF ScanInv, Files
    <3>2. /\ nodes' \in Seq(Records)
          /\ \E q \in Nat : Covers(EntrySpans(old, new), nodes', 0, q) /\ Reach(new, q)
      BY <1>1, <2>1, <2>2 DEF ListInv, OpenList
    <3>3. writer' \in Writers /\ Written(writer') = <<>>
      BY <2>1 DEF Writers, Written
    <3>4. Matches(<<>>, new) /\ Len(<<>>) = 0
      BY DEF Matches
    <3> QED
      BY <3>1, <3>2, <3>3, <3>4
  <2>3. PatchList'
    BY <1>1, <2>1, <2>2 DEF PatchList
  <2> QED
    BY <2>1, <2>3 DEF ListInv, ScanList, HitList, DeltaList, OpenList, DoneList
<1> QED
  BY <1>2, <1>3

\* A piece keeps it: what is left of the node leads on from the end of the piece.
LEMMA PieceKeepsLists ==
  ASSUME ScanInv, ListInv, PatchPiece PROVE ListInv'
<1>1. /\ stage = "patch" /\ nodes # <<>> /\ stage' = "patch" /\ old' = old
      /\ new' = new /\ old \in Seq(Int) /\ new \in Seq(Int)
  BY DEF PatchPiece, ScanInv, Files
<1>2. ASSUME Len(new) >= Chunk
      PROVE  /\ reader' \in Maps(old) /\ nodes' \in Seq(Records)
             /\ writer' \in Writers /\ Matches(Written(writer'), new)
             /\ \E q \in Nat :
                  /\ Covers(EntrySpans(old, new), nodes', Len(Written(writer')), q)
                  /\ Reach(new, q)
  <2>1. /\ reader \in Maps(old) /\ nodes \in Seq(Records)
        /\ writer \in Writers /\ Matches(Written(writer), new)
    BY <1>1, <1>2 DEF ListInv, PatchList
  <2>2. PICK R : R = EntrySpans(old, new)
    OBVIOUS
  <2>3. PICK q \in Nat : Covers(R, nodes, Len(Written(writer)), q) /\ Reach(new, q)
    BY <1>1, <1>2, <2>2 DEF ListInv, PatchList
  <2>4. PICK p \in Nat : p = Len(Written(writer))
    BY <2>1 DEF Matches
  <2>5. PICK x, rest : x = Head(nodes) /\ rest = Tail(nodes)
    OBVIOUS
  <2>6. x \in Records /\ rest \in Seq(Records) /\ Parts(R, x, rest, p, q)
    BY <1>1, <2>1, <2>3, <2>4, <2>5, CoversParts
  <2>7. PICK r \in Nat : <<x, p, r>> \in R /\ Covers(R, rest, r, q)
    BY <2>6 DEF Parts
  <2>8. EntryFits(old, new, x, p, r)
    BY <2>2, <2>7, EntrySpan
  <2>9. PICK size \in Nat : size = Size(x) /\ r = p + size
    <3>1. CASE x.from
      <4>1. x.data \in Seq(Int)
        BY <2>6, <3>1 DEF Records
      <4> QED
        BY <2>8, <3>1, <4>1 DEF EntryFits, DataFits, Size
    <3>2. CASE ~x.from
      BY <2>8, <3>2 DEF EntryFits, CopyFits, Size
    <3> QED
      BY <3>1, <3>2
  <2>10. PICK n \in Nat : n = Min({Piece, Size(x)}) /\ n <= Piece /\ n <= size
    <3>1. Piece \in Int /\ Piece \in Nat /\ Size(x) \in Int
      BY <2>9, DeltaAssumption
    <3>2. Min({Piece, Size(x)}) = IF Piece <= Size(x) THEN Piece ELSE Size(x)
      BY <3>1, MinIs
    <3> QED
      BY <2>9, <3>1, <3>2
  <2>11. /\ IF x.from THEN LiteralPiece(x, n) ELSE CopyPiece(x, n)
         /\ nodes' = (IF n = size THEN <<>> ELSE <<RestOf(x, n)>>) \o rest
    BY <2>5, <2>9, <2>10 DEF PatchPiece
  <2>12. PICK data \in Seq(Int) :
           /\ writer' = AppendData(writer, data) /\ DataFits(new, data, p, p + n)
           /\ reader' \in Maps(old)
           /\ RestOf(x, n) \in Records /\ <<RestOf(x, n), p + n, r>> \in R
    <3>1. CASE x.from
      <4>1. PICK d \in Seq(Int) : d = x.data /\ DataFits(new, d, p, r) /\ Len(d) = size
        <5>1. x.data \in Seq(Int)
          BY <2>6, <3>1 DEF Records
        <5> QED
          BY <2>8, <2>9, <3>1, <5>1 DEF EntryFits, Size
      <4>2. PICK a, b : a = SubSeq(d, 1, n) /\ b = SubSeq(d, n + 1, Len(d))
        OBVIOUS
      <4>3. /\ a \in Seq(Int) /\ DataFits(new, a, p, p + n)
            /\ b \in Seq(Int) /\ DataFits(new, b, p + n, r)
        BY <1>1, <2>10, <4>1, <4>2, DataIsCut
      <4>4. writer' = AppendData(writer, a) /\ reader' = reader
        BY <2>11, <3>1, <4>1, <4>2 DEF LiteralPiece
      <4>5. RestOf(x, n) = [from |-> TRUE, data |-> b]
        BY <3>1, <4>1, <4>2 DEF RestOf
      <4>6. RestOf(x, n) \in Records /\ <<RestOf(x, n), p + n, r>> \in R
        BY <2>2, <4>3, <4>5, DataSpans
      <4> QED
        BY <2>1, <4>3, <4>4, <4>6
    <3>2. CASE ~x.from
      <4>1. CopyFits(old, new, x.offset, x.length, p, r) /\ x.length = size
        BY <2>8, <2>9, <3>2 DEF EntryFits, Size
      <4>2. PICK m, a : m = MapFileContent(reader, x.offset, n) /\ a = Bytes(m, n)
        OBVIOUS
      <4>3. m \in Maps(old) /\ a \in Seq(Int) /\ DataFits(new, a, p, p + n)
        BY <1>1, <2>1, <2>10, <4>1, <4>2, CopyReads
      <4>4. writer' = AppendData(writer, a) /\ reader' = m
        BY <2>11, <3>2, <4>2 DEF CopyPiece
      <4>5. CopyFits(old, new, x.offset + n, x.length - n, p + n, r)
        BY <1>1, <2>10, <4>1, CopyIsCut
      <4>6. RestOf(x, n) = Copy(x.offset + n, x.length - n)
        BY <3>2 DEF RestOf
      <4>7. RestOf(x, n) \in Records /\ <<RestOf(x, n), p + n, r>> \in R
        <5>1. PICK o, l : o = x.offset + n /\ l = x.length - n
          OBVIOUS
        <5>2. PICK e \in Nat : e = p + n
          OBVIOUS
        <5>3. CopyFits(old, new, o, l, e, r)
          BY <4>5, <5>1, <5>2
        <5>4. Copy(o, l) \in Records /\ <<Copy(o, l), e, r>> \in R
          BY <2>2, <5>3, CopySpans
        <5> QED
          BY <4>6, <5>1, <5>2, <5>4
      <4> QED
        BY <4>3, <4>4, <4>7
    <3> QED
      BY <3>1, <3>2
  <2>13. writer' \in Writers /\ Written(writer') = Written(writer) \o data
    BY <2>1, <2>12, AppendDataWrites
  <2>14. Matches(Written(writer'), new) /\ Len(Written(writer')) = p + n
    BY <1>1, <2>1, <2>4, <2>12, <2>13, MatchesMore
  <2>15. nodes' \in Seq(Records) /\ Covers(R, nodes', p + n, q)
    <3>1. CASE n = size
      <4>1. nodes' = rest
        BY <2>6, <2>11, <3>1
      <4> QED
        BY <2>6, <2>7, <2>9, <3>1, <4>1
    <3>2. CASE n # size
      <4>1. PICK y \in Records : y = RestOf(x, n) /\ <<y, p + n, r>> \in R
        BY <2>12
      <4>2. nodes' = <<y>> \o rest
        BY <2>11, <3>2, <4>1
      <4> QED
        BY <2>6, <2>7, <4>1, <4>2, CoversInFront
    <3> QED
      BY <3>1, <3>2
  <2> QED
    BY <2>2, <2>3, <2>12, <2>13, <2>14, <2>15
<1>3. PatchList'
  BY <1>1, <1>2 DEF PatchList
<1> QED
  BY <1>1, <1>3 DEF ListInv, ScanList, HitList, DeltaList, OpenList, DoneList

\* The end of the patch keeps it: the last flush writes what is in the buffer.
LEMMA PatchDoneKeepsLists ==
  ASSUME ListInv, PatchDone PROVE ListInv'
<1>1. /\ stage = "patch" /\ nodes = <<>> /\ stage' = "done" /\ old' = old
      /\ new' = new /\ writer' = Flush(writer)
  BY DEF PatchDone
<1>2. ASSUME Len(new) >= Chunk
      PROVE  Matches(writer'.file, new) /\ Reach(new, Len(writer'.file))
  <2>1. writer \in Writers /\ Matches(Written(writer), new)
    BY <1>1, <1>2 DEF ListInv, PatchList
  <2>2. PICK q \in Nat :
          /\ Covers(EntrySpans(old, new), nodes, Len(Written(writer)), q)
          /\ Reach(new, q)
    BY <1>1, <1>2 DEF ListInv, PatchList
  <2>3. q = Len(Written(writer))
    BY <1>1, <2>2, CoveredNothing
  <2>4. writer'.file = Written(writer)
    BY <1>1, <2>1, FlushWrites
  <2> QED
    BY <2>1, <2>2, <2>3, <2>4
<1>3. DoneList'
  BY <1>1, <1>2 DEF DoneList, Result
<1> QED
  BY <1>1, <1>3 DEF ListInv, ScanList, HitList, DeltaList, OpenList, PatchList

\* A run that overran its buffer has no lists to speak of.
LEMMA OverrunKeepsLists == ASSUME OverrunBuffer PROVE ListInv'
<1>1. stage' = "overrun"
  BY DEF OverrunBuffer
<1> QED
  BY <1>1 DEF ListInv, ScanList, HitList, DeltaList, OpenList, PatchList, DoneList

\* The invariant: of the nodes, the delta and the writer.
LEMMA ListInvHolds == Spec => []ListInv
<1>1. Init => ListInv
  BY ListInvStarts
<1>2. ScanInv /\ ListInv /\ [Next]_vars => ListInv'
  <2> SUFFICES ASSUME ScanInv, ListInv, [Next]_vars PROVE ListInv'
    OBVIOUS
  <2>1. CASE UNCHANGED vars
    <3>1. /\ stage' = stage /\ old' = old /\ new' = new /\ nodes' = nodes
          /\ covered' = covered /\ scan' = scan /\ reader' = reader
          /\ delta' = delta /\ writer' = writer
      BY <2>1 DEF vars
    <3>2. ScanList' /\ HitList'
      BY <3>1 DEF ListInv, ScanList, HitList
    <3>3. DeltaList' /\ OpenList'
      BY <3>1 DEF ListInv, DeltaList, OpenList
    <3>4. PatchList' /\ DoneList'
      BY <3>1 DEF ListInv, PatchList, DoneList, Result
    <3> QED
      BY <3>2, <3>3, <3>4 DEF ListInv
  <2>2. CASE Next
    BY <2>2, OverrunKeepsLists, SigKeepsLists, ScanKeepsLists, ScanDoneKeepsLists,
       WriteKeepsLists, DeltaDoneKeepsLists, OpenKeepsLists, PieceKeepsLists,
       PatchDoneKeepsLists DEF Next
  <2> QED
    BY <2>1, <2>2
<1> QED
  BY <1>1, <1>2, ScanInvHolds, PTL DEF Spec

\* What main writes last starts with the new file and goes on for at most a chunk,
\* whatever the weak sums, the heap and the buffers did (PatchFile).
THEOREM PatchRebuilds == Spec => []Rebuilds
<1>1. ASSUME ScanInv, ListInv, stage = "done", Len(new) >= Chunk
      PROVE  IsPrefix(new, Result) /\ Len(Result) <= Len(new) + Chunk
  <2>1. Matches(Result, new) /\ Reach(new, Len(Result)) /\ new \in Seq(Int)
    BY <1>1 DEF ListInv, DoneList, ScanInv, Files
  <2>2. PICK r \in Seq(Int), n \in Nat, L \in Nat :
          r = Result /\ n = Len(r) /\ L = Len(new)
    BY <2>1 DEF Matches
  <2>3. L <= n /\ n <= L + Chunk /\ \A j \in 1 .. n : j <= L => r[j] = new[j]
    BY <2>1, <2>2 DEF Matches, Reach
  <2>4. PICK a \in Seq(Int), b \in Seq(Int) :
          /\ a = SubSeq(new, 1, L) /\ b = SubSeq(r, 1, L) /\ Len(a) = L /\ Len(b) = L
          /\ \A j \in 1 .. L : a[j] = new[j] /\ b[j] = r[j]
    <3>1. SubSeq(new, 1, L) \in Seq(Int) /\ Len(SubSeq(new, 1, L)) = L
      BY <2>1, <2>2, SubSeqProperties
    <3>2. \A j \in 1 .. L : SubSeq(new, 1, L)[j] = new[j]
      BY <2>1, <2>2
    <3>3. \A j \in 1 .. L : j \in 1 .. Len(r)
      BY <2>2, <2>3
    <3>4. SubSeq(r, 1, L) \in Seq(Int) /\ Len(SubSeq(r, 1, L)) = L
      BY <2>2, <3>3, SubSeqProperties
    <3>5. \A j \in 1 .. L : SubSeq(r, 1, L)[j] = r[j]
      BY <2>2, <2>3
    <3> QED
      BY <3>1, <3>2, <3>4, <3>5
  <2>5. \A j \in 1 .. L : a[j] = b[j]
    BY <2>3, <2>4
  <2>6. a = b
    BY <2>4, <2>5, SeqEqual
  <2> QED
    BY <2>2, <2>3, <2>4, <2>6 DEF IsPrefix
<1>2. ScanInv /\ ListInv => Rebuilds
  BY <1>1 DEF Rebuilds
<1> QED
  BY <1>2, ScanInvHolds, ListInvHolds, PTL

--------------------------------------------------------------------------------
(* A file that has not changed.                                                *)

\* The chunk that begins at k * c is a full one, if it ends inside the file.
LEMMA NextChunk ==
  ASSUME NEW file \in Seq(Int), NEW k \in Nat, k * Chunk + Chunk <= Len(file)
  PROVE  k + 1 \in 1 .. FullChunks(file)
<1>1. PICK c \in Nat \ {0}, L \in Nat : c = Chunk /\ L = Len(file)
  <2>1. PICK L \in Nat : L = Len(file)
    OBVIOUS
  <2>2. PICK c \in Nat \ {0} : c = Chunk
    BY ChunkFacts
  <2> QED
    BY <2>1, <2>2
<1>2. PICK n \in Int, rest \in Int : n = L \div c /\ L = c * n + rest /\ 0 <= rest /\ rest < c
  <2>1. L = c * (L \div c) + (L % c)
    BY <1>1, DivMod
  <2>2. L \div c \in Int /\ L % c \in Int /\ 0 <= L % c /\ L % c < c
    BY <1>1
  <2> QED
    BY <2>1, <2>2
<1>3. SUFFICES k + 1 <= n
  BY <1>1, <1>2 DEF FullChunks
<1>4. SUFFICES ASSUME k >= n PROVE FALSE
  BY <1>2
<1>5. PICK d \in Nat : k = n + d
  <2>1. k - n \in Nat /\ k = n + (k - n)
    BY <1>2, <1>4
  <2> QED
    BY <2>1
<1>6. PICK x \in Int, y \in Nat : x = c * n /\ y = d * c
  BY <1>1
<1>7. k * c = x + y
  <2>1. (n + d) * c = c * n + d * c
    BY <1>1
  <2> QED
    BY <1>5, <1>6, <2>1
<1>8. x + y + c <= L
  BY <1>1, <1>7
<1> QED
  BY <1>2, <1>6, <1>8

\* What follows the last full chunk.
LEMMA LastPart ==
  ASSUME NEW L \in Nat, NEW c \in Nat \ {0}, NEW k \in Nat, k * c <= L, L < k * c + c
  PROVE  L - k * c = L % c
<1>1. PICK n \in Int, rest \in Int : /\ n = L \div c /\ rest = L % c
                                     /\ L = c * n + rest /\ 0 <= rest /\ rest < c
  <2>1. L = c * (L \div c) + (L % c)
    BY DivMod
  <2>2. L \div c \in Int /\ L % c \in Int /\ 0 <= L % c /\ L % c < c
    OBVIOUS
  <2> QED
    BY <2>1, <2>2
<1>2. PICK x \in Nat, y \in Int : x = k * c /\ y = c * n
  OBVIOUS
<1>3. x <= L /\ L < x + c /\ L = y + rest
  BY <1>1, <1>2
<1>4. k = n
  <2>1. ASSUME k < n PROVE FALSE
    <3>1. PICK d \in Nat : n = k + d + 1
      <4>1. n - k - 1 \in Nat /\ n = k + (n - k - 1) + 1
        BY <2>1
      <4> QED
        BY <4>1
    <3>2. PICK z \in Nat : z = d * c
      OBVIOUS
    <3>3. y = x + z + c
      <4>1. c * (k + d + 1) = k * c + d * c + c
        OBVIOUS
      <4> QED
        BY <1>2, <3>1, <3>2, <4>1
    <3> QED
      BY <1>1, <1>3, <3>2, <3>3
  <2>2. ASSUME n < k PROVE FALSE
    <3>1. PICK d \in Nat : k = n + d + 1
      <4>1. k - n - 1 \in Nat /\ k = n + (k - n - 1) + 1
        BY <2>2
      <4> QED
        BY <4>1
    <3>2. PICK z \in Nat : z = d * c
      OBVIOUS
    <3>3. x = y + z + c
      <4>1. (n + d + 1) * c = c * n + d * c + c
        OBVIOUS
      <4> QED
        BY <1>2, <3>1, <3>2, <4>1
    <3> QED
      BY <1>1, <1>3, <3>2, <3>3
  <2> QED
    BY <1>1, <2>1, <2>2
<1>5. x = y
  BY <1>2, <1>4
<1>6. L - x = rest
  BY <1>1, <1>3, <1>5
<1> QED
  BY <1>1, <1>2, <1>6

\* A weak sum that a chunk has is looked up.
LEMMA LookupFinds ==
  ASSUME NEW chunks, NEW N \in Nat, DOMAIN chunks \subseteq 1 .. N,
         NEW j \in DOMAIN chunks
  PROVE  Lookup(chunks, chunks[j].weak) # 0
<1>1. PICK s : s = {0} \cup {k \in DOMAIN chunks : chunks[k].weak = chunks[j].weak}
  OBVIOUS
<1>2. s \in SUBSET (0 .. N) /\ j \in s
  BY <1>1
<1>3. Max(s) \in s /\ j <= Max(s) /\ j \in 1 .. N
  BY <1>2, BoundedMax
<1>4. Max(s) # 0
  BY <1>2, <1>3
<1> QED
  BY <1>1, <1>4 DEF Lookup

\* A step of the scan of a file over its own chunks.
Along(s, t, size) ==
  IF s.curr + Chunk > size
    THEN t.mode = "done" /\ t.curr = s.curr /\ t.hits = s.hits
    ELSE /\ t.mode = s.mode /\ t.curr = s.curr + Chunk
         /\ \E k : t.hits = Append(s.hits, [at |-> s.curr, chunk |-> k])

\* It finds the next chunk.
LEMMA BlockAlong ==
  ASSUME NEW file \in Seq(Int),
         NEW chunks, DescribesChunks(chunks, file, FullChunks(file)),
         Told(file, chunks),
         NEW s, ScanOk(s, file, chunks), s.mode # "roll",
         NEW n \in Nat, s.curr = n * Chunk
  PROVE  Along(s, ScanBlock(s, chunks), Len(file))
<1> DEFINE first  == MapFileContent(s.map, s.curr, Chunk)
           sum3 == SummerInit(s.summer, Bytes(first, Chunk))
           pos   == s.curr + Chunk
           k      == Lookup(chunks, sum3.sum)
           again  == IF k # 0 THEN MapFileContent(first, pos - Chunk, Chunk)
                              ELSE first
           h      == [at |-> pos - Chunk, chunk |-> k]
           t      == ScanBlock(s, chunks)
<1>1. IsScan(s) /\ InPlace(s, file) /\ s.summer.ring \in AllRings(Int)
  BY DEF ScanOk, InSum
<1>2. /\ s.curr \in Nat /\ s.map \in Maps(file) /\ s.map.file = file
      /\ Chunk \in Nat \ {0}
  BY <1>1, ChunkFacts DEF InPlace, Maps
<1>3. CASE s.curr + Chunk > Len(file)
  <2>1. t = [s EXCEPT !.mode = "done"]
    BY <1>2, <1>3 DEF ScanBlock
  <2>2. t = Scan(s.curr, s.i, "done", s.summer, s.map, s.hits)
    BY <1>1, <2>1 DEF IsScan, Scan
  <2>3. t.mode = "done" /\ t.curr = s.curr /\ t.hits = s.hits
    BY <2>2 DEF Scan
  <2> QED
    BY <1>3, <2>3 DEF Along
<1>4. CASE ~(s.curr + Chunk > Len(file))
  <2>1. s.curr <= Len(file) /\ s.curr + Chunk <= Len(file) /\ pos - Chunk = s.curr
    BY <1>2, <1>4
  <2>2. PICK w : w = SubSeq(file, s.curr + 1, s.curr + Chunk)
    OBVIOUS
  <2>3. sum3.sum = Sum1(w)
    <3>1. /\ Agrees(sum3)
          /\ Contents(sum3.ring) = SubSeq(file, s.curr + 1, s.curr + Chunk)
      BY <1>1, <1>2, <2>1, BlockWindow
    <3> QED
      BY <2>2, <3>1 DEF Agrees
  <2>4. PICK N \in Nat : N = FullChunks(file) /\ DOMAIN chunks = 1 .. N
    BY FullChunksIs DEF DescribesChunks
  <2>5. n + 1 \in 1 .. N
    BY <2>1, <2>4, NextChunk
  <2>6. chunks[n + 1].weak = Sum1(w)
    <3>1. ChunkAt(file, n + 1) = w
      <4>1. (n + 1) - 1 = n
        OBVIOUS
      <4> QED
        BY <2>2, <4>1 DEF ChunkAt
    <3>2. chunks[n + 1] = EntryOf(file, n + 1)
      BY <2>4, <2>5 DEF DescribesChunks
    <3> QED
      BY <3>1, <3>2 DEF EntryOf, ChunkEntry
  <2>7. k # 0 /\ k = Lookup(chunks, Sum1(w))
    <3>1. Lookup(chunks, chunks[n + 1].weak) # 0
      BY <2>4, <2>5, LookupFinds
    <3> QED
      BY <2>3, <2>6, <3>1
  <2>8. first \in Maps(file)
    <3>1. Mapped(first, file, s.curr, Chunk)
      BY <1>2, <2>1, MappedContent
    <3> QED
      BY <3>1 DEF Mapped
  <2>9. Found(again, chunks, k)
    <3>1. again = MapFileContent(first, s.curr, Chunk)
      BY <2>1, <2>7
    <3> HIDE DEF first, k, again
    <3>2. Found(MapFileContent(first, s.curr, Chunk), chunks, k)
      BY <1>2, <2>1, <2>2, <2>4, <2>7, <2>8, WindowIsFound
    <3> QED
      BY <3>1, <3>2
  <2>10. t = BlockFound(s, pos, sum3, again, Append(s.hits, h))
    BY <1>2, <1>4, <2>9 DEF ScanBlock, BlockFound, Hit
  <2> HIDE DEF t, pos, sum3, again, h
  <2>11. t = Scan(pos, s.i, s.mode, sum3, again, Append(s.hits, h))
    BY <1>1, <2>10, BlockFoundIs
  <2>12. t.mode = s.mode /\ t.curr = pos /\ t.hits = Append(s.hits, h)
    BY <2>11 DEF Scan
  <2>13. h = [at |-> s.curr, chunk |-> k]
    BY <2>1 DEF h
  <2> QED
    BY <1>4, <2>12, <2>13 DEF Along, t, pos
<1> QED
  BY <1>3, <1>4

\* A step of the scan appends a copy.
LEMMA ScanInChunks ==
  ASSUME ScanInv, ListInv, ScanNewFile, old = new, Told(new, meta), InChunks
  PROVE  InChunks'
<1>1. /\ stage = "scan" /\ new' = new /\ scan' = ScanStep(scan, meta)
      /\ scan.mode = "block"
  BY DEF ScanNewFile, InChunks
<1>2. /\ new \in Seq(Int) /\ ScanOk(scan, new, meta)
      /\ DescribesChunks(meta, new, FullChunks(new))
      /\ nodes \in Seq(Nodes) /\ scan.hits \in Seq(Hits)
  BY <1>1 DEF ScanInv, Files, RunOk, SigOk, ListInv, ScanList, HitList
<1>3. PICK k \in Nat : covered = k * Chunk
  BY DEF InChunks
<1>4. scan.curr = covered /\ covered <= Len(new) /\ AllCopies(nodes)
  BY DEF InChunks
<1>5. Along(scan, scan', Len(new))
  <2>1. Along(scan, ScanBlock(scan, meta), Len(new))
    BY <1>1, <1>2, <1>3, <1>4, BlockAlong
  <2> QED
    BY <1>1, <2>1 DEF ScanStep
<1>6. CASE scan.curr + Chunk > Len(new)
  <2>1. scan'.mode = "done" /\ scan'.curr = scan.curr /\ scan'.hits = scan.hits
    BY <1>5, <1>6 DEF Along
  <2>2. nodes' = nodes /\ covered' = covered
    BY <2>1 DEF ScanNewFile
  <2> QED
    BY <1>1, <1>3, <1>4, <1>6, <2>1, <2>2 DEF InChunks
<1>7. CASE ~(scan.curr + Chunk > Len(new))
  <2>1. PICK j : /\ scan'.mode = "block" /\ scan'.curr = scan.curr + Chunk
                 /\ scan'.hits = Append(scan.hits, [at |-> scan.curr, chunk |-> j])
    BY <1>1, <1>5, <1>7 DEF Along
  <2>2. PICK h : h = [at |-> scan.curr, chunk |-> j]
    OBVIOUS
  <2>3. scan'.hits # scan.hits /\ Last(scan'.hits) = h
    <3>1. /\ Len(Append(scan.hits, h)) = Len(scan.hits) + 1
          /\ Append(scan.hits, h)[Len(scan.hits) + 1] = h /\ Len(scan.hits) \in Nat
      BY <1>2
    <3> QED
      BY <2>1, <2>2, <3>1 DEF Last
  <2>4. nodes' = nodes \o Matched(h) /\ covered' = h.at + Chunk
    BY <2>3 DEF ScanNewFile
  <2>5. PICK c : c = Copy(meta[j].offset, Chunk)
    OBVIOUS
  <2>6. Matched(h) = <<>> \o <<c>>
    BY <1>4, <2>2, <2>5 DEF Matched
  <2>7. ~c.from
    BY <2>5 DEF Copy
  <2>8. AllCopies(nodes')
    <3>1. PICK n \in Nat : n = Len(nodes)
      BY <1>2
    <3>2. PICK l : l = nodes \o <<c>>
      OBVIOUS
    <3>3. nodes' = l
      BY <2>4, <2>6, <3>2
    <3>4. Len(l) = n + 1 /\ \A i \in 1 .. n : l[i] = nodes[i]
      BY <1>2, <3>1, <3>2
    <3>5. l[n + 1] = c
      BY <1>2, <3>1, <3>2
    <3>6. \A i \in 1 .. n + 1 : ~l[i].from
      BY <1>4, <2>7, <3>1, <3>4, <3>5 DEF AllCopies
    <3> QED
      BY <3>3, <3>4, <3>6 DEF AllCopies
  <2>9. \E i \in Nat : covered' = i * Chunk
    <3>1. covered' = k * Chunk + Chunk
      BY <1>3, <1>4, <2>2, <2>4
    <3>2. k * Chunk + Chunk = (k + 1) * Chunk
      BY ChunkFacts
    <3> QED
      BY <3>1, <3>2
  <2>10. scan'.curr = covered' /\ covered' <= Len(new)
    <3>1. covered \in Nat /\ Chunk \in Nat /\ Len(new) \in Nat
      BY <1>1, <1>2, ChunkFacts DEF ListInv, ScanList
    <3> QED
      BY <1>4, <1>7, <2>1, <2>2, <2>4, <3>1
  <2> QED
    BY <1>1, <2>1, <2>8, <2>9, <2>10 DEF InChunks
<1> QED
  BY <1>6, <1>7

\* What is left is the last part.
LEMMA LastIsLeft ==
  ASSUME ScanInv, ListInv, ScanDone, InChunks, Len(new) >= Chunk
  PROVE  LastIsLiteral'
<1>1. /\ stage = "scan" /\ new' = new /\ scan.mode = "done"
      /\ nodes' = nodes \o Remainder
  <2>1. Len(new) \in Nat /\ Chunk \in Nat
    BY ChunkFacts DEF ScanInv, Files
  <2>2. ~(Len(new) < Chunk)
    BY <2>1
  <2> QED
    BY <2>2 DEF ScanDone
<1>2. nodes \in Seq(Nodes) /\ covered \in Nat /\ AllCopies(nodes)
  BY <1>1 DEF ListInv, ScanList, InChunks
<1>3. PICK L \in Nat, c \in Nat \ {0}, n \in Nat :
        L = Len(new) /\ c = Chunk /\ n = Len(nodes)
  <2>1. PICK L \in Nat : L = Len(new)
    BY DEF ScanInv, Files
  <2>2. PICK n \in Nat : n = Len(nodes)
    BY <1>2
  <2> QED
    BY <2>1, <2>2, ChunkFacts
<1>4. PICK k \in Nat : covered = k * c /\ k * c <= L /\ L < k * c + c
  <2>1. covered <= Len(new) /\ covered + Chunk > Len(new)
    BY <1>1 DEF InChunks
  <2>2. PICK k \in Nat : covered = k * Chunk
    BY DEF InChunks
  <2>3. covered <= L /\ L < covered + c
    BY <1>2, <1>3, <2>1
  <2> QED
    BY <1>3, <2>2, <2>3
<1>5. L - covered = L % c
  BY <1>4, LastPart
<1>6. CASE covered < L
  <2>1. PICK x, l : x = Literal(covered, L - covered) /\ l = nodes \o <<x>>
    OBVIOUS
  <2>2. nodes' = l
    BY <1>1, <1>3, <1>6, <2>1 DEF Remainder
  <2>3. Len(l) = n + 1 /\ \A i \in 1 .. n : l[i] = nodes[i]
    BY <1>2, <1>3, <2>1
  <2>4. l[n + 1] = x
    BY <1>2, <1>3, <2>1
  <2>5. x.length = L % c
    BY <1>5, <2>1 DEF Literal
  <2>6. \A i \in 1 .. n + 1 : l[i].from => l[i].length = L % c
    BY <1>2, <1>3, <2>3, <2>4, <2>5 DEF AllCopies
  <2> QED
    BY <1>1, <1>3, <2>2, <2>3, <2>6 DEF LastIsLiteral
<1>7. CASE ~(covered < L)
  <2>1. Remainder = <<>>
    BY <1>3, <1>7 DEF Remainder
  <2>2. nodes' = nodes
    BY <1>1, <1>2, <2>1
  <2> QED
    BY <1>2, <2>2 DEF LastIsLiteral, AllCopies
<1> QED
  BY <1>6, <1>7

\* A list that is added to is not empty, whatever is added.
LEMMA AppendedIsSome ==
  ASSUME NEW T, NEW list \in Seq(T), NEW x
  PROVE  Append(list, x) # <<>>
<1>1. PICK U : U = T \cup {x}
  OBVIOUS
<1>2. PICK n \in Nat : n = Len(list)
  OBVIOUS
<1>3. list \in [1 .. n -> T]
  BY <1>2
<1>4. list \in [1 .. n -> U]
  BY <1>1, <1>3
<1>5. list \in Seq(U) /\ x \in U
  BY <1>1, <1>2, <1>4
<1>6. Len(Append(list, x)) = n + 1
  BY <1>2, <1>5, AppendProperties
<1> QED
  BY <1>6

\* SameInv is an invariant, given what ScanInv and ListInv say.
LEMMA SameInvHolds == Spec => []SameInv
<1>1. Init => SameInv
  BY DEF Init, SameInv
<1>2. ScanInv /\ ListInv /\ SameInv /\ [Next]_vars => SameInv'
  <2> SUFFICES ASSUME ScanInv, ListInv, SameInv, [Next]_vars PROVE SameInv'
    OBVIOUS
  <2>1. CASE GenerateSigFile
    <3>1. /\ stage = "sig" /\ stage' = "scan" /\ nodes' = <<>> /\ covered' = 0
          /\ new' = new /\ scan' = StartScan(new, heap)
      BY <2>1 DEF GenerateSigFile, SameInv
    <3>2. scan'.mode = "block" /\ scan'.curr = 0
      BY <3>1 DEF StartScan
    <3>3. 0 = 0 * Chunk /\ 0 \in Nat /\ 0 <= Len(new)
      BY ChunkFacts DEF ScanInv, Files
    <3>4. AllCopies(<<>>)
      BY DEF AllCopies
    <3>5. InChunks'
      BY <3>1, <3>2, <3>3, <3>4 DEF InChunks
    <3> QED
      BY <3>1, <3>5 DEF SameInv
  <2>2. CASE ScanNewFile
    <3>1. /\ stage = "scan" /\ stage' = "scan" /\ old' = old /\ new' = new
          /\ meta' = meta
      BY <2>2 DEF ScanNewFile
    <3>2. ASSUME old = new, Told(new, meta) PROVE InChunks'
      BY <2>2, <3>1, <3>2, ScanInChunks DEF SameInv
    <3> QED
      BY <3>1, <3>2 DEF SameInv
  <2>3. CASE ScanDone
    <3>1. /\ stage = "scan" /\ stage' \in {"open", "delta"} /\ old' = old /\ new' = new
          /\ meta' = meta /\ (stage' = "delta" => ~(Len(new) < Chunk))
      BY <2>3 DEF ScanDone
    <3>2. ASSUME old = new, Told(new, meta), stage' = "delta" PROVE LastIsLiteral'
      <4>1. Len(new) >= Chunk
        BY <3>1, <3>2, ChunkFacts DEF ScanInv, Files
      <4> QED
        BY <2>3, <3>1, <3>2, <4>1, LastIsLeft DEF SameInv
    <3> QED
      BY <3>1, <3>2 DEF SameInv
  <2>4. CASE WriteNode
    <3>1. stage' = "crashed" \/ (stage' = "delta" /\ delta' # <<>>)
      <4>1. delta \in Seq(Records)
        BY <2>4 DEF WriteNode, ListInv, DeltaList
      <4>2. \A x : Append(delta, x) # <<>>
        BY <4>1, AppendedIsSome
      <4>3. stage' = "crashed" \/ (stage' = "delta" /\ \E x : delta' = Append(delta, x))
        BY <2>4 DEF WriteNode
      <4> QED
        BY <4>2, <4>3
    <3> QED
      BY <3>1 DEF SameInv
  <2>5. CASE OverrunBuffer \/ DeltaDone \/ OpenDelta \/ PatchPiece \/ PatchDone
    <3>1. stage' \notin {"sig", "scan", "delta"}
      BY <2>5 DEF OverrunBuffer, DeltaDone, OpenDelta, PatchPiece, PatchDone
    <3> QED
      BY <3>1 DEF SameInv
  <2>6. CASE UNCHANGED vars
    BY <2>6 DEF vars, SameInv, InChunks, LastIsLiteral
  <2> QED
    BY <2>1, <2>2, <2>3, <2>4, <2>5, <2>6 DEF Next
<1> QED
  BY <1>1, <1>2, ScanInvHolds, ListInvHolds, PTL DEF Spec

\* An unchanged file goes into the delta as copies and its last part, for any
\* buffer and heap, provided no weak sum is that of a different window
\* (ScanNewFile).
THEOREM UnchangedSendsCopies == Spec => []UnchangedIsCopied
<1>1. ASSUME SameInv, ListInv, stage = "delta", delta = <<>>, old = new, ~Collides,
             NEW n \in Range(nodes), n.from
      PROVE  n.length = Len(new) % Chunk
  <2>1. Told(new, meta)
    BY <1>1 DEF Collides, Told
  <2>2. LastIsLiteral
    BY <1>1, <2>1 DEF SameInv
  <2>3. nodes \in Seq(Nodes)
    BY <1>1 DEF ListInv, DeltaList
  <2>4. PICK i \in 1 .. Len(nodes) : n = nodes[i]
    BY <2>3 DEF Range
  <2> QED
    BY <1>1, <2>2, <2>4 DEF LastIsLiteral
<1>2. SameInv /\ ListInv => UnchangedIsCopied
  BY <1>1 DEF UnchangedIsCopied
<1> QED
  BY <1>2, SameInvHolds, ListInvHolds, PTL

--------------------------------------------------------------------------------
(* simple_rsync: the calls of its clients. What a request leaves behind may be  *)
(* a task of the queue, a task of one thread, or an answer; CallInv says that   *)
(* it is in one of them at a time, and in one as long as its client waits.      *)

\* At first there is no call.
LEMMA CallInvStarts == ASSUME Remote!Init PROVE CallInv
<1>1. /\ queue = <<>> /\ reply = [c \in Clients |-> None]
      /\ client = [c \in Clients |-> "start"]
      /\ thread = [t \in Threads |-> [at |-> "pop", task |-> None, file |-> <<>>,
                                      list |-> <<>>]]
  BY DEF Remote!Init, Remote!Idle
<1>2. Formed
  <2>1. queue \in Seq({})
    BY <1>1
  <2> QED
    BY <1>1, <2>1 DEF Formed, Form
<1>3. ASSUME NEW c \in Clients PROVE OnePlace(c)
  BY <1>1, <1>3 DEF OnePlace, InQueue, InThread, Remote!Waiting
<1> QED
  BY <1>2, <1>3 DEF CallInv

\* What a change of the place and of one more field makes of a thread.
LEMMA ThreadMoves ==
  ASSUME NEW y, y = Form(y), NEW at, NEW x
  PROVE  /\ [y EXCEPT !.at = at] = [at |-> at, task |-> y.task, file |-> y.file, list |-> y.list]
         /\ [y EXCEPT !.at = at, !.task = x]
              = [at |-> at, task |-> x, file |-> y.file, list |-> y.list]
         /\ [y EXCEPT !.at = at, !.list = x]
              = [at |-> at, task |-> y.task, file |-> y.file, list |-> x]
<1>1. PICK A, K, F, L : /\ A = {at, y.at} /\ K = {x, y.task}
                        /\ F = {x, y.file} /\ L = {x, y.list}
  OBVIOUS
<1>2. y \in [at : A, task : K, file : F, list : L] /\ at \in A /\ x \in K /\ x \in F /\ x \in L
  BY <1>1 DEF Form
<1>3. ASSUME NEW z \in [at : A, task : K, file : F, list : L] PROVE z = Form(z)
  BY <1>3 DEF Form
<1>4. [y EXCEPT !.at = at] = [at |-> at, task |-> y.task, file |-> y.file, list |-> y.list]
  <2>1. PICK z : z = [y EXCEPT !.at = at]
    OBVIOUS
  <2>2. /\ z \in [at : A, task : K, file : F, list : L]
        /\ z.at = at /\ z.task = y.task /\ z.file = y.file /\ z.list = y.list
    BY <1>2, <2>1
  <2> QED
    BY <1>3, <2>1, <2>2 DEF Form
<1>5. [y EXCEPT !.at = at, !.task = x]
        = [at |-> at, task |-> x, file |-> y.file, list |-> y.list]
  <2>1. PICK z : z = [y EXCEPT !.at = at, !.task = x]
    OBVIOUS
  <2>2. /\ z \in [at : A, task : K, file : F, list : L]
        /\ z.at = at /\ z.task = x /\ z.file = y.file /\ z.list = y.list
    BY <1>2, <2>1
  <2> QED
    BY <1>3, <2>1, <2>2 DEF Form
<1>6. [y EXCEPT !.at = at, !.list = x]
        = [at |-> at, task |-> y.task, file |-> y.file, list |-> x]
  <2>1. PICK z : z = [y EXCEPT !.at = at, !.list = x]
    OBVIOUS
  <2>2. /\ z \in [at : A, task : K, file : F, list : L]
        /\ z.at = at /\ z.task = y.task /\ z.file = y.file /\ z.list = x
    BY <1>2, <2>1
  <2> QED
    BY <1>3, <2>1, <2>2 DEF Form
<1> QED
  BY <1>4, <1>5, <1>6

\* The same of a thread that opens a file.
LEMMA ThreadOpens ==
  ASSUME NEW y, y = Form(y), NEW at, NEW x, NEW z, z = [y EXCEPT !.at = at, !.file = x]
  PROVE  z = [at |-> at, task |-> y.task, file |-> x, list |-> y.list]
<1>1. PICK A, K, F, L : /\ A = {at, y.at} /\ K = {y.task}
                        /\ F = {x, y.file} /\ L = {y.list}
  OBVIOUS
<1>2. y \in [at : A, task : K, file : F, list : L] /\ at \in A /\ x \in F
  BY <1>1 DEF Form
<1>3. /\ z \in [at : A, task : K, file : F, list : L]
      /\ z.at = at /\ z.task = y.task /\ z.file = x /\ z.list = y.list
  BY <1>2
<1>4. z = Form(z)
  BY <1>3 DEF Form
<1> QED
  BY <1>3, <1>4 DEF Form

\* The queue without its first task.
LEMMA QueueTail ==
  ASSUME NEW T, NEW q \in Seq(T), q # <<>>
  PROVE  /\ Tail(q) \in Seq(T) /\ 1 \in DOMAIN q /\ Head(q) = q[1]
         /\ \A i \in DOMAIN Tail(q) : i + 1 \in DOMAIN q /\ i # 0 /\ Tail(q)[i] = q[i + 1]
  OBVIOUS

\* The queue with one more task.
LEMMA QueueMore ==
  ASSUME NEW T, NEW q \in Seq(T), NEW e
  PROVE  /\ \E U : Append(q, e) \in Seq(U)
         /\ \E n \in Nat : /\ DOMAIN Append(q, e) = DOMAIN q \cup {n}
                           /\ n \notin DOMAIN q
                           /\ Append(q, e)[n] = e
         /\ \A i \in DOMAIN q : Append(q, e)[i] = q[i]
<1>1. PICK U : U = T \cup {e}
  OBVIOUS
<1>2. PICK n \in Nat : n = Len(q)
  OBVIOUS
<1>3. q \in [1 .. n -> T]
  BY <1>2
<1>4. q \in [1 .. n -> U]
  BY <1>1, <1>3
<1>5. q \in Seq(U) /\ e \in U
  BY <1>1, <1>2, <1>4
<1>6. /\ Append(q, e) \in Seq(U) /\ Len(Append(q, e)) = n + 1
      /\ Append(q, e)[n + 1] = e
      /\ \A i \in 1 .. n : Append(q, e)[i] = q[i]
  BY <1>2, <1>5, AppendProperties
<1>7. DOMAIN Append(q, e) = 1 .. n + 1 /\ DOMAIN q = 1 .. n
  BY <1>2, <1>6
<1>8. 1 .. n + 1 = (1 .. n) \cup {n + 1} /\ n + 1 \notin 1 .. n /\ n + 1 \in Nat
  OBVIOUS
<1> QED
  BY <1>6, <1>7, <1>8

\* A step that leaves the queue, the tasks, the answers and the clients alone.
LEMMA CallStays ==
  ASSUME CallInv, queue' = queue, reply' = reply,
         \A c \in Clients : Remote!Waiting(c)' <=> Remote!Waiting(c),
         client' = [c \in Clients |-> client'[c]],
         NEW t \in Threads, NEW x, x.at # "pop", x.task = thread[t].task, x = Form(x),
         thread[t].at # "pop", thread' = [thread EXCEPT ![t] = x]
  PROVE  CallInv'
<1>1. /\ thread'[t] = x
      /\ \A u \in Threads : u # t => thread'[u] = thread[u]
      /\ thread' = [u \in Threads |-> thread'[u]]
  BY DEF CallInv, Formed
<1>2. \A u \in Threads : /\ thread'[u].at # "pop" <=> thread[u].at # "pop"
                         /\ thread'[u].task = thread[u].task
  BY <1>1
<1>3. ASSUME NEW u \in Threads PROVE thread'[u] = Form(thread'[u])
  BY <1>1 DEF CallInv, Formed
<1>4. Formed'
  BY <1>1, <1>2, <1>3 DEF CallInv, Formed
<1>5. ASSUME NEW c \in Clients
      PROVE  InThread(c)' = InThread(c) /\ InQueue(c)' = InQueue(c)
  BY <1>2 DEF InThread, InQueue
<1> QED
  BY <1>4, <1>5 DEF CallInv, OnePlace

\* A step that leaves all of it alone.
LEMMA NothingMoves ==
  ASSUME CallInv, queue' = queue, thread' = thread, reply' = reply, client' = client
  PROVE  CallInv'
<1>1. Formed'
  BY DEF CallInv, Formed
<1>2. ASSUME NEW c \in Clients
      PROVE  /\ InThread(c)' = InThread(c) /\ InQueue(c)' = InQueue(c)
             /\ Remote!Waiting(c)' <=> Remote!Waiting(c)
  BY DEF InThread, InQueue, Remote!Waiting
<1> QED
  BY <1>1, <1>2 DEF CallInv, OnePlace

\* The first task of the queue: whose it is, and where else it is not.
LEMMA FirstTask ==
  ASSUME CallInv, queue # <<>>, queue' = Tail(queue)
  PROVE  \E d \in Clients :
           /\ d = Head(queue).client
           /\ \E T : queue' \in Seq(T)
           /\ \A i \in DOMAIN queue' : queue'[i].client \in Clients
           /\ \A c \in Clients : \A i, j \in InQueue(c)' : i = j
           /\ InQueue(d)' = {}
           /\ InThread(d) = {} /\ reply[d] = None /\ Remote!Waiting(d)
           /\ \A c \in Clients \ {d} : InQueue(c)' # {} <=> InQueue(c) # {}
<1>1. PICK T : queue \in Seq(T)
  BY DEF CallInv, Formed
<1>2. PICK d : d = Head(queue).client
  OBVIOUS
<1>3. /\ queue' \in Seq(T) /\ 1 \in DOMAIN queue /\ d = queue[1].client
      /\ \A i \in DOMAIN queue' : i + 1 \in DOMAIN queue /\ i # 0 /\ i \in Nat
                                  /\ queue'[i] = queue[i + 1]
  BY <1>1, <1>2, QueueTail
<1>4. d \in Clients /\ 1 \in InQueue(d)
  BY <1>3 DEF CallInv, Formed, InQueue
<1>5. ASSUME NEW c \in Clients, NEW i \in InQueue(c)' PROVE i + 1 \in InQueue(c) /\ i \in Nat \ {0}
  BY <1>3 DEF InQueue
<1>6. ASSUME NEW c \in Clients, NEW i \in InQueue(c)', NEW j \in InQueue(c)' PROVE i = j
  <2>1. i + 1 = j + 1 /\ i \in Nat /\ j \in Nat
    BY <1>5 DEF CallInv, OnePlace
  <2> QED
    BY <2>1
<1>7. InQueue(d)' = {}
  <2>1. ASSUME NEW i \in InQueue(d)' PROVE FALSE
    <3>1. i + 1 = 1 /\ i \in Nat \ {0}
      BY <1>4, <1>5 DEF CallInv, OnePlace
    <3> QED
      BY <3>1
  <2> QED
    BY <2>1
<1>8. ASSUME NEW c \in Clients \ {d} PROVE InQueue(c)' # {} <=> InQueue(c) # {}
  <2>1. ASSUME NEW i \in InQueue(c) PROVE InQueue(c)' # {}
    <3>1. i \in DOMAIN queue /\ queue[i].client = c /\ i # 1
      BY <1>3, <2>1 DEF InQueue
    <3>2. PICK n \in Nat : n = Len(queue) /\ DOMAIN queue = 1 .. n
      BY <1>1
    <3>3. i - 1 \in DOMAIN queue' /\ (i - 1) + 1 = i
      BY <1>1, <3>1, <3>2
    <3> QED
      BY <1>3, <3>1, <3>3 DEF InQueue
  <2> QED
    BY <1>5, <2>1
<1>9. ASSUME NEW i \in DOMAIN queue' PROVE queue'[i].client \in Clients
  BY <1>3 DEF CallInv, Formed
<1>10. InThread(d) = {} /\ reply[d] = None /\ Remote!Waiting(d)
  BY <1>4 DEF CallInv, OnePlace
<1> QED
  BY <1>2, <1>3, <1>4, <1>6, <1>7, <1>8, <1>9, <1>10

\* A thread that pops a task takes it on, or answers it at once (Process).
LEMMA ProcessKeeps ==
  ASSUME NoneIsNoAnswer, CallInv, NEW t \in Threads, Remote!Process(t) PROVE CallInv'
<1>1. /\ thread[t].at = "pop" /\ queue # <<>> /\ queue' = Tail(queue)
      /\ client' = client
  BY DEF Remote!Process, Remote!ClientState
<1>2. PICK d \in Clients :
        /\ d = Head(queue).client
        /\ \E T : queue' \in Seq(T)
        /\ \A i \in DOMAIN queue' : queue'[i].client \in Clients
        /\ \A c \in Clients : \A i, j \in InQueue(c)' : i = j
        /\ InQueue(d)' = {}
        /\ InThread(d) = {} /\ reply[d] = None /\ Remote!Waiting(d)
        /\ \A c \in Clients \ {d} : InQueue(c)' # {} <=> InQueue(c) # {}
  BY <1>1, FirstTask
<1>3. PICK task : task = Head(queue)
  OBVIOUS
<1>4. \A c \in Clients : Remote!Waiting(c)' <=> Remote!Waiting(c)
  BY <1>1 DEF Remote!Waiting
<1>5. \/ reply' = [reply EXCEPT ![d] = [ok |-> FALSE, data |-> <<>>]] /\ thread' = thread
      \/ /\ thread' = [thread EXCEPT ![t].at = "open", ![t].task = task]
         /\ reply' = reply
  BY <1>2, <1>3 DEF Remote!Process, Remote!NotFound
<1>6. CASE reply' = [reply EXCEPT ![d] = [ok |-> FALSE, data |-> <<>>]] /\ thread' = thread
  <2>1. /\ reply'[d] # None /\ \A c \in Clients \ {d} : reply'[c] = reply[c]
        /\ reply' = [c \in Clients |-> reply'[c]]
    BY <1>6 DEF CallInv, Formed, NoneIsNoAnswer
  <2>2. Formed'
    BY <1>1, <1>2, <1>6, <2>1 DEF CallInv, Formed
  <2>3. ASSUME NEW c \in Clients PROVE InThread(c)' = InThread(c)
    BY <1>6 DEF InThread
  <2>4. ASSUME NEW c \in Clients PROVE OnePlace(c)'
    <3>1. CASE c = d
      BY <1>2, <1>4, <2>1, <2>3, <3>1 DEF OnePlace
    <3>2. CASE c # d
      BY <1>2, <1>4, <2>1, <2>3, <3>2 DEF CallInv, OnePlace
    <3> QED
      BY <3>1, <3>2
  <2> QED
    BY <2>2, <2>4 DEF CallInv
<1>7. CASE /\ thread' = [thread EXCEPT ![t].at = "open", ![t].task = task]
           /\ reply' = reply
  <2>1. /\ thread'[t] = [at |-> "open", task |-> task, file |-> thread[t].file,
                         list |-> thread[t].list]
        /\ \A u \in Threads : u # t => thread'[u] = thread[u]
        /\ thread' = [u \in Threads |-> thread'[u]]
    <3>1. thread = [u \in Threads |-> thread[u]] /\ thread[t] = Form(thread[t])
      BY DEF CallInv, Formed
    <3>2. /\ thread'[t] = [thread[t] EXCEPT !.at = "open", !.task = task]
          /\ \A u \in Threads : u # t => thread'[u] = thread[u]
          /\ thread' = [u \in Threads |-> thread'[u]]
      BY <1>7, <3>1
    <3>3. [thread[t] EXCEPT !.at = "open", !.task = task]
            = [at |-> "open", task |-> task, file |-> thread[t].file,
               list |-> thread[t].list]
      BY <3>1, ThreadMoves
    <3> QED
      BY <3>2, <3>3
  <2>2. ASSUME NEW u \in Threads PROVE thread'[u] = Form(thread'[u])
    BY <2>1 DEF CallInv, Formed, Form
  <2>3. task.client = d
    BY <1>2, <1>3
  <2>4. Formed'
    <3>1. ASSUME NEW u \in Threads, thread'[u].at # "pop"
          PROVE  thread'[u].task.client \in Clients
      BY <2>1, <2>3, <3>1 DEF CallInv, Formed
    <3>2. /\ reply' = [c \in Clients |-> reply'[c]]
          /\ client' = [c \in Clients |-> client'[c]]
      BY <1>1, <1>7 DEF CallInv, Formed
    <3> QED
      BY <1>2, <2>1, <2>2, <3>1, <3>2 DEF Formed
  <2>5. ASSUME NEW c \in Clients \ {d} PROVE InThread(c)' = InThread(c)
    BY <1>1, <2>1, <2>3 DEF InThread
  <2>6. InThread(d)' = {t}
    BY <1>1, <1>2, <2>1, <2>3 DEF InThread
  <2>7. ASSUME NEW c \in Clients PROVE OnePlace(c)'
    <3>1. CASE c = d
      BY <1>2, <1>4, <1>7, <2>6, <3>1 DEF OnePlace
    <3>2. CASE c # d
      BY <1>2, <1>4, <1>7, <2>5, <3>2 DEF CallInv, OnePlace
    <3> QED
      BY <3>1, <3>2
  <2> QED
    BY <2>4, <2>7 DEF CallInv
<1> QED
  BY <1>5, <1>6, <1>7

\* An answer frees the thread (AsyncSendPacket).
LEMMA AnswerKeeps ==
  ASSUME CallInv, NEW t \in Threads, NEW answer, Remote!Answer(t, answer),
         answer # None, thread[t].at # "pop", queue' = queue, client' = client
  PROVE  CallInv'
<1>1. PICK d \in Clients : d = thread[t].task.client
  BY DEF CallInv, Formed
<1>2. /\ reply' = [reply EXCEPT ![d] = answer]
      /\ thread' = [thread EXCEPT ![t] = [at |-> "pop", task |-> None, file |-> <<>>,
                                          list |-> <<>>]]
  BY <1>1 DEF Remote!Answer, Remote!Idle
<1>3. /\ reply'[d] # None /\ \A c \in Clients \ {d} : reply'[c] = reply[c]
      /\ reply' = [c \in Clients |-> reply'[c]]
  BY <1>2 DEF CallInv, Formed
<1>4. /\ thread'[t] = [at |-> "pop", task |-> None, file |-> <<>>, list |-> <<>>]
      /\ \A u \in Threads : u # t => thread'[u] = thread[u]
      /\ thread' = [u \in Threads |-> thread'[u]]
  BY <1>2 DEF CallInv, Formed
<1>5. ASSUME NEW u \in Threads PROVE thread'[u] = Form(thread'[u])
  BY <1>4 DEF CallInv, Formed, Form
<1>6. Formed'
  BY <1>3, <1>4, <1>5 DEF CallInv, Formed
<1>7. t \in InThread(d)
  BY <1>1 DEF InThread
<1>8. InQueue(d) = {} /\ Remote!Waiting(d) /\ \A u \in InThread(d) : u = t
  BY <1>7 DEF CallInv, OnePlace
<1>9. InThread(d)' = {}
  BY <1>4, <1>8 DEF InThread
<1>10. ASSUME NEW c \in Clients \ {d} PROVE InThread(c)' = InThread(c)
  BY <1>1, <1>4 DEF InThread
<1>11. ASSUME NEW c \in Clients
       PROVE  InQueue(c)' = InQueue(c) /\ (Remote!Waiting(c)' <=> Remote!Waiting(c))
  BY DEF InQueue, Remote!Waiting
<1>12. ASSUME NEW c \in Clients PROVE OnePlace(c)'
  <2>1. CASE c = d
    BY <1>3, <1>8, <1>9, <1>11, <2>1 DEF OnePlace
  <2>2. CASE c # d
    BY <1>3, <1>10, <1>11, <2>2 DEF CallInv, OnePlace
  <2> QED
    BY <2>1, <2>2
<1> QED
  BY <1>6, <1>12 DEF CallInv

\* A client that waits for nothing puts one task on the queue and waits
\* (SyncSendPacket).
LEMMA AskKeeps ==
  ASSUME CallInv, NEW c \in Clients, NEW req, NEW offset, NEW length,
         Remote!Ask(c, req, offset, length), ~Remote!Waiting(c),
         NEW place \in {"meta", "chunk"}, client' = [client EXCEPT ![c] = place],
         thread' = thread, reply' = reply
  PROVE  CallInv'
<1>1. PICK task : /\ task.client = c /\ queue' = Append(queue, task)
  BY DEF Remote!Ask
<1>2. PICK T : queue \in Seq(T)
  BY DEF CallInv, Formed
<1>3. PICK n \in Nat : /\ DOMAIN queue' = DOMAIN queue \cup {n} /\ n \notin DOMAIN queue
                       /\ queue'[n] = task
                       /\ \A i \in DOMAIN queue : queue'[i] = queue[i]
  BY <1>1, <1>2, QueueMore
<1>4. \E U : queue' \in Seq(U)
  BY <1>1, <1>2, QueueMore
<1>5. /\ client'[c] = place /\ \A d \in Clients \ {c} : client'[d] = client[d]
      /\ client' = [d \in Clients |-> client'[d]]
  BY DEF CallInv, Formed
<1>6. Formed'
  BY <1>1, <1>3, <1>4, <1>5 DEF CallInv, Formed
<1>7. InQueue(c) = {} /\ InThread(c) = {} /\ reply[c] = None
  BY DEF CallInv, OnePlace
<1>8. InQueue(c)' = {n}
  BY <1>1, <1>3, <1>7 DEF InQueue
<1>9. ASSUME NEW d \in Clients \ {c} PROVE InQueue(d)' = InQueue(d)
  BY <1>1, <1>3 DEF InQueue
<1>10. ASSUME NEW d \in Clients PROVE InThread(d)' = InThread(d)
  BY DEF InThread
<1>11. ASSUME NEW d \in Clients PROVE OnePlace(d)'
  <2>1. CASE d = c
    BY <1>5, <1>7, <1>8, <1>10, <2>1 DEF OnePlace, Remote!Waiting
  <2>2. CASE d # c
    BY <1>5, <1>9, <1>10, <2>2 DEF CallInv, OnePlace, Remote!Waiting
  <2> QED
    BY <2>1, <2>2
<1> QED
  BY <1>6, <1>11 DEF CallInv

\* A client that has its answer waits no more.
LEMMA TakeKeeps ==
  ASSUME CallInv, NEW c \in Clients, Remote!Taken(c), NEW place,
         place \notin {"meta", "chunk"}, client' = [client EXCEPT ![c] = place],
         thread' = thread, queue' = queue
  PROVE  CallInv'
<1>1. /\ client'[c] = place /\ \A d \in Clients \ {c} : client'[d] = client[d]
      /\ client' = [d \in Clients |-> client'[d]]
  BY DEF CallInv, Formed
<1>2. /\ reply[c] # None /\ reply'[c] = None
      /\ \A d \in Clients \ {c} : reply'[d] = reply[d]
      /\ reply' = [d \in Clients |-> reply'[d]]
  BY DEF CallInv, Formed, Remote!Taken
<1>3. Formed'
  BY <1>1, <1>2 DEF CallInv, Formed
<1>4. InQueue(c) = {} /\ InThread(c) = {}
  BY <1>2 DEF CallInv, OnePlace
<1>5. ASSUME NEW d \in Clients PROVE InThread(d)' = InThread(d) /\ InQueue(d)' = InQueue(d)
  BY DEF InThread, InQueue
<1>6. ASSUME NEW d \in Clients PROVE OnePlace(d)'
  <2>1. CASE d = c
    BY <1>1, <1>2, <1>4, <1>5, <2>1 DEF OnePlace, Remote!Waiting
  <2>2. CASE d # c
    BY <1>1, <1>2, <1>5, <2>2 DEF CallInv, OnePlace, Remote!Waiting
  <2> QED
    BY <2>1, <2>2
<1> QED
  BY <1>3, <1>6 DEF CallInv

\* Nothing else touches a call (Open, Md4Init, Md4Update, Md4Final, FreeTwice,
\* SendMeta).
LEMMA ThreadKeeps ==
  ASSUME NoneIsNoAnswer, CallInv, NEW t \in Threads, Remote!Thread(t) PROVE CallInv'
<1>1. thread = [u \in Threads |-> thread[u]] /\ thread[t] = Form(thread[t])
  BY DEF CallInv, Formed
<1>2. client = [c \in Clients |-> client[c]]
  BY DEF CallInv, Formed
<1>3. CASE Remote!Process(t)
  BY <1>3, ProcessKeeps
<1>4. CASE Remote!Open(t)
  <2>1. thread[t].at = "open" /\ queue' = queue /\ client' = client
    BY <1>4 DEF Remote!Open, Remote!ClientState
  <2>2. PICK f : f = files[thread[t].task.path]
    OBVIOUS
  <2>3. CASE thread' = thread /\ reply' = reply
    BY <2>1, <2>3, NothingMoves
  <2>4. CASE thread' = [thread EXCEPT ![t].at = "init", ![t].file = f] /\ reply' = reply
    <3>1. PICK x : x = [at |-> "init", task |-> thread[t].task, file |-> f,
                        list |-> thread[t].list]
      OBVIOUS
    <3>2. [thread[t] EXCEPT !.at = "init", !.file = f]
            = [at |-> "init", task |-> thread[t].task, file |-> f,
               list |-> thread[t].list]
      <4>1. PICK z : z = [thread[t] EXCEPT !.at = "init", !.file = f]
        OBVIOUS
      <4>2. z = [at |-> "init", task |-> thread[t].task, file |-> f,
                 list |-> thread[t].list]
        BY <1>1, <4>1, ThreadOpens
      <4> QED
        BY <4>1, <4>2
    <3>3. thread' = [thread EXCEPT ![t] = x]
      BY <2>4, <3>1, <3>2
    <3>4. x.at # "pop" /\ x.task = thread[t].task /\ x = Form(x)
      BY <3>1 DEF Form
    <3>5. \A c \in Clients : Remote!Waiting(c)' <=> Remote!Waiting(c)
      BY <2>1 DEF Remote!Waiting
    <3> QED
      BY <1>2, <2>1, <2>4, <3>3, <3>4, <3>5, CallStays
  <2>5. CASE \E data : Remote!Answer(t, [ok |-> TRUE, data |-> data])
    <3>1. PICK answer : Remote!Answer(t, answer) /\ answer # None
      BY <2>5 DEF NoneIsNoAnswer
    <3> QED
      BY <2>1, <3>1, AnswerKeeps
  <2> QED
    BY <1>4, <2>2, <2>3, <2>4, <2>5 DEF Remote!Open
<1>5. CASE Remote!SendMeta(t)
  <2>1. /\ queue' = queue /\ client' = client /\ thread[t].at # "pop"
        /\ Remote!Answer(t, [ok |-> TRUE, data |-> thread[t].list])
    BY <1>5 DEF Remote!SendMeta, Remote!ClientState
  <2>2. [ok |-> TRUE, data |-> thread[t].list] # None
    BY DEF NoneIsNoAnswer
  <2> QED
    BY <2>1, <2>2, AnswerKeeps
<1>6. CASE Remote!Md4Init(t) \/ Remote!Md4Update(t) \/ Remote!Md4Final(t)
  <2>1. thread[t].at # "pop" /\ queue' = queue /\ client' = client /\ reply' = reply
    BY <1>6 DEF Remote!Md4Init, Remote!Md4Update, Remote!Md4Final, Remote!ClientState
  <2>2. \E x : /\ x.at # "pop" /\ x.task = thread[t].task /\ x = Form(x)
               /\ thread' = [thread EXCEPT ![t] = x]
    <3>1. CASE \E at : at # "pop" /\ thread' = [thread EXCEPT ![t].at = at]
      <4>1. PICK at : at # "pop" /\ thread' = [thread EXCEPT ![t].at = at]
        BY <3>1
      <4>2. PICK x : x = [at |-> at, task |-> thread[t].task, file |-> thread[t].file,
                          list |-> thread[t].list]
        OBVIOUS
      <4>3. [thread[t] EXCEPT !.at = at] = x
        BY <1>1, <4>2, ThreadMoves
      <4>4. thread' = [thread EXCEPT ![t] = x] /\ x = Form(x)
        BY <4>1, <4>2, <4>3 DEF Form
      <4> QED
        BY <4>1, <4>2, <4>4
    <3>2. CASE \E l : thread' = [thread EXCEPT ![t].at = "init", ![t].list = l]
      <4>1. PICK l : thread' = [thread EXCEPT ![t].at = "init", ![t].list = l]
        BY <3>2
      <4>2. PICK x : x = [at |-> "init", task |-> thread[t].task, file |-> thread[t].file,
                          list |-> l]
        OBVIOUS
      <4>3. [thread[t] EXCEPT !.at = "init", !.list = l] = x
        BY <1>1, <4>2, ThreadMoves
      <4>4. thread' = [thread EXCEPT ![t] = x] /\ x = Form(x)
        BY <4>1, <4>2, <4>3 DEF Form
      <4> QED
        BY <4>2, <4>4
    <3>3. CASE Remote!Md4Final(t)
      <4>1. \E e : thread' = [thread EXCEPT ![t].at = "init", ![t].list = Append(@, e)]
        BY <3>3 DEF Remote!Md4Final
      <4>2. PICK e : thread' = [thread EXCEPT ![t].at = "init", ![t].list = Append(@, e)]
        BY <4>1
      <4>3. thread' = [thread EXCEPT ![t].at = "init",
                                     ![t].list = Append(thread[t].list, e)]
        BY <1>1, <4>2
      <4> QED
        BY <3>2, <4>3
    <3> QED
      BY <1>6, <3>1, <3>3 DEF Remote!Md4Init, Remote!Md4Update
  <2>3. \A c \in Clients : Remote!Waiting(c)' <=> Remote!Waiting(c)
    BY <2>1 DEF Remote!Waiting
  <2> QED
    BY <1>2, <2>1, <2>2, <2>3, CallStays
<1>7. CASE Remote!FreeTwice(t)
  BY <1>7, NothingMoves DEF Remote!FreeTwice, Remote!ClientState
<1> QED
  BY <1>3, <1>4, <1>5, <1>6, <1>7 DEF Remote!Thread

\* The client's own steps.
LEMMA ClientKeeps ==
  ASSUME CallInv, NEW c \in Clients, Remote!Client(c) PROVE CallInv'
<1>1. thread' = thread
  BY DEF Remote!Client, Remote!ServerState
<1>2. CASE Remote!AskMeta(c)
  BY <1>1, <1>2, AskKeeps DEF Remote!AskMeta, Remote!Waiting
<1>3. CASE Remote!AskChunk(c)
  BY <1>1, <1>3, AskKeeps DEF Remote!AskChunk, Remote!Building, Remote!Waiting
<1>4. CASE Remote!TakeMeta(c)
  BY <1>1, <1>4, TakeKeeps DEF Remote!TakeMeta
<1>5. CASE Remote!TakeChunk(c)
  BY <1>1, <1>5, TakeKeeps DEF Remote!TakeChunk
<1>6. CASE Remote!CopyChunk(c)
  <2>1. queue' = queue /\ client' = client /\ reply' = reply
    BY <1>6 DEF Remote!CopyChunk
  <2> QED
    BY <1>1, <2>1, NothingMoves
<1> QED
  BY <1>2, <1>3, <1>4, <1>5, <1>6 DEF Remote!Client

\* The two are the same operator of FiniteSets.
LEMMA SameCardinality == \A S : Remote!Cardinality(S) = Cardinality(S)
  BY DEF Remote!Cardinality, Cardinality

\* A call of a client of simple_rsync is in the queue, with one thread, or answered,
\* and there is none a client does not wait for, for any number of clients and
\* threads and whatever happens to the files (SyncSendPacket, Process).
THEOREM CallsAreConserved ==
  ASSUME NoneIsNoAnswer PROVE Remote!Spec => []Remote!CallInOnePlace
<1>1. Remote!Init => CallInv
  BY CallInvStarts
<1>2. ASSUME CallInv, [Remote!Next]_Remote!vars PROVE CallInv'
  <2>1. CASE UNCHANGED Remote!vars
    BY <1>2, <2>1, NothingMoves DEF Remote!vars
  <2>2. ASSUME NEW p \in Paths, NEW v \in Versions, Remote!Change(p, v) PROVE CallInv'
    BY <1>2, <2>2, NothingMoves DEF Remote!Change, Remote!ClientState
  <2> QED
    BY <1>2, <2>1, <2>2, ThreadKeeps, ClientKeeps DEF Remote!Next
<1>3. CallInv => Remote!CallInOnePlace
  <2> SUFFICES ASSUME CallInv, NEW c \in Clients
               PROVE  Cardinality(InQueue(c)) + Cardinality(InThread(c))
                        + (IF reply[c] # None THEN 1 ELSE 0)
                      = (IF Remote!Waiting(c) THEN 1 ELSE 0)
    BY SameCardinality DEF Remote!CallInOnePlace, InQueue, InThread
  <2>1. OnePlace(c)
    BY DEF CallInv
  <2>2. Cardinality({}) = 0 /\ \A x : Cardinality({x}) = 1
    BY FS_EmptySet, FS_Singleton
  <2>3. CASE InQueue(c) # {}
    <3>1. PICK i : InQueue(c) = {i}
      BY <2>1, <2>3 DEF OnePlace
    <3>2. InThread(c) = {} /\ reply[c] = None /\ Remote!Waiting(c)
      BY <2>1, <2>3 DEF OnePlace
    <3>3. Cardinality(InQueue(c)) = 1 /\ Cardinality(InThread(c)) = 0
      BY <2>2, <3>1, <3>2
    <3> QED
      BY <3>2, <3>3
  <2>4. CASE InQueue(c) = {} /\ InThread(c) # {}
    <3>1. PICK t : InThread(c) = {t}
      BY <2>1, <2>4 DEF OnePlace
    <3>2. reply[c] = None /\ Remote!Waiting(c)
      BY <2>1, <2>4 DEF OnePlace
    <3> QED
      BY <2>2, <2>4, <3>1, <3>2, SMTT(30)
  <2>5. CASE InQueue(c) = {} /\ InThread(c) = {}
    <3>1. Remote!Waiting(c) <=> reply[c] # None
      BY <2>1, <2>5 DEF OnePlace
    <3> QED
      BY <2>2, <2>5, <3>1
  <2> QED
    BY <2>3, <2>4, <2>5
<1> QED
  BY <1>1, <1>2, <1>3, PTL DEF Remote!Spec

--------------------------------------------------------------------------------
(* Local copies: what a sliding scan has marked (LocalCopy).                    *)

\* Its checksum is that of librsync.
LEMMA SameRing ==
  /\ \A q, t : Local!Push(q, t) = Push(q, t)
  /\ \A q : Local!Pop(q) = Pop(q)
  /\ \A q : Local!FrontOf(q) = FrontOf(q)
  /\ \A q : Local!GetData(q) = GetData(q)
  /\ \A q : Local!Clear(q) = Clear(q)
<1>1. \A q, i : Local!After(q, i) = After(q, i)
  BY DEF Local!After, After
<1>2. \A q, n : Local!Moved(q, n) = Moved(q, n)
  BY DEF Local!Moved, Moved
<1>3. \A q, n : Local!Realloc(q, n) = Realloc(q, n)
  BY <1>2 DEF Local!Realloc, Realloc
<1>4. \A q, t : Local!Push(q, t) = Push(q, t)
  BY <1>1, <1>3, ZenonT(60) DEF Local!Push, Push
<1>5. \A q : Local!Pop(q) = Pop(q)
  BY <1>1, <1>3 DEF Local!Pop, Pop
<1>6. \A q : Local!FrontOf(q) = FrontOf(q) /\ Local!Clear(q) = Clear(q)
  BY DEF Local!FrontOf, FrontOf, Local!Clear, Clear
<1>7. \A q : Local!GetData(q) = GetData(q)
  BY <1>3 DEF Local!GetData, GetData
<1> QED
  BY <1>4, <1>5, <1>6, <1>7

\* A byte more in the window.
LEMMA SameUpdate == \A m, t : Local!Update(m, t) = Update(m, t)
  BY SameRing DEF Local!Update, Update

\* The sum of some bytes.
LEMMA SameSum == \A w : Local!Sum1(w) = Sum1(w)
  BY DEF Local!Sum1, Sum1, Local!Sums, Sums, Local!AddByte, AddByte, Local!FoldLeft, FoldLeft,
    Local!MapThenFoldSet, MapThenFoldSet, Local!Max, Max

\* Init.
LEMMA SameInit == \A m, w : Local!SummerInit(m, w) = SummerInit(m, w)
  BY SameSum DEF Local!SummerInit, SummerInit, Local!FoldLeft, FoldLeft,
    Local!MapThenFoldSet, MapThenFoldSet, Local!Max, Max,
    Local!Push, Push, Local!Clear, Clear, Local!Realloc, Realloc, Local!Moved, Moved, Local!After, After

\* The table, and the length of a list.
LEMMA SameLookup ==
  /\ \A list, weak : Local!Lookup(list, weak) = Lookup(list, weak)
  /\ \A file : Local!FullChunks(file) = FullChunks(file)
  /\ \A s : Local!Max(s) = Max(s) /\ Local!Min(s) = Min(s)
  /\ Local!NewSummer = NewSummer
  BY DEF Local!Lookup, Lookup, Local!FullChunks, FullChunks, Local!Max, Max, Local!Min, Min,
   Local!NewSummer, NewSummer, Local!NewRing, NewRing

\* The full chunks of a list, and the chunk a weak sum leads to in them.
LEMMA ListLeads ==
  ASSUME NEW file \in Seq(Int), NEW list, Lists(list, file), NEW weak
  PROVE  LET full == SubSeq(list, 1, FullChunks(file))
         IN  /\ DOMAIN full = 1 .. FullChunks(file)
             /\ \A k \in 1 .. FullChunks(file) : full[k] = list[k]
             /\ Lookup(full, weak) = SumLeads(file, weak)
<1>1. PICK F \in Nat : F = FullChunks(file)
  BY FullChunksIs
<1>2. PICK n \in Nat : n >= F /\ list = [k \in 1 .. n |-> list[k]]
  BY <1>1 DEF Lists
<1>3. PICK full : full = SubSeq(list, 1, F)
  OBVIOUS
<1>4. DOMAIN full = 1 .. F /\ \A k \in 1 .. F : full[k] = list[k]
  <2>1. full = [k \in 1 .. F |-> list[k]]
    BY <1>2, <1>3
  <2> QED
    BY <2>1
<1>5. {k \in DOMAIN full : full[k].weak = weak}
        = {k \in 1 .. F : Sum1(ChunkAt(file, k)) = weak}
  <2>1. ASSUME NEW k \in 1 .. F PROVE full[k].weak = Sum1(ChunkAt(file, k))
    <3>1. PICK s, from, offset : list[k] = [weak |-> Sum1(ChunkAt(file, k)), strong |-> s,
                                        from |-> from, offset |-> offset, length |-> Chunk]
      BY <1>1 DEF Lists
    <3> QED
      BY <1>4, <3>1
  <2> QED
    BY <1>4, <2>1
<1> QED
  BY <1>1, <1>3, <1>4, <1>5 DEF Lookup, SumLeads

\* The chunk a sum leads to has that sum.
LEMMA SumLeadsTo ==
  ASSUME NEW file \in Seq(Int), NEW weak, NEW k, k = SumLeads(file, weak)
  PROVE  /\ k \in 0 .. FullChunks(file)
         /\ k # 0 => Sum1(ChunkAt(file, k)) = weak
         /\ \A j \in 1 .. FullChunks(file) : Sum1(ChunkAt(file, j)) = weak => k # 0
<1>1. PICK F \in Nat : F = FullChunks(file)
  BY FullChunksIs
<1>2. PICK s : s = {0} \cup {j \in 1 .. F : Sum1(ChunkAt(file, j)) = weak}
  OBVIOUS
<1>3. s \in SUBSET (0 .. F) /\ s # {}
  BY <1>1, <1>2
<1>4. k = Max(s)
  BY <1>1, <1>2 DEF SumLeads
<1>5. k \in s /\ \A j \in s : j <= k
  BY <1>3, <1>4, BoundedMax
<1> QED
  BY <1>1, <1>2, <1>5

\* The places after one byte more.
LEMMA PlacesMore ==
  ASSUME NEW file, NEW nf, NEW k, NEW n \in Nat, n + 1 >= Chunk
  PROVE  /\ Places(file, nf, k, n + 1)
              = Places(file, nf, k, n)
                \cup (IF WindowAt(nf, n + 1) = ChunkAt(file, k) THEN {n + 1 - Chunk} ELSE {})
         /\ \A p \in Places(file, nf, k, n) : p \in Int /\ p <= n - Chunk
         /\ n + 1 - Chunk \in Nat
<1>1. PICK c \in Nat \ {0} : c = Chunk
  BY ChunkFacts
<1>2. PICK m \in Nat : m = n + 1 - Chunk /\ m = n + 1 - c
  BY <1>1
<1>3. 0 .. (n + 1) - c = (0 .. n - c) \cup {m} /\ m \notin 0 .. n - c
  BY <1>1, <1>2
<1>4. WindowAt(nf, n + 1) = SubSeq(nf, m + 1, m + c)
  <2>1. (n + 1) - c + 1 = m + 1 /\ n + 1 = m + c
    BY <1>1, <1>2
  <2> QED
    BY <1>1, <2>1 DEF WindowAt
<1>5. Places(file, nf, k, n + 1) = {p \in 0 .. (n + 1) - c : SubSeq(nf, p + 1, p + c) = ChunkAt(file, k)}
  BY <1>1 DEF Places
<1>6. Places(file, nf, k, n) = {p \in 0 .. n - c : SubSeq(nf, p + 1, p + c) = ChunkAt(file, k)}
  BY <1>1 DEF Places
<1>7. Places(file, nf, k, n + 1)
        = Places(file, nf, k, n) \cup (IF WindowAt(nf, n + 1) = ChunkAt(file, k) THEN {m} ELSE {})
  BY <1>3, <1>4, <1>5, <1>6
<1>8. \A p \in Places(file, nf, k, n) : p \in Int /\ p <= n - Chunk
  BY <1>1, <1>6
<1> QED
  BY <1>2, <1>7, <1>8

\* A mark is a change of two fields.
LEMMA MarkIs ==
  ASSUME NEW file, NEW list, NEW k, NEW at, NEW more, more = Local!Mark(list, k, at),
         Lists(list, file), FullChunks(file) \in Nat, k \in 1 .. FullChunks(file)
  PROVE  /\ Lists(more, file)
         /\ MarkedAt(more, list, file, k, at)
<1>1. PICK n \in Nat : n >= FullChunks(file) /\ list = [j \in 1 .. n |-> list[j]]
  BY DEF Lists
<1>2. PICK s, c : /\ s = Sum1(ChunkAt(file, k)) /\ c = ChunkAt(file, k)
                  /\ list[k] = [weak |-> s, strong |-> c, from |-> list[k].from,
                                offset |-> list[k].offset, length |-> Chunk]
  BY DEF Lists
<1>3. more = Local!Mark(list, k, at)
  OBVIOUS
<1>4. more = [[list EXCEPT ![k].from = FALSE] EXCEPT ![k].offset = at]
  BY <1>3 DEF Local!Mark
<1>5. PICK y : y = list[k]
  OBVIOUS
<1>6. more = [list EXCEPT ![k] = [[y EXCEPT !.from = FALSE] EXCEPT !.offset = at]]
  BY <1>1, <1>4, <1>5
<1>7. PICK from, offset : y = [weak |-> s, strong |-> c, from |-> from, offset |-> offset,
                               length |-> Chunk]
  BY <1>2, <1>5
<1>8. PICK z : z = [[y EXCEPT !.from = FALSE] EXCEPT !.offset = at]
  OBVIOUS
<1>9. z = [weak |-> s, strong |-> c, from |-> FALSE, offset |-> at, length |-> Chunk]
  <2>1. PICK W, S, F, O, N : /\ W = {s} /\ S = {c} /\ F = {from, FALSE} /\ O = {offset, at}
                             /\ N = {Chunk}
    OBVIOUS
  <2>2. y \in [weak : W, strong : S, from : F, offset : O, length : N]
    BY <1>7, <2>1
  <2>3. z \in [weak : W, strong : S, from : F, offset : O, length : N]
    BY <1>8, <2>1, <2>2
  <2>4. z.weak = s /\ z.strong = c /\ z.length = Chunk
    BY <2>1, <2>3
  <2>5. z.from = FALSE /\ z.offset = at
    BY <1>8, <2>2
  <2>6. z = [weak |-> z.weak, strong |-> z.strong, from |-> z.from, offset |-> z.offset,
             length |-> z.length]
    BY <2>3
  <2> QED
    BY <2>4, <2>5, <2>6
<1>10. k \in 1 .. n
  BY <1>1
<1>11. more = [j \in 1 .. n |-> IF j = k THEN z ELSE list[j]]
  BY <1>1, <1>6, <1>8, <1>10
<1>12. /\ more = [j \in 1 .. n |-> more[j]] /\ more[k] = z
       /\ \A j \in 1 .. FullChunks(file) : j # k => more[j] = list[j]
  <2>1. PICK g : g = more
    OBVIOUS
  <2>2. g = [j \in 1 .. n |-> IF j = k THEN z ELSE list[j]]
    BY <1>11, <2>1
  <2>3. g = [j \in 1 .. n |-> g[j]] /\ g[k] = z
    BY <1>10, <2>2
  <2>4. \A j \in 1 .. FullChunks(file) : j # k => g[j] = list[j]
    BY <1>1, <2>2
  <2> QED
    BY <2>1, <2>3, <2>4
<1>13. z.from = FALSE /\ z.offset = at
  BY <1>9
<1>14. Lists(more, file)
  <2>1. ASSUME NEW j \in 1 .. FullChunks(file)
        PROVE  more[j] = [weak |-> Sum1(ChunkAt(file, j)), strong |-> ChunkAt(file, j),
                         from |-> more[j].from, offset |-> more[j].offset, length |-> Chunk]
    <3>1. CASE j = k
      BY <1>2, <1>9, <1>12, <1>13, <3>1
    <3>2. CASE j # k
      BY <1>12, <3>2 DEF Lists
    <3> QED
      BY <3>1, <3>2
  <2> QED
    BY <1>1, <1>12, <2>1 DEF Lists
<1> QED
  BY <1>12, <1>13, <1>14 DEF MarkedAt

\* One byte more, and what is marked for it.
LEMMA MarkedMore ==
  ASSUME NEW file \in Seq(Int), NEW nf, NEW list, Lists(list, file),
         NEW n \in Nat, n + 1 >= Chunk, MarkedUpTo(list, file, nf, n),
         NEW k, k = SumLeads(file, Sum1(WindowAt(nf, n + 1))),
         NEW more, more = IF k # 0 /\ WindowAt(nf, n + 1) = list[k].strong
                          THEN Local!Mark(list, k, n + 1 - Chunk) ELSE list
  PROVE  Lists(more, file) /\ MarkedUpTo(more, file, nf, n + 1)
<1>1. FullChunks(file) \in Nat
  BY FullChunksIs
<1>2. PICK w : w = WindowAt(nf, n + 1)
  OBVIOUS
<1>3. PICK m \in Nat : m = n + 1 - Chunk /\ m = (n + 1) - Chunk
  BY ChunkFacts
<1>4. k \in 0 .. FullChunks(file) /\ (k # 0 => Sum1(ChunkAt(file, k)) = Sum1(w))
  BY <1>2, SumLeadsTo
<1>5. k # 0 => list[k].strong = ChunkAt(file, k)
  <2> SUFFICES ASSUME k # 0 PROVE list[k].strong = ChunkAt(file, k)
    OBVIOUS
  <2>1. PICK s, c, from, offset : /\ c = ChunkAt(file, k)
                                  /\ list[k] = [weak |-> s, strong |-> c, from |-> from,
                                                offset |-> offset, length |-> Chunk]
    <3>1. k \in 1 .. FullChunks(file)
      BY <1>1, <1>4
    <3> QED
      BY <3>1, ZenonT(60) DEF Lists
  <2> QED
    BY <2>1
<1>6. ASSUME NEW j \in 1 .. FullChunks(file)
      PROVE  /\ Spots(file, nf, j, n + 1)
                  = Spots(file, nf, j, n) \cup (IF j = k /\ w = ChunkAt(file, k) THEN {m} ELSE {})
             /\ \A p \in Spots(file, nf, j, n) : p \in Int /\ p <= m
  <2>1. CASE j = SumLeads(file, Sum1(ChunkAt(file, j)))
    <3>1. /\ Places(file, nf, j, n + 1)
                = Places(file, nf, j, n) \cup (IF w = ChunkAt(file, j) THEN {m} ELSE {})
          /\ \A p \in Places(file, nf, j, n) : p \in Int /\ p <= n - Chunk
      BY <1>2, <1>3, PlacesMore
    <3>2. w = ChunkAt(file, j) => j = k
      BY <1>2, <2>1
    <3>3. Spots(file, nf, j, n) = Places(file, nf, j, n)
          /\ Spots(file, nf, j, n + 1) = Places(file, nf, j, n + 1)
      BY <2>1 DEF Spots
    <3>4. \A p \in Int : p <= n - Chunk => p <= m
      BY <1>3, ChunkFacts
    <3> QED
      BY <3>1, <3>2, <3>3, <3>4
  <2>2. CASE j # SumLeads(file, Sum1(ChunkAt(file, j)))
    <3>1. j # k
      BY <1>2, <1>4, <2>2
    <3> QED
      BY <2>2, <3>1 DEF Spots
  <2> QED
    BY <2>1, <2>2
<1>7. CASE ~(k # 0 /\ w = list[k].strong)
  <2>1. more = list
    BY <1>2, <1>7
  <2>2. \A j \in 1 .. FullChunks(file) : Spots(file, nf, j, n + 1) = Spots(file, nf, j, n)
    <3>1. \A j \in 1 .. FullChunks(file) : j # 0
      BY <1>1
    <3>2. ~(k # 0 /\ w = ChunkAt(file, k))
      BY <1>5, <1>7
    <3> QED
      BY <1>6, <3>1, <3>2
  <2> QED
    BY <2>1, <2>2 DEF MarkedUpTo
<1>8. CASE k # 0 /\ w = list[k].strong
  <2>1. k \in 1 .. FullChunks(file) /\ w = ChunkAt(file, k)
    BY <1>1, <1>4, <1>5, <1>8
  <2>2. Lists(more, file) /\ MarkedAt(more, list, file, k, m)
    <3>1. more = Local!Mark(list, k, m)
      BY <1>2, <1>3, <1>8
    <3>2. Lists(list, file)
      OBVIOUS
    <3> QED
      BY <1>1, <2>1, <3>1, <3>2, MarkIs
  <2>3. Spots(file, nf, k, n + 1) # {} /\ Max(Spots(file, nf, k, n + 1)) = m
    <3>1. PICK s : s = Spots(file, nf, k, n + 1)
      OBVIOUS
    <3>2. m \in s /\ s \in SUBSET Int /\ \A p \in s : p <= m
      BY <1>6, <2>1, <3>1
    <3>3. Max(s) = m
      BY <3>2, MaxIs
    <3> QED
      BY <3>1, <3>2, <3>3
  <2>4. ASSUME NEW j \in 1 .. FullChunks(file)
        PROVE  IF Spots(file, nf, j, n + 1) = {} THEN more[j].from = TRUE
               ELSE more[j].from = FALSE /\ more[j].offset = Max(Spots(file, nf, j, n + 1))
    <3>1. CASE j = k
      BY <2>2, <2>3, <3>1 DEF MarkedAt
    <3>2. CASE j # k
      <4>1. Spots(file, nf, j, n + 1) = Spots(file, nf, j, n) /\ more[j] = list[j]
        BY <1>6, <2>2, <3>2 DEF MarkedAt
      <4> QED
        BY <4>1 DEF MarkedUpTo
    <3> QED
      BY <3>1, <3>2
  <2> QED
    BY <2>2, <2>4 DEF MarkedUpTo
<1> QED
  BY <1>7, <1>8

\* GetData leaves a window, too.
LEMMA GetDataWindow ==
  ASSUME NEW T, Junk \in T, NEW q \in Windows(T)
  PROVE  /\ GetData(q) \in Windows(T) /\ Contents(GetData(q)) = Contents(q)
         /\ GetData(q).size = Chunk
         /\ [j \in 1 .. GetData(q).size |-> GetData(q).data[j - 1]] = Contents(q)
<1>1. PICK n \in Nat \ {0} : q \in Rings(T, n)
  BY DEF Windows, AllRings
<1>2. /\ q.capacity = n /\ q.data \in [0 .. n - 1 -> T] /\ q.size = Chunk
      /\ q.size \in 0 .. n - 1 /\ q.front \in 0 .. n - 1 /\ q.end \in 0 .. n - 1
  BY <1>1, RingFacts DEF Windows
<1>3. GetData(q) = [data |-> Moved(q, n), capacity |-> n, size |-> q.size,
                    front |-> 0, end |-> q.size]
  BY <1>2 DEF GetData, Realloc
<1>4. Moved(q, n) \in [0 .. n - 1 -> T]
  <2>1. PICK count, wrapped, tail :
          Moved(q, n) = [i \in 0 .. n - 1 |->
             IF i < count /\ (IF wrapped /\ i >= tail THEN i - tail ELSE q.front + i) < q.capacity
               THEN q.data[IF wrapped /\ i >= tail THEN i - tail ELSE q.front + i] ELSE Junk]
          /\ tail = n - q.front
    BY DEF Moved
  <2>2. ASSUME NEW i \in 0 .. n - 1, NEW j, j = (IF wrapped /\ i >= tail THEN i - tail ELSE q.front + i),
               j < q.capacity
        PROVE  q.data[j] \in T
    <3>1. j \in 0 .. n - 1
      BY <1>2, <2>1, <2>2
    <3> QED
      BY <1>2, <3>1
  <2> QED
    BY <2>1, <2>2
<1>5. GetData(q) \in Rings(T, n)
  <2>1. Cell(GetData(q), GetData(q).size + 1) = q.size
    BY <1>2, <1>3 DEF Cell
  <2> QED
    BY <1>2, <1>3, <1>4, <2>1 DEF Rings
<1>6. GetData(q) \in Windows(T)
  BY <1>2, <1>3, <1>5 DEF Windows, AllRings
<1>7. /\ Contents(GetData(q)) = Contents(q)
      /\ \A i \in 1 .. q.size : GetData(q).data[i - 1] = Contents(q)[i]
  BY <1>1, GetDataStraightens
<1>8. Contents(q) = [i \in 1 .. Chunk |-> Contents(q)[i]]
  BY <1>2 DEF Contents
<1>9. GetData(q).size = Chunk
  BY <1>2, <1>3
<1>10. [j \in 1 .. GetData(q).size |-> GetData(q).data[j - 1]] = Contents(q)
  BY <1>2, <1>7, <1>8, <1>9
<1> QED
  BY <1>6, <1>7, <1>9, <1>10

\* One byte more in the window.
LEMMA OverMore ==
  ASSUME NEW nf \in Seq(Int), NEW n \in Nat, n >= Chunk, n + 1 <= Len(nf),
         NEW m, Over(m, nf, n)
  PROVE  Over(Update(m, nf[n + 1]), nf, n + 1)
<1>1. PICK c \in Nat \ {0} : c = Chunk
  BY ChunkFacts
<1>2. PICK p \in Nat : p = n - c /\ p + c + 1 <= Len(nf)
  BY <1>1
<1>3. WindowAt(nf, n) = SubSeq(nf, p + 1, p + c)
  <2>1. n - c + 1 = p + 1 /\ n = p + c
    BY <1>1, <1>2
  <2> QED
    BY <1>1, <2>1 DEF WindowAt
<1>4. WindowAt(nf, n + 1) = SubSeq(nf, p + 2, p + c + 1)
  <2>1. (n + 1) - c + 1 = p + 2 /\ n + 1 = p + c + 1
    BY <1>1, <1>2
  <2> QED
    BY <1>1, <2>1 DEF WindowAt
<1>5. nf[n + 1] \in Int /\ nf[n + 1] = nf[p + c + 1]
  BY <1>1, <1>2
<1>6. Tail(Append(SubSeq(nf, p + 1, p + c), nf[p + c + 1])) = SubSeq(nf, p + 2, p + c + 1)
  BY <1>1, <1>2, WindowShifts
<1>7. /\ Agrees(Update(m, nf[n + 1]))
      /\ Contents(Update(m, nf[n + 1]).ring) = Tail(Append(Contents(m.ring), nf[n + 1]))
  BY <1>5, UpdateAgrees DEF Over
<1> QED
  BY <1>3, <1>4, <1>5, <1>6, <1>7 DEF Over

\* The bytes of a window.
LEMMA WindowIs ==
  ASSUME NEW nf \in Seq(Int), NEW n \in Nat, n >= Chunk, n <= Len(nf)
  PROVE  /\ WindowAt(nf, n) \in Seq(Int) /\ Len(WindowAt(nf, n)) = Chunk
         /\ WindowAt(nf, n) = [j \in 1 .. Chunk |-> nf[n - Chunk + j]]
<1>1. PICK c \in Nat \ {0} : c = Chunk
  BY ChunkFacts
<1>2. PICK p \in Nat : p = n - c /\ n = p + c
  BY <1>1
<1>3. PICK w : w = SubSeq(nf, p + 1, n)
  OBVIOUS
<1>4. w \in Seq(Int) /\ Len(w) = c /\ \A j \in 1 .. c : w[j] = nf[p + j]
  <2>1. /\ Len(w) = IF p + 1 <= n THEN n - (p + 1) + 1 ELSE 0
        /\ \A j \in 1 .. n - (p + 1) + 1 : w[j] = nf[p + 1 + j - 1]
    BY <1>2, <1>3
  <2>2. n - (p + 1) + 1 = c /\ p + 1 <= n
    BY <1>2
  <2>3. w \in Seq(Int)
    <3>1. \A j \in p + 1 .. n : nf[j] \in Int
      BY <1>2
    <3> QED
      BY <1>2, <1>3, <3>1
  <2>4. \A j \in 1 .. c : p + 1 + j - 1 = p + j
    BY <1>1, <1>2
  <2> QED
    BY <2>1, <2>2, <2>3, <2>4
<1>5. w = [j \in 1 .. c |-> nf[p + j]]
  <2>1. w = [j \in 1 .. c |-> w[j]]
    BY <1>4
  <2> QED
    BY <1>4, <2>1
<1>6. w = WindowAt(nf, n)
  <2>1. n - c + 1 = p + 1
    BY <1>2
  <2> QED
    BY <1>1, <1>3, <2>1 DEF WindowAt
<1> QED
  BY <1>1, <1>2, <1>4, <1>5, <1>6

\* Before the first window nothing is found.
LEMMA NowhereYet ==
  ASSUME NEW file, NEW nf, NEW list, NEW n \in Nat, n < Chunk,
         \A k \in 1 .. FullChunks(file) : list[k].from = TRUE
  PROVE  MarkedUpTo(list, file, nf, n)
<1>1. 0 .. n - Chunk = {}
  BY ChunkFacts
<1>2. \A k : Spots(file, nf, k, n) = {}
  BY <1>1 DEF Spots, Places
<1> QED
  BY <1>2 DEF MarkedUpTo

\* What Describe writes describes src, and nothing is found yet.
LEMMA DescribedCopy ==
  ASSUME src \in Seq(Int), Local!Describe
  PROVE  /\ Lists(meta', src)
         /\ \A k \in 1 .. FullChunks(src) : meta'[k].from = TRUE
<1>1. PICK F \in Nat : F = FullChunks(src)
  BY FullChunksIs
<1>2. PICK full : full = [k \in 1 .. F |->
        [weak |-> Sum1(ChunkAt(src, k)), strong |-> ChunkAt(src, k), from |-> TRUE,
         offset |-> (k - 1) * Chunk, length |-> Chunk]]
  OBVIOUS
<1>3. PICK last : /\ last = <<>> \/ \E x : last = <<x>>
                  /\ meta' = full \o last
  <2>1. PICK rest : rest = Len(src) % Chunk
    OBVIOUS
  <2>2. PICK x : x = [from |-> TRUE, offset |-> Len(src) - rest, length |-> rest]
    OBVIOUS
  <2>3. \A k \in 1 .. F : SubSeq(src, (k - 1) * Chunk + 1, k * Chunk) = ChunkAt(src, k)
    <3>1. PICK c \in Nat : c = Chunk
      BY ChunkFacts
    <3>2. \A k \in Nat : (k - 1) * c + c = k * c
      BY <3>1
    <3> QED
      BY <1>1, <3>1, <3>2 DEF ChunkAt
  <2>4. [k \in 1 .. F |->
          [weak |-> Sum1(SubSeq(src, (k - 1) * Chunk + 1, k * Chunk)),
           strong |-> SubSeq(src, (k - 1) * Chunk + 1, k * Chunk), from |-> TRUE,
           offset |-> (k - 1) * Chunk, length |-> Chunk]] = full
    BY <1>2, <2>3
  <2>5. meta' = full \o (IF rest = 0 THEN <<>> ELSE <<x>>)
    BY <1>1, <2>1, <2>2, <2>4, SameSum, SameLookup DEF Local!Describe
  <2> QED
    BY <2>5
<1>4. PICK S : /\ full \in Seq(S) /\ last \in Seq(S)
  <2>1. PICK x : last = <<>> \/ last = <<x>>
    BY <1>3
  <2>2. PICK S : S = {full[k] : k \in 1 .. F} \cup {x}
    OBVIOUS
  <2>3. full \in Seq(S)
    <3>1. full = [k \in 1 .. F |-> full[k]]
      BY <1>2
    <3>2. \A k \in 1 .. F : full[k] \in S
      BY <2>2
    <3> QED
      BY <3>1, <3>2
  <2>4. <<>> \in Seq(S) /\ <<x>> \in Seq(S)
    <3>1. x \in S
      BY <2>2
    <3> QED
      BY <3>1
  <2> QED
    BY <2>1, <2>3, <2>4
<1>5. Len(full) = F
  BY <1>1, <1>2
<1>6. PICK n \in Nat : n = F + Len(last)
  BY <1>1, <1>4
<1>7. PICK list : list = full \o last
  OBVIOUS
<1>8. /\ n >= F /\ list = [k \in 1 .. n |-> list[k]]
      /\ \A k \in 1 .. F : list[k] = full[k]
  <2>1. list \in Seq(S) /\ Len(list) = n
    BY <1>4, <1>5, <1>6, <1>7
  <2>2. \A k \in 1 .. F : list[k] = full[k]
    BY <1>1, <1>4, <1>5, <1>7
  <2>3. n >= F
    BY <1>1, <1>4, <1>6
  <2> QED
    BY <2>1, <2>2, <2>3
<1>9. ASSUME NEW k \in 1 .. F
      PROVE  /\ list[k] = [weak |-> Sum1(ChunkAt(src, k)), strong |-> ChunkAt(src, k),
                           from |-> list[k].from, offset |-> list[k].offset, length |-> Chunk]
             /\ list[k].from = TRUE
  <2>1. PICK s, c, o : s = Sum1(ChunkAt(src, k)) /\ c = ChunkAt(src, k) /\ o = (k - 1) * Chunk
    OBVIOUS
  <2>2. list[k] = [weak |-> s, strong |-> c, from |-> TRUE, offset |-> o, length |-> Chunk]
    BY <1>2, <1>8, <2>1
  <2> QED
    BY <2>1, <2>2
<1> QED
  BY <1>1, <1>3, <1>7, <1>8, <1>9 DEF Lists

\* The chunk that the sum of a window leads to, in the list of the copy.
LEMMA CopyLooks ==
  ASSUME src \in Seq(Int), Lists(meta, src), NEW n, NEW m, Over(m, dst, n)
  PROVE  Local!Lookup(Local!Full, m.sum) = SumLeads(src, Sum1(WindowAt(dst, n)))
<1>1. m.sum = Sum1(WindowAt(dst, n))
  BY DEF Over, Agrees
<1>2. Local!Full = SubSeq(meta, 1, FullChunks(src))
  BY SameLookup DEF Local!Full
<1>3. PICK s : s = m.sum
  OBVIOUS
<1>4. Lookup(SubSeq(meta, 1, FullChunks(src)), s) = SumLeads(src, s)
  BY ListLeads
<1> QED
  BY <1>1, <1>2, <1>3, <1>4, SameLookup

\* The window at the start of dst.
LEMMA FirstMarks ==
  ASSUME Slides, src \in Seq(Int), Long, Lists(meta, src), summer = NewSummer,
         Local!First
  PROVE  Over(summer', dst, Chunk) /\ MarksEnd(src, dst, meta, meta', method, Chunk)
<1>1. PICK c \in Nat \ {0} : c = Chunk /\ c <= Len(dst)
  BY ChunkFacts DEF Long
<1>2. Chunk - Chunk = 0
  BY <1>1
<1>3. PICK w : w = WindowAt(dst, c)
  OBVIOUS
<1>4. w \in Seq(Int) /\ Len(w) = c /\ w = [j \in 1 .. c |-> dst[j]]
  <2>1. /\ WindowAt(dst, c) \in Seq(Int) /\ Len(WindowAt(dst, c)) = Chunk
        /\ WindowAt(dst, c) = [j \in 1 .. Chunk |-> dst[c - Chunk + j]]
    BY <1>1, WindowIs DEF Long
  <2>2. \A j \in 1 .. c : c - Chunk + j = j
    BY <1>1
  <2> QED
    BY <1>1, <1>3, <2>1, <2>2
<1>5. [i \in 1 .. Chunk |-> IF i <= Len(dst) THEN dst[i] ELSE Junk] = w
  <2>1. \A i \in 1 .. c : i <= Len(dst)
    BY <1>1 DEF Long
  <2> QED
    BY <1>1, <1>4, <2>1
<1>6. PICK m : m = SummerInit(summer, w)
  OBVIOUS
<1>7. Over(m, dst, c)
  BY <1>1, <1>3, <1>4, <1>6, NewRingIsRing, InitAgrees DEF Over
<1>8. PICK k : k = Local!Lookup(Local!Full, m.sum)
  OBVIOUS
<1>9. k = SumLeads(src, Sum1(w))
  BY <1>3, <1>7, <1>8, CopyLooks
<1>10. /\ summer' = m
       /\ meta' = IF Local!Confirmed(k, w) THEN Local!Mark(meta, k, 0) ELSE meta
  BY <1>5, <1>6, <1>8, SameInit DEF Local!First
<1>11. MarksWindow(src, meta, meta', method, w, 0)
  BY <1>9, <1>10 DEF MarksWindow, Local!Confirmed
<1>12. MarksEnd(src, dst, meta, meta', method, Chunk)
  BY <1>1, <1>2, <1>3, <1>11 DEF MarksEnd
<1> QED
  BY <1>1, <1>7, <1>10, <1>12

\* cp6 reads the window in them.
LEMMA CellsAreWindow ==
  ASSUME NEW m, NEW nf, NEW n, Over(m, nf, n), NEW g, g = GetData(m.ring)
  PROVE  Cells(g) = WindowAt(nf, n) /\ g \in Windows(Int) /\ Contents(g) = WindowAt(nf, n)
<1>1. m.ring \in Windows(Int) /\ Contents(m.ring) = WindowAt(nf, n)
  BY DEF Over, Agrees
<1> QED
  BY <1>1, ChunkFacts, GetDataWindow DEF Cells

\* What it puts in order is still the sum of the window.
LEMMA OverInOrder ==
  ASSUME NEW r, NEW s, NEW m, m = [ring |-> r, sum |-> s], NEW nf, NEW n, Over(m, nf, n),
         NEW g, g = GetData(m.ring)
  PROVE  Over([m EXCEPT !.ring = g], nf, n)
<1>1. m.sum = s /\ s = Sum1(WindowAt(nf, n))
  BY DEF Over, Agrees
<1>2. g \in Windows(Int) /\ Contents(g) = WindowAt(nf, n)
  BY CellsAreWindow
<1>3. PICK h : h = [m EXCEPT !.ring = g]
  OBVIOUS
<1>4. h.ring = g /\ h.sum = s
  BY <1>1, <1>3
<1>5. Over(h, nf, n)
  BY <1>1, <1>2, <1>4 DEF Over, Agrees
<1> QED
  BY <1>3, <1>5

\* One byte of a batch.
LEMMA SlideMarks ==
  ASSUME Slides, src \in Seq(Int), Long, Marking, InBatch, left \in Nat, Local!Slide
  PROVE  /\ Over(summer', dst, curr + 1) /\ curr + 1 \in Chunk .. Len(dst)
         /\ MarksEnd(src, dst, meta, meta', method, curr + 1)
<1>1. PICK c \in Nat \ {0}, n \in Nat, L \in Nat :
        c = Chunk /\ n = curr /\ L = Len(dst) /\ c <= n /\ n <= L
  <2>1. PICK c \in Nat \ {0} : c = Chunk
    BY ChunkFacts
  <2>2. PICK L \in Nat : L = Len(dst)
    BY DEF Long
  <2>3. curr \in c .. L
    BY <2>1, <2>2 DEF Marking
  <2>4. curr \in Nat /\ c <= curr /\ curr <= L
    BY <2>3
  <2> QED
    BY <2>1, <2>2, <2>4
<1>2. PICK again \in Nat, start \in Nat, i \in Nat, fresh \in Nat :
        /\ again = IF method = "cp4" THEN Chunk ELSE 0
        /\ batch = [start |-> start, length |-> fresh + again, i |-> i, fresh |-> fresh]
        /\ again <= i /\ i <= fresh + again
        /\ start + i = curr
        /\ start + again + left = Len(dst) /\ fresh <= left
  BY DEF InBatch
<1>3. i < fresh + again
  BY <1>2 DEF Local!Slide
<1>4. n + 1 <= L
  BY <1>1, <1>2, <1>3
<1>5. PICK w : w = WindowAt(dst, n + 1)
  OBVIOUS
<1>6. w = [j \in 1 .. c |-> dst[n + 1 - c + j]]
  <2>1. PICK q \in Nat : q = n + 1 /\ q >= Chunk /\ q <= Len(dst)
    BY <1>1, <1>4
  <2>2. WindowAt(dst, q) = [j \in 1 .. Chunk |-> dst[q - Chunk + j]]
    BY <2>1, WindowIs DEF Long
  <2>3. w = [j \in 1 .. c |-> dst[q - c + j]]
    BY <1>1, <1>5, <2>1, <2>2
  <2> QED
    BY <2>1, <2>3
<1>7. PICK m : m = Update(summer, dst[n + 1])
  OBVIOUS
<1>8. Over(m, dst, n + 1)
  BY <1>1, <1>4, <1>7, OverMore DEF Long, Marking
<1>9. PICK r, s : m = [ring |-> r, sum |-> s]
  BY <1>7 DEF Update
<1>10. PICK k : k = Local!Lookup(Local!Full, m.sum)
  OBVIOUS
<1>11. k = SumLeads(src, Sum1(w))
  BY <1>5, <1>8, <1>10, CopyLooks DEF Marking
<1>12. PICK g : g = GetData(m.ring)
  OBVIOUS
<1>13. PICK b : b = IF method = "cp6" THEN Cells(g)
                    ELSE [j \in 1 .. Chunk |-> dst[batch.start + (batch.i - Chunk + j) + 1]]
  OBVIOUS
<1>14. b = w
  <2>1. CASE method = "cp6"
    <3>1. Cells(g) = WindowAt(dst, n + 1)
      BY <1>8, <1>12, CellsAreWindow
    <3> QED
      BY <1>5, <1>13, <2>1, <3>1
  <2>2. CASE method # "cp6"
    <3>1. batch.start = start /\ batch.i = i
      BY <1>2
    <3>2. \A j \in 1 .. c : start + (i - c + j) + 1 = n + 1 - c + j
      BY <1>1, <1>2
    <3> QED
      BY <1>1, <1>6, <1>13, <2>2, <3>1, <3>2
  <2> QED
    BY <2>1, <2>2
<1>15. /\ summer' = IF method = "cp6" /\ k # 0 THEN [m EXCEPT !.ring = g] ELSE m
       /\ meta' = IF Local!Confirmed(k, w) THEN Local!Mark(meta, k, Local!Window) ELSE meta
  <2>1. batch.start + batch.i + 1 = n + 1
    BY <1>1, <1>2
  <2>2. Local!Update(summer, dst[batch.start + batch.i + 1]) = m
    BY <1>7, <2>1, SameUpdate
  <2>3. Local!GetData(m.ring) = g
    BY <1>12, SameRing
  <2>4. /\ summer' = IF method = "cp6" /\ k # 0 THEN [m EXCEPT !.ring = g] ELSE m
        /\ meta' = IF Local!Confirmed(k, b) THEN Local!Mark(meta, k, Local!Window) ELSE meta
    BY <1>10, <1>13, <2>2, <2>3 DEF Local!Slide, Cells
  <2> QED
    BY <1>14, <2>4
<1>16. Over(summer', dst, n + 1)
  BY <1>8, <1>9, <1>12, <1>15, OverInOrder
<1>17. MarksEnd(src, dst, meta, meta', method, n + 1)
  <2>1. Local!Window = (n + 1) - Chunk
    BY <1>1 DEF Local!Window
  <2>2. MarksWindow(src, meta, meta', method, w, Local!Window)
    BY <1>11, <1>15 DEF MarksWindow, Local!Confirmed
  <2> QED
    BY <1>5, <2>1, <2>2 DEF MarksEnd
<1>18. n + 1 \in Chunk .. Len(dst)
  BY <1>1, <1>4
<1> QED
  BY <1>1, <1>16, <1>17, <1>18

\* What that does to the list.
LEMMA MarksAreKept ==
  ASSUME src \in Seq(Int), NEW n \in Nat, n + 1 >= Chunk, Lists(meta, src),
         method # "cp3" => MarkedUpTo(meta, src, dst, n),
         MarksEnd(src, dst, meta, meta', method, n + 1)
  PROVE  /\ Lists(meta', src)
         /\ method # "cp3" => MarkedUpTo(meta', src, dst, n + 1)
<1> PICK w, p : w = WindowAt(dst, n + 1) /\ p = (n + 1) - Chunk
  OBVIOUS
<1>1. PICK k : /\ k = SumLeads(src, Sum1(w))
               /\ meta' = IF k # 0 /\ (method = "cp3" \/ w = meta[k].strong)
                            THEN Local!Mark(meta, k, p) ELSE meta
  <2>1. MarksWindow(src, meta, meta', method, w, p)
    BY DEF MarksEnd
  <2> QED
    BY <2>1 DEF MarksWindow
<1>2. PICK more : more = meta'
  OBVIOUS
<1>3. CASE method = "cp3"
  <2>1. CASE k = 0
    BY <1>1, <1>3, <2>1
  <2>2. CASE k # 0
    <3>1. FullChunks(src) \in Nat /\ k \in 1 .. FullChunks(src)
      BY <1>1, <2>2, FullChunksIs, SumLeadsTo
    <3>2. more = Local!Mark(meta, k, p)
      BY <1>1, <1>2, <1>3, <2>2
    <3>3. Lists(more, src)
      BY <3>1, <3>2, MarkIs
    <3> QED
      BY <1>2, <1>3, <3>3
  <2> QED
    BY <2>1, <2>2
<1>4. CASE method # "cp3"
  <2>1. more = IF k # 0 /\ WindowAt(dst, n + 1) = meta[k].strong
               THEN Local!Mark(meta, k, n + 1 - Chunk) ELSE meta
    <3>1. p = n + 1 - Chunk
      BY ChunkFacts
    <3> QED
      BY <1>1, <1>2, <1>4, <3>1
  <2>2. Lists(more, src) /\ MarkedUpTo(more, src, dst, n + 1)
    BY <1>1, <1>4, <2>1, MarkedMore
  <2> QED
    BY <1>2, <2>2
<1> QED
  BY <1>3, <1>4

\* Every step keeps it.
LEMMA CopyStep ==
  ASSUME CopyFiles, CopyInv, [Local!Next]_(Local!vars)
  PROVE  CopyInv'
<1>1. CASE UNCHANGED Local!vars
  <2>1. UNCHANGED <<method, src, dst, stage, meta, summer, curr, left, batch>>
    BY <1>1 DEF Local!vars
  <2> QED
    BY <2>1 DEF CopyInv, Slides, Marking, InBatch
<1>2. CASE Local!Describe
  <2>1. /\ stage = "describe"
        /\ stage' = IF dst = NoFile THEN "crashed"
                    ELSE IF method = "cp7" THEN "skip" ELSE "first"
        /\ UNCHANGED <<method, src, dst, summer, curr, left, batch>>
    BY <1>2 DEF Local!Describe
  <2>2. src \in Seq(Int) /\ dst \in Dsts /\ (dst # NoFile => dst \in Seq(Int))
    BY DEF CopyInv, CopyFiles
  <2>3. /\ Lists(meta', src)
        /\ \A k \in 1 .. FullChunks(src) : meta'[k].from = TRUE
    BY <1>2, <2>2, DescribedCopy
  <2>4. Slides' => stage' \in {"crashed", "first"} /\ summer' = NewSummer
    BY <2>1 DEF CopyInv, Slides
  <2>5. stage' = "first" => dst' \in Seq(Int)
    BY <2>1, <2>2
  <2> QED
    BY <2>1, <2>2, <2>3, <2>4, <2>5 DEF CopyInv, Slides
<1>3. CASE Local!First
  <2>1. /\ stage = "first" /\ stage' = "batch"
        /\ curr' = Chunk /\ left' = Len(dst) - Chunk
        /\ UNCHANGED <<method, src, dst, batch>>
    BY <1>3 DEF Local!First
  <2>2. src \in Seq(Int) /\ dst \in Dsts /\ (Slides => dst \in Seq(Int))
    BY <2>1 DEF CopyInv
  <2>3. ASSUME Slides, Len(dst) >= Chunk
        PROVE  Marking' /\ left' = (Len(dst) - curr)'
    <3>1. /\ Lists(meta, src) /\ summer = NewSummer
          /\ \A k \in 1 .. FullChunks(src) : meta[k].from = TRUE
      BY <2>1, <2>3 DEF CopyInv
    <3>2. Over(summer', dst, Chunk) /\ MarksEnd(src, dst, meta, meta', method, Chunk)
      BY <1>3, <2>2, <2>3, <3>1, FirstMarks DEF Long
    <3>3. Chunk \in Chunk .. Len(dst)
      BY <2>2, <2>3, ChunkFacts
    <3>4. PICK n \in Nat : n + 1 = Chunk /\ n < Chunk
      <4>1. Chunk - 1 \in Nat /\ (Chunk - 1) + 1 = Chunk /\ Chunk - 1 < Chunk
        BY ChunkFacts
      <4> QED
        BY <4>1
    <3>5. MarkedUpTo(meta, src, dst, n)
      BY <3>1, <3>4, NowhereYet
    <3>6. n + 1 >= Chunk /\ MarksEnd(src, dst, meta, meta', method, n + 1)
      BY <3>2, <3>4, ChunkFacts
    <3>7. /\ Lists(meta', src)
          /\ method # "cp3" => MarkedUpTo(meta', src, dst, n + 1)
      BY <2>2, <3>1, <3>5, <3>6, MarksAreKept
    <3> QED
      BY <2>1, <3>2, <3>3, <3>4, <3>7 DEF Marking
  <2> QED
    BY <2>1, <2>2, <2>3 DEF CopyInv, Slides
<1>4. CASE Local!Refill
  <2>1. /\ stage = "batch" /\ left > 0 /\ stage' = "slide"
        /\ UNCHANGED <<method, src, dst, meta, summer, curr, left>>
    BY <1>4 DEF Local!Refill
  <2>2. ASSUME Slides, Len(dst) >= Chunk
        PROVE  Marking' /\ left' \in Nat /\ InBatch'
    <3>1. Marking /\ left = Len(dst) - curr /\ dst \in Seq(Int)
      BY <2>1, <2>2 DEF CopyInv
    <3>2. PICK c \in Nat \ {0}, n \in Nat, L \in Nat :
            c = Chunk /\ n = curr /\ L = Len(dst) /\ c <= n /\ n <= L
      <4>1. PICK c \in Nat \ {0} : c = Chunk
        BY ChunkFacts
      <4>2. PICK L \in Nat : L = Len(dst)
        BY <3>1
      <4>3. curr \in c .. L
        BY <3>1, <4>1, <4>2 DEF Marking
      <4>4. curr \in Nat /\ c <= curr /\ curr <= L
        BY <4>3
      <4> QED
        BY <4>1, <4>2, <4>4
    <3>3. PICK l \in Nat \ {0} : l = left /\ l = L - n
      BY <2>1, <3>1, <3>2
    <3>4. PICK fresh \in Nat : fresh = Local!Min({ScanBuffer, left}) /\ fresh <= l
      <4>1. PICK e \in Nat : e = ScanBuffer
        BY DEF CopyFiles
      <4>2. PICK f : f = Min({e, l})
        OBVIOUS
      <4>3. f = IF e <= l THEN e ELSE l
        BY <4>1, <4>2, MinIs
      <4>4. f = Local!Min({ScanBuffer, left})
        BY <3>3, <4>1, <4>2, SameLookup
      <4> QED
        BY <4>1, <4>3, <4>4
    <3>5. PICK again \in Nat : again = (IF method = "cp4" THEN Chunk ELSE 0) /\ again <= n
      BY <3>2
    <3>6. PICK start \in Nat : start = n - again /\ start + again = n
      <4>1. n - again \in Nat /\ (n - again) + again = n
        BY <3>2, <3>5
      <4> QED
        BY <4>1
    <3>7. batch' = [start |-> start, length |-> fresh + again, i |-> again, fresh |-> fresh]
      BY <1>4, <3>2, <3>4, <3>5, <3>6 DEF Local!Refill
    <3>8. start + again + l = L /\ again <= fresh + again
      BY <3>2, <3>3, <3>6
    <3>9. InBatch'
      <4>1. /\ again = (IF method' = "cp4" THEN Chunk ELSE 0)
            /\ start + again = curr' /\ start + again + left' = Len(dst') /\ fresh <= left'
        BY <2>1, <3>2, <3>3, <3>4, <3>5, <3>6, <3>8
      <4>2. PICK i \in Nat : i = again /\ again <= i /\ i <= fresh + again
        BY <3>8
      <4>3. /\ batch' = [start |-> start, length |-> fresh + again, i |-> i, fresh |-> fresh]
            /\ start + i = curr'
        BY <3>7, <4>1, <4>2
      <4> QED
        BY <4>1, <4>2, <4>3 DEF InBatch
    <3> QED
      BY <2>1, <3>1, <3>3, <3>9 DEF Marking
  <2> QED
    BY <2>1, <2>2 DEF CopyInv, Slides
<1>5. CASE Local!Slide
  <2>1. /\ stage = "slide" /\ batch.i < batch.length
        /\ curr' = curr + 1 /\ batch' = [batch EXCEPT !.i = @ + 1]
        /\ UNCHANGED <<method, src, dst, stage, left>>
    BY <1>5 DEF Local!Slide
  <2>2. ASSUME Slides, Len(dst) >= Chunk
        PROVE  Marking' /\ InBatch' /\ left \in Nat
    <3>1. src \in Seq(Int) /\ Long /\ Marking /\ InBatch /\ left \in Nat
      BY <2>1, <2>2 DEF CopyInv, Long
    <3>2. /\ Over(summer', dst, curr + 1) /\ curr + 1 \in Chunk .. Len(dst)
          /\ MarksEnd(src, dst, meta, meta', method, curr + 1)
      BY <1>5, <2>2, <3>1, SlideMarks
    <3>3. Marking'
      <4>1. curr \in Nat /\ curr + 1 >= Chunk
        BY <3>1, ChunkFacts DEF Marking, Long
      <4>2. Lists(meta, src) /\ (method # "cp3" => MarkedUpTo(meta, src, dst, curr))
        BY <3>1 DEF Marking
      <4>3. /\ Lists(meta', src)
            /\ method # "cp3" => MarkedUpTo(meta', src, dst, curr + 1)
        BY <3>1, <3>2, <4>1, <4>2, MarksAreKept
      <4> QED
        BY <2>1, <3>2, <4>3 DEF Marking
    <3>4. PICK again \in Nat, start \in Nat, i \in Nat, fresh \in Nat :
            /\ again = IF method = "cp4" THEN Chunk ELSE 0
            /\ batch = [start |-> start, length |-> fresh + again, i |-> i, fresh |-> fresh]
            /\ again <= i /\ i <= fresh + again
            /\ start + i = curr
            /\ start + again + left = Len(dst) /\ fresh <= left
      BY <3>1 DEF InBatch
    <3>5. PICK j \in Nat : j = i + 1
      OBVIOUS
    <3>6. /\ batch' = [start |-> start, length |-> fresh + again, i |-> j, fresh |-> fresh]
          /\ i < fresh + again
      <4>1. batch.i = i /\ batch.length = fresh + again
        BY <3>4
      <4> QED
        BY <2>1, <3>4, <3>5, <4>1
    <3>7. again <= j /\ j <= fresh + again /\ start + j = curr + 1
      BY <3>4, <3>5, <3>6
    <3>8. InBatch'
      BY <2>1, <3>4, <3>6, <3>7 DEF InBatch
    <3> QED
      BY <3>1, <3>3, <3>8
  <2> QED
    BY <2>1, <2>2 DEF CopyInv, Slides
<1>6. CASE Local!BatchDone
  <2>1. /\ stage = "slide" /\ batch.i = batch.length /\ stage' = "batch"
        /\ left' = left - batch.fresh
        /\ UNCHANGED <<method, src, dst, meta, summer, curr>>
    BY <1>6 DEF Local!BatchDone
  <2>2. ASSUME Slides, Len(dst) >= Chunk
        PROVE  Marking' /\ left' = (Len(dst) - curr)'
    <3>1. dst \in Seq(Int) /\ Marking /\ InBatch /\ left \in Nat
      BY <2>1, <2>2 DEF CopyInv
    <3>2. PICK again \in Nat, start \in Nat, i \in Nat, fresh \in Nat :
            /\ again = IF method = "cp4" THEN Chunk ELSE 0
            /\ batch = [start |-> start, length |-> fresh + again, i |-> i, fresh |-> fresh]
            /\ again <= i /\ i <= fresh + again
            /\ start + i = curr
            /\ start + again + left = Len(dst) /\ fresh <= left
      BY <3>1 DEF InBatch
    <3>3. batch.i = i /\ batch.length = fresh + again /\ batch.fresh = fresh
      BY <3>2
    <3>4. PICK L \in Nat : L = Len(dst)
      BY <3>1
    <3>5. left - fresh = L - curr
      <4>1. i = fresh + again
        BY <2>1, <3>3
      <4>2. PICK l \in Nat, n \in Nat : l = left /\ n = curr /\ start + i = n
        BY <3>1, <3>2
      <4>3. start + again + l = L
        BY <3>2, <3>4, <4>2
      <4>4. l - fresh = L - n
        BY <4>1, <4>2, <4>3
      <4> QED
        BY <4>2, <4>4
    <3> QED
      BY <2>1, <3>1, <3>3, <3>4, <3>5 DEF Marking
  <2> QED
    BY <2>1, <2>2 DEF CopyInv, Slides
<1>7. CASE Local!ScanDone
  <2>1. /\ stage = "batch" /\ stage' = IF method = "cp3" THEN "construct" ELSE "done"
        /\ UNCHANGED <<method, src, dst, meta, summer, curr, left, batch>>
    BY <1>7 DEF Local!ScanDone
  <2> QED
    BY <2>1 DEF CopyInv, Slides, Marking
<1>8. CASE Local!Skip
  <2>1. stage = "skip" /\ UNCHANGED <<method, src, dst>>
    BY <1>8 DEF Local!Skip
  <2> QED
    BY <2>1 DEF CopyInv, Slides
<1>9. CASE Local!Construct
  <2>1. /\ stage = "construct" /\ stage' = "done"
        /\ UNCHANGED <<method, src, dst, meta, summer, curr, left, batch>>
    BY <1>9 DEF Local!Construct
  <2> QED
    BY <2>1 DEF CopyInv, Slides, Marking
<1> QED
  BY <1>1, <1>2, <1>3, <1>4, <1>5, <1>6, <1>7, <1>8, <1>9 DEF Local!Next

\* So it holds throughout.
LEMMA CopyInvHolds == ASSUME CopyFiles PROVE Local!Spec => []CopyInv
<1>1. Local!Init => CopyInv
  BY SameLookup DEF Local!Init, CopyInv, CopyFiles
<1>2. CopyInv /\ [Local!Next]_(Local!vars) => CopyInv'
  BY CopyStep
<1> QED
  BY <1>1, <1>2, PTL DEF Local!Spec

\* MarksLatest (cp4, cp6): at every moment of a scan each chunk that its weak sum
\* leads to is marked with the last of its places in what the window has been over,
\* and with none if there is none; no other chunk is marked. It is so for every
\* file and every size of chunk, batch and ring.
THEOREM CopiesMarkLatest == ASSUME CopyFiles PROVE Local!Spec => []Local!MarksLatest
<1>1. CopyInv => Local!MarksLatest
  <2> SUFFICES ASSUME CopyInv, method \in {"cp4", "cp6"}, Local!Scanning, Len(dst) >= Chunk,
                      NEW k \in DOMAIN Local!Full,
                      NEW found, found = IF k = Local!Lookup(Local!Full, Local!Full[k].weak)
                                         THEN Local!Occurrences(k, curr) ELSE {}
               PROVE  IF found = {} THEN meta[k].from
                      ELSE ~meta[k].from /\ meta[k].offset = Local!Max(found)
    BY DEF Local!MarksLatest
  <2>1. src \in Seq(Int) /\ Marking /\ method # "cp3"
    BY DEF CopyInv, Slides, Local!Scanning
  <2>2. PICK full : full = SubSeq(meta, 1, FullChunks(src)) /\ full = Local!Full
    BY SameLookup DEF Local!Full
  <2>3. /\ DOMAIN full = 1 .. FullChunks(src)
        /\ \A j \in 1 .. FullChunks(src) : full[j] = meta[j]
        /\ \A weak : Lookup(full, weak) = SumLeads(src, weak)
    BY <2>1, <2>2, ListLeads DEF Marking
  <2>4. k \in 1 .. FullChunks(src) /\ full[k] = meta[k]
    BY <2>2, <2>3
  <2>5. full[k].weak = Sum1(ChunkAt(src, k)) /\ full[k].strong = ChunkAt(src, k)
    <3>1. PICK s, c, f, o : /\ s = Sum1(ChunkAt(src, k)) /\ c = ChunkAt(src, k)
                            /\ meta[k] = [weak |-> s, strong |-> c, from |-> f, offset |-> o,
                                          length |-> Chunk]
      BY <2>1, <2>4 DEF Marking, Lists
    <3> QED
      BY <2>4, <3>1
  <2>6. found = Spots(src, dst, k, curr)
    <3>1. Local!Lookup(full, full[k].weak) = SumLeads(src, Sum1(ChunkAt(src, k)))
      BY <2>3, <2>5, SameLookup
    <3>2. Local!Occurrences(k, curr) = Places(src, dst, k, curr)
      BY <2>2, <2>5 DEF Local!Occurrences, Places
    <3> QED
      BY <2>2, <3>1, <3>2 DEF Spots
  <2>7. IF found = {} THEN meta[k].from = TRUE
        ELSE meta[k].from = FALSE /\ meta[k].offset = Max(found)
    BY <2>1, <2>4, <2>6 DEF Marking, MarkedUpTo
  <2>8. Local!Max(found) = Max(found)
    BY SameLookup
  <2> QED
    BY <2>7, <2>8
<1> QED
  BY <1>1, CopyInvHolds, PTL

--------------------------------------------------------------------------------
(* The files that the clients of simple_rsync build. BuildInv follows a chunk of  *)
(* the file from the thread that describes it, through the answer and the marks   *)
(* of the scan, to the bytes the client writes. What it says of a client ends     *)
(* when the file changes; what the strong sums are it leaves open, since threads  *)
(* may mix them up.                                                               *)

\* The checksum of this instance is that of librsync.
LEMMA RemoteRing ==
  /\ \A q, t : Remote!Push(q, t) = Push(q, t)
  /\ \A q : Remote!Pop(q) = Pop(q)
  /\ \A q : Remote!FrontOf(q) = FrontOf(q)
<1>1. \A q, i : Remote!After(q, i) = After(q, i)
  BY DEF Remote!After, After
<1>2. \A q, n : Remote!Moved(q, n) = Moved(q, n)
  BY DEF Remote!Moved, Moved
<1>3. \A q, n : Remote!Realloc(q, n) = Realloc(q, n)
  BY <1>2 DEF Remote!Realloc, Realloc
<1>4. \A q, t : Remote!Push(q, t) = Push(q, t)
  BY <1>1, <1>3 DEF Remote!Push, Push
<1>5. \A q : Remote!Pop(q) = Pop(q)
  BY <1>1, <1>3 DEF Remote!Pop, Pop
<1>6. \A q : Remote!FrontOf(q) = FrontOf(q)
  BY DEF Remote!FrontOf, FrontOf
<1> QED
  BY <1>4, <1>5, <1>6

\* So is its Update, its sum of some bytes, and its Init.
LEMMA RemoteUpdate == \A m, t : Remote!Update(m, t) = Update(m, t)
  BY RemoteRing DEF Remote!Update, Update

LEMMA RemoteSum == \A w : Remote!Sum1(w) = Sum1(w)
  BY DEF Remote!Sum1, Sum1, Remote!Sums, Sums, Remote!AddByte, AddByte, Remote!FoldLeft, FoldLeft,
         Remote!MapThenFoldSet, MapThenFoldSet, Remote!Max, Max

LEMMA RemoteInit == \A m, w : Remote!SummerInit(m, w) = SummerInit(m, w)
  BY RemoteSum DEF Remote!SummerInit, SummerInit, Remote!FoldLeft, FoldLeft,
    Remote!MapThenFoldSet, MapThenFoldSet, Remote!Max, Max, Remote!Push, Push, Remote!Clear, Clear,
    Remote!Realloc, Realloc, Remote!Moved, Moved, Remote!After, After

\* So are its buffer and its table.
LEMMA RemoteMap ==
  /\ \A m, o, n : Remote!MapFileContent(m, o, n) = MapFileContent(m, o, n)
  /\ \A file, word : Remote!FileMap(file, word) = FileMap(file, word)
  /\ \A m, n : Remote!Bytes(m, n) = Bytes(m, n)
  /\ \A s : Remote!Min(s) = Min(s) /\ Remote!Max(s) = Max(s)
<1>1. \A s : Remote!Min(s) = Min(s) /\ Remote!Max(s) = Max(s)
  BY DEF Remote!Min, Min, Remote!Max, Max
<1>2. \A file : Remote!BufferLength(file) = BufferLength(file)
  BY <1>1 DEF Remote!BufferLength, BufferLength
<1>3. \A m, o, n : Remote!Read(m, o, n) = Read(m, o, n)
  BY <1>1 DEF Remote!Read, Read
<1>4. \A m, o, n : Remote!MapFileContent(m, o, n) = MapFileContent(m, o, n)
  BY <1>2, <1>3 DEF Remote!MapFileContent, MapFileContent
<1>5. \A file, word : Remote!FileMap(file, word) = FileMap(file, word)
  BY <1>2, <1>3 DEF Remote!FileMap, FileMap
<1>6. \A m, i : Remote!ByteAt(m, i) = ByteAt(m, i)
  BY DEF Remote!ByteAt, ByteAt
<1>7. \A m, n : Remote!Bytes(m, n) = Bytes(m, n)
  BY <1>6 DEF Remote!Bytes, Bytes
<1> QED
  BY <1>1, <1>4, <1>5, <1>7

\* And a step of its scan.
LEMMA RemoteScan ==
  /\ \A s, list : Remote!ScanStep(s, list) = ScanStep(s, list)
  /\ \A file, word : Remote!StartScan(file, word) = StartScan(file, word)
<1>1. \A list, weak : Remote!Lookup(list, weak) = Lookup(list, weak)
  BY RemoteMap DEF Remote!Lookup, Lookup
<1>2. \A m, list, k : Remote!Found(m, list, k) <=> Found(m, list, k)
  BY RemoteMap DEF Remote!Found, Found
<1>3. \A s, p, k : Remote!Hit(s, p, k) = Hit(s, p, k)
  BY DEF Remote!Hit, Hit
<1>4. \A m, i : Remote!ByteAt(m, i) = ByteAt(m, i)
  BY DEF Remote!ByteAt, ByteAt
<1>5. ASSUME NEW s, NEW list PROVE Remote!ScanRoll(s, list) = ScanRoll(s, list)
  <2>1. PICK sum3, k, start, again :
          /\ sum3 = Update(s.summer, ByteAt(s.map, s.i)) /\ k = Lookup(list, sum3.sum)
          /\ start = s.curr - Chunk + 1
          /\ again = IF k # 0 THEN MapFileContent(s.map, start, Chunk) ELSE s.map
    OBVIOUS
  <2>2. PICK x, y : /\ x = [s EXCEPT !.summer = sum3, !.map = again, !.mode = "block",
                                   !.i = 0, !.hits = Hit(s, start, k)]
                   /\ y = [s EXCEPT !.summer = sum3, !.map = again, !.curr = @ + 1,
                                   !.i = IF s.i + 1 = Chunk THEN 0 ELSE @ + 1,
                                   !.mode = IF s.i + 1 = Chunk THEN "block" ELSE "roll"]
    OBVIOUS
  <2>3. ScanRoll(s, list) = IF Found(again, list, k) THEN x ELSE y
    BY <2>1, <2>2 DEF ScanRoll
  <2>4. /\ sum3 = Remote!Update(s.summer, Remote!ByteAt(s.map, s.i))
        /\ k = Remote!Lookup(list, sum3.sum)
        /\ again = IF k # 0 THEN Remote!MapFileContent(s.map, start, Chunk) ELSE s.map
        /\ Remote!Hit(s, start, k) = Hit(s, start, k)
        /\ Remote!Found(again, list, k) <=> Found(again, list, k)
    BY <1>1, <1>2, <1>3, <1>4, <2>1, RemoteMap, RemoteUpdate
  <2>5. Remote!ScanRoll(s, list) = IF Found(again, list, k) THEN x ELSE y
    BY <2>1, <2>2, <2>4 DEF Remote!ScanRoll
  <2> QED
    BY <2>3, <2>5
<1>6. ASSUME NEW s, NEW list PROVE Remote!ScanBlock(s, list) = ScanBlock(s, list)
  <2>1. PICK first, sum3, pos, k, again, missed :
          /\ first = MapFileContent(s.map, s.curr, Chunk)
          /\ sum3 = SummerInit(s.summer, Bytes(first, Chunk))
          /\ pos = s.curr + Chunk /\ k = Lookup(list, sum3.sum)
          /\ again = IF k # 0 THEN MapFileContent(first, pos - Chunk, Chunk) ELSE first
          /\ missed = MapFileContent(again, pos, Min({Len(s.map.file) - pos, Chunk}))
    OBVIOUS
  <2>2. PICK x, y : /\ x = [s EXCEPT !.curr = pos, !.summer = sum3, !.map = again,
                                   !.hits = Hit(s, pos - Chunk, k)]
                   /\ y = [s EXCEPT !.curr = pos, !.summer = sum3, !.map = missed,
                                   !.i = 0, !.mode = "roll"]
    OBVIOUS
  <2>3. ScanBlock(s, list) = IF s.curr + Chunk > Len(s.map.file) THEN [s EXCEPT !.mode = "done"]
                             ELSE IF Found(again, list, k) THEN x ELSE y
    BY <2>1, <2>2 DEF ScanBlock
  <2>4. /\ first = Remote!MapFileContent(s.map, s.curr, Chunk)
        /\ sum3 = Remote!SummerInit(s.summer, Remote!Bytes(first, Chunk))
        /\ k = Remote!Lookup(list, sum3.sum)
        /\ again = IF k # 0 THEN Remote!MapFileContent(first, pos - Chunk, Chunk) ELSE first
        /\ missed = Remote!MapFileContent(again, pos, Remote!Min({Len(s.map.file) - pos, Chunk}))
        /\ Remote!Hit(s, pos - Chunk, k) = Hit(s, pos - Chunk, k)
        /\ Remote!Found(again, list, k) <=> Found(again, list, k)
    BY <1>1, <1>2, <1>3, <2>1, RemoteMap, RemoteInit
  <2>5. Remote!ScanBlock(s, list) = IF s.curr + Chunk > Len(s.map.file) THEN [s EXCEPT !.mode = "done"]
                             ELSE IF Found(again, list, k) THEN x ELSE y
    BY <2>1, <2>2, <2>4 DEF Remote!ScanBlock
  <2> QED
    BY <2>3, <2>5
<1>7. \A s, list : Remote!ScanStep(s, list) = ScanStep(s, list)
  BY <1>5, <1>6 DEF Remote!ScanStep, ScanStep
<1>8. \A file, word : Remote!StartScan(file, word) = StartScan(file, word)
  BY RemoteMap DEF Remote!StartScan, StartScan, Remote!NewSummer, NewSummer, Remote!NewRing, NewRing
<1> QED
  BY <1>7, <1>8

StepSees(nf, chunks, s, t) ==
  /\ t.summer \in Summers
  /\ t.hits # s.hits => \E h : HitSeen(nf, chunks, h) /\ t.hits = Append(s.hits, h)

\* What is read of a chunk that lies in the file.
LEMMA ContentShown ==
  ASSUME NEW nf \in Seq(Int), NEW m \in Maps(nf), NEW p \in Nat, p + Chunk <= Len(nf)
  PROVE  /\ MapFileContent(m, p, Chunk) \in Maps(nf)
         /\ Bytes(MapFileContent(m, p, Chunk), Chunk) = SubSeq(nf, p + 1, p + Chunk)
<1>1. PICK r : r = MapFileContent(m, p, Chunk)
  OBVIOUS
<1>2. Chunk \in Nat /\ Chunk <= BufferLength(nf) /\ p <= Len(nf)
  BY ChunkFacts, BufferLengthIs, ScanAssumption
<1>3. Mapped(r, nf, p, Chunk)
  BY <1>1, <1>2, MappedContent
<1>4. r \in Maps(nf)
  BY <1>3 DEF Mapped
<1>5. Shows(r, nf, p, Chunk)
  BY <1>2, <1>3, MappedBytes
<1> QED
  BY <1>1, <1>2, <1>4, <1>5, BytesShown

\* A match is of a chunk, and read from the file.
LEMMA FoundIsSeen ==
  ASSUME NEW nf \in Seq(Int), NEW chunks, NEW N \in Nat, DOMAIN chunks \subseteq 1 .. N,
         NEW m \in Maps(nf), NEW p \in Nat, p <= Len(nf),
         NEW weak, NEW k, k = Lookup(chunks, weak),
         Found(MapFileContent(m, p, Chunk), chunks, k),
         Told(nf, chunks) /\ p + Chunk <= Len(nf) =>
           weak = Sum1(SubSeq(nf, p + 1, p + Chunk))
  PROVE  HitSeen(nf, chunks, [at |-> p, chunk |-> k])
<1>1. k # 0 /\ Bytes(MapFileContent(m, p, Chunk), Chunk) = chunks[k].strong
  BY DEF Found
<1>2. k \in DOMAIN chunks /\ chunks[k].weak = weak
  BY <1>1, LookupIs
<1>3. k \in Nat
  BY <1>2
<1>4. p + Chunk <= Len(nf) =>
        Bytes(MapFileContent(m, p, Chunk), Chunk) = SubSeq(nf, p + 1, p + Chunk)
  BY ContentShown
<1>5. Seen(nf, chunks, p, k)
  BY <1>1, <1>2, <1>4 DEF Seen
<1>6. PICK h : h = [at |-> p, chunk |-> k]
  OBVIOUS
<1>7. h \in Hits /\ h.at = p /\ h.chunk = k
  BY <1>3, <1>6 DEF Hits
<1> QED
  BY <1>2, <1>5, <1>6, <1>7 DEF HitSeen

\* A block adds such a match at most (ScanFile1).
LEMMA BlockSees ==
  ASSUME NEW nf \in Seq(Int), NEW chunks, NEW N \in Nat, DOMAIN chunks \subseteq 1 .. N,
         NEW s, ScanOk(s, nf, chunks), s.mode # "roll", s.summer \in Summers
  PROVE  StepSees(nf, chunks, s, ScanBlock(s, chunks))
<1> DEFINE first  == MapFileContent(s.map, s.curr, Chunk)
           sum3   == SummerInit(s.summer, Bytes(first, Chunk))
           pos    == s.curr + Chunk
           k      == Lookup(chunks, sum3.sum)
           again  == IF k # 0 THEN MapFileContent(first, pos - Chunk, Chunk) ELSE first
           missed == MapFileContent(again, pos, Min({Len(nf) - pos, Chunk}))
           h      == [at |-> pos - Chunk, chunk |-> k]
           t      == ScanBlock(s, chunks)
<1>1. IsScan(s) /\ InPlace(s, nf) /\ InSum(s)
  BY DEF ScanOk
<1>2. /\ s.curr \in Nat /\ s.map \in Maps(nf) /\ s.map.file = nf /\ Chunk \in Nat \ {0}
      /\ s.summer.ring \in AllRings(Int)
  BY <1>1, ChunkFacts DEF InPlace, InSum, Maps
<1>3. CASE s.curr + Chunk > Len(nf)
  <2>1. t = [s EXCEPT !.mode = "done"]
    BY <1>2, <1>3 DEF ScanBlock
  <2>2. t = Scan(s.curr, s.i, "done", s.summer, s.map, s.hits)
    BY <1>1, <2>1 DEF IsScan, Scan
  <2> HIDE DEF t
  <2>3. t.hits = s.hits /\ t.summer = s.summer
    BY <2>2 DEF Scan
  <2> QED
    BY <2>3 DEF StepSees, t
<1>4. CASE s.curr + Chunk <= Len(nf)
  <2>1. \/ t = BlockFound(s, pos, sum3, again, Append(s.hits, h))
           /\ Found(again, chunks, k)
        \/ t = BlockMissed(s, pos, sum3, missed, 0, "roll")
    BY <1>2, <1>4 DEF ScanBlock, BlockFound, BlockMissed, Hit
  <2>2. s.curr <= Len(nf) /\ pos - Chunk = s.curr
    BY <1>2, <1>4
  <2>3. first \in Maps(nf)
    <3>1. Mapped(first, nf, s.curr, Chunk)
      BY <1>2, <2>2, MappedContent
    <3> QED
      BY <3>1 DEF Mapped
  <2>4. /\ Agrees(sum3)
        /\ Contents(sum3.ring) = SubSeq(nf, s.curr + 1, s.curr + Chunk)
    BY <1>2, <1>4, BlockWindow
  <2>5. sum3 \in Summers
    <3>1. PICK b \in Seq(Int) : b = Bytes(first, Chunk)
      BY <1>2, <2>3, BytesAreSeq
    <3>2. sum3.ring \in AllRings(Int)
      BY <2>4, AgreesIsRing
    <3>3. sum3 = [ring |-> FoldLeft(Push, Clear(s.summer.ring), b), sum |-> Sum1(b)]
      BY <3>1 DEF SummerInit
    <3>4. Sum1(b) \in Int \X Int
      BY SumIsPair
    <3> HIDE DEF sum3
    <3> QED
      BY <3>2, <3>3, <3>4 DEF Summers
  <2>6. CASE t = BlockMissed(s, pos, sum3, missed, 0, "roll")
    <3> HIDE DEF t, pos, sum3, again, missed, h
    <3>1. t = Scan(pos, 0, "roll", sum3, missed, s.hits)
      BY <1>1, <2>6, BlockMissedIs
    <3>2. t.hits = s.hits /\ t.summer = sum3
      BY <3>1 DEF Scan
    <3> QED
      BY <2>5, <3>2 DEF StepSees, t
  <2>7. CASE t = BlockFound(s, pos, sum3, again, Append(s.hits, h))
             /\ Found(again, chunks, k)
    <3>1. k # 0
      BY <2>7 DEF Found
    <3>2. Found(MapFileContent(first, s.curr, Chunk), chunks, k)
      BY <2>2, <2>7, <3>1
    <3>3. sum3.sum = Sum1(SubSeq(nf, s.curr + 1, s.curr + Chunk))
      BY <2>4 DEF Agrees
    <3>4. h = [at |-> s.curr, chunk |-> k]
      BY <2>2
    <3> HIDE DEF t, pos, sum3, again, missed, h, first
    <3>5. HitSeen(nf, chunks, [at |-> s.curr, chunk |-> k])
      BY <1>2, <2>2, <2>3, <3>2, <3>3, FoundIsSeen
    <3> HIDE DEF k
    <3>6. t = Scan(pos, s.i, s.mode, sum3, again, Append(s.hits, h))
      BY <1>1, <2>7, BlockFoundIs
    <3>7. t.hits = Append(s.hits, h) /\ t.summer = sum3
      BY <3>6 DEF Scan
    <3> QED
      BY <2>5, <3>4, <3>5, <3>7 DEF StepSees, t
  <2> QED
    BY <2>1, <2>6, <2>7
<1> QED
  BY <1>2, <1>3, <1>4

\* So does a byte rolled in (ScanFile1).
LEMMA RollSees ==
  ASSUME NEW nf \in Seq(Int), NEW chunks, NEW N \in Nat, DOMAIN chunks \subseteq 1 .. N,
         NEW s, ScanOk(s, nf, chunks), s.mode = "roll", s.summer \in Summers
  PROVE  StepSees(nf, chunks, s, ScanRoll(s, chunks))
<1> DEFINE next  == ByteAt(s.map, s.i)
           sum3  == Update(s.summer, next)
           k     == Lookup(chunks, sum3.sum)
           start == s.curr - Chunk + 1
           again == IF k # 0 THEN MapFileContent(s.map, start, Chunk) ELSE s.map
           i     == IF s.i + 1 = Chunk THEN 0 ELSE s.i + 1
           mode  == IF s.i + 1 = Chunk THEN "block" ELSE "roll"
           h     == [at |-> start, chunk |-> k]
           t     == ScanRoll(s, chunks)
<1>1. IsScan(s) /\ InPlace(s, nf) /\ InSum(s) /\ (Told(nf, chunks) => InStep(s, nf))
  BY DEF ScanOk
<1>2. PICK c \in Nat, L \in Nat, x \in Nat, y \in Nat :
        c = Chunk /\ L = Len(nf) /\ x = s.curr /\ y = s.i /\ c > 0
  BY <1>1, ChunkFacts DEF InPlace
<1>3. s.map \in Maps(nf) /\ y < c /\ c <= x - y /\ x - y <= L
  BY <1>1, <1>2 DEF InPlace
<1>4. /\ start \in Nat /\ start <= Len(nf) /\ start + Chunk = x + 1 /\ x > 0 /\ x >= Chunk
  <2>1. x - c + 1 \in Nat /\ x - c + 1 <= L /\ x - c + 1 + c = x + 1 /\ x > 0 /\ x >= c
    <3> HIDE DEF sum3, k, start, again, i, mode, h, t
    <3>1. c <= x - y /\ y < c /\ x - y <= L /\ c > 0
      BY <1>2, <1>3
    <3>2. PICK d \in Nat : d = x - c
      BY <3>1
    <3>3. d <= y + L - c /\ d <= L - 1
      BY <3>1, <3>2
    <3>4. d + 1 \in Nat /\ d + 1 <= L /\ d + c = x
      BY <3>2, <3>3
    <3> QED
      BY <3>1, <3>2, <3>4
  <2> QED
    BY <1>2, <2>1
<1>5. next \in Int
  BY <1>3, ByteIsInt
<1>6. Agrees(s.summer)
  BY <1>1, <1>2, <1>4 DEF InSum
<1>7. Agrees(sum3)
  BY <1>5, <1>6, UpdateAgrees
<1>8. sum3 \in Summers
  <2>1. sum3.ring \in AllRings(Int)
    BY <1>7, AgreesIsRing
  <2>2. sum3.sum \in Int \X Int
    <3>1. Contents(sum3.ring) \in Seq(Int)
      BY <1>7, WindowContents DEF Agrees
    <3> QED
      BY <1>7, <3>1, SumIsPair DEF Agrees
  <2>3. sum3 = [ring |-> sum3.ring, sum |-> sum3.sum]
    BY DEF Update
  <2> HIDE DEF sum3
  <2> QED
    BY <2>1, <2>2, <2>3 DEF Summers
<1>9. ASSUME Told(nf, chunks), start + Chunk <= Len(nf)
      PROVE  sum3.sum = Sum1(SubSeq(nf, start + 1, start + Chunk))
  <2>1. x + 1 <= L /\ x < L /\ y \in y .. c - 1 /\ x - y + y = x
    <3> HIDE DEF start
    <3>1. x + 1 <= L
      BY <1>2, <1>4, <1>9
    <3> QED
      BY <1>2, <1>3, <3>1
  <2>2. Contents(s.summer.ring) = WindowAt(nf, x)
    <3>1. InStep(s, nf)
      BY <1>1, <1>9
    <3>2. s.mode = "roll" /\ s.curr <= Len(nf)
      BY <1>2, <2>1
    <3> HIDE DEF sum3, k, start, again, i, mode, h, t
    <3> QED
      BY <1>2, <3>1, <3>2 DEF InStep, Before, WindowAt
  <2>3. next = nf[x + 1]
    <3>1. InStep(s, nf)
      BY <1>1, <1>9
    <3>2. s.curr - s.i + y < Len(nf) => ByteAt(s.map, y) = nf[s.curr - s.i + y + 1]
      BY <1>2, <2>1, <3>1 DEF InStep
    <3>3. s.curr - s.i + y = x
      BY <1>2, <2>1
    <3> QED
      BY <1>2, <2>1, <3>2, <3>3
  <2>4. Over(s.summer, nf, x)
    BY <1>6, <2>2 DEF Over
  <2>5. Over(sum3, nf, x + 1)
    BY <1>2, <1>4, <2>1, <2>3, <2>4, OverMore
  <2> HIDE DEF sum3
  <2>6. (x + 1) - Chunk + 1 = start + 1
    BY <1>2
  <2>7. sum3.sum = Sum1(WindowAt(nf, x + 1))
    BY <2>5 DEF Over, Agrees
  <2> QED
    BY <1>4, <2>6, <2>7 DEF WindowAt
<1>10. \/ t = RollFound(s, sum3, again, "block", 0, Append(s.hits, h))
          /\ Found(again, chunks, k)
       \/ t = RollMissed(s, sum3, again, s.curr + 1, i, mode)
  <2>1. s = Scan(s.curr, s.i, s.mode, s.summer, s.map, s.hits)
    BY <1>1 DEF IsScan
  <2> QED
    BY <2>1 DEF ScanRoll, RollFound, RollMissed, Scan, Hit
<1>11. CASE t = RollMissed(s, sum3, again, s.curr + 1, i, mode)
  <2> HIDE DEF t, sum3, again, i, mode
  <2>1. t = Scan(s.curr + 1, i, mode, sum3, again, s.hits)
    BY <1>1, <1>11, RollMissedIs
  <2>2. t.hits = s.hits /\ t.summer = sum3
    BY <2>1 DEF Scan
  <2> QED
    BY <1>8, <2>2 DEF StepSees, t
<1>12. CASE t = RollFound(s, sum3, again, "block", 0, Append(s.hits, h))
            /\ Found(again, chunks, k)
  <2>1. k # 0
    BY <1>12 DEF Found
  <2>2. Found(MapFileContent(s.map, start, Chunk), chunks, k)
    BY <1>12, <2>1
  <2> HIDE DEF t, again, start, sum3
  <2>3. HitSeen(nf, chunks, h)
    BY <1>3, <1>4, <1>9, <2>2, FoundIsSeen
  <2> HIDE DEF k, h
  <2>4. t = Scan(s.curr, 0, "block", sum3, again, Append(s.hits, h))
    BY <1>1, <1>12, RollFoundIs
  <2>5. t.hits = Append(s.hits, h) /\ t.summer = sum3
    BY <2>4 DEF Scan
  <2> QED
    BY <1>8, <2>3, <2>5 DEF StepSees, t
<1> QED
  BY <1>10, <1>11, <1>12

\* A scan starts as one of them.
LEMMA StartIsScan ==
  ASSUME NEW nf \in Seq(Int), NEW word \in 0 .. MapBuffer, NEW chunks
  PROVE  StartScan(nf, word) \in ScanSet(nf, chunks)
<1>1. PICK s : s = StartScan(nf, word)
  OBVIOUS
<1>2. s = [curr |-> 0, i |-> 0, mode |-> "block", summer |-> NewSummer,
           map |-> FileMap(nf, word), hits |-> <<>>]
  BY <1>1 DEF StartScan
<1>3. NewSummer \in Summers
  <2>1. NewSummer = [ring |-> NewSummer.ring, sum |-> <<0, 0>>]
    BY DEF NewSummer
  <2>2. <<0, 0>> \in Int \X Int
    OBVIOUS
  <2>3. PICK r \in AllRings(Int) : r = NewSummer.ring
    BY NewRingIsRing
  <2> QED
    BY <2>1, <2>2, <2>3 DEF Summers
<1>4. FileMap(nf, word) \in Maps(nf)
  BY FileMapIsMap
<1>5. <<>> \in Seq(Hits)
  OBVIOUS
<1>6. ScanOk(s, nf, chunks)
  BY <1>1, StartIsOk
<1>7. s.hits = <<>>
  BY <1>2
<1> QED
  BY <1>1, <1>2, <1>3, <1>4, <1>5, <1>6, <1>7 DEF ScanSet

\* And stays one (ScanFile1).
LEMMA StepIsScan ==
  ASSUME NEW nf \in Seq(Int), NEW chunks, NEW N \in Nat, DOMAIN chunks \subseteq 1 .. N,
         NEW s \in ScanSet(nf, chunks)
  PROVE  ScanStep(s, chunks) \in ScanSet(nf, chunks)
<1>1. PICK t : t = ScanStep(s, chunks)
  OBVIOUS
<1>2. /\ ScanOk(s, nf, chunks) /\ s.summer \in Summers /\ s.hits \in Seq(Hits)
      /\ \A j \in DOMAIN s.hits : HitSeen(nf, chunks, s.hits[j])
  BY DEF ScanSet
<1>3. ScanOk(t, nf, chunks) /\ StepSees(nf, chunks, s, t)
  <2>1. CASE s.mode = "roll"
    BY <1>1, <1>2, <2>1, RollKeepsOk, RollSees DEF ScanStep
  <2>2. CASE s.mode # "roll"
    BY <1>1, <1>2, <2>2, BlockKeepsOk, BlockSees DEF ScanStep
  <2> QED
    BY <2>1, <2>2
<1>4. t.hits \in Seq(Hits) /\ \A j \in DOMAIN t.hits : HitSeen(nf, chunks, t.hits[j])
  <2>1. CASE t.hits = s.hits
    BY <1>2, <2>1
  <2>2. CASE t.hits # s.hits
    <3>1. PICK h : HitSeen(nf, chunks, h) /\ t.hits = Append(s.hits, h)
      BY <1>3, <2>2 DEF StepSees
    <3>2. PICK q \in Seq(Hits), n \in Nat : q = s.hits /\ n = Len(q)
      BY <1>2
    <3>3. h \in Hits
      BY <3>1 DEF HitSeen
    <3>4. /\ Append(q, h) \in Seq(Hits) /\ DOMAIN Append(q, h) = 1 .. n + 1
          /\ Append(q, h)[n + 1] = h /\ \A j \in 1 .. n : Append(q, h)[j] = q[j]
      BY <3>2, <3>3
    <3>5. \A j \in 1 .. n + 1 : j \in 1 .. n \/ j = n + 1
      BY <3>2
    <3>6. DOMAIN q = 1 .. n
      BY <3>2
    <3> QED
      BY <1>2, <3>1, <3>2, <3>4, <3>5, <3>6
  <2> QED
    BY <2>1, <2>2
<1>5. /\ t = [curr |-> t.curr, i |-> t.i, mode |-> t.mode, summer |-> t.summer,
              map |-> t.map, hits |-> t.hits]
      /\ t.curr \in Nat /\ t.i \in Nat /\ t.mode \in {"block", "roll", "done"}
      /\ t.map \in Maps(nf) /\ t.summer \in Summers
  BY <1>3 DEF ScanOk, IsScan, Scan, InPlace, StepSees
<1>6. t \in [curr : Nat, i : Nat, mode : {"block", "roll", "done"}, summer : Summers,
             map : Maps(nf), hits : Seq(Hits)]
  BY <1>4, <1>5
<1> QED
  BY <1>1, <1>3, <1>4, <1>6 DEF ScanSet

\* The whole scan: a fold of its steps.
LEMMA ScannedIsScan ==
  ASSUME NEW nf \in Seq(Int), NEW word \in 0 .. MapBuffer,
         NEW chunks, NEW N \in Nat, DOMAIN chunks \subseteq 1 .. N
  PROVE  Remote!Scanned(nf, word, chunks) \in ScanSet(nf, chunks)
<1>1. PICK n \in Nat : n = 2 * (Len(nf) + Chunk)
  BY ChunkFacts
<1> DEFINE X == ScanSet(nf, chunks)
           Y == 1 .. n
           begin == Remote!StartScan(nf, word)
           w == [k \in 1 .. n |-> k]
           F == [s \in X |-> [k \in Y |-> Remote!ScanStep(s, chunks)]]
           P(f) == f = [s \in SUBSET (DOMAIN w) |->
                          IF s = {} THEN begin
                          ELSE Remote!ScanStep(f[s \ {Max(s)}], chunks)]
           it == CHOOSE f : P(f)
<1>2. DOMAIN w = 1 .. n /\ w \in [1 .. n -> Y]
  OBVIOUS
<1>3. F \in [X -> [Y -> X]] /\ begin \in X
  <2>1. ASSUME NEW s \in X PROVE Remote!ScanStep(s, chunks) \in X
    BY <2>1, StepIsScan, RemoteScan
  <2>2. begin \in X
    BY StartIsScan, RemoteScan
  <2> HIDE DEF X, begin
  <2> QED
    BY <2>1, <2>2
<1>4. \A s \in X, k \in Y : F[s][k] = Remote!ScanStep(s, chunks)
  OBVIOUS
<1>5. ASSUME NEW f, NEW s \in SUBSET (1 .. n), s # {}, f[s \ {Max(s)}] \in X
      PROVE  Step(F, w, f, s) <=> f[s] = Remote!ScanStep(f[s \ {Max(s)}], chunks)
  <2> HIDE DEF F, X, Y, w
  <2>1. w[Max(s)] \in Y
    BY <1>2, <1>5, MaxIsPlace
  <2> QED
    BY <1>4, <1>5, <2>1 DEF Step
<1>6. \E f : P(f)
  <2> HIDE DEF F, X, w, Y, begin
  <2>1. PICK g : Folded(X, F, begin, w, n, g)
    BY <1>2, <1>3, FoldFound
  <2>2. \A s \in SUBSET (1 .. n) : s # {} => g[s] = Remote!ScanStep(g[s \ {Max(s)}], chunks)
    BY <1>5, <2>1 DEF Folded
  <2>3. g[{}] = begin /\ g = [s \in SUBSET (1 .. n) |-> g[s]]
    BY <2>1 DEF Folded
  <2>4. P(g)
    BY <1>2, <2>2, <2>3
  <2> QED
    BY <2>4
<1>7. P(it)
  <2> HIDE DEF P
  <2> QED
    BY <1>6
<1>8. Remote!Scanned(nf, word, chunks) = it[DOMAIN w]
  BY <1>1 DEF Remote!Scanned, Remote!FoldLeft, Remote!MapThenFoldSet, Remote!Max, Max
<1> HIDE DEF it, F, X, w, Y, begin
<1>9. /\ it[{}] = begin
      /\ \A s \in SUBSET (1 .. n) :
           s # {} => it[s] = Remote!ScanStep(it[s \ {Max(s)}], chunks)
  BY <1>2, <1>7
<1>10. FoldsTyped(X, F, begin, w, n, it)
  BY <1>5, <1>9 DEF FoldsTyped
<1>11. it[1 .. n] \in X
  <2>1. \A s \in SUBSET (1 .. n) : it[s] \in X
    BY <1>2, <1>3, <1>10, FoldTyped
  <2> QED
    BY <2>1
<1> QED
  BY <1>2, <1>8, <1>11 DEF X

\* The smaller of two numbers.
LEMMA LessOf ==
  ASSUME NEW x \in Int, NEW y \in Int
  PROVE  Remote!Min({x, y}) = IF x <= y THEN x ELSE y
<1>1. Remote!Min({x, y}) = Min({x, y})
  BY RemoteMap
<1> QED
  BY <1>1, MinIs

\* The chunks of a file lie inside it and end with it.
LEMMA BlocksLie ==
  ASSUME NEW f \in Seq(Int)
  PROVE  /\ Remote!Blocks(f) \in Nat
         /\ \A k \in 1 .. Remote!Blocks(f) : \E o, l \in Nat : BlockLies(f, k, o, l)
         /\ Len(f) <= Remote!Blocks(f) * Chunk
<1>1. PICK c \in Nat \ {0}, L \in Nat : c = Chunk /\ L = Len(f)
  BY ChunkFacts
<1>2. PICK B \in Int, rest \in Int :
        B = (L + c - 1) \div c /\ L + c - 1 = c * B + rest /\ 0 <= rest /\ rest < c
  <2>1. PICK a \in Int : a = L + c - 1
    OBVIOUS
  <2>2. a = c * (a \div c) + (a % c) /\ a \div c \in Int /\ a % c \in Int
        /\ 0 <= a % c /\ a % c < c
    BY DivMod
  <2> QED
    BY <2>1, <2>2
<1>3. B = Remote!Blocks(f)
  BY <1>1, <1>2 DEF Remote!Blocks
<1>4. B \in Nat
  <2>1. CASE B < 0
    <3>1. PICK d \in Nat : B = -1 - d
      <4>1. -1 - B \in Nat /\ B = -1 - (-1 - B)
        BY <2>1
      <4> QED
        BY <4>1
    <3>2. PICK y \in Nat : y = c * d
      OBVIOUS
    <3>3. c * (-1 - d) = -c - c * d
      OBVIOUS
    <3>4. L + c - 1 < 0
      BY <1>2, <3>1, <3>2, <3>3
    <3> QED
      BY <3>4
  <2> QED
    BY <2>1
<1>5. PICK z \in Nat : z = c * B /\ L <= z /\ z <= L + c - 1 /\ z = B * c
  <2>1. PICK z \in Nat : z = c * B /\ z = B * c
    <3>1. c * B = B * c /\ c * B \in Nat
      BY <1>4
    <3> QED
      BY <3>1
  <2>2. L + c - 1 = z + rest
    BY <1>2, <2>1
  <2>3. L <= z /\ z <= L + c - 1
    BY <1>2, <2>2
  <2> QED
    BY <2>1, <2>3
<1>6. ASSUME NEW k \in 1 .. B PROVE \E o, l \in Nat : BlockLies(f, k, o, l)
  <2>1. PICK j \in Nat, d \in Nat : k = j + 1 /\ B = j + 1 + d
    <3>1. k - 1 \in Nat /\ B - k \in Nat /\ k = (k - 1) + 1 /\ B = (k - 1) + 1 + (B - k)
      BY <1>4
    <3> QED
      BY <3>1
  <2>2. PICK o \in Nat, y \in Nat : o = j * c /\ y = d * c
    OBVIOUS
  <2>3. z = o + c + y /\ (d > 0 => y >= c) /\ (d = 0 => y = 0)
    <3>1. (j + 1 + d) * c = j * c + c + d * c
      OBVIOUS
    <3>2. d > 0 => d * c >= c
      <4>1. ASSUME d > 0 PROVE d * c >= c
        <5>1. PICK e \in Nat : d = e + 1
          BY <4>1
        <5>2. PICK x \in Nat : x = e * c /\ (e + 1) * c = x + c
          OBVIOUS
        <5> QED
          BY <5>1, <5>2
      <4> QED
        BY <4>1
    <3> QED
      BY <1>5, <2>1, <2>2, <3>1, <3>2
  <2>4. o <= L /\ (d > 0 => o + c <= L) /\ (d = 0 => L <= o + c)
    <3>1. z = o + c + y /\ L <= z /\ z <= L + c - 1
      BY <1>5, <2>3
    <3>2. o <= L
      BY <3>1
    <3>3. d > 0 => o + c <= L
      BY <2>3, <3>1
    <3>4. d = 0 => L <= o + c
      BY <2>3, <3>1
    <3> QED
      BY <3>2, <3>3, <3>4
  <2>5. PICK l \in Nat : l = IF c <= L - o THEN c ELSE L - o
    <3>1. L - o \in Nat
      BY <2>4
    <3>2. (IF c <= L - o THEN c ELSE L - o) \in Nat
      BY <3>1
    <3> QED
      BY <3>2
  <2>6. o = (k - 1) * Chunk /\ k * Chunk = o + c
    <3>1. (j + 1) * c = j * c + c /\ (k - 1) * c = j * c
      BY <2>1
    <3> QED
      BY <1>1, <2>1, <2>2, <3>1
  <2>7. Remote!BlockLength(f, k) = l
    <3>1. Remote!Min({Chunk, Len(f) - o}) = IF c <= L - o THEN c ELSE L - o
      BY <1>1, LessOf
    <3> QED
      BY <2>5, <2>6, <3>1 DEF Remote!BlockLength
  <2>8. Remote!Block(f, k) = SubSeq(f, o + 1, o + l)
    BY <2>6, <2>7 DEF Remote!Block
  <2>9. /\ o + l <= L /\ l <= c
        /\ l = c \/ (d = 0 /\ o + l = L)
    <3>1. CASE c <= L - o
      BY <2>5, <3>1
    <3>2. CASE ~(c <= L - o)
      <4>1. l = L - o /\ l <= c /\ o + l = L
        BY <2>5, <3>2
      <4>2. ~(d > 0)
        BY <2>4, <3>2
      <4>3. d = 0
        BY <4>2
      <4> QED
        BY <4>1, <4>3
    <3> QED
      BY <3>1, <3>2
  <2>10. d = 0 => k = B
    BY <2>1
  <2>11. \/ l = Chunk /\ k * Chunk = o + l
         \/ k = Remote!Blocks(f) /\ o + l = Len(f)
    BY <1>1, <1>3, <2>6, <2>9, <2>10
  <2>12. BlockLies(f, k, o, l)
    BY <1>1, <2>6, <2>7, <2>8, <2>9, <2>11 DEF BlockLies
  <2> QED
    BY <2>12
<1> QED
  BY <1>1, <1>3, <1>4, <1>5, <1>6

\* Two pieces that lie one after the other are one.
LEMMA PiecesJoin ==
  ASSUME NEW f \in Seq(Int), NEW o \in Nat, NEW l \in Nat, o + l <= Len(f)
  PROVE  SubSeq(f, 1, o) \o SubSeq(f, o + 1, o + l) = SubSeq(f, 1, o + l)
<1>1. PICK a, b, w : /\ a = SubSeq(f, 1, o) /\ b = SubSeq(f, o + 1, o + l)
                     /\ w = SubSeq(f, 1, o + l)
  OBVIOUS
<1>2. /\ a \in Seq(Int) /\ Len(a) = o
      /\ \A i \in 1 .. o : a[i] = f[i]
  BY <1>1
<1>3. /\ b \in Seq(Int) /\ Len(b) = l
      /\ \A i \in 1 .. l : b[i] = f[o + i]
  BY <1>1
<1>4. /\ w \in Seq(Int) /\ Len(w) = o + l
      /\ \A i \in 1 .. o + l : w[i] = f[i]
  BY <1>1
<1>5. PICK v : v = a \o b
  OBVIOUS
<1>6. v \in Seq(Int) /\ Len(v) = o + l
  BY <1>2, <1>3, <1>5, ConcatProperties
<1>7. ASSUME NEW i \in 1 .. o + l PROVE v[i] = w[i]
  <2>1. CASE i <= o
    <3>1. i \in 1 .. o /\ v[i] = a[i]
      BY <1>2, <1>3, <1>5, <2>1
    <3> QED
      BY <1>2, <1>4, <3>1
  <2>2. CASE i > o
    <3>1. PICK j \in 1 .. l : i = o + j
      <4>1. i - o \in 1 .. l /\ i = o + (i - o)
        BY <2>2
      <4> QED
        BY <4>1
    <3>2. v[i] = b[j]
      <4>1. i \in 1 .. Len(a) + Len(b) /\ i > Len(a) /\ i - Len(a) = j
        BY <1>2, <1>3, <2>2, <3>1
      <4>2. PICK n \in 1 .. Len(a) + Len(b) : n = i
        BY <4>1
      <4>3. (a \o b)[n] = IF n <= Len(a) THEN a[n] ELSE b[n - Len(a)]
        BY <1>2, <1>3, ConcatProperties
      <4>4. ~(n <= Len(a)) /\ n - Len(a) = j
        BY <1>2, <4>1, <4>2
      <4> QED
        BY <1>5, <4>2, <4>3, <4>4
    <3> QED
      BY <1>3, <1>4, <3>1, <3>2
  <2> QED
    BY <2>1, <2>2
<1>8. v = w
  BY <1>4, <1>6, <1>7, SeqEqual
<1> QED
  BY <1>1, <1>5, <1>8

\* One chunk more of it, and all of them.
LEMMA UptoMore ==
  ASSUME NEW f \in Seq(Int), NEW k \in Nat, k + 1 \in 1 .. Remote!Blocks(f)
  PROVE  Upto(f, k) \o Remote!Block(f, k + 1) = Upto(f, k + 1)
<1>1. PICK o \in Nat, l \in Nat : BlockLies(f, k + 1, o, l)
  <2>1. PICK j \in 1 .. Remote!Blocks(f) : j = k + 1
    OBVIOUS
  <2>2. PICK o \in Nat, l \in Nat : BlockLies(f, j, o, l)
    BY <2>1, BlocksLie
  <2> QED
    BY <2>1, <2>2
<1>2. PICK c \in Nat \ {0}, L \in Nat : c = Chunk /\ L = Len(f)
  <2>1. Len(f) \in Nat
    OBVIOUS
  <2> QED
    BY <2>1, ChunkFacts
<1>3. o = k * c
  BY <1>1, <1>2 DEF BlockLies
<1>4. (k + 1) * c = o + c
  <2>1. (k + 1) * c = k * c + c
    OBVIOUS
  <2> QED
    BY <1>3, <2>1
<1>5. l <= c /\ o + l <= L /\ (l = c \/ o + l = L)
  BY <1>1, <1>2 DEF BlockLies
<1>6. Upto(f, k) = SubSeq(f, 1, o)
  <2>1. o <= L
    BY <1>5
  <2> QED
    BY <1>2, <1>3, <2>1 DEF Upto
<1>7. Upto(f, k + 1) = SubSeq(f, 1, o + l)
  <2>1. (IF o + c <= L THEN o + c ELSE L) = o + l
    BY <1>5
  <2> QED
    BY <1>2, <1>4, <2>1 DEF Upto
<1>8. Remote!Block(f, k + 1) = SubSeq(f, o + 1, o + l)
  BY <1>1 DEF BlockLies
<1>9. o + l <= Len(f)
  BY <1>2, <1>5
<1>10. SubSeq(f, 1, o) \o SubSeq(f, o + 1, o + l) = SubSeq(f, 1, o + l)
  BY <1>1, <1>9, PiecesJoin DEF BlockLies
<1> QED
  BY <1>6, <1>7, <1>8, <1>10

\* All of the chunks are the file, and none of them nothing.
LEMMA UptoAll ==
  ASSUME NEW f \in Seq(Int) PROVE Upto(f, Remote!Blocks(f)) = f /\ Upto(f, 0) = <<>>
<1>1. PICK n \in Nat, L \in Nat, B \in Nat, c \in Nat :
        /\ n = B * c /\ L = Len(f) /\ L <= n /\ c = Chunk /\ B = Remote!Blocks(f)
  <2>1. Chunk \in Nat /\ Remote!Blocks(f) \in Nat /\ Len(f) <= Remote!Blocks(f) * Chunk
    BY BlocksLie, ChunkFacts
  <2>2. Remote!Blocks(f) * Chunk \in Nat
    BY <2>1
  <2> QED
    BY <2>1, <2>2
<1>2. Upto(f, B) = SubSeq(f, 1, L)
  <2>1. (IF n <= L THEN n ELSE L) = L
    BY <1>1
  <2> QED
    BY <1>1, <2>1 DEF Upto
<1>3. SubSeq(f, 1, L) = f
  BY <1>1
<1>4. Upto(f, 0) = <<>>
  <2>1. 0 * c = 0
    BY <1>1
  <2>2. Upto(f, 0) = SubSeq(f, 1, 0)
    BY <1>1, <2>1 DEF Upto
  <2> QED
    BY <2>2
<1> QED
  BY <1>1, <1>2, <1>3, <1>4

LEMMA EntryMarked ==
  ASSUME NEW f, NEW k, NEW s, NEW x, x = Says(f, k, s) \/ \E q \in Nat : x = CopiedFrom(f, k, s, q),
         NEW p \in Nat, NEW z, z = MarkedTo(x, p)
  PROVE  z = CopiedFrom(f, k, s, p)
<1>1. PICK o, b : x = [weak |-> WeakOf(f, k), strong |-> s, offset |-> o,
                       length |-> Remote!BlockLength(f, k), from |-> b]
  BY DEF Says, CopiedFrom
<1>2. PICK w, l : w = WeakOf(f, k) /\ l = Remote!BlockLength(f, k)
  OBVIOUS
<1>3. PICK W, S, O, L, B : W = {w} /\ S = {s} /\ O = {o, p} /\ L = {l} /\ B = {b, FALSE}
  OBVIOUS
<1>4. x \in [weak : W, strong : S, offset : O, length : L, from : B]
  BY <1>1, <1>2, <1>3
<1>6. /\ z \in [weak : W, strong : S, offset : O, length : L, from : B]
      /\ z.from = FALSE /\ z.offset = p
  BY <1>3, <1>4 DEF MarkedTo
<1>7. z.weak = w /\ z.strong = s /\ z.length = l
  BY <1>3, <1>6
<1>8. z = [weak |-> z.weak, strong |-> z.strong, offset |-> z.offset, length |-> z.length,
           from |-> z.from]
  BY <1>6
<1> QED
  BY <1>2, <1>6, <1>7, <1>8 DEF CopiedFrom

\* One mark.
LEMMA MarkIsMark ==
  ASSUME NEW f, NEW nf, NEW list, BlockList(list, f, Len(list)),
         NEW m \in Marks(list, f, nf), NEW h \in SeenHits(list, nf)
  PROVE  Mark(m, h) \in Marks(list, f, nf)
<1>1. PICK n \in Nat : n = Len(list) /\ DOMAIN list = 1 .. n
  BY DEF BlockList
<1>2. PICK j \in 1 .. n, p \in Nat : j = h.chunk /\ p = h.at /\ Seen(nf, list, p, j)
  BY <1>1 DEF SeenHits, HitSeen
<1>3. PICK E : E = UNION {EntryMarks(list, f, k) : k \in 1 .. n}
  OBVIOUS
<1>4. /\ m \in [1 .. n -> E]
      /\ \A k \in 1 .. n :
           \/ m[k] = Says(f, k, list[k].strong)
           \/ \E q \in Nat : m[k] = CopiedFrom(f, k, list[k].strong, q) /\ Seen(nf, list, q, k)
  BY <1>1, <1>3 DEF Marks
<1>5. PICK x, y, s : x = m[j] /\ s = list[j].strong /\ y = MarkedTo(x, p)
  OBVIOUS
<1>6. y = CopiedFrom(f, j, s, p)
  <2>1. x = Says(f, j, s) \/ \E q \in Nat : x = CopiedFrom(f, j, s, q)
    BY <1>4, <1>5
  <2> QED
    BY <1>5, <2>1, EntryMarked
<1>7. PICK g : g = Mark(m, h)
  OBVIOUS
<1>8. g = [m EXCEPT ![j] = y]
  BY <1>2, <1>4, <1>5, <1>7 DEF Mark
<1>9. y \in E
  <2>1. y \in EntryMarks(list, f, j)
    BY <1>5, <1>6 DEF EntryMarks
  <2> QED
    BY <1>3, <2>1
<1>10. g \in [1 .. n -> E] /\ g[j] = y /\ \A k \in 1 .. n : k # j => g[k] = m[k]
  BY <1>4, <1>8, <1>9
<1>11. ASSUME NEW k \in 1 .. n
       PROVE  \/ g[k] = Says(f, k, list[k].strong)
              \/ \E q \in Nat : g[k] = CopiedFrom(f, k, list[k].strong, q) /\ Seen(nf, list, q, k)
  <2>1. CASE k = j
    BY <1>2, <1>5, <1>6, <1>10, <2>1
  <2>2. CASE k # j
    BY <1>4, <1>10, <2>2
  <2> QED
    BY <2>1, <2>2
<1> QED
  BY <1>1, <1>3, <1>7, <1>10, <1>11 DEF Marks

\* All of them (ScanFile1): a fold.
LEMMA MarkedIsMarks ==
  ASSUME NEW f, NEW nf, NEW list, BlockList(list, f, Len(list)),
         NEW hits \in Seq(Hits), \A j \in DOMAIN hits : HitSeen(nf, list, hits[j])
  PROVE  Remote!Marked(list, hits) \in Marks(list, f, nf)
<1>1. PICK n \in Nat : n = Len(hits) /\ DOMAIN hits = 1 .. n
  OBVIOUS
<1> DEFINE X == Marks(list, f, nf)
           Y == SeenHits(list, nf)
           begin == list
           w == hits
           F == [s \in X |-> [k \in Y |-> Mark(s, k)]]
           P(g) == g = [s \in SUBSET (DOMAIN w) |->
                          IF s = {} THEN begin
                          ELSE Mark(g[s \ {Max(s)}], w[Max(s)])]
           it == CHOOSE g : P(g)
<1>2. DOMAIN w = 1 .. n /\ w \in [1 .. n -> Y]
  <2>1. ASSUME NEW i \in 1 .. n PROVE hits[i] \in Y
    <3>1. HitSeen(nf, list, hits[i]) /\ hits[i] \in Hits
      BY <1>1, <2>1
    <3>2. hits[i].at \in Nat
      BY <3>1 DEF Hits
    <3> QED
      BY <3>1, <3>2 DEF SeenHits
  <2> QED
    BY <1>1, <2>1
<1>3. F \in [X -> [Y -> X]] /\ begin \in X
  <2>1. ASSUME NEW s \in X, NEW k \in Y PROVE Mark(s, k) \in X
    BY <2>1, MarkIsMark
  <2>2. begin \in X
    <3>1. PICK l \in Nat : l = Len(list) /\ DOMAIN list = 1 .. l /\ list = [k \in 1 .. l |-> list[k]]
      BY DEF BlockList
    <3>2. \A k \in 1 .. l : list[k] = Says(f, k, list[k].strong)
      BY <3>1 DEF BlockList
    <3>3. PICK E : E = UNION {EntryMarks(list, f, k) : k \in 1 .. l}
      OBVIOUS
    <3>4. \A k \in 1 .. l : list[k] \in E
      BY <3>2, <3>3 DEF EntryMarks
    <3>5. list \in [1 .. l -> E]
      BY <3>1, <3>4
    <3> QED
      BY <3>1, <3>2, <3>3, <3>5 DEF Marks
  <2> HIDE DEF X, Y, begin
  <2> QED
    BY <2>1, <2>2
<1>4. \A s \in X, k \in Y : F[s][k] = Mark(s, k)
  OBVIOUS
<1>5. ASSUME NEW g, NEW s \in SUBSET (1 .. n), s # {}, g[s \ {Max(s)}] \in X
      PROVE  Step(F, w, g, s) <=> g[s] = Mark(g[s \ {Max(s)}], w[Max(s)])
  <2> HIDE DEF F, X, Y, w
  <2>1. w[Max(s)] \in Y
    BY <1>2, <1>5, MaxIsPlace
  <2> QED
    BY <1>4, <1>5, <2>1 DEF Step
<1>6. \E g : P(g)
  <2> HIDE DEF F, X, w, Y, begin
  <2>1. PICK g : Folded(X, F, begin, w, n, g)
    BY <1>2, <1>3, FoldFound
  <2>2. \A s \in SUBSET (1 .. n) : s # {} => g[s] = Mark(g[s \ {Max(s)}], w[Max(s)])
    BY <1>5, <2>1 DEF Folded
  <2>3. g[{}] = begin /\ g = [s \in SUBSET (1 .. n) |-> g[s]]
    BY <2>1 DEF Folded
  <2>4. P(g)
    BY <1>2, <2>2, <2>3
  <2> QED
    BY <2>4
<1>7. P(it)
  <2> HIDE DEF P
  <2> QED
    BY <1>6
<1>8. Remote!Marked(list, hits) = it[DOMAIN w]
  BY <1>1 DEF Mark, MarkedTo, Remote!Marked, Remote!FoldLeft, Remote!MapThenFoldSet, Remote!Max, Max
<1> HIDE DEF it, F, X, w, Y, begin
<1>9. /\ it[{}] = begin
      /\ \A s \in SUBSET (1 .. n) :
           s # {} => it[s] = Mark(it[s \ {Max(s)}], w[Max(s)])
  BY <1>2, <1>7
<1>10. FoldsTyped(X, F, begin, w, n, it)
  BY <1>5, <1>9 DEF FoldsTyped
<1>11. it[1 .. n] \in X
  <2>1. \A s \in SUBSET (1 .. n) : it[s] \in X
    BY <1>2, <1>3, <1>10, FoldTyped
  <2> QED
    BY <2>1
<1> QED
  BY <1>2, <1>8, <1>11 DEF X

\* A list and its marks have the same sums, so a match of one is a match of the other.
LEMMA MarksAreSeen ==
  ASSUME NEW f, NEW nf, NEW list, BlockList(list, f, Len(list)),
         NEW m \in Marks(list, f, nf)
  PROVE  /\ \A k \in 1 .. Len(list) : m[k].strong = list[k].strong
         /\ \A k \in 1 .. Len(list), p \in Nat : Seen(nf, list, p, k) => Seen(nf, m, p, k)
<1>1. PICK n \in Nat : n = Len(list) /\ DOMAIN list = 1 .. n
  BY DEF BlockList
<1>2. DOMAIN m = 1 .. n
  BY <1>1 DEF Marks
<1>3. ASSUME NEW k \in 1 .. n PROVE m[k].strong = list[k].strong /\ m[k].weak = list[k].weak
  <2>1. PICK s, x, y : s = list[k].strong /\ x = m[k] /\ y = list[k]
    OBVIOUS
  <2>2. y = Says(f, k, s)
    BY <1>1, <2>1 DEF BlockList
  <2>3. x = Says(f, k, s) \/ \E p \in Nat : x = CopiedFrom(f, k, s, p)
    BY <1>1, <2>1 DEF Marks
  <2>4. y.weak = WeakOf(f, k)
    BY <2>2 DEF Says
  <2>5. x.weak = WeakOf(f, k) /\ x.strong = s
    BY <2>3 DEF Says, CopiedFrom
  <2> QED
    BY <2>1, <2>4, <2>5
<1>4. Told(nf, m) => Told(nf, list)
  BY <1>1, <1>2, <1>3 DEF Told
<1> QED
  BY <1>1, <1>3, <1>4 DEF Seen

\* What a client that has no copy, and one that has, makes of the answer to GetMeta.
LEMMA ListFits ==
  ASSUME NEW f, NEW nf, NEW list, BlockList(list, f, Remote!Blocks(f))
  PROVE  MetaFits(list, f, nf)
<1>1. PICK n \in Nat : /\ n = Remote!Blocks(f) /\ Len(list) = n
                       /\ \A k \in 1 .. n : list[k] = Says(f, k, list[k].strong)
  BY DEF BlockList
<1>2. \E T : list \in [1 .. n -> T]
  <2>1. PICK T : list \in Seq(T)
    BY DEF BlockList
  <2> QED
    BY <1>1, <2>1
<1> QED
  BY <1>1, <1>2 DEF MetaFits, SaidOrFound

\* With a copy: the scan marks what it finds.
LEMMA MarkedFits ==
  ASSUME NEW f, NEW nf \in Seq(Int), NEW word \in 0 .. MapBuffer,
         NEW list, BlockList(list, f, Remote!Blocks(f))
  PROVE  MetaFits(Remote!Marked(list, Remote!Scanned(nf, word, list).hits), f, nf)
<1>1. PICK n \in Nat : /\ n = Remote!Blocks(f) /\ n = Len(list) /\ DOMAIN list = 1 .. n
                       /\ BlockList(list, f, Len(list))
  BY DEF BlockList
<1>2. PICK hits : hits = Remote!Scanned(nf, word, list).hits
  OBVIOUS
<1>3. hits \in Seq(Hits) /\ \A j \in DOMAIN hits : HitSeen(nf, list, hits[j])
  <2>1. Remote!Scanned(nf, word, list) \in ScanSet(nf, list)
    BY <1>1, ScannedIsScan
  <2> QED
    BY <1>2, <2>1 DEF ScanSet
<1>4. PICK m : m = Remote!Marked(list, hits)
  OBVIOUS
<1>5. m \in Marks(list, f, nf)
  BY <1>1, <1>3, <1>4, MarkedIsMarks
<1>6. \E E : m \in [1 .. n -> E]
  BY <1>1, <1>5 DEF Marks
<1>7. ASSUME NEW k \in 1 .. n PROVE SaidOrFound(m[k], m, f, nf, k)
  <2>1. PICK x, s : x = m[k] /\ s = list[k].strong /\ x.strong = s
    BY <1>1, <1>5, MarksAreSeen
  <2>2. \/ x = Says(f, k, s)
        \/ \E p \in Nat : x = CopiedFrom(f, k, s, p) /\ Seen(nf, list, p, k)
    BY <1>1, <1>5, <2>1 DEF Marks
  <2>3. \A p \in Nat : Seen(nf, list, p, k) => Seen(nf, m, p, k)
    BY <1>1, <1>5, MarksAreSeen
  <2> QED
    BY <2>1, <2>2, <2>3 DEF SaidOrFound
<1> QED
  BY <1>1, <1>2, <1>4, <1>6, <1>7 DEF MetaFits

\* They say that.
LEMMA RightIs ==
  ASSUME NEW c, ~Remote!PastEnd(c), ~Remote!MixedUp(c)
  PROVE  RightMeta(meta[c], base[c], copy[c])
<1>1. ~Remote!Refused(c) => Told(copy[c], meta[c])
  BY RemoteSum DEF Remote!Refused, Told
<1> QED
  BY <1>1, RemoteSum DEF Remote!PastEnd, Remote!MixedUp, RightMeta

\* How long the k-th chunk of a file is.
LEMMA BlockHas ==
  ASSUME NEW f \in Seq(Int), NEW k \in 1 .. Remote!Blocks(f)
  PROVE  \E l \in Nat : /\ l = Remote!BlockLength(f, k) /\ l <= Chunk
                        /\ Remote!Block(f, k) \in Seq(Int) /\ Len(Remote!Block(f, k)) = l
<1>1. PICK o \in Nat, l \in Nat : BlockLies(f, k, o, l)
  BY BlocksLie
<1>2. o + l <= Len(f) /\ l <= Chunk /\ l = Remote!BlockLength(f, k)
      /\ Remote!Block(f, k) = SubSeq(f, o + 1, o + l)
  BY <1>1 DEF BlockLies
<1>3. \A i \in o + 1 .. o + l : i \in 1 .. Len(f)
  BY <1>2
<1>4. SubSeq(f, o + 1, o + l) \in Seq(Int) /\ Len(SubSeq(f, o + 1, o + l)) = l
  BY <1>3, SubSeqProperties
<1> QED
  BY <1>2, <1>4

\* A chunk that is copied when nothing is mixed up is the chunk of the file.
LEMMA RightChunk ==
  ASSUME NEW f \in Seq(Int), NEW nf, NEW m, MetaFits(m, f, nf), RightMeta(m, f, nf),
         NEW k \in 1 .. Remote!Blocks(f), ~m[k].from
  PROVE  /\ nf \in Seq(Int)
         /\ \E p \in Nat : /\ p = m[k].offset /\ m[k].length = Chunk /\ p + Chunk <= Len(nf)
                           /\ Remote!Block(f, k) = SubSeq(nf, p + 1, p + Chunk)
<1>1. PICK x : x = m[k]
  OBVIOUS
<1>2. DOMAIN m = 1 .. Remote!Blocks(f) /\ SaidOrFound(x, m, f, nf, k)
  BY <1>1 DEF MetaFits
<1>3. x # Says(f, k, x.strong)
  BY <1>1 DEF Says
<1>4. nf \in Seq(Int)
  BY <1>2, <1>3 DEF SaidOrFound
<1>5. PICK p \in Nat : x = CopiedFrom(f, k, x.strong, p) /\ Seen(nf, m, p, k)
  BY <1>2, <1>3 DEF SaidOrFound
<1>6. x.offset = p /\ x.length = Remote!BlockLength(f, k)
  BY <1>5 DEF CopiedFrom
<1>7. PICK c \in Nat, L \in Nat : c = Chunk /\ L = Len(nf)
  <2>1. Chunk \in Nat /\ Len(nf) \in Nat
    BY <1>4, ChunkFacts
  <2> QED
    BY <2>1
<1>8. p + Chunk <= Len(nf)
  <2>1. ~(p + c > L)
    BY <1>1, <1>2, <1>6, <1>7 DEF RightMeta
  <2> QED
    BY <1>7, <2>1
<1>9. PICK w : w = SubSeq(nf, p + 1, p + Chunk)
  OBVIOUS
<1>10. x.strong = w /\ (Told(nf, m) => x.weak = Sum1(w))
  BY <1>1, <1>5, <1>8, <1>9 DEF Seen
<1>11. Remote!Block(f, k) = w
  BY <1>1, <1>2, <1>10 DEF RightMeta
<1>12. Len(w) = c
  <2>1. \A i \in p + 1 .. p + c : i \in 1 .. Len(nf)
    BY <1>7, <1>8
  <2>2. Len(SubSeq(nf, p + 1, p + c)) = c
    BY <1>4, <2>1, SubSeqProperties
  <2> QED
    BY <1>7, <1>9, <2>2
<1>13. Remote!BlockLength(f, k) = Chunk
  BY <1>7, <1>11, <1>12, BlockHas
<1> QED
  BY <1>1, <1>4, <1>6, <1>8, <1>9, <1>11, <1>13

\* What the client writes for it (CopyChunk).
LEMMA CopiedIs ==
  ASSUME NEW f \in Seq(Int), NEW nf, NEW m, MetaFits(m, f, nf), RightMeta(m, f, nf),
         NEW k \in 1 .. Remote!Blocks(f), ~m[k].from, NEW buffer \in Maps(nf),
         NEW r, r = Remote!MapFileContent(buffer, m[k].offset, m[k].length)
  PROVE  r \in Maps(nf) /\ Remote!Bytes(r, m[k].length) = Remote!Block(f, k)
<1>1. PICK p \in Nat : /\ p = m[k].offset /\ m[k].length = Chunk /\ p + Chunk <= Len(nf)
                       /\ Remote!Block(f, k) = SubSeq(nf, p + 1, p + Chunk)
  <2>1. \E p \in Nat : /\ p = m[k].offset /\ m[k].length = Chunk /\ p + Chunk <= Len(nf)
                       /\ Remote!Block(f, k) = SubSeq(nf, p + 1, p + Chunk)
    BY RightChunk
  <2> QED
    BY <2>1
<1>2. nf \in Seq(Int)
  BY RightChunk
<1>3. r = MapFileContent(buffer, p, Chunk)
  BY <1>1, RemoteMap
<1>4. r \in Maps(nf) /\ Bytes(r, Chunk) = SubSeq(nf, p + 1, p + Chunk)
  BY <1>1, <1>2, <1>3, ContentShown, SMTT(30)
<1> QED
  BY <1>1, <1>4, RemoteMap

\* What the server reads for one that is asked for (GetChunk).
LEMMA AskedIs ==
  ASSUME NEW f \in Seq(Int), NEW k \in 1 .. Remote!Blocks(f),
         NEW o, o = (k - 1) * Chunk, NEW l, l = Remote!BlockLength(f, k)
  PROVE  [i \in 1 .. l |-> IF o + i <= Len(f) THEN f[o + i] ELSE Junk] = Remote!Block(f, k)
<1>1. PICK a \in Nat, n \in Nat : BlockLies(f, k, a, n)
  BY BlocksLie
<1>2. a = o /\ n = l /\ Remote!Block(f, k) = SubSeq(f, a + 1, a + n)
  BY <1>1 DEF BlockLies
<1>3. PICK L \in Nat : L = Len(f) /\ a + n <= L /\ f \in [1 .. L -> Int]
  BY <1>1 DEF BlockLies
<1>4. \A i \in 1 .. n : a + i <= L /\ a + i \in 1 .. L
  BY <1>3
<1>5. PICK g : g = [i \in 1 .. n |-> IF a + i <= Len(f) THEN f[a + i] ELSE Junk]
  OBVIOUS
<1>6. \A i \in 1 .. n : f[a + i] \in Int
  BY <1>3, <1>4
<1>7. g \in [1 .. n -> Int] /\ \A i \in 1 .. n : g[i] = f[a + i]
  BY <1>3, <1>4, <1>5, <1>6
<1>8. g \in Seq(Int) /\ Len(g) = n
  BY <1>7
<1>9. PICK w : w = SubSeq(f, a + 1, a + n)
  OBVIOUS
<1>10. w \in Seq(Int) /\ Len(w) = n /\ \A i \in 1 .. n : w[i] = f[a + i]
  BY <1>3, <1>9
<1>11. \A i \in 1 .. n : g[i] = w[i]
  BY <1>7, <1>10
<1>12. g = w
  BY <1>8, <1>10, <1>11, SeqEqual
<1> QED
  BY <1>2, <1>5, <1>9, <1>12

\* So it is at first.
LEMMA BuildStarts == ASSUME RemoteFiles, Remote!Init PROVE BuildInv
<1>1. CallInv
  BY CallInvStarts
<1>2. /\ queue = <<>> /\ files \in [Paths -> Versions] /\ copy \in Copies
      /\ path \in [Clients -> Paths]
      /\ base = [c \in Clients |-> None] /\ client = [c \in Clients |-> "start"]
      /\ meta = [c \in Clients |-> <<>>] /\ reader = [c \in Clients |-> None]
      /\ out = [c \in Clients |-> <<>>] /\ built = [c \in Clients |-> 0]
      /\ thread = [t \in Threads |-> [at |-> "pop", task |-> None, file |-> <<>>,
                                      list |-> <<>>]]
  BY DEF Remote!Init, Remote!Idle
<1>3. Fields
  <2>1. /\ files = [p \in Paths |-> files[p]]
        /\ \A p \in Paths : files[p] = NoFile \/ files[p] \in Seq(Int)
    BY <1>2 DEF RemoteFiles
  <2>2. \A c \in Clients : path[c] \in Paths /\ (copy[c] = NoFile \/ copy[c] \in Seq(Int))
    BY <1>2 DEF RemoteFiles
  <2>3. /\ base = [c \in Clients |-> base[c]] /\ meta = [c \in Clients |-> meta[c]]
        /\ reader = [c \in Clients |-> reader[c]] /\ out = [c \in Clients |-> out[c]]
        /\ built = [c \in Clients |-> built[c]]
    BY <1>2
  <2> QED
    BY <2>1, <2>2, <2>3 DEF Fields
<1>4. TasksFit
  BY <1>2 DEF TasksFit
<1>5. ASSUME NEW t \in Threads PROVE ThreadFits(thread[t])
  BY <1>2 DEF ThreadFits, Describes
<1>6. ASSUME NEW c \in Clients PROVE ClientFits(c)
  BY <1>2 DEF ClientFits, AnswerFits, WrittenFits
<1> QED
  BY <1>1, <1>3, <1>4, <1>5, <1>6 DEF BuildInv

\* A client of which nothing changes.
LEMMA ClientStays ==
  ASSUME NEW c, ClientFits(c), UNCHANGED Side(c) PROVE ClientFits(c)'
<1>1. /\ base'[c] = base[c] /\ reply'[c] = reply[c] /\ client'[c] = client[c]
      /\ built'[c] = built[c] /\ out'[c] = out[c] /\ meta'[c] = meta[c]
      /\ reader'[c] = reader[c] /\ copy'[c] = copy[c] /\ path'[c] = path[c]
      /\ files'[path[c]] = files[path[c]]
  BY DEF Side
<1> QED
  BY <1>1 DEF ClientFits, AnswerFits, WrittenFits

\* What its tasks rest on. They may stay if its file has changed.
Stays(c) == /\ path'[c] = path[c] /\ client'[c] = client[c]
            /\ built'[c] = built[c] /\ base'[c] \in {None, base[c]}

\* A task of such a client.
LEMMA TaskStays == ASSUME NEW c, NEW x, Asks(c, x), Stays(c) PROVE Asks(c, x)'
  BY DEF Asks, Stays

\* A task that stays in the queue, wherever it is.
LEMMA QueuedStays ==
  ASSUME BuildInv, NEW i \in DOMAIN queue, NEW j, queue'[j] = queue[i],
         \A c \in Clients : queue[i].client = c => Stays(c)
  PROVE  Asks(queue[j].client, queue[j])'
<1>1. PICK x : x = queue[i]
  OBVIOUS
<1>2. PICK c \in Clients : c = x.client /\ Asks(c, x)
  BY <1>1 DEF BuildInv, CallInv, Formed, TasksFit
<1>3. Asks(c, x)'
  BY <1>1, <1>2, TaskStays
<1> QED
  BY <1>1, <1>2, <1>3

\* A thread that goes on with its task.
LEMMA ThreadStays ==
  ASSUME BuildInv, NEW u \in Threads, thread'[u] = thread[u],
         \A c \in Clients : thread[u].at # "pop" /\ thread[u].task.client = c => Stays(c)
  PROVE  ThreadFits(thread[u])'
<1>1. PICK y : y = thread[u]
  OBVIOUS
<1>2. ThreadFits(y) /\ (y.at # "pop" => y.task.client \in Clients)
  BY <1>1 DEF BuildInv, CallInv, Formed
<1>3. CASE y.at = "pop"
  BY <1>1, <1>2, <1>3 DEF ThreadFits, Describes
<1>4. CASE y.at # "pop"
  <2>1. PICK c \in Clients : c = y.task.client /\ Stays(c)
    BY <1>1, <1>2, <1>4
  <2>2. Asks(c, y.task)'
    BY <1>2, <1>4, <2>1, TaskStays DEF ThreadFits
  <2>3. Describes(y)'
    BY <1>2, <1>4, <2>1 DEF ThreadFits, Describes, Stays
  <2>4. ThreadFits(y)'
    BY <1>2, <2>1, <2>2, <2>3 DEF ThreadFits
  <2> QED
    BY <1>1, <2>4
<1> QED
  BY <1>3, <1>4

\* The tasks, if they stay where they are.
LEMMA TasksStay ==
  ASSUME BuildInv, queue' = queue, thread' = thread, \A c \in Clients : Stays(c)
  PROVE  TasksFit' /\ \A t \in Threads : ThreadFits(thread[t])'
<1>1. ASSUME NEW i \in DOMAIN queue PROVE Asks(queue[i].client, queue[i])'
  BY QueuedStays
<1>2. ASSUME NEW t \in Threads PROVE ThreadFits(thread[t])'
  BY ThreadStays
<1> QED
  BY <1>1, <1>2 DEF TasksFit

\* Somebody replaces a file.
LEMMA ChangeFits ==
  ASSUME RemoteFiles, BuildInv, NEW p \in Paths, NEW v \in Versions, Remote!Change(p, v)
  PROVE  BuildInv'
<1>1. /\ files' = [files EXCEPT ![p] = v]
      /\ base' = [c \in Clients |-> IF path[c] = p THEN None ELSE base[c]]
      /\ queue' = queue /\ thread' = thread /\ reply' = reply /\ client' = client
      /\ copy' = copy /\ path' = path /\ meta' = meta /\ reader' = reader
      /\ built' = built /\ out' = out
  BY DEF Remote!Change, Remote!ClientState
<1>2. CallInv'
  BY <1>1, NothingMoves DEF BuildInv
<1>3. Fields'
  BY <1>1 DEF BuildInv, Fields, RemoteFiles
<1>4. TasksFit' /\ \A t \in Threads : ThreadFits(thread[t])'
  <2>1. \A c \in Clients : Stays(c)
    BY <1>1 DEF Stays
  <2> QED
    BY <1>1, <2>1, TasksStay
<1>5. ASSUME NEW c \in Clients PROVE ClientFits(c)'
  <2>1. ClientFits(c)
    BY DEF BuildInv
  <2>2. CASE path[c] = p
    BY <1>1, <2>1, <2>2 DEF ClientFits, AnswerFits, WrittenFits
  <2>3. CASE path[c] # p
    <3>1. files'[path[c]] = files[path[c]] /\ base'[c] = base[c]
      BY <1>1, <2>3 DEF BuildInv, Fields
    <3>2. UNCHANGED Side(c)
      BY <1>1, <3>1 DEF Side
    <3> QED
      BY <2>1, <3>2, ClientStays
  <2> QED
    BY <2>2, <2>3
<1> QED
  BY <1>2, <1>3, <1>4, <1>5 DEF BuildInv

\* A thread pops a task (Process).
LEMMA ProcessFits ==
  ASSUME NoneIsNoAnswer, BuildInv, NEW t \in Threads, Remote!Process(t) PROVE BuildInv'
<1>1. /\ thread[t].at = "pop" /\ queue # <<>> /\ queue' = Tail(queue)
      /\ files' = files /\ base' = base /\ client' = client /\ copy' = copy /\ path' = path
      /\ meta' = meta /\ reader' = reader /\ built' = built /\ out' = out
  BY DEF Remote!Process, Remote!ClientState
<1>2. PICK task : task = Head(queue)
  OBVIOUS
<1>3. \/ /\ reply' = [reply EXCEPT ![task.client] = [ok |-> FALSE, data |-> <<>>]]
         /\ thread' = thread
      \/ /\ thread' = [thread EXCEPT ![t].at = "open", ![t].task = task]
         /\ reply' = reply
  BY <1>2 DEF Remote!Process, Remote!NotFound
<1>4. CallInv'
  BY ProcessKeeps DEF BuildInv
<1>5. Fields'
  BY <1>1 DEF BuildInv, Fields
<1>6. \A c \in Clients : Stays(c)
  BY <1>1 DEF Stays
<1>7. /\ 1 \in DOMAIN queue /\ task = queue[1]
      /\ \A i \in DOMAIN queue' : i + 1 \in DOMAIN queue /\ queue'[i] = queue[i + 1]
  BY <1>1, <1>2, QueueTail DEF BuildInv, CallInv, Formed
<1>8. TasksFit'
  <2>1. ASSUME NEW i \in DOMAIN queue' PROVE Asks(queue[i].client, queue[i])'
    <3>1. PICK j \in DOMAIN queue : queue'[i] = queue[j]
      BY <1>7
    <3> QED
      BY <1>6, <3>1, QueuedStays
  <2> QED
    BY <2>1 DEF TasksFit
<1>9. ASSUME NEW u \in Threads PROVE ThreadFits(thread[u])'
  <2>1. CASE thread'[u] = thread[u]
    BY <1>6, <2>1, ThreadStays
  <2>2. CASE thread'[u] # thread[u]
    <3>1. thread' = [thread EXCEPT ![t].at = "open", ![t].task = task]
      BY <1>3, <2>2
    <3>2. u = t /\ thread = [w \in Threads |-> thread[w]] /\ thread[t] = Form(thread[t])
      BY <2>2, <3>1 DEF BuildInv, CallInv, Formed
    <3>3. PICK y : y = thread'[t]
      OBVIOUS
    <3>4. y = [thread[t] EXCEPT !.at = "open", !.task = task]
      BY <3>1, <3>2, <3>3
    <3>5. y = [at |-> "open", task |-> task, file |-> thread[t].file, list |-> thread[t].list]
      BY <3>2, <3>4, ThreadMoves
    <3>6. thread[t].list = <<>>
      BY <1>1 DEF BuildInv, ThreadFits
    <3>7. Asks(task.client, task)'
      <4>1. PICK c \in Clients : c = task.client
        BY <1>7 DEF BuildInv, CallInv, Formed
      <4>2. Asks(c, task)
        BY <1>7, <4>1 DEF BuildInv, TasksFit
      <4> QED
        BY <1>6, <4>1, <4>2, TaskStays
    <3>8. ThreadFits(y)'
      BY <3>5, <3>6, <3>7 DEF ThreadFits, Describes
    <3> QED
      BY <3>2, <3>3, <3>8
  <2> QED
    BY <2>1, <2>2
<1>10. ASSUME NEW c \in Clients PROVE ClientFits(c)'
  <2>1. ClientFits(c)
    BY DEF BuildInv
  <2>2. CASE reply'[c] = reply[c]
    <3>1. UNCHANGED Side(c)
      BY <1>1, <2>2 DEF Side
    <3> QED
      BY <2>1, <3>1, ClientStays
  <2>3. CASE reply'[c] # reply[c]
    <3>1. reply' = [reply EXCEPT ![task.client] = [ok |-> FALSE, data |-> <<>>]]
      BY <1>3, <2>3
    <3>2. reply'[c] = [ok |-> FALSE, data |-> <<>>]
      BY <2>3, <3>1 DEF BuildInv, CallInv, Formed
    <3>3. reply'[c].ok = FALSE
      BY <3>2
    <3> QED
      BY <1>1, <2>1, <3>3 DEF ClientFits, AnswerFits, WrittenFits
  <2> QED
    BY <2>2, <2>3
<1> QED
  BY <1>4, <1>5, <1>8, <1>9, <1>10 DEF BuildInv

\* What a thread has described, or has found of a chunk, is the answer (AsyncSendPacket).
LEMMA AnswerIs ==
  ASSUME BuildInv, NEW t \in Threads, NEW data, thread[t].at # "pop",
         Remote!Answer(t, [ok |-> TRUE, data |-> data]), CallInv',
         UNCHANGED <<files, queue, base, client, copy, path, meta, reader, built, out>>,
         NEW d \in Clients, d = thread[t].task.client,
         base[d] # None =>
           /\ client[d] = "meta" => BlockList(data, base[d], Remote!Blocks(base[d]))
           /\ client[d] = "chunk" => data = Remote!Block(base[d], built[d] + 1)
  PROVE  BuildInv'
<1>1. /\ reply' = [reply EXCEPT ![d] = [ok |-> TRUE, data |-> data]]
      /\ thread' = [thread EXCEPT ![t] = [at |-> "pop", task |-> None, file |-> <<>>,
                                          list |-> <<>>]]
  BY DEF Remote!Answer, Remote!Idle
<1>2. \A c \in Clients : Stays(c)
  BY DEF Stays
<1>3. Fields'
  BY DEF BuildInv, Fields
<1>4. TasksFit'
  <2>1. ASSUME NEW i \in DOMAIN queue PROVE Asks(queue[i].client, queue[i])'
    BY <1>2, QueuedStays
  <2> QED
    BY <2>1 DEF TasksFit
<1>5. ASSUME NEW u \in Threads PROVE ThreadFits(thread[u])'
  <2>1. CASE u = t
    <3>1. thread'[t] = [at |-> "pop", task |-> None, file |-> <<>>, list |-> <<>>]
      BY <1>1 DEF BuildInv, CallInv, Formed
    <3> QED
      BY <2>1, <3>1 DEF ThreadFits, Describes
  <2>2. CASE u # t
    <3>1. thread'[u] = thread[u]
      BY <1>1, <2>2 DEF BuildInv, CallInv, Formed
    <3> QED
      BY <1>2, <3>1, ThreadStays
  <2> QED
    BY <2>1, <2>2
<1>6. ASSUME NEW c \in Clients PROVE ClientFits(c)'
  <2>1. ClientFits(c)
    BY DEF BuildInv
  <2>2. CASE c = d
    <3>1. reply'[d] = [ok |-> TRUE, data |-> data]
      BY <1>1 DEF BuildInv, CallInv, Formed
    <3>2. reply'[c].data = data
      BY <2>2, <3>1
    <3> QED
      BY <2>1, <2>2, <3>2 DEF ClientFits, AnswerFits, WrittenFits
  <2>3. CASE c # d
    <3>1. reply'[c] = reply[c]
      BY <1>1, <2>3 DEF BuildInv, CallInv, Formed
    <3>2. UNCHANGED Side(c)
      BY <3>1 DEF Side
    <3> QED
      BY <2>1, <3>2, ClientStays
  <2> QED
    BY <2>2, <2>3
<1> QED
  BY <1>3, <1>4, <1>5, <1>6 DEF BuildInv

\* One chunk more is described.
LEMMA ListMore ==
  ASSUME NEW f, NEW list, BlockList(list, f, Len(list)), Len(list) + 1 <= Remote!Blocks(f),
         NEW s, NEW more, more = Append(list, Says(f, Len(list) + 1, s))
  PROVE  BlockList(more, f, Len(more))
<1>1. PICK n \in Nat : n = Len(list)
  BY DEF BlockList
<1>2. PICK T : list \in Seq(T)
  BY DEF BlockList
<1>3. PICK e : e = Says(f, n + 1, s)
  OBVIOUS
<1>4. PICK U : U = T \cup {e}
  OBVIOUS
<1>5. list \in Seq(U) /\ e \in U
  <2>1. list \in [1 .. n -> T]
    BY <1>1, <1>2
  <2>2. list \in [1 .. n -> U]
    BY <1>4, <2>1
  <2> QED
    BY <1>1, <1>4, <2>2
<1>6. /\ more \in Seq(U) /\ Len(more) = n + 1 /\ more[n + 1] = e
      /\ \A i \in 1 .. n : more[i] = list[i]
  BY <1>1, <1>3, <1>5, AppendProperties
<1>7. e.strong = s
  BY <1>3 DEF Says
<1>8. ASSUME NEW k \in 1 .. n + 1 PROVE more[k] = Says(f, k, more[k].strong)
  <2>1. CASE k = n + 1
    BY <1>3, <1>6, <1>7, <2>1
  <2>2. CASE k # n + 1
    <3>1. k \in 1 .. n
      BY <2>2
    <3>2. list[k] = Says(f, k, list[k].strong)
      BY <1>1, <3>1 DEF BlockList
    <3> QED
      BY <1>6, <3>1, <3>2
  <2> QED
    BY <2>1, <2>2
<1> QED
  BY <1>1, <1>6, <1>8 DEF BlockList

\* A thread goes on with its task.
LEMMA ThreadGoesOn ==
  ASSUME BuildInv, CallInv', NEW t \in Threads, NEW x, thread' = [thread EXCEPT ![t] = x],
         ThreadFits(x)',
         UNCHANGED <<files, queue, base, reply, client, copy, path, meta, reader, built, out>>
  PROVE  BuildInv'
<1>1. \A c \in Clients : Stays(c)
  BY DEF Stays
<1>2. Fields'
  BY DEF BuildInv, Fields
<1>3. TasksFit'
  <2>1. ASSUME NEW i \in DOMAIN queue PROVE Asks(queue[i].client, queue[i])'
    BY <1>1, QueuedStays
  <2> QED
    BY <2>1 DEF TasksFit
<1>4. ASSUME NEW u \in Threads PROVE ThreadFits(thread[u])'
  <2>1. CASE u = t
    <3>1. thread'[u] = x
      BY <2>1 DEF BuildInv, CallInv, Formed
    <3> QED
      BY <3>1
  <2>2. CASE u # t
    <3>1. thread'[u] = thread[u]
      BY <2>2 DEF BuildInv, CallInv, Formed
    <3> QED
      BY <1>1, <3>1, ThreadStays
  <2> QED
    BY <2>1, <2>2
<1>5. ASSUME NEW c \in Clients PROVE ClientFits(c)'
  <2>1. ClientFits(c)
    BY DEF BuildInv
  <2>2. UNCHANGED Side(c)
    BY DEF Side
  <2> QED
    BY <2>1, <2>2, ClientStays
<1> QED
  BY <1>2, <1>3, <1>4, <1>5 DEF BuildInv

\* It sums chunk by chunk (GenerateMetaList).
LEMMA SumFits ==
  ASSUME BuildInv, CallInv', NEW t \in Threads,
         Remote!Md4Init(t) \/ Remote!Md4Update(t) \/ Remote!Md4Final(t)
  PROVE  BuildInv'
<1>1. PICK y : y = thread[t]
  OBVIOUS
<1>2. /\ ThreadFits(y) /\ y = Form(y) /\ (y.at # "pop" => y.task.client \in Clients)
      /\ thread = [u \in Threads |-> thread[u]]
  BY <1>1 DEF BuildInv, CallInv, Formed
<1>3. /\ y.at \in {"init", "update", "final"}
      /\ y.at = "init" => Len(y.list) + 1 <= Remote!Blocks(y.file)
      /\ UNCHANGED <<files, queue, base, reply, client, copy, path, meta, reader, built, out>>
  BY <1>1 DEF Remote!Md4Init, Remote!Md4Update, Remote!Md4Final, Remote!ClientState,
              Remote!MoreBlocks, Remote!Current
<1>4. PICK c \in Clients : c = y.task.client /\ Asks(c, y.task)'
  <2>1. PICK c \in Clients : c = y.task.client /\ Asks(c, y.task)
    BY <1>2, <1>3 DEF ThreadFits
  <2>2. Stays(c)
    BY <1>3 DEF Stays
  <2> QED
    BY <2>1, <2>2, TaskStays
<1>5. /\ y.task.req = "GET_META" /\ y.file \in Seq(Int) /\ base'[c] \in {None, y.file}
      /\ BlockList(y.list, y.file, Len(y.list)) /\ Len(y.list) + 1 <= Remote!Blocks(y.file)
  BY <1>2, <1>3, <1>4 DEF ThreadFits, Describes
<1>6. CASE Remote!Md4Init(t) \/ Remote!Md4Update(t)
  <2>1. PICK at \in {"update", "final"} : thread' = [thread EXCEPT ![t].at = at]
    BY <1>6 DEF Remote!Md4Init, Remote!Md4Update
  <2>2. PICK x : x = [at |-> at, task |-> y.task, file |-> y.file, list |-> y.list]
    OBVIOUS
  <2>3. [y EXCEPT !.at = at] = x
    BY <1>2, <2>2, ThreadMoves
  <2>4. thread' = [thread EXCEPT ![t] = x]
    BY <1>1, <1>2, <2>1, <2>3
  <2>5. ThreadFits(x)'
    BY <1>4, <1>5, <2>2 DEF ThreadFits, Describes
  <2> QED
    BY <1>3, <2>4, <2>5, ThreadGoesOn
<1>7. CASE Remote!Md4Final(t)
  <2>1. PICK k : k = Len(y.list) + 1
    OBVIOUS
  <2>2. PICK e : e = Says(y.file, k, ctx)
    OBVIOUS
  <2>3. e = [weak |-> IF Remote!BlockLength(y.file, k) = Chunk
                      THEN Remote!Sum1(Remote!Block(y.file, k)) ELSE <<0, 0>>,
             strong |-> ctx, offset |-> (k - 1) * Chunk,
             length |-> Remote!BlockLength(y.file, k), from |-> TRUE]
    BY <2>2 DEF Says, WeakOf
  <2>4. thread' = [thread EXCEPT ![t].at = "init", ![t].list = Append(@, e)]
    BY <1>1, <1>7, <2>1, <2>3 DEF Remote!Md4Final, Remote!Current
  <2>5. PICK more : more = Append(y.list, e)
    OBVIOUS
  <2>6. thread' = [thread EXCEPT ![t].at = "init", ![t].list = more]
    BY <1>1, <1>2, <2>4, <2>5
  <2>7. PICK x : x = [at |-> "init", task |-> y.task, file |-> y.file, list |-> more]
    OBVIOUS
  <2>8. [y EXCEPT !.at = "init", !.list = more] = x
    BY <1>2, <2>7, ThreadMoves
  <2>9. thread' = [thread EXCEPT ![t] = x]
    BY <1>1, <1>2, <2>6, <2>8
  <2>10. BlockList(more, y.file, Len(more))
    BY <1>5, <2>1, <2>2, <2>5, ListMore
  <2>11. ThreadFits(x)'
    BY <1>4, <1>5, <2>7, <2>10 DEF ThreadFits, Describes
  <2> QED
    BY <1>3, <2>9, <2>11, ThreadGoesOn
<1> QED
  BY <1>6, <1>7

\* And answers with the list.
LEMMA SendFits ==
  ASSUME BuildInv, CallInv', NEW t \in Threads, Remote!SendMeta(t) PROVE BuildInv'
<1>1. PICK y : y = thread[t]
  OBVIOUS
<1>2. /\ y.at = "init" /\ ~(Len(y.list) + 1 <= Remote!Blocks(y.file))
      /\ Remote!Answer(t, [ok |-> TRUE, data |-> y.list])
      /\ UNCHANGED <<files, queue, base, client, copy, path, meta, reader, built, out>>
  BY <1>1 DEF Remote!SendMeta, Remote!ClientState, Remote!MoreBlocks, Remote!Current
<1>3. PICK d \in Clients : d = y.task.client
  BY <1>1, <1>2 DEF BuildInv, CallInv, Formed
<1>4. ThreadFits(y)
  BY <1>1 DEF BuildInv
<1>5. /\ client[d] = "meta" /\ base[d] \in {None, y.file} /\ y.file \in Seq(Int)
      /\ BlockList(y.list, y.file, Len(y.list))
  BY <1>2, <1>3, <1>4 DEF ThreadFits, Describes, Asks
<1>6. BlockList(y.list, y.file, Remote!Blocks(y.file))
  <2>1. PICK n \in Nat, b \in Nat : /\ n = Len(y.list) /\ b = Remote!Blocks(y.file)
                                    /\ n <= b /\ ~(n + 1 <= b)
    <3>1. Remote!Blocks(y.file) \in Nat /\ Len(y.list) \in Nat
      BY <1>5, BlocksLie DEF BlockList
    <3> QED
      BY <1>2, <1>5, <3>1 DEF BlockList
  <2>2. n = b
    BY <2>1
  <2> QED
    BY <1>5, <2>1, <2>2
<1> QED
  BY <1>1, <1>2, <1>3, <1>5, <1>6, AnswerIs

\* A thread opens the file of its task.
LEMMA OpenFits ==
  ASSUME BuildInv, CallInv', NEW t \in Threads, Remote!Open(t) PROVE BuildInv'
<1>1. PICK y : y = thread[t]
  OBVIOUS
<1>2. /\ ThreadFits(y) /\ y = Form(y) /\ y.at = "open" /\ y.list = <<>>
      /\ thread = [u \in Threads |-> thread[u]]
      /\ UNCHANGED <<files, queue, client, copy, path, meta, reader, built, out>>
  BY <1>1 DEF BuildInv, CallInv, Formed, ThreadFits, Remote!Open, Remote!ClientState
<1>3. PICK task, f : task = y.task /\ f = files[task.path]
  OBVIOUS
<1>4. PICK d \in Clients : d = task.client /\ Asks(d, task)
  BY <1>1, <1>2, <1>3 DEF BuildInv, CallInv, Formed, ThreadFits
<1>5. /\ f = files[path[d]] /\ (f = NoFile \/ f \in Seq(Int))
      /\ ClientFits(d)
  BY <1>3, <1>4 DEF BuildInv, Fields, Asks
<1>6. PICK data : data = [i \in 1 .. task.length |->
                            IF task.offset + i <= Len(f) THEN f[task.offset + i] ELSE Junk]
  OBVIOUS
<1>7. \/ /\ f = NoFile /\ thread' = thread /\ reply' = reply /\ base' = base
      \/ /\ f # NoFile /\ task.req = "GET_META" /\ reply' = reply
         /\ thread' = [thread EXCEPT ![t].at = "init", ![t].file = f]
         /\ base' = [base EXCEPT ![d] = f]
      \/ /\ f # NoFile /\ task.req # "GET_META" /\ base' = base
         /\ Remote!Answer(t, [ok |-> TRUE, data |-> data])
  BY <1>1, <1>3, <1>4, <1>6 DEF Remote!Open
<1>8. CASE f = NoFile /\ thread' = thread /\ reply' = reply /\ base' = base
  <2>1. \A c \in Clients : Stays(c)
    BY <1>2, <1>8 DEF Stays
  <2>2. TasksFit' /\ \A u \in Threads : ThreadFits(thread[u])'
    BY <1>2, <1>8, <2>1, TasksStay
  <2>3. ASSUME NEW c \in Clients PROVE ClientFits(c)'
    <3>1. UNCHANGED Side(c)
      BY <1>2, <1>8 DEF Side
    <3> QED
      BY <3>1, ClientStays DEF BuildInv
  <2>4. Fields'
    BY <1>2, <1>8 DEF BuildInv, Fields
  <2> QED
    BY <2>2, <2>3, <2>4 DEF BuildInv
<1>9. CASE /\ f # NoFile /\ task.req = "GET_META" /\ reply' = reply
           /\ thread' = [thread EXCEPT ![t].at = "init", ![t].file = f]
           /\ base' = [base EXCEPT ![d] = f]
  <2>1. f \in Seq(Int) /\ client[d] = "meta"
    BY <1>4, <1>5, <1>9 DEF Asks
  <2>2. t \in InThread(d)
    BY <1>1, <1>2, <1>3, <1>4 DEF InThread
  <2>3. InQueue(d) = {} /\ reply[d] = None /\ \A u \in InThread(d) : u = t
    BY <2>2 DEF BuildInv, CallInv, OnePlace
  <2>4. base'[d] = f /\ \A c \in Clients \ {d} : base'[c] = base[c]
    BY <1>9 DEF BuildInv, Fields
  <2>5. \A c \in Clients \ {d} : Stays(c)
    BY <1>2, <2>4 DEF Stays
  <2>6. Fields'
    <3>1. base' = [c \in Clients |-> base'[c]]
      BY <1>9 DEF BuildInv, Fields
    <3> QED
      BY <1>2, <3>1 DEF BuildInv, Fields
  <2>7. TasksFit'
    <3>1. ASSUME NEW i \in DOMAIN queue PROVE Asks(queue[i].client, queue[i])'
      <4>1. queue[i].client # d
        BY <2>3 DEF InQueue
      <4> QED
        BY <1>2, <2>5, <4>1, QueuedStays
    <3> QED
      BY <1>2, <3>1 DEF TasksFit
  <2>8. ASSUME NEW u \in Threads PROVE ThreadFits(thread[u])'
    <3>1. CASE u = t
      <4>1. PICK x : x = thread'[t]
        OBVIOUS
      <4>2. x = [y EXCEPT !.at = "init", !.file = f]
        BY <1>1, <1>2, <1>9, <4>1
      <4>3. x = [at |-> "init", task |-> task, file |-> f, list |-> <<>>]
        <5>1. y = Form(y)
          BY <1>2
        <5>2. x = [at |-> "init", task |-> y.task, file |-> f, list |-> y.list]
          BY <4>2, <5>1, ThreadOpens
        <5> QED
          BY <1>2, <1>3, <5>2
      <4>4. Asks(d, task)'
        BY <1>2, <1>4, <1>9, <2>1 DEF Asks
      <4>5. BlockList(<<>>, f, Len(<<>>))
        <5>1. Remote!Blocks(f) \in Nat
          BY <2>1, BlocksLie
        <5>2. /\ Len(<<>>) = 0 /\ <<>> \in Seq({}) /\ 0 <= Remote!Blocks(f)
              /\ \A k \in 1 .. 0 : FALSE
          BY <5>1
        <5> QED
          BY <5>2 DEF BlockList
      <4>6. ThreadFits(x)'
        BY <1>4, <1>9, <2>1, <2>4, <4>3, <4>4, <4>5 DEF ThreadFits, Describes
      <4> QED
        BY <3>1, <4>1, <4>6
    <3>2. CASE u # t
      <4>1. thread'[u] = thread[u]
        BY <1>2, <1>9, <3>2
      <4>2. thread[u].at # "pop" => thread[u].task.client # d
        BY <2>3, <3>2 DEF InThread
      <4> QED
        BY <2>5, <4>1, <4>2, ThreadStays
    <3> QED
      BY <3>1, <3>2
  <2>9. ASSUME NEW c \in Clients PROVE ClientFits(c)'
    <3>1. CASE c = d
      BY <1>2, <1>5, <1>9, <2>1, <2>3, <2>4, <3>1 DEF ClientFits, AnswerFits, WrittenFits
    <3>2. CASE c # d
      <4>1. UNCHANGED Side(c)
        BY <1>2, <1>9, <2>4, <3>2 DEF Side
      <4> QED
        BY <4>1, ClientStays DEF BuildInv
    <3> QED
      BY <3>1, <3>2
  <2> QED
    BY <2>6, <2>7, <2>8, <2>9 DEF BuildInv
<1>10. CASE /\ f # NoFile /\ task.req # "GET_META" /\ base' = base
            /\ Remote!Answer(t, [ok |-> TRUE, data |-> data])
  <2>1. client[d] = "chunk"
    BY <1>4, <1>10 DEF Asks
  <2>2. ASSUME base[d] # None PROVE data = Remote!Block(base[d], built[d] + 1)
    <3>1. base[d] = f /\ f \in Seq(Int)
      BY <1>5, <2>2 DEF ClientFits
    <3>2. built[d] \in Nat /\ built[d] + 1 <= Remote!Blocks(f) /\ Remote!Blocks(f) \in Nat
      BY <1>5, <2>1, <2>2, <3>1, BlocksLie DEF ClientFits, WrittenFits
    <3>3. PICK k \in 1 .. Remote!Blocks(f) : k = built[d] + 1 /\ k - 1 = built[d]
      BY <3>2
    <3>4. task.offset = (k - 1) * Chunk /\ task.length = Remote!BlockLength(f, k)
      BY <1>4, <1>10, <2>2, <3>1, <3>3 DEF Asks
    <3>5. data = Remote!Block(f, k)
      BY <1>6, <3>1, <3>4, AskedIs
    <3> QED
      BY <3>1, <3>3, <3>5
  <2> QED
    BY <1>1, <1>2, <1>3, <1>4, <1>10, <2>1, <2>2, AnswerIs
<1> QED
  BY <1>7, <1>8, <1>9, <1>10

\* It says nothing of the server and of the context.
LEMMA BuildStays ==
  ASSUME BuildInv,
         UNCHANGED <<files, queue, thread, client, copy, path, reply, meta, reader,
                     built, out, base>>
  PROVE  BuildInv'
<1>1. CallInv'
  BY NothingMoves DEF BuildInv
<1>2. \A c \in Clients : Stays(c)
  BY DEF Stays
<1>3. TasksFit' /\ \A t \in Threads : ThreadFits(thread[t])'
  BY <1>2, TasksStay
<1>4. ASSUME NEW c \in Clients PROVE ClientFits(c)'
  <2>1. UNCHANGED Side(c)
    BY DEF Side
  <2> QED
    BY <2>1, ClientStays DEF BuildInv
<1>5. Fields'
  BY DEF BuildInv, Fields
<1> QED
  BY <1>1, <1>3, <1>4, <1>5 DEF BuildInv

\* So it is kept by the server.
LEMMA ServerFits ==
  ASSUME NoneIsNoAnswer, BuildInv, NEW t \in Threads, Remote!Thread(t) PROVE BuildInv'
<1>1. CallInv'
  BY ThreadKeeps DEF BuildInv
<1>2. CASE Remote!FreeTwice(t)
  BY <1>2, BuildStays DEF Remote!FreeTwice, Remote!ClientState
<1> QED
  BY <1>1, <1>2, ProcessFits, OpenFits, SumFits, SendFits DEF Remote!Thread

\* As many chunks as the file has.
LEMMA MetaLength ==
  ASSUME NEW f, NEW nf, NEW m, MetaFits(m, f, nf)
  PROVE  Len(m) = Remote!Blocks(f) /\ Len(m) \in Nat
<1>1. PICK n \in Nat : n = Remote!Blocks(f)
  BY DEF MetaFits
<1>2. PICK E : m \in [1 .. n -> E]
  BY <1>1 DEF MetaFits
<1>3. m \in Seq(E) /\ Len(m) = n
  BY <1>2
<1> QED
  BY <1>1, <1>3

\* What a client does on its own: no task is its, and the others stay as they are.
Own(c) ==
  /\ InQueue(c) = {} /\ InThread(c) = {}
  /\ thread' = thread /\ files' = files /\ base' = base /\ copy' = copy /\ path' = path
  /\ \A d \in Clients \ {c} : UNCHANGED Side(d)
  /\ Fields'
  /\ \/ queue' = queue
     \/ \E x : queue' = Append(queue, x) /\ x.client = c /\ Asks(c, x)'

\* Then only the client itself is left to look at.
LEMMA OwnFits ==
  ASSUME BuildInv, CallInv', NEW c \in Clients, Own(c), ClientFits(c)' PROVE BuildInv'
<1>1. \A d \in Clients \ {c} : Stays(d)
  BY DEF Own, Side, Stays
<1>2. TasksFit'
  <2>1. ASSUME NEW i \in DOMAIN queue, NEW j, queue'[j] = queue[i]
        PROVE  Asks(queue[j].client, queue[j])'
    <3>1. queue[i].client # c
      BY DEF Own, InQueue
    <3> QED
      BY <1>1, <2>1, <3>1, QueuedStays
  <2>2. CASE queue' = queue
    BY <2>1, <2>2 DEF TasksFit
  <2>3. CASE queue' # queue
    <3>1. PICK x : queue' = Append(queue, x) /\ x.client = c /\ Asks(c, x)'
      BY <2>3 DEF Own
    <3>2. PICK T : queue \in Seq(T)
      BY DEF BuildInv, CallInv, Formed
    <3>3. PICK n \in Nat : /\ DOMAIN queue' = DOMAIN queue \cup {n} /\ queue'[n] = x
                           /\ \A i \in DOMAIN queue : queue'[i] = queue[i]
      BY <3>1, <3>2, QueueMore
    <3>4. ASSUME NEW i \in DOMAIN queue' PROVE Asks(queue[i].client, queue[i])'
      <4>1. CASE i \in DOMAIN queue
        BY <2>1, <3>3, <4>1
      <4>2. CASE i = n
        BY <3>1, <3>3, <4>2
      <4> QED
        BY <3>3, <4>1, <4>2
    <3> QED
      BY <3>4 DEF TasksFit
  <2> QED
    BY <2>2, <2>3
<1>3. ASSUME NEW u \in Threads PROVE ThreadFits(thread[u])'
  <2>1. thread'[u] = thread[u]
    BY DEF Own
  <2>2. thread[u].at # "pop" => thread[u].task.client # c
    BY DEF Own, InThread
  <2> QED
    BY <1>1, <2>1, <2>2, ThreadStays
<1>4. ASSUME NEW d \in Clients PROVE ClientFits(d)'
  BY ClientStays DEF BuildInv, Own
<1> QED
  BY <1>2, <1>3, <1>4 DEF BuildInv, Own

\* A client asks for the list.
LEMMA AskMetaFits ==
  ASSUME BuildInv, CallInv', NEW c \in Clients, Remote!AskMeta(c), UNCHANGED Remote!ServerState
  PROVE  BuildInv'
<1>1. /\ client[c] = "start" /\ client' = [client EXCEPT ![c] = "meta"]
      /\ UNCHANGED <<files, thread, base, copy, path, reply, meta, reader, built, out>>
  BY DEF Remote!AskMeta, Remote!ServerState
<1>2. client'[c] = "meta" /\ \A d \in Clients \ {c} : client'[d] = client[d]
  BY <1>1 DEF BuildInv, CallInv, Formed
<1>3. InQueue(c) = {} /\ InThread(c) = {} /\ reply[c] = None
  BY <1>1 DEF BuildInv, CallInv, OnePlace, Remote!Waiting
<1>4. PICK x : /\ x = [client |-> c, req |-> "GET_META", path |-> path[c], offset |-> 0,
                       length |-> 0]
               /\ queue' = Append(queue, x)
  BY DEF Remote!AskMeta, Remote!Ask
<1>5. x.client = c /\ Asks(c, x)'
  BY <1>1, <1>2, <1>4 DEF Asks
<1>6. Own(c)
  BY <1>1, <1>2, <1>3, <1>4, <1>5 DEF Own, Side, BuildInv, Fields
<1>7. ClientFits(c)'
  BY <1>1, <1>2, <1>3 DEF BuildInv, ClientFits, AnswerFits, WrittenFits
<1> QED
  BY <1>6, <1>7, OwnFits

\* It has it, and looks for the chunks in its copy.
LEMMA TakeMetaFits ==
  ASSUME RemoteFiles, BuildInv, CallInv', NEW c \in Clients, Remote!TakeMeta(c),
         UNCHANGED Remote!ServerState
  PROVE  BuildInv'
<1>1. /\ client[c] = "meta" /\ reply[c] # None /\ reply' = [reply EXCEPT ![c] = None]
      /\ UNCHANGED <<files, queue, thread, base, copy, path, built, out>>
  BY DEF Remote!TakeMeta, Remote!Taken, Remote!ServerState
<1>2. PICK list, m, r :
        /\ list = reply[c].data
        /\ m = IF copy[c] = NoFile THEN list
               ELSE Remote!Marked(list, Remote!Scanned(copy[c], Heap, list).hits)
        /\ r = IF copy[c] = NoFile THEN None ELSE Remote!FileMap(copy[c], Heap)
  OBVIOUS
<1>3. \/ /\ client' = [client EXCEPT ![c] = "crashed"] /\ meta' = meta /\ reader' = reader
      \/ /\ reply[c].ok
         /\ client' = [client EXCEPT ![c] = "build"]
         /\ meta' = [meta EXCEPT ![c] = m] /\ reader' = [reader EXCEPT ![c] = r]
  BY <1>2 DEF Remote!TakeMeta
<1>4. reply'[c] = None /\ \A d \in Clients \ {c} : reply'[d] = reply[d]
  BY <1>1 DEF BuildInv, CallInv, Formed
<1>5. InQueue(c) = {} /\ InThread(c) = {}
  BY <1>1 DEF BuildInv, CallInv, OnePlace
<1>6. /\ \A d \in Clients \ {c} : client'[d] = client[d] /\ meta'[d] = meta[d]
                                  /\ reader'[d] = reader[d]
      /\ meta' = [d \in Clients |-> meta'[d]] /\ reader' = [d \in Clients |-> reader'[d]]
  BY <1>3 DEF BuildInv, CallInv, Formed, Fields
<1>7. Own(c)
  <2>1. Fields'
    BY <1>1, <1>6 DEF BuildInv, Fields
  <2> QED
    BY <1>1, <1>4, <1>5, <1>6, <2>1 DEF Own, Side
<1>8. ClientFits(c) /\ (copy[c] = NoFile \/ copy[c] \in Seq(Int))
  BY DEF BuildInv, Fields
<1>9. ClientFits(c)'
  <2>1. CASE client' = [client EXCEPT ![c] = "crashed"]
    <3>1. client'[c] = "crashed"
      BY <2>1 DEF BuildInv, CallInv, Formed
    <3> QED
      BY <1>1, <1>8, <3>1 DEF ClientFits, AnswerFits, WrittenFits
  <2>2. CASE /\ reply[c].ok
             /\ client' = [client EXCEPT ![c] = "build"]
             /\ meta' = [meta EXCEPT ![c] = m] /\ reader' = [reader EXCEPT ![c] = r]
    <3>1. client'[c] = "build" /\ meta'[c] = m /\ reader'[c] = r
      BY <2>2 DEF BuildInv, CallInv, Formed, Fields
    <3>2. built[c] = 0 /\ out[c] = <<>>
      BY <1>1, <1>8 DEF ClientFits
    <3>3. ASSUME base[c] # None
          PROVE  /\ MetaFits(m, base[c], copy[c]) /\ 0 <= Remote!Blocks(base[c])
                 /\ <<>> = Upto(base[c], 0)
                 /\ copy[c] # NoFile => r \in Maps(copy[c])
      <4>1. base[c] \in Seq(Int) /\ BlockList(list, base[c], Remote!Blocks(base[c]))
        BY <1>1, <1>2, <1>8, <2>2, <3>3 DEF ClientFits, AnswerFits
      <4>2. 0 <= Remote!Blocks(base[c]) /\ <<>> = Upto(base[c], 0)
        BY <4>1, BlocksLie, UptoAll
      <4>3. CASE copy[c] = NoFile
        BY <1>2, <4>1, <4>2, <4>3, ListFits
      <4>4. CASE copy[c] # NoFile
        <5>1. copy[c] \in Seq(Int) /\ Heap \in 0 .. MapBuffer
          BY <1>8, <4>4 DEF RemoteFiles
        <5>2. MetaFits(m, base[c], copy[c])
          BY <1>2, <4>1, <4>4, <5>1, MarkedFits
        <5>3. r \in Maps(copy[c])
          BY <1>2, <4>4, <5>1, RemoteMap, FileMapIsMap
        <5> QED
          BY <4>2, <5>2, <5>3
      <4> QED
        BY <4>3, <4>4
    <3>4. WrittenFits(c)'
      BY <1>1, <3>1, <3>2, <3>3 DEF WrittenFits
    <3>5. AnswerFits(c)'
      BY <1>4 DEF AnswerFits
    <3> QED
      BY <1>1, <1>8, <3>1, <3>4, <3>5 DEF ClientFits
  <2> QED
    BY <1>3, <2>1, <2>2
<1> QED
  BY <1>7, <1>9, OwnFits

\* What is known while a client builds, if its file is still the one it was told of.
LEMMA BuildHas ==
  ASSUME BuildInv, NEW c \in Clients, base[c] # None, client[c] = "build",
         built[c] < Len(meta[c]), NEW x, x = Remote!ChunkInfo(c)
  PROVE  \E k \in 1 .. Remote!Blocks(base[c]) :
           /\ k = built[c] + 1 /\ k - 1 = built[c] /\ x = meta[c][k]
           /\ base[c] \in Seq(Int) /\ k <= Remote!Blocks(base[c])
           /\ MetaFits(meta[c], base[c], copy[c])
<1>1. /\ base[c] \in Seq(Int) /\ MetaFits(meta[c], base[c], copy[c])
      /\ built[c] \in Nat
  BY DEF BuildInv, ClientFits, WrittenFits
<1>2. PICK n \in Nat, b \in Nat : n = Remote!Blocks(base[c]) /\ b = built[c] /\ b < n
  <2>1. Len(meta[c]) = Remote!Blocks(base[c]) /\ Len(meta[c]) \in Nat
    BY <1>1, MetaLength
  <2> QED
    BY <1>1, <2>1
<1>3. PICK k \in 1 .. n : k = b + 1 /\ k - 1 = b /\ k <= n
  BY <1>2
<1> QED
  BY <1>1, <1>2, <1>3 DEF Remote!ChunkInfo

\* It asks for a chunk as the list says it.
LEMMA AskChunkFits ==
  ASSUME BuildInv, CallInv', NEW c \in Clients, Remote!AskChunk(c), UNCHANGED Remote!ServerState
  PROVE  BuildInv'
<1>1. /\ client[c] = "build" /\ built[c] < Len(meta[c])
      /\ client' = [client EXCEPT ![c] = "chunk"]
      /\ UNCHANGED <<files, thread, base, copy, path, reply, meta, reader, built, out>>
  BY DEF Remote!AskChunk, Remote!Building, Remote!ServerState
<1>2. client'[c] = "chunk" /\ \A d \in Clients \ {c} : client'[d] = client[d]
  BY <1>1 DEF BuildInv, CallInv, Formed
<1>3. InQueue(c) = {} /\ InThread(c) = {} /\ reply[c] = None
  BY <1>1 DEF BuildInv, CallInv, OnePlace, Remote!Waiting
<1>4. PICK y, x : /\ y = Remote!ChunkInfo(c) /\ y.from
                  /\ x = [client |-> c, req |-> "GET_CHUNK", path |-> path[c],
                          offset |-> y.offset, length |-> y.length]
                  /\ queue' = Append(queue, x)
  BY DEF Remote!AskChunk, Remote!Ask
<1>5. ClientFits(c)
  BY DEF BuildInv
<1>6. ASSUME base[c] # None
      PROVE  /\ built[c] + 1 <= Remote!Blocks(base[c])
             /\ y.offset = built[c] * Chunk
             /\ y.length = Remote!BlockLength(base[c], built[c] + 1)
  <2>1. PICK k \in 1 .. Remote!Blocks(base[c]) :
          /\ k = built[c] + 1 /\ k - 1 = built[c] /\ y = meta[c][k]
          /\ k <= Remote!Blocks(base[c])
          /\ MetaFits(meta[c], base[c], copy[c])
    BY <1>1, <1>4, <1>6, BuildHas
  <2>2. SaidOrFound(y, meta[c], base[c], copy[c], k)
    BY <2>1 DEF MetaFits
  <2>3. \A p : y # CopiedFrom(base[c], k, y.strong, p)
    BY <1>4 DEF CopiedFrom
  <2>4. y = Says(base[c], k, y.strong)
    BY <2>2, <2>3 DEF SaidOrFound
  <2>5. y.offset = (k - 1) * Chunk /\ y.length = Remote!BlockLength(base[c], k)
    BY <2>4 DEF Says
  <2> QED
    BY <2>1, <2>5
<1>7. x.client = c /\ x.path = path[c] /\ x.req = "GET_CHUNK"
      /\ x.offset = y.offset /\ x.length = y.length
  BY <1>4
<1>8. Asks(c, x)'
  BY <1>1, <1>2, <1>6, <1>7 DEF Asks
<1>9. Own(c)
  BY <1>1, <1>2, <1>3, <1>4, <1>7, <1>8 DEF Own, Side, BuildInv, Fields
<1>10. ClientFits(c)'
  BY <1>1, <1>2, <1>3, <1>5, <1>6 DEF ClientFits, AnswerFits, WrittenFits
<1> QED
  BY <1>9, <1>10, OwnFits

\* What a client that builds writes, chunk by chunk.
LEMMA WriteFits ==
  ASSUME BuildInv, CallInv', NEW c \in Clients, NEW bytes, Remote!Write(c, bytes),
         InQueue(c) = {}, InThread(c) = {}, reply'[c] = None, client'[c] = "build",
         \A d \in Clients \ {c} : client'[d] = client[d] /\ reply'[d] = reply[d]
                                  /\ reader'[d] = reader[d],
         reader' = [d \in Clients |-> reader'[d]],
         UNCHANGED <<files, queue, thread, base, copy, path, meta>>,
         client[c] \in {"build", "chunk"},
         base[c] # None =>
           /\ built[c] + 1 <= Remote!Blocks(base[c])
           /\ RightMeta(meta[c], base[c], copy[c]) =>
                /\ bytes = Remote!Block(base[c], built[c] + 1)
                /\ copy[c] # NoFile => reader'[c] \in Maps(copy[c])
  PROVE  BuildInv'
<1>1. /\ out'[c] = out[c] \o bytes /\ built'[c] = built[c] + 1
      /\ \A d \in Clients \ {c} : out'[d] = out[d] /\ built'[d] = built[d]
      /\ out' = [d \in Clients |-> out'[d]] /\ built' = [d \in Clients |-> built'[d]]
  BY DEF BuildInv, Fields, Remote!Write
<1>2. Own(c)
  <2>1. Fields'
    BY <1>1 DEF BuildInv, Fields
  <2> QED
    BY <1>1, <2>1 DEF Own, Side
<1>3. ClientFits(c)
  BY DEF BuildInv
<1>4. ASSUME base[c] # None
      PROVE  /\ MetaFits(meta[c], base[c], copy[c])
             /\ built'[c] \in Nat /\ built'[c] <= Remote!Blocks(base[c])
             /\ RightMeta(meta[c], base[c], copy[c]) => out'[c] = Upto(base[c], built'[c])
  <2>1. /\ base[c] \in Seq(Int) /\ MetaFits(meta[c], base[c], copy[c]) /\ built[c] \in Nat
        /\ RightMeta(meta[c], base[c], copy[c]) => out[c] = Upto(base[c], built[c])
    BY <1>3, <1>4 DEF ClientFits, WrittenFits
  <2>2. built'[c] \in Nat /\ built'[c] <= Remote!Blocks(base[c])
    BY <1>1, <1>4, <2>1
  <2>3. ASSUME RightMeta(meta[c], base[c], copy[c]) PROVE out'[c] = Upto(base[c], built'[c])
    <3>1. PICK b \in Nat : b = built[c] /\ b + 1 \in 1 .. Remote!Blocks(base[c])
      <4>1. Remote!Blocks(base[c]) \in Nat
        BY <2>1, BlocksLie
      <4> QED
        BY <1>4, <2>1, <4>1
    <3>2. Upto(base[c], b) \o Remote!Block(base[c], b + 1) = Upto(base[c], b + 1)
      BY <2>1, <3>1, UptoMore
    <3> QED
      BY <1>1, <1>4, <2>1, <2>3, <3>1, <3>2
  <2> QED
    BY <2>1, <2>2, <2>3
<1>5. WrittenFits(c)'
  BY <1>4 DEF WrittenFits
<1>6. ClientFits(c)'
  BY <1>3, <1>5 DEF ClientFits, AnswerFits
<1> QED
  BY <1>2, <1>6, OwnFits

\* A chunk of the server.
LEMMA TakeChunkFits ==
  ASSUME BuildInv, CallInv', NEW c \in Clients, Remote!TakeChunk(c), UNCHANGED Remote!ServerState
  PROVE  BuildInv'
<1>1. /\ client[c] = "chunk" /\ reply[c] # None /\ reply' = [reply EXCEPT ![c] = None]
      /\ UNCHANGED <<files, queue, thread, base, copy, path, meta, reader>>
  BY DEF Remote!TakeChunk, Remote!Taken, Remote!ServerState
<1>2. \/ reply[c].ok /\ client' = [client EXCEPT ![c] = "build"]
         /\ Remote!Write(c, reply[c].data)
      \/ client' = [client EXCEPT ![c] = "crashed"] /\ built' = built /\ out' = out
  BY DEF Remote!TakeChunk
<1>3. reply'[c] = None /\ \A d \in Clients \ {c} : reply'[d] = reply[d]
  BY <1>1 DEF BuildInv, CallInv, Formed
<1>4. InQueue(c) = {} /\ InThread(c) = {}
  BY <1>1 DEF BuildInv, CallInv, OnePlace
<1>5. ClientFits(c)
  BY DEF BuildInv
<1>6. CASE reply[c].ok /\ client' = [client EXCEPT ![c] = "build"]
           /\ Remote!Write(c, reply[c].data)
  <2>1. client'[c] = "build" /\ \A d \in Clients \ {c} : client'[d] = client[d]
    BY <1>6 DEF BuildInv, CallInv, Formed
  <2>2. base[c] # None =>
          /\ built[c] + 1 <= Remote!Blocks(base[c])
          /\ RightMeta(meta[c], base[c], copy[c]) =>
               /\ reply[c].data = Remote!Block(base[c], built[c] + 1)
               /\ copy[c] # NoFile => reader'[c] \in Maps(copy[c])
    BY <1>1, <1>5, <1>6 DEF ClientFits, AnswerFits, WrittenFits
  <2>3. \A d \in Clients \ {c} : client'[d] = client[d] /\ reply'[d] = reply[d]
                                 /\ reader'[d] = reader[d]
    BY <1>1, <1>3, <2>1
  <2>4. reader' = [d \in Clients |-> reader'[d]]
    BY <1>1 DEF BuildInv, Fields
  <2> QED
    BY <1>1, <1>3, <1>4, <1>6, <2>1, <2>2, <2>3, <2>4, WriteFits
<1>7. CASE client' = [client EXCEPT ![c] = "crashed"] /\ built' = built /\ out' = out
  <2>1. client'[c] = "crashed" /\ \A d \in Clients \ {c} : client'[d] = client[d]
    BY <1>7 DEF BuildInv, CallInv, Formed
  <2>2. Own(c)
    BY <1>1, <1>3, <1>4, <1>7, <2>1 DEF Own, Side, BuildInv, Fields
  <2>3. ClientFits(c)'
    BY <1>1, <1>5, <2>1 DEF ClientFits, AnswerFits, WrittenFits
  <2> QED
    BY <2>2, <2>3, OwnFits
<1> QED
  BY <1>2, <1>6, <1>7

\* A chunk of the copy.
LEMMA CopyChunkFits ==
  ASSUME RemoteFiles, BuildInv, CallInv', NEW c \in Clients, Remote!CopyChunk(c),
         UNCHANGED Remote!ServerState
  PROVE  BuildInv'
<1>1. /\ client[c] = "build" /\ built[c] < Len(meta[c])
      /\ UNCHANGED <<files, queue, client, thread, base, copy, path, reply, meta>>
  BY DEF Remote!CopyChunk, Remote!Building, Remote!ServerState
<1>2. PICK x, r : /\ x = Remote!ChunkInfo(c) /\ ~x.from
                  /\ r = Remote!MapFileContent(reader[c], x.offset, x.length)
                  /\ reader' = [reader EXCEPT ![c] = r]
                  /\ Remote!Write(c, Remote!Bytes(r, x.length))
  BY DEF Remote!CopyChunk
<1>3. /\ reader'[c] = r /\ \A d \in Clients \ {c} : reader'[d] = reader[d]
      /\ reader' = [d \in Clients |-> reader'[d]]
  BY <1>2 DEF BuildInv, Fields
<1>4. InQueue(c) = {} /\ InThread(c) = {} /\ reply[c] = None
  BY <1>1 DEF BuildInv, CallInv, OnePlace, Remote!Waiting
<1>5. ClientFits(c) /\ (copy[c] = NoFile \/ copy[c] \in Seq(Int))
  BY DEF BuildInv, Fields
<1>6. ASSUME base[c] # None
      PROVE  /\ built[c] + 1 <= Remote!Blocks(base[c])
             /\ RightMeta(meta[c], base[c], copy[c]) =>
                  /\ Remote!Bytes(r, x.length) = Remote!Block(base[c], built[c] + 1)
                  /\ copy[c] # NoFile => reader'[c] \in Maps(copy[c])
  <2>1. PICK k \in 1 .. Remote!Blocks(base[c]) :
          /\ k = built[c] + 1 /\ x = meta[c][k]
          /\ base[c] \in Seq(Int) /\ k <= Remote!Blocks(base[c])
          /\ MetaFits(meta[c], base[c], copy[c])
    BY <1>1, <1>2, <1>6, BuildHas
  <2>2. ASSUME RightMeta(meta[c], base[c], copy[c])
        PROVE  Remote!Bytes(r, x.length) = Remote!Block(base[c], k) /\ r \in Maps(copy[c])
    <3>1. ~meta[c][k].from
      BY <1>2, <2>1
    <3>2. copy[c] \in Seq(Int)
      BY <2>1, <2>2, <3>1, RightChunk
    <3>3. reader[c] \in Maps(copy[c])
      <4>1. copy[c] # NoFile => reader[c] \in Maps(copy[c])
        BY <1>1, <1>5, <1>6, <2>2 DEF ClientFits, WrittenFits
      <4> QED
        BY <3>2, <4>1 DEF RemoteFiles
    <3> QED
      BY <1>2, <2>1, <2>2, <3>1, <3>3, CopiedIs
  <2> QED
    BY <1>3, <2>1, <2>2
<1>7. \A d \in Clients \ {c} : client'[d] = client[d] /\ reply'[d] = reply[d]
                               /\ reader'[d] = reader[d]
  BY <1>1, <1>3
<1>8. base[c] # None =>
        /\ built[c] + 1 <= Remote!Blocks(base[c])
        /\ RightMeta(meta[c], base[c], copy[c]) =>
             /\ Remote!Bytes(r, x.length) = Remote!Block(base[c], built[c] + 1)
             /\ copy[c] # NoFile => reader'[c] \in Maps(copy[c])
  BY <1>6
<1> QED
  BY <1>1, <1>2, <1>3, <1>4, <1>7, <1>8, WriteFits

\* It is kept by the clients, and by every step.
LEMMA BuildStep ==
  ASSUME RemoteFiles, NoneIsNoAnswer, BuildInv, [Remote!Next]_(Remote!vars) PROVE BuildInv'
<1>1. CASE UNCHANGED Remote!vars
  <2>1. UNCHANGED <<files, queue, thread, client, copy, path, reply, meta, reader, built, out, base>>
    BY <1>1 DEF Remote!vars
  <2> QED
    BY <2>1, BuildStays
<1>2. ASSUME NEW p \in Paths, NEW v \in Versions, Remote!Change(p, v) PROVE BuildInv'
  BY <1>2, ChangeFits
<1>3. ASSUME NEW t \in Threads, Remote!Thread(t) PROVE BuildInv'
  BY <1>3, ServerFits
<1>4. ASSUME NEW c \in Clients, Remote!Client(c) PROVE BuildInv'
  <2>1. CallInv'
    BY <1>4, ClientKeeps DEF BuildInv
  <2> QED
    BY <1>4, <2>1, AskMetaFits, TakeMetaFits, AskChunkFits, TakeChunkFits, CopyChunkFits
    DEF Remote!Client
<1> QED
  BY <1>1, <1>2, <1>3, <1>4 DEF Remote!Next

\* The file a client has built is the one it was told of, if that did not change
\* meanwhile, unless a match reached over the end of its copy or a strong sum of another
\* chunk was mixed up (WrongOnlyIfMixedUp): for any number of clients and threads,
\* files of every content, every Chunk and buffer, and whatever happens to the files.
THEOREM BuiltAsTold ==
  ASSUME RemoteFiles, NoneIsNoAnswer PROVE Remote!Spec => []Remote!WrongOnlyIfMixedUp
<1>1. Remote!Init => BuildInv
  BY BuildStarts
<1>2. BuildInv /\ [Remote!Next]_(Remote!vars) => BuildInv'
  BY BuildStep
<1>3. BuildInv => Remote!WrongOnlyIfMixedUp
  <2> SUFFICES ASSUME BuildInv, NEW c \in Clients, Remote!Done(c), base[c] # None,
                      ~Remote!PastEnd(c), ~Remote!MixedUp(c)
               PROVE  out[c] = base[c]
    BY DEF Remote!WrongOnlyIfMixedUp
  <2>1. client[c] = "build" /\ built[c] = Len(meta[c])
    BY DEF Remote!Done
  <2>2. RightMeta(meta[c], base[c], copy[c])
    BY RightIs
  <2>3. base[c] \in Seq(Int) /\ MetaFits(meta[c], base[c], copy[c])
        /\ out[c] = Upto(base[c], built[c])
    BY <2>1, <2>2 DEF BuildInv, ClientFits, WrittenFits
  <2>4. built[c] = Remote!Blocks(base[c])
    BY <2>1, <2>3, MetaLength
  <2> QED
    BY <2>3, <2>4, UptoAll
<1> QED
  BY <1>1, <1>2, <1>3, PTL DEF Remote!Spec

--------------------------------------------------------------------------------
(* What the local copies build (LocalCopy): an entry of the description either     *)
(* stays or leads to a place that cp3 or cp7 has found (CopyLists), so that the     *)
(* construction, a fold of its own, writes src chunk by chunk (RebuildInv).         *)

\* The buffer of this instance, and a step of its scan, are those of librsync, too.
LEMMA LocalMap ==
  /\ \A m, o, n : Local!MapFileContent(m, o, n) = MapFileContent(m, o, n)
  /\ \A file, word : Local!FileMap(file, word) = FileMap(file, word)
  /\ \A m, n : Local!Bytes(m, n) = Bytes(m, n)
  /\ \A s : Local!Min(s) = Min(s) /\ Local!Max(s) = Max(s)
<1>1. \A s : Local!Min(s) = Min(s) /\ Local!Max(s) = Max(s)
  BY DEF Local!Min, Min, Local!Max, Max
<1>2. \A file : Local!BufferLength(file) = BufferLength(file)
  BY <1>1 DEF Local!BufferLength, BufferLength
<1>3. \A m, o, n : Local!Read(m, o, n) = Read(m, o, n)
  BY <1>1 DEF Local!Read, Read
<1>4. \A m, o, n : Local!MapFileContent(m, o, n) = MapFileContent(m, o, n)
  BY <1>2, <1>3 DEF Local!MapFileContent, MapFileContent
<1>5. \A file, word : Local!FileMap(file, word) = FileMap(file, word)
  BY <1>2, <1>3 DEF Local!FileMap, FileMap
<1>6. \A m, i : Local!ByteAt(m, i) = ByteAt(m, i)
  BY DEF Local!ByteAt, ByteAt
<1>7. \A m, n : Local!Bytes(m, n) = Bytes(m, n)
  BY <1>6 DEF Local!Bytes, Bytes
<1> QED
  BY <1>1, <1>4, <1>5, <1>7

\* And a step of its scan.
LEMMA LocalScan ==
  /\ \A s, list : Local!ScanStep(s, list) = ScanStep(s, list)
  /\ \A file, word : Local!StartScan(file, word) = StartScan(file, word)
<1>1. \A list, weak : Local!Lookup(list, weak) = Lookup(list, weak)
  BY LocalMap DEF Local!Lookup, Lookup
<1>2. \A m, list, k : Local!Found(m, list, k) <=> Found(m, list, k)
  BY LocalMap DEF Local!Found, Found
<1>3. \A s, p, k : Local!Hit(s, p, k) = Hit(s, p, k)
  BY DEF Local!Hit, Hit
<1>4. \A m, i : Local!ByteAt(m, i) = ByteAt(m, i)
  BY DEF Local!ByteAt, ByteAt
<1>5. ASSUME NEW s, NEW list PROVE Local!ScanRoll(s, list) = ScanRoll(s, list)
  <2>1. PICK sum3, k, start, again :
          /\ sum3 = Update(s.summer, ByteAt(s.map, s.i)) /\ k = Lookup(list, sum3.sum)
          /\ start = s.curr - Chunk + 1
          /\ again = IF k # 0 THEN MapFileContent(s.map, start, Chunk) ELSE s.map
    OBVIOUS
  <2>2. PICK x, y : /\ x = [s EXCEPT !.summer = sum3, !.map = again, !.mode = "block",
                                   !.i = 0, !.hits = Hit(s, start, k)]
                   /\ y = [s EXCEPT !.summer = sum3, !.map = again, !.curr = @ + 1,
                                   !.i = IF s.i + 1 = Chunk THEN 0 ELSE @ + 1,
                                   !.mode = IF s.i + 1 = Chunk THEN "block" ELSE "roll"]
    OBVIOUS
  <2>3. ScanRoll(s, list) = IF Found(again, list, k) THEN x ELSE y
    BY <2>1, <2>2 DEF ScanRoll
  <2>4. /\ sum3 = Local!Update(s.summer, Local!ByteAt(s.map, s.i))
        /\ k = Local!Lookup(list, sum3.sum)
        /\ again = IF k # 0 THEN Local!MapFileContent(s.map, start, Chunk) ELSE s.map
        /\ Local!Hit(s, start, k) = Hit(s, start, k)
        /\ Local!Found(again, list, k) <=> Found(again, list, k)
    BY <1>1, <1>2, <1>3, <1>4, <2>1, LocalMap, SameUpdate
  <2>5. Local!ScanRoll(s, list) = IF Found(again, list, k) THEN x ELSE y
    BY <2>1, <2>2, <2>4 DEF Local!ScanRoll
  <2> QED
    BY <2>3, <2>5
<1>6. ASSUME NEW s, NEW list PROVE Local!ScanBlock(s, list) = ScanBlock(s, list)
  <2>1. PICK first, sum3, pos, k, again, missed :
          /\ first = MapFileContent(s.map, s.curr, Chunk)
          /\ sum3 = SummerInit(s.summer, Bytes(first, Chunk))
          /\ pos = s.curr + Chunk /\ k = Lookup(list, sum3.sum)
          /\ again = IF k # 0 THEN MapFileContent(first, pos - Chunk, Chunk) ELSE first
          /\ missed = MapFileContent(again, pos, Min({Len(s.map.file) - pos, Chunk}))
    OBVIOUS
  <2>2. PICK x, y : /\ x = [s EXCEPT !.curr = pos, !.summer = sum3, !.map = again,
                                   !.hits = Hit(s, pos - Chunk, k)]
                   /\ y = [s EXCEPT !.curr = pos, !.summer = sum3, !.map = missed,
                                   !.i = 0, !.mode = "roll"]
    OBVIOUS
  <2>3. ScanBlock(s, list) = IF s.curr + Chunk > Len(s.map.file) THEN [s EXCEPT !.mode = "done"]
                             ELSE IF Found(again, list, k) THEN x ELSE y
    BY <2>1, <2>2 DEF ScanBlock
  <2>4. /\ first = Local!MapFileContent(s.map, s.curr, Chunk)
        /\ sum3 = Local!SummerInit(s.summer, Local!Bytes(first, Chunk))
        /\ k = Local!Lookup(list, sum3.sum)
        /\ again = IF k # 0 THEN Local!MapFileContent(first, pos - Chunk, Chunk) ELSE first
        /\ missed = Local!MapFileContent(again, pos, Local!Min({Len(s.map.file) - pos, Chunk}))
        /\ Local!Hit(s, pos - Chunk, k) = Hit(s, pos - Chunk, k)
        /\ Local!Found(again, list, k) <=> Found(again, list, k)
    BY <1>1, <1>2, <1>3, <2>1, LocalMap, SameInit
  <2>5. Local!ScanBlock(s, list) = IF s.curr + Chunk > Len(s.map.file) THEN [s EXCEPT !.mode = "done"]
                             ELSE IF Found(again, list, k) THEN x ELSE y
    BY <2>1, <2>2, <2>4 DEF Local!ScanBlock
  <2> QED
    BY <2>3, <2>5
<1>7. \A s, list : Local!ScanStep(s, list) = ScanStep(s, list)
  BY <1>5, <1>6 DEF Local!ScanStep, ScanStep
<1>8. \A file, word : Local!StartScan(file, word) = StartScan(file, word)
  BY LocalMap DEF Local!StartScan, StartScan, Local!NewSummer, NewSummer, Local!NewRing, NewRing
<1> QED
  BY <1>7, <1>8

\* The whole scan of cp7.
LEMMA LocalScanned ==
  ASSUME NEW nf \in Seq(Int), NEW word \in 0 .. MapBuffer,
         NEW chunks, NEW N \in Nat, DOMAIN chunks \subseteq 1 .. N
  PROVE  Local!Scanned(nf, word, chunks) \in ScanSet(nf, chunks)
<1>1. PICK n \in Nat : n = 2 * (Len(nf) + Chunk)
  BY ChunkFacts
<1> DEFINE X == ScanSet(nf, chunks)
           Y == 1 .. n
           begin == Local!StartScan(nf, word)
           w == [k \in 1 .. n |-> k]
           F == [s \in X |-> [k \in Y |-> Local!ScanStep(s, chunks)]]
           P(f) == f = [s \in SUBSET (DOMAIN w) |->
                          IF s = {} THEN begin
                          ELSE Local!ScanStep(f[s \ {Max(s)}], chunks)]
           it == CHOOSE f : P(f)
<1>2. DOMAIN w = 1 .. n /\ w \in [1 .. n -> Y]
  OBVIOUS
<1>3. F \in [X -> [Y -> X]] /\ begin \in X
  <2>1. ASSUME NEW s \in X PROVE Local!ScanStep(s, chunks) \in X
    BY <2>1, StepIsScan, LocalScan
  <2>2. begin \in X
    BY StartIsScan, LocalScan
  <2> HIDE DEF X, begin
  <2> QED
    BY <2>1, <2>2
<1>4. \A s \in X, k \in Y : F[s][k] = Local!ScanStep(s, chunks)
  OBVIOUS
<1>5. ASSUME NEW f, NEW s \in SUBSET (1 .. n), s # {}, f[s \ {Max(s)}] \in X
      PROVE  Step(F, w, f, s) <=> f[s] = Local!ScanStep(f[s \ {Max(s)}], chunks)
  <2> HIDE DEF F, X, Y, w
  <2>1. w[Max(s)] \in Y
    BY <1>2, <1>5, MaxIsPlace
  <2> QED
    BY <1>4, <1>5, <2>1 DEF Step
<1>6. \E f : P(f)
  <2> HIDE DEF F, X, w, Y, begin
  <2>1. PICK g : Folded(X, F, begin, w, n, g)
    BY <1>2, <1>3, FoldFound
  <2>2. \A s \in SUBSET (1 .. n) : s # {} => g[s] = Local!ScanStep(g[s \ {Max(s)}], chunks)
    BY <1>5, <2>1 DEF Folded
  <2>3. g[{}] = begin /\ g = [s \in SUBSET (1 .. n) |-> g[s]]
    BY <2>1 DEF Folded
  <2>4. P(g)
    BY <1>2, <2>2, <2>3
  <2> QED
    BY <2>4
<1>7. P(it)
  <2> HIDE DEF P
  <2> QED
    BY <1>6
<1>8. Local!Scanned(nf, word, chunks) = it[DOMAIN w]
  BY <1>1 DEF Local!Scanned, Local!FoldLeft, Local!MapThenFoldSet, Local!Max, Max
<1> HIDE DEF it, F, X, w, Y, begin
<1>9. /\ it[{}] = begin
      /\ \A s \in SUBSET (1 .. n) :
           s # {} => it[s] = Local!ScanStep(it[s \ {Max(s)}], chunks)
  BY <1>2, <1>7
<1>10. FoldsTyped(X, F, begin, w, n, it)
  BY <1>5, <1>9 DEF FoldsTyped
<1>11. it[1 .. n] \in X
  <2>1. \A s \in SUBSET (1 .. n) : it[s] \in X
    BY <1>2, <1>3, <1>10, FoldTyped
  <2> QED
    BY <2>1
<1> QED
  BY <1>2, <1>8, <1>11 DEF X

\* A quotient is known by its remainder.
LEMMA QuotientIs ==
  ASSUME NEW c \in Nat \ {0}, NEW q \in Int, NEW r \in Nat, r < c, NEW x, x = c * q + r
  PROVE  x \div c = q
<1>1. x \in Int
  OBVIOUS
<1>2. PICK p \in Int, s \in Int : p = x \div c /\ x = c * p + s /\ 0 <= s /\ s < c
  BY <1>1, DivMod
<1>3. PICK d \in Int : q = p + d
  <2>1. q - p \in Int /\ q = p + (q - p)
    OBVIOUS
  <2> QED
    BY <2>1
<1>4. c * q = c * p + c * d
  BY <1>3
<1>5. PICK y \in Int, z \in Int : y = c * d /\ z = c * p /\ z + y + r = z + s
  BY <1>2, <1>4
<1>6. y < c /\ y > -c
  BY <1>2, <1>5
<1>7. CASE d > 0
  <2>1. PICK e \in Nat : d = e + 1
    <3>1. d - 1 \in Nat /\ d = (d - 1) + 1
      BY <1>7
    <3> QED
      BY <3>1
  <2>2. PICK w \in Nat : w = c * e /\ c * (e + 1) = w + c
    OBVIOUS
  <2> QED
    BY <1>5, <1>6, <2>1, <2>2
<1>8. CASE d < 0
  <2>1. PICK e \in Nat : d = -1 - e
    <3>1. -1 - d \in Nat /\ d = -1 - (-1 - d)
      BY <1>8
    <3> QED
      BY <3>1
  <2>2. PICK w \in Nat : w = c * e /\ c * (-1 - e) = -c - w
    <3>1. c * (-1 - e) = -c - c * e /\ c * e \in Nat
      OBVIOUS
    <3> QED
      BY <3>1
  <2> QED
    BY <1>5, <1>6, <2>1, <2>2
<1>9. CASE d = 0
  BY <1>2, <1>3, <1>9
<1> QED
  BY <1>7, <1>8, <1>9

\* The chunks of a file and its full chunks: there is one more if bytes are left.
LEMMA FullBlocks ==
  ASSUME NEW file \in Seq(Int)
  PROVE  \E F, rest \in Nat :
           /\ F = FullChunks(file) /\ rest = Len(file) % Chunk
           /\ Remote!Blocks(file) = IF rest = 0 THEN F ELSE F + 1
           /\ \A k \in 1 .. F : /\ Remote!BlockLength(file, k) = Chunk
                                /\ Remote!Block(file, k) = ChunkAt(file, k)
                                /\ ChunkAt(file, k) \in Seq(Int) /\ (k - 1) * Chunk \in Nat
           /\ Remote!BlockLength(file, F + 1) = rest
           /\ F * Chunk = Len(file) - rest /\ F * Chunk \in Nat
<1>1. PICK c \in Nat \ {0}, L \in Nat : c = Chunk /\ L = Len(file)
  <2>1. Len(file) \in Nat
    OBVIOUS
  <2> QED
    BY <2>1, ChunkFacts
<1>2. PICK F \in Nat, rest \in Nat, z \in Nat :
        /\ F = L \div c /\ rest = L % c /\ z = c * F /\ L = z + rest /\ rest < c
  <2>1. L = c * (L \div c) + (L % c) /\ L \div c \in Int /\ L % c \in Nat /\ L % c < c
    BY DivMod
  <2>2. L \div c \in Nat
    OBVIOUS
  <2>3. c * (L \div c) \in Nat
    BY <2>2
  <2> QED
    BY <2>1, <2>2, <2>3
<1>3. F = FullChunks(file) /\ rest = Len(file) % Chunk
  BY <1>1, <1>2 DEF FullChunks
<1>4. Remote!Blocks(file) = IF rest = 0 THEN F ELSE F + 1
  <2>1. PICK x \in Int : x = L + c - 1
    OBVIOUS
  <2>2. CASE rest = 0
    <3>1. PICK r \in Nat : r = c - 1 /\ r < c /\ x = c * F + r
      <4>1. c - 1 \in Nat /\ c - 1 < c /\ x = z + (c - 1)
        BY <1>2, <2>1, <2>2
      <4> QED
        BY <1>2, <4>1
    <3>2. x \div c = F
      BY <3>1, QuotientIs
    <3> QED
      BY <1>1, <2>1, <2>2, <3>2 DEF Remote!Blocks
  <2>3. CASE rest # 0
    <3>1. PICK r \in Nat : r = rest - 1 /\ r < c /\ x = c * (F + 1) + r
      <4>1. c * (F + 1) = z + c
        BY <1>2
      <4>2. rest - 1 \in Nat /\ rest - 1 < c /\ x = (z + c) + (rest - 1)
        BY <1>2, <2>1, <2>3
      <4> QED
        BY <4>1, <4>2
    <3>2. x \div c = F + 1
      <4>1. PICK g \in Int : g = F + 1
        OBVIOUS
      <4>2. x = c * g + r
        BY <3>1, <4>1
      <4>3. x \div c = g
        BY <3>1, <4>2, QuotientIs
      <4> QED
        BY <4>1, <4>3
    <3> QED
      BY <1>1, <2>1, <2>3, <3>2 DEF Remote!Blocks
  <2> QED
    BY <2>2, <2>3
<1>5. ASSUME NEW k \in 1 .. F
      PROVE  /\ Remote!BlockLength(file, k) = Chunk /\ Remote!Block(file, k) = ChunkAt(file, k)
             /\ ChunkAt(file, k) \in Seq(Int) /\ (k - 1) * Chunk \in Nat
  <2>1. PICK o \in Nat : o = (k - 1) * Chunk /\ o + c <= L
    <3>1. (k - 1) * Chunk \in Nat /\ (k - 1) * Chunk + Chunk <= Len(file)
      BY <1>3, ChunkInside
    <3> QED
      BY <1>1, <3>1
  <2>2. Remote!BlockLength(file, k) = c
    <3>1. L - o \in Int /\ c <= L - o
      BY <2>1
    <3>2. Remote!Min({c, L - o}) = c
      BY <3>1, LessOf
    <3> QED
      BY <1>1, <2>1, <3>2 DEF Remote!BlockLength
  <2>3. Remote!Block(file, k) = ChunkAt(file, k)
    BY <1>1, <2>2 DEF Remote!Block, ChunkAt
  <2>4. \A i \in o + 1 .. o + c : i \in 1 .. Len(file)
    BY <1>1, <2>1
  <2>5. SubSeq(file, o + 1, o + c) \in Seq(Int)
    BY <2>4, SubSeqProperties
  <2> QED
    BY <1>1, <2>1, <2>2, <2>3, <2>5 DEF ChunkAt
<1>6. Remote!BlockLength(file, F + 1) = rest /\ F * Chunk = z
  <2>1. (F + 1) - 1 = F /\ F * c = z
    BY <1>2
  <2>2. PICK d \in Int : d = L - z /\ d = rest /\ ~(c <= d)
    BY <1>2
  <2>3. Remote!Min({c, d}) = d
    BY <2>2, LessOf
  <2> QED
    BY <1>1, <2>1, <2>2, <2>3 DEF Remote!BlockLength
<1>7. z = L - rest
  BY <1>2
<1> QED
  BY <1>1, <1>3, <1>4, <1>5, <1>6, <1>7

\* They describe the file.
LEMMA CopyListLists ==
  ASSUME NEW file \in Seq(Int), NEW S, NEW list \in CopyLists(file, S)
  PROVE  Lists(list, file)
<1>1. PICK F \in Nat, n \in Nat : F = FullChunks(file) /\ n = Remote!Blocks(file) /\ n >= F
  BY FullBlocks
<1>2. list = [k \in 1 .. n |-> list[k]]
  BY <1>1 DEF CopyLists
<1>3. \A k \in 1 .. F : FullEntry(list[k], file, k)
  BY <1>1 DEF CopyLists
<1> QED
  BY <1>1, <1>2, <1>3 DEF Lists, FullEntry

\* They stay such lists when a chunk is found.
LEMMA CopyListMarked ==
  ASSUME NEW file \in Seq(Int), NEW S, NEW list \in CopyLists(file, S),
         NEW k \in 1 .. FullChunks(file), NEW p \in Nat, <<k, p>> \in S,
         NEW more, more = Local!Mark(list, k, p)
  PROVE  more \in CopyLists(file, S)
<1>1. PICK F \in Nat, n \in Nat : F = FullChunks(file) /\ n = Remote!Blocks(file) /\ n >= F
  BY FullBlocks
<1>2. ChunkAt(file, k) \in Seq(Int)
  BY FullBlocks
<1>3. Lists(more, file) /\ MarkedAt(more, list, file, k, p)
  <2>1. Lists(list, file)
    BY CopyListLists
  <2> QED
    BY <1>1, <2>1, MarkIs
<1>4. /\ list \in [1 .. n -> CopyEntries]
      /\ \A j \in 1 .. F : FullEntry(list[j], file, j)
      /\ \A j \in 1 .. n : KeptOrFound(list[j], file, S, j)
  BY <1>1 DEF CopyLists
<1>5. \A j \in 1 .. F : FullEntry(more[j], file, j)
  BY <1>1, <1>3 DEF Lists, FullEntry
<1>6. PICK x, y, z : x = more[k] /\ y = Sum1(ChunkAt(file, k)) /\ z = ChunkAt(file, k)
  OBVIOUS
<1>7. x.from = FALSE /\ x.offset = p
  BY <1>3, <1>6 DEF MarkedAt
<1>8. x = [weak |-> y, strong |-> z, from |-> FALSE, offset |-> p, length |-> Chunk]
  BY <1>1, <1>5, <1>6, <1>7 DEF FullEntry
<1>9. x \in CopyEntries
  <2>1. y \in Int \X Int /\ z \in Seq(Int)
    BY <1>2, <1>6, SumIsPair
  <2> QED
    BY <1>8, <2>1 DEF CopyEntries
<1>10. more = [list EXCEPT ![k] = x]
  <2>1. PICK g, e : g = [list EXCEPT ![k].from = FALSE] /\ e = list[k]
    OBVIOUS
  <2>2. more = [g EXCEPT ![k].offset = p]
    BY <2>1 DEF Local!Mark
  <2>3. k \in 1 .. n
    BY <1>1
  <2>4. DOMAIN more = 1 .. n /\ \A j \in 1 .. n : j # k => more[j] = list[j]
    BY <1>4, <2>1, <2>2, <2>3
  <2>5. more = [j \in 1 .. n |-> more[j]]
    BY <1>4, <2>1, <2>2
  <2> QED
    BY <1>4, <1>6, <2>3, <2>4, <2>5
<1>11. more \in [1 .. n -> CopyEntries]
  BY <1>4, <1>9, <1>10
<1>12. ASSUME NEW j \in 1 .. n PROVE KeptOrFound(more[j], file, S, j)
  <2>1. CASE j = k
    BY <1>6, <1>7, <2>1 DEF KeptOrFound
  <2>2. CASE j # k
    <3>1. more[j] = list[j]
      BY <1>4, <1>10, <2>2
    <3> QED
      BY <1>4, <3>1
  <2> QED
    BY <2>1, <2>2
<1> QED
  BY <1>1, <1>5, <1>11, <1>12 DEF CopyLists

\* What Describe writes is such a list.
LEMMA DescribedList ==
  ASSUME src \in Seq(Int), Local!Describe, NEW S
  PROVE  meta' \in CopyLists(src, S)
<1>1. PICK F \in Nat, rest \in Nat :
           /\ F = FullChunks(src) /\ rest = Len(src) % Chunk
           /\ Remote!Blocks(src) = IF rest = 0 THEN F ELSE F + 1
           /\ \A k \in 1 .. F : /\ Remote!BlockLength(src, k) = Chunk
                                /\ ChunkAt(src, k) \in Seq(Int) /\ (k - 1) * Chunk \in Nat
           /\ Remote!BlockLength(src, F + 1) = rest
           /\ F * Chunk = Len(src) - rest /\ F * Chunk \in Nat
  BY FullBlocks
<1>2. PICK full : full = [k \in 1 .. F |->
        [weak |-> Sum1(ChunkAt(src, k)), strong |-> ChunkAt(src, k), from |-> TRUE,
         offset |-> (k - 1) * Chunk, length |-> Chunk]]
  OBVIOUS
<1>3. PICK x : x = [from |-> TRUE, offset |-> Len(src) - rest, length |-> rest]
  OBVIOUS
<1>4. meta' = full \o (IF rest = 0 THEN <<>> ELSE <<x>>)
  <2>1. \A k \in 1 .. F : SubSeq(src, (k - 1) * Chunk + 1, k * Chunk) = ChunkAt(src, k)
    <3>1. PICK c \in Nat : c = Chunk
      BY ChunkFacts
    <3>2. \A k \in Nat : (k - 1) * c + c = k * c
      BY <3>1
    <3> QED
      BY <1>1, <3>1, <3>2 DEF ChunkAt
  <2>2. [k \in 1 .. F |->
          [weak |-> Sum1(SubSeq(src, (k - 1) * Chunk + 1, k * Chunk)),
           strong |-> SubSeq(src, (k - 1) * Chunk + 1, k * Chunk), from |-> TRUE,
           offset |-> (k - 1) * Chunk, length |-> Chunk]] = full
    BY <1>2, <2>1
  <2> QED
    BY <1>1, <1>3, <2>2, SameSum, SameLookup DEF Local!Describe
<1>5. ASSUME NEW k \in 1 .. F
      PROVE  full[k] \in CopyEntries /\ FullEntry(full[k], src, k)
             /\ KeptOrFound(full[k], src, S, k)
  <2>1. PICK s, c, o : s = Sum1(ChunkAt(src, k)) /\ c = ChunkAt(src, k) /\ o = (k - 1) * Chunk
    OBVIOUS
  <2>2. full[k] = [weak |-> s, strong |-> c, from |-> TRUE, offset |-> o, length |-> Chunk]
    BY <1>2, <2>1
  <2>3. s \in Int \X Int /\ c \in Seq(Int) /\ o \in Nat /\ Remote!BlockLength(src, k) = Chunk
    BY <1>1, <2>1, SumIsPair
  <2>4. full[k] \in CopyEntries
    <3>1. PICK e : e = full[k]
      OBVIOUS
    <3>2. e \in [weak : Int \X Int, strong : Seq(Int), from : BOOLEAN, offset : Nat,
                 length : {Chunk}]
      BY <2>2, <2>3, <3>1
    <3> QED
      BY <3>1, <3>2 DEF CopyEntries
  <2>5. FullEntry(full[k], src, k)
    BY <2>1, <2>2 DEF FullEntry
  <2>6. KeptOrFound(full[k], src, S, k)
    BY <2>1, <2>2, <2>3 DEF KeptOrFound
  <2> QED
    BY <2>4, <2>5, <2>6
<1>6. full \in Seq(CopyEntries) /\ Len(full) = F
  <2>1. full = [k \in 1 .. F |-> full[k]]
    BY <1>2
  <2>2. full \in [1 .. F -> CopyEntries]
    BY <1>5, <2>1
  <2> QED
    BY <2>2
<1>7. CASE rest = 0
  <2>1. meta' = full /\ Remote!Blocks(src) = F
    BY <1>1, <1>4, <1>6, <1>7
  <2>2. full \in [1 .. F -> CopyEntries]
    BY <1>6
  <2> QED
    BY <1>1, <1>5, <2>1, <2>2 DEF CopyLists
<1>8. CASE rest # 0
  <2>1. PICK list : list = Append(full, x)
    OBVIOUS
  <2>2. x \in CopyEntries /\ KeptOrFound(x, src, S, F + 1)
    <3>1. PICK o \in Nat : o = Len(src) - rest /\ o = ((F + 1) - 1) * Chunk
      <4>1. (F + 1) - 1 = F
        OBVIOUS
      <4> QED
        BY <1>1, <4>1
    <3>2. x = [from |-> TRUE, offset |-> o, length |-> rest]
      BY <1>3, <3>1
    <3>3. x \in CopyEntries
      BY <1>1, <3>2 DEF CopyEntries
    <3>4. x.from = TRUE /\ x.offset = o /\ x.length = rest
      BY <3>2
    <3> QED
      BY <1>1, <3>1, <3>3, <3>4 DEF KeptOrFound
  <2>3. /\ list \in Seq(CopyEntries) /\ Len(list) = F + 1
        /\ list[F + 1] = x /\ \A k \in 1 .. F : list[k] = full[k]
    BY <1>6, <2>1, <2>2, Appended
  <2>4. meta' = list
    BY <1>4, <1>6, <1>8, <2>1, <2>2
  <2>5. list \in [1 .. F + 1 -> CopyEntries] /\ Remote!Blocks(src) = F + 1
    BY <1>1, <1>8, <2>3
  <2>6. ASSUME NEW k \in 1 .. F + 1 PROVE KeptOrFound(list[k], src, S, k)
    <3>1. k \in 1 .. F \/ k = F + 1
      OBVIOUS
    <3> QED
      BY <1>5, <2>2, <2>3, <3>1
  <2> QED
    BY <1>1, <1>5, <2>3, <2>4, <2>5, <2>6 DEF CopyLists
<1> QED
  BY <1>7, <1>8

\* A window with a known weak sum is a place of the chunk (cp3).
LEMMA CopyListRolls ==
  ASSUME NEW file \in Seq(Int), NEW nf \in Seq(Int), NEW n \in Nat, n >= Chunk, n <= Len(nf),
         NEW list \in CopyLists(file, FoundIn("cp3", file, nf)),
         NEW more, MarksEnd(file, nf, list, more, "cp3", n)
  PROVE  more \in CopyLists(file, FoundIn("cp3", file, nf))
<1>1. PICK c \in Nat \ {0} : c = Chunk
  BY ChunkFacts
<1>2. PICK p \in Nat : p = n - c /\ n = p + c
  <2>1. n - c \in Nat /\ n = (n - c) + c
    BY <1>1
  <2> QED
    BY <2>1
<1>3. PICK w : w = WindowAt(nf, n) /\ w = SubSeq(nf, p + 1, p + Chunk)
  BY <1>1, <1>2 DEF WindowAt
<1>4. PICK k : /\ k = SumLeads(file, Sum1(w))
               /\ more = IF k # 0 THEN Local!Mark(list, k, p) ELSE list
  <2>1. MarksWindow(file, list, more, "cp3", w, p)
    BY <1>1, <1>2, <1>3 DEF MarksEnd
  <2> QED
    BY <2>1 DEF MarksWindow
<1>5. CASE k = 0
  BY <1>4, <1>5
<1>6. CASE k # 0
  <2>1. /\ k \in 1 .. FullChunks(file) /\ Sum1(ChunkAt(file, k)) = Sum1(w)
    BY <1>4, <1>6, FullChunksIs, SumLeadsTo
  <2>2. Takes("cp3", file, nf, k, p)
    <3>1. Sum1(SubSeq(nf, p + 1, p + Chunk)) = Sum1(ChunkAt(file, k))
      BY <1>3, <2>1
    <3> QED
      BY <3>1 DEF Takes
  <2>3. PICK t : t = <<k, p>>
    OBVIOUS
  <2>4. t \in (1 .. FullChunks(file)) \X Nat /\ t[1] = k /\ t[2] = p
    BY <2>1, <2>3
  <2>5. p <= Len(nf)
    BY <1>1, <1>2
  <2>6. <<k, p>> \in FoundIn("cp3", file, nf)
    BY <2>2, <2>3, <2>4, <2>5 DEF FoundIn
  <2> QED
    BY <1>4, <1>6, <2>1, <2>6, CopyListMarked
<1> QED
  BY <1>5, <1>6

\* What the scan of cp7 finds are places of the chunks.
LEMMA SkipFinds ==
  ASSUME NEW file \in Seq(Int), NEW nf \in Seq(Int), NEW word \in 0 .. MapBuffer,
         NEW list, Lists(list, file), NEW full, full = SubSeq(list, 1, FullChunks(file)),
         NEW hits, hits = Local!Scanned(nf, word, full).hits
  PROVE  /\ hits \in Seq(Hits)
         /\ \A j \in DOMAIN hits : /\ hits[j].chunk \in 1 .. FullChunks(file) /\ hits[j].at \in Nat
                                   /\ <<hits[j].chunk, hits[j].at>> \in FoundIn("cp7", file, nf)
<1>1. PICK F \in Nat : F = FullChunks(file)
  BY FullChunksIs
<1>2. DOMAIN full = 1 .. F /\ \A k \in 1 .. F : full[k] = list[k]
  BY <1>1, ListLeads
<1>3. Local!Scanned(nf, word, full) \in ScanSet(nf, full)
  BY <1>2, LocalScanned
<1>4. hits \in Seq(Hits) /\ \A j \in DOMAIN hits : HitSeen(nf, full, hits[j])
  BY <1>3 DEF ScanSet
<1>5. ASSUME NEW h, HitSeen(nf, full, h)
      PROVE  /\ h.chunk \in 1 .. F /\ h.at \in Nat
             /\ <<h.chunk, h.at>> \in FoundIn("cp7", file, nf)
  <2>1. h \in Hits /\ h.chunk \in 1 .. F /\ h.at <= Len(nf) /\ Seen(nf, full, h.at, h.chunk)
    BY <1>2, <1>5 DEF HitSeen
  <2>2. PICK k \in 1 .. F, p \in Nat : k = h.chunk /\ p = h.at
    BY <2>1 DEF Hits
  <2>3. full[k].strong = ChunkAt(file, k)
    <3>1. PICK s, c, f, o : /\ s = Sum1(ChunkAt(file, k)) /\ c = ChunkAt(file, k)
                            /\ f = list[k].from /\ o = list[k].offset
      OBVIOUS
    <3>2. list[k] = [weak |-> s, strong |-> c, from |-> f, offset |-> o, length |-> Chunk]
      BY <1>1, <3>1 DEF Lists
    <3>3. list[k].strong = c
      BY <3>2
    <3> QED
      BY <1>2, <3>1, <3>3
  <2>4. p + Chunk <= Len(nf) => Takes("cp7", file, nf, k, p)
    <3>1. ASSUME p + Chunk <= Len(nf)
          PROVE  SubSeq(nf, p + 1, p + Chunk) = ChunkAt(file, k)
      BY <2>1, <2>2, <2>3, <3>1 DEF Seen
    <3>2. "cp7" # "cp3"
      OBVIOUS
    <3> QED
      BY <3>1, <3>2 DEF Takes
  <2>5. PICK t : t = <<k, p>>
    OBVIOUS
  <2>6. t \in (1 .. FullChunks(file)) \X Nat /\ t[1] = k /\ t[2] = p
    BY <1>1, <2>5
  <2>7. t \in FoundIn("cp7", file, nf)
    BY <2>1, <2>2, <2>4, <2>6 DEF FoundIn
  <2> QED
    BY <2>1, <2>2, <2>5, <2>7
<1> QED
  BY <1>1, <1>4, <1>5

\* So cp7 leaves such a list, too: a fold of its marks.
LEMMA CopyListSkips ==
  ASSUME src \in Seq(Int), dst \in Seq(Int), Heap \in 0 .. MapBuffer, NEW S,
         S = FoundIn("cp7", src, dst), meta \in CopyLists(src, S), Local!Skip
  PROVE  meta' \in CopyLists(src, S)
<1>1. PICK hits : hits = Local!Scanned(dst, Heap, Local!Full).hits
  OBVIOUS
<1>2. /\ hits \in Seq(Hits)
      /\ \A j \in DOMAIN hits : /\ hits[j].chunk \in 1 .. FullChunks(src) /\ hits[j].at \in Nat
                                /\ <<hits[j].chunk, hits[j].at>> \in S
  <2>1. PICK full : full = Local!Full /\ full = SubSeq(meta, 1, FullChunks(src))
    BY SameLookup DEF Local!Full
  <2>2. Lists(meta, src)
    BY CopyListLists
  <2> QED
    BY <1>1, <2>1, <2>2, SkipFinds
<1>3. PICK n \in Nat : n = Len(hits) /\ DOMAIN hits = 1 .. n
  BY <1>2
<1> DEFINE X == CopyLists(src, S)
           Y == {h \in Hits : /\ h.chunk \in 1 .. FullChunks(src) /\ h.at \in Nat
                              /\ <<h.chunk, h.at>> \in S}
           begin == meta
           w == hits
           F == [s \in X |-> [k \in Y |-> Local!Mark(s, k.chunk, k.at)]]
           P(g) == g = [s \in SUBSET (DOMAIN w) |->
                          IF s = {} THEN begin
                          ELSE Local!Mark(g[s \ {Max(s)}], w[Max(s)].chunk, w[Max(s)].at)]
           it == CHOOSE g : P(g)
<1>4. DOMAIN w = 1 .. n /\ w \in [1 .. n -> Y]
  <2>1. ASSUME NEW i \in 1 .. n PROVE hits[i] \in Y
    BY <1>2, <1>3, <2>1
  <2> QED
    BY <1>2, <1>3, <2>1
<1>5. F \in [X -> [Y -> X]] /\ begin \in X
  <2>1. ASSUME NEW s \in X, NEW k \in Y PROVE Local!Mark(s, k.chunk, k.at) \in X
    BY <2>1, CopyListMarked
  <2>2. begin \in X
    OBVIOUS
  <2> HIDE DEF X, Y, begin
  <2> QED
    BY <2>1, <2>2
<1>6. \A s \in X, k \in Y : F[s][k] = Local!Mark(s, k.chunk, k.at)
  OBVIOUS
<1>7. ASSUME NEW g, NEW s \in SUBSET (1 .. n), s # {}, g[s \ {Max(s)}] \in X
      PROVE  Step(F, w, g, s)
               <=> g[s] = Local!Mark(g[s \ {Max(s)}], w[Max(s)].chunk, w[Max(s)].at)
  <2> HIDE DEF F, X, Y, w
  <2>1. w[Max(s)] \in Y
    BY <1>4, <1>7, MaxIsPlace
  <2> QED
    BY <1>6, <1>7, <2>1 DEF Step
<1>8. \E g : P(g)
  <2> HIDE DEF F, X, w, Y, begin
  <2>1. PICK g : Folded(X, F, begin, w, n, g)
    BY <1>4, <1>5, FoldFound
  <2>2. \A s \in SUBSET (1 .. n) : s # {} => g[s] = Local!Mark(g[s \ {Max(s)}], w[Max(s)].chunk, w[Max(s)].at)
    BY <1>7, <2>1 DEF Folded
  <2>3. g[{}] = begin /\ g = [s \in SUBSET (1 .. n) |-> g[s]]
    BY <2>1 DEF Folded
  <2>4. P(g)
    BY <1>4, <2>2, <2>3
  <2> QED
    BY <2>4
<1>9. P(it)
  <2> HIDE DEF P
  <2> QED
    BY <1>8
<1>10. meta' = it[DOMAIN w]
  BY <1>1 DEF Local!Skip, Local!FoldLeft, Local!MapThenFoldSet, Local!Max, Max
<1> HIDE DEF it, F, X, w, Y, begin
<1>11. /\ it[{}] = begin
       /\ \A s \in SUBSET (1 .. n) :
            s # {} => it[s] = Local!Mark(it[s \ {Max(s)}], w[Max(s)].chunk, w[Max(s)].at)
  BY <1>4, <1>9
<1>12. FoldsTyped(X, F, begin, w, n, it)
  BY <1>7, <1>11 DEF FoldsTyped
<1>13. it[1 .. n] \in X
  <2>1. \A s \in SUBSET (1 .. n) : it[s] \in X
    BY <1>4, <1>5, <1>12, FoldTyped
  <2> QED
    BY <2>1
<1> QED
  BY <1>4, <1>10, <1>13 DEF X

\* A piece of a sequence is a piece of it and what follows; and what follows is one.
LEMMA PieceKept ==
  ASSUME NEW a \in Seq(Int), NEW b \in Seq(Int), NEW v, v = a \o b,
         NEW o \in Nat, NEW l \in Nat, o + l <= Len(a)
  PROVE  SubSeq(v, o + 1, o + l) = SubSeq(a, o + 1, o + l)
<1>1. PICK A \in Nat, B \in Nat : A = Len(a) /\ B = Len(b)
  OBVIOUS
<1>2. /\ v \in Seq(Int) /\ Len(v) = A + B
      /\ \A i \in 1 .. A : v[i] = a[i]
  <2>1. v \in Seq(Int) /\ Len(v) = A + B
    BY <1>1, ConcatProperties
  <2>2. ASSUME NEW i \in 1 .. A PROVE v[i] = a[i]
    <3>1. PICK n \in 1 .. Len(a) + Len(b) : n = i
      BY <1>1
    <3>2. (a \o b)[n] = IF n <= Len(a) THEN a[n] ELSE b[n - Len(a)]
      BY ConcatProperties
    <3> QED
      BY <1>1, <3>1, <3>2
  <2> QED
    BY <2>1, <2>2
<1>3. PICK x, y : x = SubSeq(v, o + 1, o + l) /\ y = SubSeq(a, o + 1, o + l)
  OBVIOUS
<1>4. /\ y \in Seq(Int) /\ Len(y) = l
      /\ \A i \in 1 .. l : y[i] = a[o + i]
  BY <1>1, <1>3
<1>5. /\ x \in Seq(Int) /\ Len(x) = l
      /\ \A i \in 1 .. l : x[i] = v[o + i]
  <2>1. o + l <= Len(v)
    BY <1>1, <1>2
  <2> QED
    BY <1>2, <1>3, <2>1
<1>6. \A i \in 1 .. l : x[i] = y[i]
  <2>1. \A i \in 1 .. l : o + i \in 1 .. A
    BY <1>1
  <2> QED
    BY <1>2, <1>4, <1>5, <2>1
<1> QED
  BY <1>3, <1>4, <1>5, <1>6, SeqEqual

LEMMA PieceAdded ==
  ASSUME NEW a \in Seq(Int), NEW b \in Seq(Int), NEW v, v = a \o b
  PROVE  /\ v \in Seq(Int) /\ Len(v) = Len(a) + Len(b)
         /\ SubSeq(v, Len(a) + 1, Len(a) + Len(b)) = b
<1>1. PICK A \in Nat, B \in Nat : A = Len(a) /\ B = Len(b)
  OBVIOUS
<1>2. /\ v \in Seq(Int) /\ Len(v) = A + B
      /\ \A i \in 1 .. B : v[A + i] = b[i]
  <2>1. v \in Seq(Int) /\ Len(v) = A + B
    BY <1>1, ConcatProperties
  <2>2. ASSUME NEW i \in 1 .. B PROVE v[A + i] = b[i]
    <3>1. PICK n \in 1 .. Len(a) + Len(b) : n = A + i
      BY <1>1
    <3>2. (a \o b)[n] = IF n <= Len(a) THEN a[n] ELSE b[n - Len(a)]
      BY ConcatProperties
    <3>3. ~(n <= Len(a)) /\ n - Len(a) = i
      BY <1>1, <3>1
    <3> QED
      BY <3>1, <3>2, <3>3
  <2> QED
    BY <2>1, <2>2
<1>3. PICK x : x = SubSeq(v, A + 1, A + B)
  OBVIOUS
<1>4. /\ x \in Seq(Int) /\ Len(x) = B
      /\ \A i \in 1 .. B : x[i] = v[A + i]
  <2>1. \A i \in A + 1 .. A + B : i \in 1 .. Len(v)
    BY <1>2
  <2>2. /\ x \in Seq(Int)
        /\ Len(x) = IF A + 1 <= A + B THEN A + B - (A + 1) + 1 ELSE 0
        /\ \A i \in 1 .. A + B - (A + 1) + 1 : x[i] = v[A + 1 + i - 1]
    BY <1>2, <1>3, <2>1, SubSeqProperties
  <2>3. Len(x) = B
    BY <2>2
  <2>4. ASSUME NEW i \in 1 .. B PROVE x[i] = v[A + i]
    <3>1. i \in 1 .. A + B - (A + 1) + 1 /\ A + 1 + i - 1 = A + i
      OBVIOUS
    <3> QED
      BY <2>2, <3>1
  <2> QED
    BY <2>2, <2>3, <2>4
<1>5. x = b
  BY <1>1, <1>2, <1>4, SeqEqual
<1> QED
  BY <1>1, <1>2, <1>3, <1>5

\* What construct_file reads of a file: as many bytes as it asks for, and those of the
\* file if they are all there.
LEMMA PartRead ==
  ASSUME NEW file \in Seq(Int), NEW m \in Maps(file), NEW p \in Nat, p <= Len(file),
         NEW n \in Nat, n <= Chunk
  PROVE  \E r, b : /\ r = MapFileContent(m, p, n) /\ b = Bytes(r, n)
                   /\ r \in Maps(file) /\ b \in Seq(Int) /\ Len(b) = n
                   /\ p + n <= Len(file) => b = SubSeq(file, p + 1, p + n)
<1>1. PICK r, b : r = MapFileContent(m, p, n) /\ b = Bytes(r, n)
  OBVIOUS
<1>2. Mapped(r, file, p, n)
  BY <1>1, MappedContent
<1>3. r \in Maps(file)
  BY <1>2 DEF Mapped
<1>4. b \in Seq(Int) /\ Len(b) = n
  BY <1>1, <1>3, BytesAreSeq
<1>5. ASSUME p + n <= Len(file) PROVE b = SubSeq(file, p + 1, p + n)
  <2>1. n <= BufferLength(file)
    <3>1. PICK B \in Nat, L \in Nat, c \in Nat, M \in Nat :
            B = BufferLength(file) /\ L = Len(file) /\ c = Chunk /\ M = MapBuffer
      <4>1. BufferLength(file) \in Nat /\ Len(file) \in Nat /\ Chunk \in Nat /\ MapBuffer \in Nat
        BY BufferLengthIs, ChunkFacts, ScanAssumption
      <4> QED
        BY <4>1
    <3>2. B = M \/ B = L
      BY <3>1, BufferLengthIs
    <3>3. c <= M
      BY <3>1, ScanAssumption
    <3> QED
      BY <1>5, <3>1, <3>2, <3>3
  <2>2. n <= n
    OBVIOUS
  <2>3. Shows(r, file, p, n)
    BY <1>2, <1>5, <2>1, <2>2, MappedBytes
  <2> QED
    BY <1>1, <1>3, <1>5, <2>3, BytesShown
<1> QED
  BY <1>1, <1>3, <1>4, <1>5

\* How long the first chunks of a file are.
LEMMA UptoLength ==
  ASSUME NEW f \in Seq(Int), NEW k \in Nat, NEW o \in Nat, NEW l \in Nat,
         BlockLies(f, k + 1, o, l)
  PROVE  Len(Upto(f, k)) = o /\ Len(Upto(f, k + 1)) = o + l
<1>1. PICK c \in Nat \ {0}, L \in Nat : c = Chunk /\ L = Len(f)
  <2>1. Len(f) \in Nat
    OBVIOUS
  <2> QED
    BY <2>1, ChunkFacts
<1>2. o = k * c
  BY <1>1 DEF BlockLies
<1>3. (k + 1) * c = o + c
  <2>1. (k + 1) * c = k * c + c
    OBVIOUS
  <2> QED
    BY <1>2, <2>1
<1>4. l <= c /\ o + l <= L /\ (l = c \/ o + l = L)
  BY <1>1 DEF BlockLies
<1>5. Upto(f, k) = SubSeq(f, 1, o)
  <2>1. o <= L
    BY <1>4
  <2> QED
    BY <1>1, <1>2, <2>1 DEF Upto
<1>6. Upto(f, k + 1) = SubSeq(f, 1, o + l)
  <2>1. (IF o + c <= L THEN o + c ELSE L) = o + l
    BY <1>4
  <2> QED
    BY <1>1, <1>3, <2>1 DEF Upto
<1>7. o <= Len(f) /\ o + l <= Len(f)
  BY <1>1, <1>4
<1> QED
  BY <1>5, <1>6, <1>7

\* z is s with those bytes.
PartAdded(s, x, z, file, nf) ==
  z \in Worlds(file, nf) /\ \E b : PartOf(x, b, file, nf) /\ z.out = s.out \o b

LEMMA PutPart ==
  ASSUME NEW file \in Seq(Int), NEW nf \in Seq(Int), NEW s \in Worlds(file, nf),
         NEW x, Readable(x, file, nf)
  PROVE  PartAdded(s, x, PutOf(s, x), file, nf)
<1>1. PICK z : z = PutOf(s, x)
  OBVIOUS
<1>2. PICK p \in Nat, n \in Nat : p = x.offset /\ n = x.length /\ n <= Chunk
  BY DEF Readable
<1>3. PICK m, q, t : m = s.src /\ q = s.dst /\ t = s.out
  OBVIOUS
<1>4. /\ s = [src |-> m, dst |-> q, out |-> t]
      /\ m \in Maps(file) /\ q \in Maps(nf) /\ t \in Seq(Int)
  BY <1>3 DEF Worlds
<1>5. m.file = file /\ q.file = nf
  BY <1>4 DEF Maps
<1>6. CASE x.from = TRUE
  <2>1. p <= Len(file)
    BY <1>2, <1>6 DEF Readable
  <2>2. PICK r, b : /\ r = MapFileContent(m, p, n) /\ b = Bytes(r, n)
                    /\ r \in Maps(file) /\ b \in Seq(Int) /\ Len(b) = n
                    /\ p + n <= Len(file) => b = SubSeq(file, p + 1, p + n)
    <3>1. m \in Maps(file) /\ n <= Chunk
      BY <1>2, <1>4
    <3> QED
      BY <2>1, <3>1, PartRead
  <2>3. r = Local!MapFileContent(m, p, n) /\ b = Local!Bytes(r, n)
    BY <2>2, LocalMap
  <2>4. ~(p > Len(m.file))
    <3>1. PICK L \in Nat : L = Len(file)
      OBVIOUS
    <3> QED
      BY <1>5, <2>1, <3>1
  <2>5. z = [s EXCEPT !.src = r, !.out = @ \o b]
    BY <1>1, <1>2, <1>3, <1>6, <2>3, <2>4 DEF PutOf
  <2>6. PICK v : v = t \o b
    OBVIOUS
  <2>7. z = [src |-> r, dst |-> q, out |-> v]
    BY <1>4, <2>5, <2>6
  <2>8. v \in Seq(Int)
    BY <1>4, <2>2, <2>6, PieceAdded
  <2>9. PartOf(x, b, file, nf)
    BY <1>2, <1>6, <2>2 DEF PartOf
  <2>10. z \in Worlds(file, nf)
    BY <1>4, <2>2, <2>7, <2>8 DEF Worlds
  <2>11. z.out = v
    BY <2>7
  <2> QED
    BY <1>1, <1>3, <2>6, <2>9, <2>10, <2>11 DEF PartAdded
<1>7. CASE x.from = FALSE
  <2>1. p <= Len(nf)
    BY <1>2, <1>7 DEF Readable
  <2>2. PICK r, b : /\ r = MapFileContent(q, p, n) /\ b = Bytes(r, n)
                    /\ r \in Maps(nf) /\ b \in Seq(Int) /\ Len(b) = n
                    /\ p + n <= Len(nf) => b = SubSeq(nf, p + 1, p + n)
    <3>1. q \in Maps(nf) /\ n <= Chunk
      BY <1>2, <1>4
    <3> QED
      BY <2>1, <3>1, PartRead
  <2>3. r = Local!MapFileContent(q, p, n) /\ b = Local!Bytes(r, n)
    BY <2>2, LocalMap
  <2>4. ~(p > Len(q.file))
    <3>1. PICK L \in Nat : L = Len(nf)
      OBVIOUS
    <3> QED
      BY <1>5, <2>1, <3>1
  <2>5. z = [s EXCEPT !.dst = r, !.out = @ \o b]
    BY <1>1, <1>2, <1>3, <1>7, <2>3, <2>4 DEF PutOf
  <2>6. PICK v : v = t \o b
    OBVIOUS
  <2>7. z = [src |-> m, dst |-> r, out |-> v]
    BY <1>4, <2>5, <2>6
  <2>8. v \in Seq(Int)
    BY <1>4, <2>2, <2>6, PieceAdded
  <2>9. PartOf(x, b, file, nf)
    BY <1>2, <1>7, <2>2 DEF PartOf
  <2>10. z \in Worlds(file, nf)
    BY <1>4, <2>2, <2>7, <2>8 DEF Worlds
  <2>11. z.out = v
    BY <2>7
  <2> QED
    BY <1>1, <1>3, <2>6, <2>9, <2>10, <2>11 DEF PartAdded
<1> QED
  BY <1>6, <1>7 DEF Readable

\* Every entry of such a list can be read, and what is read is good.
LEMMA EntryReads ==
  ASSUME NEW file \in Seq(Int), NEW nf \in Seq(Int), NEW how,
         NEW list \in CopyLists(file, FoundIn(how, file, nf)),
         NEW k \in 1 .. Remote!Blocks(file), NEW o \in Nat, NEW l \in Nat, BlockLies(file, k, o, l)
  PROVE  \E x : /\ x = list[k] /\ Readable(x, file, nf) /\ x \in CopyEntries /\ x.length = l
                /\ \A b : PartOf(x, b, file, nf) => GoodPiece(how, b, x, file, nf, k)
<1>1. PICK x : x = list[k]
  OBVIOUS
<1>2. PICK F \in Nat, n \in Nat : F = FullChunks(file) /\ n = Remote!Blocks(file) /\ n >= F
  BY FullBlocks
<1>3. \A j \in 1 .. F : /\ Remote!BlockLength(file, j) = Chunk
                        /\ Remote!Block(file, j) = ChunkAt(file, j)
  BY <1>2, FullBlocks
<1>4. /\ x \in CopyEntries /\ KeptOrFound(x, file, FoundIn(how, file, nf), k)
      /\ k \in 1 .. F => FullEntry(x, file, k)
  <2>1. /\ list[k] \in CopyEntries /\ KeptOrFound(list[k], file, FoundIn(how, file, nf), k)
        /\ k \in 1 .. F => FullEntry(list[k], file, k)
    BY <1>2 DEF CopyLists
  <2> QED
    BY <1>1, <2>1
<1>5. PICK c \in Nat, L \in Nat, N \in Nat : c = Chunk /\ L = Len(file) /\ N = Len(nf)
  <2>1. Chunk \in Nat /\ Len(file) \in Nat /\ Len(nf) \in Nat
    BY ChunkFacts
  <2> QED
    BY <2>1
<1>6. /\ o = (k - 1) * Chunk /\ l <= c /\ o + l <= L /\ Remote!BlockLength(file, k) = l
      /\ Remote!Block(file, k) = SubSeq(file, o + 1, o + l)
  BY <1>5 DEF BlockLies
<1>7. x.from \in BOOLEAN /\ x.offset \in Nat /\ x.length \in Nat
  <2>1. CASE x \in [from : {TRUE}, offset : Nat, length : Nat]
    BY <2>1
  <2>2. CASE x \in [weak : Int \X Int, strong : Seq(Int), from : BOOLEAN, offset : Nat,
                    length : {Chunk}]
    BY <1>5, <2>2
  <2> QED
    BY <1>1, <1>4, <2>1, <2>2 DEF CopyEntries
<1>8. CASE x.from = TRUE
  <2>1. x.offset = o /\ x.length = l
    BY <1>4, <1>6, <1>8 DEF KeptOrFound
  <2>2. Readable(x, file, nf)
    BY <1>5, <1>6, <1>7, <1>8, <2>1 DEF Readable
  <2>3. ASSUME NEW b, PartOf(x, b, file, nf) PROVE b = Remote!Block(file, k)
    BY <1>5, <1>6, <1>8, <2>1, <2>3 DEF PartOf
  <2> QED
    BY <1>1, <1>4, <2>1, <2>2, <2>3 DEF GoodPiece
<1>9. CASE x.from = FALSE
  <2>1. k \in 1 .. F /\ <<k, x.offset>> \in FoundIn(how, file, nf)
    BY <1>2, <1>4, <1>9 DEF KeptOrFound
  <2>2. PICK p \in Nat : p = x.offset /\ <<k, p>> \in FoundIn(how, file, nf)
    BY <1>7, <2>1
  <2>3. PICK s : s = Sum1(ChunkAt(file, k))
    OBVIOUS
  <2>4. p <= N /\ (p + Chunk <= Len(nf) => Takes(how, file, nf, k, p))
    BY <1>5, <2>2 DEF FoundIn
  <2>5. x.weak = s /\ x.length = Chunk
    <3>1. PICK z, f : z = ChunkAt(file, k) /\ f = x.from
      OBVIOUS
    <3>2. x = [weak |-> s, strong |-> z, from |-> f, offset |-> p, length |-> Chunk]
      BY <1>4, <2>1, <2>2, <2>3, <3>1 DEF FullEntry
    <3> QED
      BY <3>2
  <2>6. l = Chunk /\ Remote!Block(file, k) = ChunkAt(file, k)
    BY <1>3, <1>6, <2>1
  <2>7. Readable(x, file, nf)
    BY <1>5, <1>7, <1>9, <2>2, <2>4, <2>5 DEF Readable
  <2>8. ASSUME NEW b, PartOf(x, b, file, nf) PROVE GoodPiece(how, b, x, file, nf, k)
    <3>1. CASE p + Chunk <= Len(nf)
      <4>1. b = SubSeq(nf, p + 1, p + Chunk)
        BY <1>9, <2>2, <2>5, <2>8, <3>1 DEF PartOf
      <4>2. Takes(how, file, nf, k, p)
        BY <2>4, <3>1
      <4>3. CASE how = "cp3"
        <5>1. Sum1(b) = s
          BY <2>3, <4>1, <4>2, <4>3 DEF Takes
        <5> QED
          BY <1>9, <2>5, <4>3, <5>1 DEF GoodPiece
      <4>4. CASE how # "cp3"
        <5>1. b = ChunkAt(file, k)
          BY <4>1, <4>2, <4>4 DEF Takes
        <5> QED
          BY <2>6, <5>1 DEF GoodPiece
      <4> QED
        BY <4>3, <4>4
    <3>2. CASE ~(p + Chunk <= Len(nf))
      <4>1. p + Chunk > Len(nf)
        BY <1>5, <3>2
      <4> QED
        BY <1>9, <2>2, <4>1 DEF GoodPiece
    <3> QED
      BY <3>1, <3>2
  <2> QED
    BY <1>1, <1>4, <2>5, <2>6, <2>7, <2>8
<1> QED
  BY <1>1, <1>7, <1>8, <1>9

\* So what is built for it is.
LEMMA EntryGood ==
  ASSUME NEW file \in Seq(Int), NEW nf \in Seq(Int), NEW how,
         NEW list \in CopyLists(file, FoundIn(how, file, nf)),
         NEW k \in 1 .. Remote!Blocks(file), NEW b, PartOf(list[k], b, file, nf)
  PROVE  GoodPiece(how, b, list[k], file, nf, k)
<1>1. PICK o \in Nat, l \in Nat : BlockLies(file, k, o, l)
  BY BlocksLie
<1>2. \E x : /\ x = list[k]
             /\ \A d : PartOf(x, d, file, nf) => GoodPiece(how, d, x, file, nf, k)
  BY <1>1, EntryReads
<1> QED
  BY <1>2

LEMMA BuiltMore ==
  ASSUME NEW file \in Seq(Int), NEW nf \in Seq(Int), NEW how,
         NEW list \in CopyLists(file, FoundIn(how, file, nf)),
         NEW j \in Nat, j + 1 \in 1 .. Remote!Blocks(file),
         NEW a \in Seq(Int), BuiltUpto(how, a, list, file, nf, j),
         NEW b, PartOf(list[j + 1], b, file, nf), NEW v, v = a \o b
  PROVE  BuiltUpto(how, v, list, file, nf, j + 1)
<1>1. PICK i \in 1 .. Remote!Blocks(file) : i = j + 1
  OBVIOUS
<1>2. PICK o \in Nat, l \in Nat : BlockLies(file, i, o, l)
  BY BlocksLie
<1>3. PICK x : x = list[i] /\ x.length = l
  BY <1>2, EntryReads
<1>4. x.length = l /\ GoodPiece(how, b, x, file, nf, i)
  <2>1. PartOf(list[i], b, file, nf)
    BY <1>1
  <2>2. GoodPiece(how, b, list[i], file, nf, i)
    BY <2>1, EntryGood
  <2> QED
    BY <1>3, <2>2
<1>5. b \in Seq(Int) /\ Len(b) = l
  BY <1>1, <1>3, <1>4 DEF PartOf
<1>6. Len(Upto(file, j)) = o /\ Len(Upto(file, j + 1)) = o + l
  BY <1>1, <1>2, UptoLength
<1>7. Len(a) = o
  BY <1>6 DEF BuiltUpto
<1>8. v \in Seq(Int) /\ Len(v) = o + l /\ SubSeq(v, o + 1, o + l) = b
  BY <1>5, <1>7, PieceAdded
<1>9. ASSUME NEW k \in 1 .. j + 1, NEW p \in Nat, NEW n \in Nat, BlockLies(file, k, p, n)
      PROVE  p + n <= Len(v) /\ GoodPiece(how, SubSeq(v, p + 1, p + n), list[k], file, nf, k)
  <2>1. CASE k = j + 1
    <3>1. p = o /\ n = l
      BY <1>1, <1>2, <1>9, <2>1 DEF BlockLies
    <3>2. PICK y : y = SubSeq(v, p + 1, p + n)
      OBVIOUS
    <3>3. y = b /\ p + n <= Len(v)
      BY <1>8, <3>1, <3>2
    <3>4. GoodPiece(how, y, list[k], file, nf, k)
      BY <1>1, <1>3, <1>4, <2>1, <3>3
    <3> QED
      BY <3>2, <3>3, <3>4
  <2>2. CASE k # j + 1
    <3>1. k \in 1 .. j
      BY <2>2
    <3>2. p + n <= Len(a) /\ GoodPiece(how, SubSeq(a, p + 1, p + n), list[k], file, nf, k)
      BY <1>9, <3>1 DEF BuiltUpto
    <3>3. SubSeq(v, p + 1, p + n) = SubSeq(a, p + 1, p + n)
      BY <1>5, <3>2, PieceKept
    <3>4. p + n <= Len(v)
      BY <1>7, <1>8, <3>2
    <3> QED
      BY <3>2, <3>3, <3>4
  <2> QED
    BY <2>1, <2>2
<1>10. Len(v) = Len(Upto(file, j + 1))
  BY <1>6, <1>8
<1> QED
  BY <1>9, <1>10 DEF BuiltUpto

\* The entries of a list can be read.
LEMMA ListReads ==
  ASSUME NEW file \in Seq(Int), NEW nf \in Seq(Int), NEW how,
         NEW list \in CopyLists(file, FoundIn(how, file, nf))
  PROVE  \E n \in Nat : /\ n = Remote!Blocks(file) /\ list = [k \in 1 .. n |-> list[k]]
                        /\ \A k \in 1 .. n : Readable(list[k], file, nf) /\ list[k] \in CopyEntries
<1>1. PICK F \in Nat, n \in Nat : F = FullChunks(file) /\ n = Remote!Blocks(file) /\ n >= F
  BY FullBlocks
<1>2. list = [k \in 1 .. n |-> list[k]]
  BY <1>1 DEF CopyLists
<1>3. ASSUME NEW k \in 1 .. n PROVE Readable(list[k], file, nf) /\ list[k] \in CopyEntries
  <2>1. PICK i \in 1 .. Remote!Blocks(file) : i = k
    BY <1>1
  <2>2. PICK o \in Nat, l \in Nat : BlockLies(file, i, o, l)
    BY BlocksLie
  <2> QED
    BY <2>1, <2>2, EntryReads
<1> QED
  BY <1>1, <1>2, <1>3

\* construct_file is a fold of its entries: it builds the chunks one after the other.
LEMMA ConstructBuilds ==
  ASSUME src \in Seq(Int), dst \in Seq(Int), Heap \in 0 .. MapBuffer,
         meta \in CopyLists(src, FoundIn(method, src, dst)), Local!Construct
  PROVE  cst' \in Seq(Int) /\ BuiltUpto(method, cst', meta, src, dst, Remote!Blocks(src))
<1>1. PICK n \in Nat : /\ n = Remote!Blocks(src) /\ meta = [k \in 1 .. n |-> meta[k]]
                       /\ \A k \in 1 .. n : Readable(meta[k], src, dst) /\ meta[k] \in CopyEntries
  BY ListReads
<1> DEFINE X == Worlds(src, dst)
           Y == {x \in CopyEntries : Readable(x, src, dst)}
           begin == [src |-> Local!FileMap(src, Heap), dst |-> Local!FileMap(dst, Heap),
                     out |-> <<>>]
           w == meta
           F == [s \in X |-> [x \in Y |-> PutOf(s, x)]]
           P(g) == g = [s \in SUBSET (DOMAIN w) |->
                          IF s = {} THEN begin ELSE PutOf(g[s \ {Max(s)}], w[Max(s)])]
           it == CHOOSE g : P(g)
<1>2. DOMAIN w = 1 .. n /\ w \in [1 .. n -> Y]
  <2>1. ASSUME NEW i \in 1 .. n PROVE meta[i] \in Y
    BY <1>1
  <2> QED
    BY <1>1, <2>1
<1>3. F \in [X -> [Y -> X]] /\ begin \in X
  <2>1. ASSUME NEW s \in X, NEW x \in Y PROVE PutOf(s, x) \in X
    <3>1. PartAdded(s, x, PutOf(s, x), src, dst)
      BY PutPart
    <3> QED
      BY <3>1 DEF PartAdded
  <2>2. begin \in X
    <3>1. PICK a \in Maps(src), b \in Maps(dst) : /\ a = Local!FileMap(src, Heap)
                                                  /\ b = Local!FileMap(dst, Heap)
      <4>1. FileMap(src, Heap) \in Maps(src) /\ FileMap(dst, Heap) \in Maps(dst)
        BY FileMapIsMap
      <4> QED
        BY <4>1, LocalMap
    <3>2. <<>> \in Seq(Int)
      OBVIOUS
    <3> QED
      BY <3>1, <3>2 DEF Worlds
  <2> HIDE DEF X, Y, begin
  <2> QED
    BY <2>1, <2>2
<1>4. \A s \in X, x \in Y : F[s][x] = PutOf(s, x)
  OBVIOUS
<1>5. ASSUME NEW g, NEW s \in SUBSET (1 .. n), s # {}, g[s \ {Max(s)}] \in X
      PROVE  Step(F, w, g, s) <=> g[s] = PutOf(g[s \ {Max(s)}], w[Max(s)])
  <2> HIDE DEF F, X, Y, w
  <2>1. w[Max(s)] \in Y
    BY <1>2, <1>5, MaxIsPlace
  <2> QED
    BY <1>4, <1>5, <2>1 DEF Step
<1>6. \E g : P(g)
  <2> HIDE DEF F, X, w, Y, begin
  <2>1. PICK g : Folded(X, F, begin, w, n, g)
    BY <1>2, <1>3, FoldFound
  <2>2. \A s \in SUBSET (1 .. n) : s # {} => g[s] = PutOf(g[s \ {Max(s)}], w[Max(s)])
    BY <1>5, <2>1 DEF Folded
  <2>3. g[{}] = begin /\ g = [s \in SUBSET (1 .. n) |-> g[s]]
    BY <2>1 DEF Folded
  <2>4. P(g)
    BY <1>2, <2>2, <2>3
  <2> QED
    BY <2>4
<1>7. P(it)
  <2> HIDE DEF P
  <2> QED
    BY <1>6
<1>8. cst' = it[DOMAIN w].out
  BY DEF Local!Construct, Local!FoldLeft, Local!MapThenFoldSet, Local!Max, Max, PutOf
<1> HIDE DEF it, F, X, w, Y, begin
<1>9. /\ it[{}] = begin
      /\ \A s \in SUBSET (1 .. n) : s # {} => it[s] = PutOf(it[s \ {Max(s)}], w[Max(s)])
  BY <1>2, <1>7
<1>10. FoldsTyped(X, F, begin, w, n, it)
  BY <1>5, <1>9 DEF FoldsTyped
<1>11. PICK h \in [0 .. n -> X] :
         /\ h[0] = begin /\ h[n] = it[1 .. n]
         /\ \A k \in 1 .. n : h[k] = F[h[k - 1]][w[k]]
  <2>1. LeftToRight(X, F, begin, w, n, it[1 .. n])
    BY <1>2, <1>3, <1>10, FoldSteps
  <2> QED
    BY <2>1 DEF LeftToRight
<1> DEFINE S == {k \in Nat : k <= n => BuiltUpto(method, h[k].out, meta, src, dst, k)}
<1>12. 0 \in S
  <2>1. h[0].out = <<>>
    BY <1>11 DEF begin
  <2>2. Upto(src, 0) = <<>>
    BY UptoAll
  <2>3. BuiltUpto(method, <<>>, meta, src, dst, 0)
    BY <2>2 DEF BuiltUpto
  <2> QED
    BY <2>1, <2>3
<1>13. ASSUME NEW k \in S PROVE k + 1 \in S
  <2>1. SUFFICES ASSUME k + 1 <= n PROVE BuiltUpto(method, h[k + 1].out, meta, src, dst, k + 1)
    OBVIOUS
  <2>2. k \in 0 .. n /\ k \in Nat /\ k + 1 \in 1 .. n /\ (k + 1) - 1 = k
    BY <2>1
  <2>3. BuiltUpto(method, h[k].out, meta, src, dst, k)
    BY <2>2
  <2>4. PICK s \in X : s = h[k]
    BY <1>11, <2>2
  <2>5. PICK x, z : x = meta[k + 1] /\ z = h[k + 1]
    OBVIOUS
  <2>6. x \in Y
    BY <1>2, <2>2, <2>5 DEF w
  <2>7. z = PutOf(s, x)
    <3>1. z = F[s][x]
      BY <1>11, <2>2, <2>4, <2>5 DEF w
    <3> QED
      BY <1>4, <2>4, <2>6, <3>1
  <2>8. PICK b : PartOf(x, b, src, dst) /\ z.out = s.out \o b
    <3>1. s \in Worlds(src, dst) /\ Readable(x, src, dst)
      BY <2>6 DEF X, Y
    <3>2. PartAdded(s, x, PutOf(s, x), src, dst)
      BY <3>1, PutPart
    <3> QED
      BY <2>7, <3>2 DEF PartAdded
  <2>9. s.out \in Seq(Int)
    BY <2>4 DEF X, Worlds
  <2>10. BuiltUpto(method, z.out, meta, src, dst, k + 1)
    BY <1>1, <2>2, <2>3, <2>4, <2>5, <2>8, <2>9, BuiltMore
  <2> QED
    BY <2>5, <2>10
<1>14. n \in S
  <2>1. S \in SUBSET Nat
    OBVIOUS
  <2> HIDE DEF S
  <2> QED
    BY <1>12, <1>13, <2>1, SetInduction
<1>15. cst' = h[n].out /\ h[n] \in X
  BY <1>2, <1>8, <1>11
<1>16. cst' \in Seq(Int)
  BY <1>15 DEF X, Worlds
<1> QED
  BY <1>1, <1>14, <1>15, <1>16

LEMMA RebuildStep ==
  ASSUME CopyFiles, Heap \in 0 .. MapBuffer, CopyInv, RebuildInv, [Local!Next]_(Local!vars)
  PROVE  RebuildInv'
<1>1. src \in Seq(Int) /\ dst \in Dsts
  BY DEF CopyInv
<1>2. CASE UNCHANGED Local!vars
  <2>1. UNCHANGED <<method, src, dst, stage, meta, cst>>
    BY <1>2 DEF Local!vars
  <2> QED
    BY <2>1 DEF RebuildInv, CopyDescribes
<1>3. CASE Local!Describe
  <2>1. /\ stage' = IF dst = NoFile THEN "crashed"
                    ELSE IF method = "cp7" THEN "skip" ELSE "first"
        /\ UNCHANGED <<method, src, dst>>
    BY <1>3 DEF Local!Describe
  <2>2. dst # NoFile => dst \in Seq(Int)
    BY <1>1 DEF CopyFiles
  <2>3. CopyDescribes'
    <3>1. meta' \in CopyLists(src, FoundIn(method, src, dst))
      BY <1>1, <1>3, DescribedList
    <3> QED
      BY <2>1, <3>1 DEF CopyDescribes
  <2> QED
    BY <2>1, <2>2, <2>3 DEF RebuildInv
<1>4. CASE Local!First
  <2>1. stage = "first" /\ stage' = "batch" /\ UNCHANGED <<method, src, dst>>
    BY <1>4 DEF Local!First
  <2>2. ASSUME method = "cp3", Len(dst) >= Chunk PROVE CopyDescribes'
    <3>1. dst \in Seq(Int) /\ meta \in CopyLists(src, FoundIn("cp3", src, dst))
      BY <2>1, <2>2 DEF RebuildInv, CopyDescribes
    <3>2. Lists(meta, src) /\ summer = NewSummer /\ Slides
      BY <2>1, <2>2 DEF CopyInv, Slides
    <3>3. MarksEnd(src, dst, meta, meta', "cp3", Chunk)
      BY <1>1, <1>4, <2>2, <3>1, <3>2, FirstMarks DEF Long
    <3>4. meta' \in CopyLists(src, FoundIn("cp3", src, dst))
      <4>1. PICK c \in Nat, L \in Nat : c = Chunk /\ L = Len(dst) /\ c >= Chunk /\ c <= L
        <5>1. Chunk \in Nat /\ Len(dst) \in Nat /\ Chunk >= Chunk /\ Chunk <= Len(dst)
          BY <2>2, <3>1, ChunkFacts
        <5> QED
          BY <5>1
      <4>2. MarksEnd(src, dst, meta, meta', "cp3", c)
        BY <3>3, <4>1
      <4> QED
        BY <1>1, <3>1, <4>1, <4>2, CopyListRolls
    <3> QED
      BY <2>1, <2>2, <3>4 DEF CopyDescribes
  <2> QED
    BY <2>1, <2>2 DEF RebuildInv
<1>5. CASE Local!Refill
  <2>1. stage = "batch" /\ stage' = "slide" /\ UNCHANGED <<method, src, dst, meta>>
    BY <1>5 DEF Local!Refill
  <2> QED
    BY <2>1 DEF RebuildInv, CopyDescribes
<1>6. CASE Local!Slide
  <2>1. stage = "slide" /\ stage' = "slide" /\ UNCHANGED <<method, src, dst>>
    BY <1>6 DEF Local!Slide
  <2>2. ASSUME method = "cp3", Len(dst) >= Chunk PROVE CopyDescribes'
    <3>1. dst \in Seq(Int) /\ meta \in CopyLists(src, FoundIn("cp3", src, dst))
      BY <2>1, <2>2 DEF RebuildInv, CopyDescribes
    <3>2. Slides /\ Long /\ Marking /\ InBatch /\ left \in Nat
      BY <2>1, <2>2, <3>1 DEF CopyInv, Slides, Long
    <3>3. curr + 1 \in Chunk .. Len(dst) /\ MarksEnd(src, dst, meta, meta', "cp3", curr + 1)
      BY <1>1, <1>6, <2>2, <3>2, SlideMarks
    <3>4. meta' \in CopyLists(src, FoundIn("cp3", src, dst))
      <4>1. PICK n : n = curr + 1
        OBVIOUS
      <4>2. n \in Nat /\ n >= Chunk /\ n <= Len(dst) /\ MarksEnd(src, dst, meta, meta', "cp3", n)
        BY <3>1, <3>3, <4>1, ChunkFacts
      <4> QED
        BY <1>1, <3>1, <4>2, CopyListRolls
    <3> QED
      BY <2>1, <2>2, <3>4 DEF CopyDescribes
  <2> QED
    BY <2>1, <2>2 DEF RebuildInv
<1>7. CASE Local!BatchDone
  <2>1. stage = "slide" /\ stage' = "batch" /\ UNCHANGED <<method, src, dst, meta>>
    BY <1>7 DEF Local!BatchDone
  <2> QED
    BY <2>1 DEF RebuildInv, CopyDescribes
<1>8. CASE Local!ScanDone
  <2>1. /\ stage = "batch" /\ stage' = IF method = "cp3" THEN "construct" ELSE "done"
        /\ UNCHANGED <<method, src, dst, meta>>
    BY <1>8 DEF Local!ScanDone
  <2> QED
    BY <2>1 DEF RebuildInv, CopyDescribes
<1>9. CASE Local!Skip
  <2>1. stage = "skip" /\ stage' = "construct" /\ UNCHANGED <<method, src, dst>>
    BY <1>9 DEF Local!Skip
  <2>2. ASSUME Len(dst) >= Chunk PROVE CopyDescribes'
    <3>1. PICK S : S = FoundIn("cp7", src, dst)
      OBVIOUS
    <3>2. dst \in Seq(Int) /\ meta \in CopyLists(src, S) /\ method = "cp7"
      BY <2>1, <2>2, <3>1 DEF RebuildInv, CopyDescribes
    <3>3. meta' \in CopyLists(src, S)
      BY <1>1, <1>9, <3>1, <3>2, CopyListSkips
    <3> QED
      BY <2>1, <3>1, <3>2, <3>3 DEF CopyDescribes
  <2> QED
    BY <2>1, <2>2 DEF RebuildInv
<1>10. CASE Local!Construct
  <2>1. stage = "construct" /\ stage' = "done" /\ UNCHANGED <<method, src, dst, meta>>
    BY <1>10 DEF Local!Construct
  <2>2. ASSUME method \in {"cp3", "cp7"}, Len(dst) >= Chunk
        PROVE  /\ CopyDescribes'
               /\ cst' \in Seq(Int)
               /\ BuiltUpto(method, cst', meta, src, dst, Remote!Blocks(src))
    <3>1. dst \in Seq(Int) /\ CopyDescribes
      BY <2>1, <2>2 DEF RebuildInv
    <3>2. cst' \in Seq(Int) /\ BuiltUpto(method, cst', meta, src, dst, Remote!Blocks(src))
      BY <1>1, <1>10, <3>1, ConstructBuilds DEF CopyDescribes
    <3> QED
      BY <2>1, <3>1, <3>2 DEF CopyDescribes
  <2>3. Remote!Blocks(src)' = Remote!Blocks(src)
    BY <2>1 DEF Remote!Blocks
  <2> QED
    BY <2>1, <2>2, <2>3 DEF RebuildInv
<1> QED
  BY <1>2, <1>3, <1>4, <1>5, <1>6, <1>7, <1>8, <1>9, <1>10 DEF Local!Next

LEMMA RebuildInvHolds ==
  ASSUME CopyFiles, Heap \in 0 .. MapBuffer PROVE Local!Spec => []RebuildInv
<1>1. Local!Init => RebuildInv
  BY DEF Local!Init, RebuildInv
<1>2. CopyInv /\ RebuildInv /\ [Local!Next]_(Local!vars) => RebuildInv'
  BY RebuildStep
<1> QED
  BY <1>1, <1>2, CopyInvHolds, PTL DEF Local!Spec

\* The bytes of a chunk, as the properties of the copies name them.
LEMMA PieceIs ==
  ASSUME NEW f \in Seq(Int), NEW k \in Nat, NEW o \in Nat, NEW l \in Nat,
         BlockLies(f, k, o, l), NEW b, Len(b) = Len(f)
  PROVE  Local!BlockOf(b, k) = SubSeq(b, o + 1, o + l)
<1>1. PICK c \in Nat \ {0}, L \in Nat : c = Chunk /\ L = Len(f)
  <2>1. Len(f) \in Nat
    OBVIOUS
  <2> QED
    BY <2>1, ChunkFacts
<1>2. o = (k - 1) * c /\ l <= c /\ o + l <= L /\ (l = c \/ o + l = L)
  BY <1>1 DEF BlockLies
<1>3. k * c = o + c
  <2>1. k * c = (k - 1) * c + c
    BY <1>1
  <2> QED
    BY <1>2, <2>1
<1>4. Local!Min({k * Chunk, Len(b)}) = o + l
  <2>1. PICK x \in Nat : x = o + c
    OBVIOUS
  <2>2. Min({x, L}) = IF x <= L THEN x ELSE L
    BY MinIs
  <2>3. (IF x <= L THEN x ELSE L) = o + l
    BY <1>1, <1>2, <2>1
  <2>4. k * Chunk = x /\ Len(b) = L
    BY <1>1, <1>3, <2>1
  <2> QED
    BY <2>2, <2>3, <2>4, LocalMap
<1> QED
  BY <1>1, <1>2, <1>4 DEF Local!BlockOf

\* Rebuilt (cp3, cp7): the file that is built is as long as src and equal to it chunk by
\* chunk, but for a chunk that is said to be over the end of dst, and, in cp3, for
\* other bytes with the weak sum of the chunk. It is so for every file and every
\* size of chunk, buffer, batch and ring.
THEOREM CopiesRebuild ==
  ASSUME CopyFiles, Heap \in 0 .. MapBuffer PROVE Local!Spec => []Local!Rebuilt
<1>1. CopyInv /\ RebuildInv => Local!Rebuilt
  <2> SUFFICES ASSUME CopyInv, RebuildInv, stage = "done", method \in {"cp3", "cp7"},
                      Len(dst) >= Chunk
               PROVE  /\ Len(cst) = Len(src)
                      /\ \A k \in DOMAIN meta :
                           \/ Local!BlockOf(cst, k) = Local!BlockOf(src, k)
                           \/ Local!PastEnd(k)
                           \/ /\ method = "cp3" /\ ~meta[k].from
                              /\ Local!Sum1(Local!BlockOf(cst, k)) = meta[k].weak
    BY DEF Local!Rebuilt
  <2>1. /\ src \in Seq(Int) /\ dst \in Seq(Int) /\ cst \in Seq(Int)
        /\ meta \in CopyLists(src, FoundIn(method, src, dst))
        /\ BuiltUpto(method, cst, meta, src, dst, Remote!Blocks(src))
    BY DEF CopyInv, RebuildInv, CopyDescribes
  <2>2. Len(cst) = Len(src)
    BY <2>1, UptoAll DEF BuiltUpto
  <2>3. ASSUME NEW k \in DOMAIN meta
        PROVE  \/ Local!BlockOf(cst, k) = Local!BlockOf(src, k)
               \/ Local!PastEnd(k)
               \/ /\ method = "cp3" /\ ~meta[k].from
                  /\ Local!Sum1(Local!BlockOf(cst, k)) = meta[k].weak
    <3>1. PICK i \in 1 .. Remote!Blocks(src) : i = k
      <4>1. DOMAIN meta = 1 .. Remote!Blocks(src)
        BY <2>1, ListReads
      <4> QED
        BY <4>1
    <3>2. PICK o \in Nat, l \in Nat : BlockLies(src, i, o, l)
      BY <2>1, BlocksLie
    <3>3. i \in Nat
      BY <2>1, BlocksLie
    <3>4. PICK b : b = SubSeq(cst, o + 1, o + l) /\ b = Local!BlockOf(cst, i)
      BY <2>1, <2>2, <3>2, <3>3, PieceIs
    <3>5. PICK d : d = Remote!Block(src, i) /\ d = Local!BlockOf(src, i)
      <4>1. Local!BlockOf(src, i) = SubSeq(src, o + 1, o + l)
        BY <2>1, <3>2, <3>3, PieceIs
      <4>2. Remote!Block(src, i) = SubSeq(src, o + 1, o + l)
        BY <3>2 DEF BlockLies
      <4> QED
        BY <4>1, <4>2
    <3>6. GoodPiece(method, b, meta[i], src, dst, i)
      BY <2>1, <3>2, <3>4 DEF BuiltUpto
    <3>7. Local!Sum1(b) = Sum1(b)
      BY SameSum
    <3> QED
      BY <3>1, <3>4, <3>5, <3>6, <3>7 DEF GoodPiece, Local!PastEnd
  <2> QED
    BY <2>2, <2>3
<1> QED
  BY <1>1, CopyInvHolds, RebuildInvHolds, PTL

================================================================================
