------------------------------ MODULE CircleQueue ------------------------------
(***************************************************************************)
(* type::CircleQueue, the ring that holds the window of a rolling          *)
(* checksum, as operators on a record: the cells data_ (numbered from 0),  *)
(* capacity_, size_, and the positions front_ and end_ of the first element *)
(* and of the next free cell.                                              *)
(***************************************************************************)
EXTENDS Integers, Sequences

CONSTANT Junk    \* what a cell that was never written happens to hold

\* The constructor: room for ten elements more than asked for.
NewRing(size) ==
  [data |-> [i \in 0 .. size + 9 |-> Junk], capacity |-> size + 10,
   size |-> 0, front |-> 0, end |-> 0]

\* The position after i, where the ring closes.
After(q, i) == IF i >= q.capacity - 1 THEN 0 ELSE i + 1

\* The new array. capacity_ is already the new one when a wrapped ring is
\* unrolled, so the cells up to the end of the OLD array are miscounted unless
\* the capacity stays: cells beyond the old array, and cells nothing is moved
\* to, hold junk.
Moved(q, n) ==
  LET wrapped == q.front > q.end
      tail    == n - q.front
      from(i) == IF wrapped /\ i >= tail THEN i - tail ELSE q.front + i
      count   == CASE q.front < q.end -> q.size
                   [] wrapped         -> tail + q.end
                   [] OTHER           -> 0
  IN  [i \in 0 .. n - 1 |->
         IF i < count /\ from(i) < q.capacity THEN q.data[from(i)] ELSE Junk]

Realloc(q, n) == [data |-> Moved(q, n), capacity |-> n, size |-> q.size,
                  front |-> 0, end |-> q.size]

Push(q, t) ==
  LET r == IF q.size >= q.capacity - 1 THEN Realloc(q, 2 * q.capacity) ELSE q
  IN  [r EXCEPT !.data[r.end] = t, !.end = After(r, r.end), !.size = @ + 1]

Pop(q) ==
  LET r == IF q.size < q.capacity \div 3 /\ q.capacity > 15
             THEN Realloc(q, q.capacity \div 2) ELSE q
  IN  IF q.size <= 0 THEN q
                     ELSE [r EXCEPT !.front = After(r, r.front), !.size = @ - 1]

FrontOf(q) == q.data[q.front]
Clear(q)   == [q EXCEPT !.front = 0, !.size = 0, !.end = 0]
GetData(q) == Realloc(q, q.capacity)

--------------------------------------------------------------------------------
(* What a ring stands for.                                                     *)

\* The cell of the i-th element.
Cell(q, i) == IF q.front + i - 1 < q.capacity THEN q.front + i - 1
                                              ELSE q.front + i - 1 - q.capacity
Contents(q) == [i \in 1 .. q.size |-> q.data[Cell(q, i)]]

\* The rings of n cells whose positions agree with size_.
Rings(T, n) ==
  {q \in [data : [0 .. n - 1 -> T], capacity : {n}, size : 0 .. n - 1,
          front : 0 .. n - 1, end : 0 .. n - 1] : q.end = Cell(q, q.size + 1)}

================================================================================
