----------------------------- MODULE BoundedFifo -----------------------------
(***************************************************************************)
(* What a TaskQueue<T> promises to its callers: a first-in first-out       *)
(* buffer of at most Limit elements in which an element is put once and    *)
(* taken once.  Each operation is one atomic step; there are no threads,   *)
(* locks or retries here.  TaskQueue.tla is shown to implement it.         *)
(***************************************************************************)
EXTENDS Naturals, Sequences

CONSTANTS Items,  \* the pointers that may be queued
          Limit   \* the capacity given to the constructor

VARIABLES buffer,     \* the elements now in it, oldest first
          accepted,   \* every element ever put, in the order it was put
          delivered   \* every element ever taken, in the order it was taken

vars == <<buffer, accepted, delivered>>

Init ==
  /\ buffer = <<>>
  /\ accepted = <<>>
  /\ delivered = <<>>

Put(i) ==
  /\ Len(buffer) < Limit
  /\ buffer' = Append(buffer, i)
  /\ accepted' = Append(accepted, i)
  /\ UNCHANGED delivered

Take ==
  /\ buffer # <<>>
  /\ delivered' = Append(delivered, Head(buffer))
  /\ buffer' = Tail(buffer)
  /\ UNCHANGED accepted

Next == Take \/ \E i \in Items : Put(i)

Spec == Init /\ [][Next]_vars
=============================================================================
