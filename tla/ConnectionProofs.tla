--------------------------- MODULE ConnectionProofs --------------------------
(***************************************************************************)
(* Proofs about Connection for any number of requests, any capacity of the *)
(* packet queues and of the kernel's buffers, and both ways to send.  That *)
(* the path is first in, first out comes first; with synchronous calls it  *)
(* then says which reply a call can get, and that at most one packet is    *)
(* under way, so that no loop can be held up by another packet.            *)
(***************************************************************************)
EXTENDS Connection, SequenceTheorems, TLAPS

-----------------------------------------------------------------------------
(* Facts about concatenation. *)

\* Appending to the queued part of a history is appending to the history.
LEMMA AppendToConcat ==
  ASSUME NEW S, NEW t \in Seq(S), NEW q \in Seq(S), NEW e \in S
  PROVE  Append(t \o q, e) = t \o Append(q, e)
<1>1. /\ t \o q \in Seq(S)
      /\ <<e>> \in Seq(S)
  BY ConcatProperties
<1>2. /\ Append(t \o q, e) = (t \o q) \o <<e>>
      /\ Append(q, e) = q \o <<e>>
  BY <1>1, AppendIsConcat
<1>3. QED
  BY <1>1, <1>2, ConcatAssociative

\* Moving the head of the second part to the end of the first changes nothing.
LEMMA MoveHead ==
  ASSUME NEW S, NEW t \in Seq(S), NEW q \in Seq(S), q # <<>>
  PROVE  t \o q = Append(t, Head(q)) \o Tail(q)
<1>1. /\ Head(q) \in S
      /\ Tail(q) \in Seq(S)
      /\ <<Head(q)>> \in Seq(S)
  BY HeadTailProperties
<1>2. q = <<Head(q)>> \o Tail(q)
  <2>1. Len(<<Head(q)>> \o Tail(q)) = Len(q)
    BY <1>1, ConcatProperties, HeadTailProperties, LenProperties
  <2>2. ASSUME NEW i \in 1..Len(q)
        PROVE  q[i] = (<<Head(q)>> \o Tail(q))[i]
    BY <1>1, ConcatProperties, HeadTailProperties, LenProperties
  <2>3. QED
    BY <1>1, <2>1, <2>2, ConcatProperties, SeqEqual
<1>3. Append(t, Head(q)) = t \o <<Head(q)>>
  BY <1>1, AppendIsConcat
<1>4. QED
  BY <1>1, <1>2, <1>3, ConcatAssociative, SMTT(30)

\* Removing the head of the first part removes the head of the whole.
LEMMA TailOfConcat ==
  ASSUME NEW S, NEW q \in Seq(S), NEW r \in Seq(S), q # <<>>
  PROVE  /\ q \o r # <<>>
         /\ Head(q \o r) = Head(q)
         /\ Tail(q \o r) = Tail(q) \o r
<1>1. /\ Tail(q) \in Seq(S) /\ Len(Tail(q)) = Len(q) - 1
      /\ q \o r \in Seq(S) /\ Len(q \o r) = Len(q) + Len(r)
      /\ Len(q) \in Nat \ {0} /\ Len(r) \in Nat
  BY HeadTailProperties, ConcatProperties, LenProperties, EmptySeq
<1>2. q \o r # <<>> /\ Head(q \o r) = Head(q)
  BY <1>1, ConcatProperties, HeadTailProperties, LenProperties
<1>3. /\ Tail(q \o r) \in Seq(S) /\ Len(Tail(q \o r)) = Len(q) - 1 + Len(r)
      /\ Tail(q) \o r \in Seq(S) /\ Len(Tail(q) \o r) = Len(q) - 1 + Len(r)
  BY <1>1, <1>2, HeadTailProperties, ConcatProperties
<1>4. ASSUME NEW i \in 1..Len(Tail(q \o r))
      PROVE  Tail(q \o r)[i] = (Tail(q) \o r)[i]
  <2>1. Tail(q \o r)[i] = (q \o r)[i + 1]
    BY <1>1, <1>2, <1>3, HeadTailProperties
  <2>2. CASE i <= Len(q) - 1
    BY <1>1, <1>3, <2>1, <2>2, ConcatProperties, HeadTailProperties
  <2>3. CASE i > Len(q) - 1
    BY <1>1, <1>3, <2>1, <2>3, ConcatProperties
  <2>4. QED
    BY <1>1, <1>3, <2>2, <2>3
<1>5. QED
  BY <1>2, <1>3, <1>4, SeqEqual

-----------------------------------------------------------------------------
(* The invariant. *)

Types ==
  /\ packets \in [Sides -> Seq(Nat)]
  /\ stream \in [Sides -> Seq(Nat)]
  /\ inbox \in [Sides -> Seq(Nat)]
  /\ hand \in [Sides -> Nat]
  /\ loop \in [Sides -> {"wait", "recv", "chunk", "handler", "echo", "modify",
                         "pop", "send"}]
  /\ app \in {"idle", "push", "modify", "spin", "use"}
  /\ sent \in Nat /\ ret \in Nat
  /\ app # "idle" => sent > 0
  /\ received \in Seq(Nat) /\ returned \in Seq(Nat)

\* recv_buffer_ holds a complete packet only while Chunking is at it.
Drained ==
  \A s \in Sides : loop[s] \in {"wait", "recv", "pop", "send"} => inbox[s] = <<>>

\* How far a synchronous call is, by what came back of it.
CallInTurn ==
  synchronous =>
    /\ ReplyMatchesCall
    /\ app \in {"idle", "use"} => Len(received) = sent /\ Len(returned) = sent
    /\ app \in {"push", "modify", "spin"} => needAck /\ Len(returned) = sent - 1
    /\ app = "push" => ~replied /\ Len(received) = sent - 1
    /\ app \in {"modify", "spin"} =>
         IF replied THEN Len(received) = sent /\ ret = sent
                    ELSE Len(received) = sent - 1

\* Nobody waits for a reply to AsyncSendPacket.
NoneReturned == ~synchronous => app \in {"idle", "push", "modify"} /\ returned = <<>>

\* The inductive invariant.
IInv == Types /\ Drained /\ PathIsFifo /\ CallInTurn /\ NoneReturned

-----------------------------------------------------------------------------
(* The path, from the client's buffer back to the client's queue, piece by  *)
(* piece.                                                                   *)

A1 == inbox["client"]
A2 == stream["client"]
A3 == Carried("server", "send")
A4 == packets["server"]
A5 == Carried("server", "echo")
A6 == inbox["server"]
A7 == stream["server"]
A8 == Carried("client", "send")
A9 == packets["client"]

P2 == A1 \o A2
P3 == P2 \o A3
P4 == P3 \o A4
P5 == P4 \o A5
P6 == P5 \o A6
P7 == P6 \o A7
P8 == P7 \o A8
P9 == P8 \o A9

LEMMA PathInPieces == InTransit = P9
  BY DEF InTransit, A1, A2, A3, A4, A5, A6, A7, A8, A9, P2, P3, P4, P5, P6, P7, P8, P9

\* The pieces are sequences, and so is each beginning of the path.
LEMMA Pieces ==
  Types => /\ A1 \in Seq(Nat) /\ A2 \in Seq(Nat) /\ A3 \in Seq(Nat)
           /\ A4 \in Seq(Nat) /\ A5 \in Seq(Nat) /\ A6 \in Seq(Nat)
           /\ A7 \in Seq(Nat) /\ A8 \in Seq(Nat) /\ A9 \in Seq(Nat)
<1> SUFFICES ASSUME Types
             PROVE  /\ A1 \in Seq(Nat) /\ A2 \in Seq(Nat) /\ A3 \in Seq(Nat)
                    /\ A4 \in Seq(Nat) /\ A5 \in Seq(Nat) /\ A6 \in Seq(Nat)
                    /\ A7 \in Seq(Nat) /\ A8 \in Seq(Nat) /\ A9 \in Seq(Nat)
  OBVIOUS
<1>1. /\ A1 \in Seq(Nat) /\ A2 \in Seq(Nat) /\ A4 \in Seq(Nat)
      /\ A6 \in Seq(Nat) /\ A7 \in Seq(Nat) /\ A9 \in Seq(Nat)
  BY DEF Types, Sides, A1, A2, A4, A6, A7, A9
<1>2. hand["client"] \in Nat /\ hand["server"] \in Nat
  BY DEF Types, Sides
<1>3. <<hand["client"]>> \in Seq(Nat) /\ <<hand["server"]>> \in Seq(Nat)
      /\ <<>> \in Seq(Nat)
  BY <1>2
<1>4. A3 \in Seq(Nat) /\ A5 \in Seq(Nat) /\ A8 \in Seq(Nat)
  BY <1>3 DEF A3, A5, A8, Carried
<1>5. QED
  BY <1>1, <1>4

LEMMA Beginnings ==
  ASSUME Types
  PROVE  /\ P2 \in Seq(Nat) /\ P3 \in Seq(Nat) /\ P4 \in Seq(Nat)
         /\ P5 \in Seq(Nat) /\ P6 \in Seq(Nat) /\ P7 \in Seq(Nat)
         /\ P8 \in Seq(Nat) /\ P9 \in Seq(Nat)
<1>1. \A a, b \in Seq(Nat) : a \o b \in Seq(Nat)
  BY ConcatProperties
<1>2. P2 \in Seq(Nat)
  BY <1>1, Pieces DEF P2
<1>3. P3 \in Seq(Nat)
  BY <1>1, <1>2, Pieces DEF P3
<1>4. P4 \in Seq(Nat)
  BY <1>1, <1>3, Pieces DEF P4
<1>5. P5 \in Seq(Nat)
  BY <1>1, <1>4, Pieces DEF P5
<1>6. P6 \in Seq(Nat)
  BY <1>1, <1>5, Pieces DEF P6
<1>7. P7 \in Seq(Nat)
  BY <1>1, <1>6, Pieces DEF P7
<1>8. P8 \in Seq(Nat)
  BY <1>1, <1>7, Pieces DEF P8
<1>9. P9 \in Seq(Nat)
  BY <1>1, <1>8, Pieces DEF P9
<1>10. QED
  BY <1>2, <1>3, <1>4, <1>5, <1>6, <1>7, <1>8, <1>9

\* A joint can be looked at from either side.
Joint(x, y, z) == (x \o y) \o z = x \o (y \o z)

LEMMA Joints == \A x, y, z \in Seq(Nat) : Joint(x, y, z)
<1> SUFFICES ASSUME NEW x \in Seq(Nat), NEW y \in Seq(Nat), NEW z \in Seq(Nat)
             PROVE  (x \o y) \o z = x \o (y \o z)
  BY DEF Joint
<1>1. QED
  BY ConcatAssociative, SMTT(30)

\* Three ways in which a packet moves on between neighbours.
LEMMA WholeMoves ==
  ASSUME NEW S, NEW q \in Seq(S)
  PROVE  <<>> \o q = q \o <<>>
  BY ConcatEmptySeq

LEMMA HeadMoves ==
  ASSUME NEW S, NEW q \in Seq(S), q # <<>>
  PROVE  <<>> \o q = <<Head(q)>> \o Tail(q)
<1>1. <<>> \in Seq(S)
  OBVIOUS
<1>2. <<>> \o q = Append(<<>>, Head(q)) \o Tail(q)
  BY <1>1, MoveHead
<1>3. Append(<<>>, Head(q)) = <<Head(q)>>
  OBVIOUS
<1>4. QED
  BY <1>2, <1>3

LEMMA LastMoves ==
  ASSUME NEW S, NEW q \in Seq(S), NEW e \in S
  PROVE  q \o <<e>> = Append(q, e) \o <<>>
<1>1. Append(q, e) \in Seq(S) /\ Append(q, e) = q \o <<e>>
  BY AppendProperties, AppendIsConcat
<1>2. QED
  BY <1>1, ConcatEmptySeq

\* Without the first packet of the client's buffer, the path is without its first.
LEMMA FirstOfPath ==
  ASSUME Types, A1 # <<>>
  PROVE  /\ InTransit # <<>> /\ Head(InTransit) = Head(A1)
         /\ Tail(InTransit) =
              Tail(A1) \o A2 \o A3 \o A4 \o A5 \o A6 \o A7 \o A8 \o A9
<1>1. \A q, r \in Seq(Nat) :
        q # <<>> => q \o r # <<>> /\ Head(q \o r) = Head(q) /\ Tail(q \o r) = Tail(q) \o r
  BY TailOfConcat, Zenon
<1>2. P2 # <<>> /\ Head(P2) = Head(A1) /\ Tail(P2) = Tail(A1) \o A2
  <2>1. A1 \in Seq(Nat) /\ A2 \in Seq(Nat)
    BY Pieces
  <2>2. QED
    BY <1>1, <2>1, Zenon DEF P2
<1>3. P3 # <<>> /\ Head(P3) = Head(P2) /\ Tail(P3) = Tail(P2) \o A3
  <2>1. P2 \in Seq(Nat) /\ A3 \in Seq(Nat) /\ P2 # <<>>
    BY <1>2, Pieces, Beginnings
  <2>2. QED
    BY <1>1, <2>1, Zenon DEF P3
<1>4. P4 # <<>> /\ Head(P4) = Head(P3) /\ Tail(P4) = Tail(P3) \o A4
  <2>1. P3 \in Seq(Nat) /\ A4 \in Seq(Nat) /\ P3 # <<>>
    BY <1>3, Pieces, Beginnings
  <2>2. QED
    BY <1>1, <2>1, Zenon DEF P4
<1>5. P5 # <<>> /\ Head(P5) = Head(P4) /\ Tail(P5) = Tail(P4) \o A5
  <2>1. P4 \in Seq(Nat) /\ A5 \in Seq(Nat) /\ P4 # <<>>
    BY <1>4, Pieces, Beginnings
  <2>2. QED
    BY <1>1, <2>1, Zenon DEF P5
<1>6. P6 # <<>> /\ Head(P6) = Head(P5) /\ Tail(P6) = Tail(P5) \o A6
  <2>1. P5 \in Seq(Nat) /\ A6 \in Seq(Nat) /\ P5 # <<>>
    BY <1>5, Pieces, Beginnings
  <2>2. QED
    BY <1>1, <2>1, Zenon DEF P6
<1>7. P7 # <<>> /\ Head(P7) = Head(P6) /\ Tail(P7) = Tail(P6) \o A7
  <2>1. P6 \in Seq(Nat) /\ A7 \in Seq(Nat) /\ P6 # <<>>
    BY <1>6, Pieces, Beginnings
  <2>2. QED
    BY <1>1, <2>1, Zenon DEF P7
<1>8. P8 # <<>> /\ Head(P8) = Head(P7) /\ Tail(P8) = Tail(P7) \o A8
  <2>1. P7 \in Seq(Nat) /\ A8 \in Seq(Nat) /\ P7 # <<>>
    BY <1>7, Pieces, Beginnings
  <2>2. QED
    BY <1>1, <2>1, Zenon DEF P8
<1>9. P9 # <<>> /\ Head(P9) = Head(P8) /\ Tail(P9) = Tail(P8) \o A9
  <2>1. P8 \in Seq(Nat) /\ A9 \in Seq(Nat) /\ P8 # <<>>
    BY <1>8, Pieces, Beginnings
  <2>2. QED
    BY <1>1, <2>1, Zenon DEF P9
<1>10. QED
  BY <1>2, <1>3, <1>4, <1>5, <1>6, <1>7, <1>8, <1>9, PathInPieces

\* How long the path is.
LEMMA PathLength ==
  ASSUME Types
  PROVE  Len(InTransit) = Len(A1) + Len(A2) + Len(A3) + Len(A4) + Len(A5)
                          + Len(A6) + Len(A7) + Len(A8) + Len(A9)
<1>1. \A a, b \in Seq(Nat) : Len(a \o b) = Len(a) + Len(b)
  BY ConcatProperties
<1>2. Len(P2) = Len(A1) + Len(A2) /\ Len(P3) = Len(P2) + Len(A3)
  BY <1>1, Pieces, Beginnings DEF P2, P3
<1>3. Len(P4) = Len(P3) + Len(A4) /\ Len(P5) = Len(P4) + Len(A5)
  BY <1>1, Pieces, Beginnings DEF P4, P5
<1>4. Len(P6) = Len(P5) + Len(A6) /\ Len(P7) = Len(P6) + Len(A7)
  BY <1>1, Pieces, Beginnings DEF P6, P7
<1>5. Len(P8) = Len(P7) + Len(A8) /\ Len(P9) = Len(P8) + Len(A9)
  BY <1>1, Pieces, Beginnings DEF P8, P9
<1>6. QED
  BY <1>2, <1>3, <1>4, <1>5, PathInPieces
-----------------------------------------------------------------------------
(* Types.                                                                   *)

\* Recv, without what it tells epoll.
LEMMA RecvTakesAll ==
  ASSUME NEW s \in Sides, Recv(s)
  PROVE  /\ loop[s] = "recv"
         /\ \/ /\ inbox' = [inbox EXCEPT ![s] = stream[s]]
               /\ stream' = [stream EXCEPT ![s] = <<>>]
               /\ loop' = [loop EXCEPT ![s] = "chunk"]
            \/ /\ UNCHANGED <<inbox, stream>>
               /\ loop' = [loop EXCEPT ![s] = "wait"]
         /\ UNCHANGED <<packets, hand, app, sent, returned, ret, received>>
  BY Zenon DEF Recv, Goto, appVars, syncVars

LEMMA TypesHold == Init => Types
  BY ConnectionAssumption, EmptySeq DEF Init, Types, Sides

LEMMA TypesKept ==
  ASSUME Types, [Next]_vars
  PROVE  Types'
<1> USE DEF Types, netVars, appVars, syncVars, Goto
<1>1. CASE AppCall
  BY <1>1 DEF AppCall
<1>2. CASE AppPush
  BY <1>2 DEF AppPush, Sides
<1>3. CASE AppModify
  BY <1>3 DEF AppModify, SetEvent
<1>4. CASE AppReturn
  BY <1>4 DEF AppReturn
<1>5. CASE AppDelete
  BY <1>5 DEF AppDelete
<1>6. ASSUME NEW s \in Sides, EpollWait(s)
      PROVE  Types'
  BY <1>6 DEF EpollWait
<1>7. ASSUME NEW s \in Sides, Recv(s)
      PROVE  Types'
  <2>1. /\ stream[s] \in Seq(Nat) /\ <<>> \in Seq(Nat)
        /\ UNCHANGED <<packets, hand, app, sent, returned, ret, received>>
    BY <1>7, RecvTakesAll
  <2>2. inbox' \in [Sides -> Seq(Nat)] /\ stream' \in [Sides -> Seq(Nat)]
    BY <1>7, <2>1, RecvTakesAll
  <2>3. loop' \in [Sides -> {"wait", "recv", "chunk", "handler", "echo", "modify",
                             "pop", "send"}]
    BY <1>7, RecvTakesAll
  <2>4. QED
    BY <2>1, <2>2, <2>3
<1>8. ASSUME NEW s \in Sides, Chunk(s)
      PROVE  Types'
  <2>1. Head(inbox[s]) \in Nat /\ Tail(inbox[s]) \in Seq(Nat)
    BY <1>8, HeadTailProperties DEF Chunk
  <2>. received' \in {received, Append(received, Head(inbox[s]))}
       /\ ret' \in {ret, Head(inbox[s])}
    BY <1>8 DEF Chunk
  <2>. Append(received, Head(inbox[s])) \in Seq(Nat)
    BY <2>1, AppendProperties
  <2>2. received' \in Seq(Nat) /\ ret' \in Nat
    BY <2>1
  <2>3. inbox' = [inbox EXCEPT ![s] = Tail(inbox[s])]
        /\ hand' = [hand EXCEPT ![s] = Head(inbox[s])]
    BY <1>8, Zenon DEF Chunk
  <2>. inbox' \in [Sides -> Seq(Nat)] /\ hand' \in [Sides -> Nat]
    BY <2>1, <2>3
  <2>. UNCHANGED <<packets, stream, app, sent, returned>>
    BY <1>8 DEF Chunk
  <2>4. loop' \in [Sides -> {"wait", "recv", "chunk", "handler", "echo", "modify",
                             "pop", "send"}]
    BY <1>8 DEF Chunk
  <2>5. QED
    BY <2>2, <2>4
<1>9. ASSUME NEW s \in Sides, ChunkDone(s)
      PROVE  Types'
  BY <1>9 DEF ChunkDone
<1>10. CASE ClientOnReceived
  BY <1>10 DEF ClientOnReceived
<1>11. CASE ServerOnReceived
  BY <1>11 DEF ServerOnReceived, Sides
<1>12. CASE ServerModify
  BY <1>12 DEF ServerModify, SetEvent
<1>13. ASSUME NEW s \in Sides, OutputPop(s)
      PROVE  Types'
  <2>1. packets[s] # <<>> =>
          Head(packets[s]) \in Nat /\ Tail(packets[s]) \in Seq(Nat)
    BY HeadTailProperties
  <2>2. QED
    BY <1>13, <2>1 DEF OutputPop
<1>14. ASSUME NEW s \in Sides, OutputSend(s)
      PROVE  Types'
  BY <1>14 DEF OutputSend, Other, Sides
<1>15. CASE UNCHANGED vars
  BY <1>15 DEF vars
<1>16. QED
  BY <1>1, <1>2, <1>3, <1>4, <1>5, <1>6, <1>7, <1>8, <1>9, <1>10, <1>11, <1>12,
     <1>13, <1>14, <1>15 DEF Next, App, Loop, HandleOutput, Quiet

LEMMA DrainedKept ==
  ASSUME Types, Drained, [Next]_vars
  PROVE  Drained'
<1> USE DEF Types, Drained, netVars, appVars, syncVars, Goto
<1>1. ASSUME App
      PROVE  Drained'
  BY <1>1 DEF App, AppCall, AppPush, AppModify, AppReturn, AppDelete
<1>2. ASSUME NEW s \in Sides, EpollWait(s)
      PROVE  Drained'
  BY <1>2 DEF EpollWait
<1>3. ASSUME NEW s \in Sides, Recv(s)
      PROVE  Drained'
  BY <1>3 DEF Recv
<1>4. ASSUME NEW s \in Sides, Chunk(s)
      PROVE  Drained'
  BY <1>4 DEF Chunk
<1>5. ASSUME NEW s \in Sides, ChunkDone(s)
      PROVE  Drained'
  BY <1>5 DEF ChunkDone
<1>6. CASE ClientOnReceived
  BY <1>6 DEF ClientOnReceived
<1>7. CASE ServerOnReceived
  BY <1>7 DEF ServerOnReceived
<1>8. CASE ServerModify
  BY <1>8 DEF ServerModify, SetEvent
<1>9. ASSUME NEW s \in Sides, OutputPop(s)
      PROVE  Drained'
  BY <1>9 DEF OutputPop
<1>10. ASSUME NEW s \in Sides, OutputSend(s)
      PROVE  Drained'
  BY <1>10 DEF OutputSend
<1>11. CASE UNCHANGED vars
  BY <1>11 DEF vars
<1>12. QED
  BY <1>1, <1>2, <1>3, <1>4, <1>5, <1>6, <1>7, <1>8, <1>9, <1>10, <1>11
     DEF Next, Loop, HandleOutput, Quiet

-----------------------------------------------------------------------------
(* The path in each step.                                                   *)

\* The path is what it was when two neighbours are, in sum, what they were, and the
\* other pieces are the same.
LEMMA SamePath ==
  ASSUME Types, Types'
  PROVE  (\/ /\ A1' \o A2' = A1 \o A2
             /\ UNCHANGED <<A3, A4, A5, A6, A7, A8, A9>>
          \/ /\ A2' \o A3' = A2 \o A3
             /\ UNCHANGED <<A1, A4, A5, A6, A7, A8, A9>>
          \/ /\ A3' \o A4' = A3 \o A4
             /\ UNCHANGED <<A1, A2, A5, A6, A7, A8, A9>>
          \/ /\ A4' \o A5' = A4 \o A5
             /\ UNCHANGED <<A1, A2, A3, A6, A7, A8, A9>>
          \/ /\ A5' \o A6' = A5 \o A6
             /\ UNCHANGED <<A1, A2, A3, A4, A7, A8, A9>>
          \/ /\ A6' \o A7' = A6 \o A7
             /\ UNCHANGED <<A1, A2, A3, A4, A5, A8, A9>>
          \/ /\ A7' \o A8' = A7 \o A8
             /\ UNCHANGED <<A1, A2, A3, A4, A5, A6, A9>>
          \/ /\ A8' \o A9' = A8 \o A9
             /\ UNCHANGED <<A1, A2, A3, A4, A5, A6, A7>>)
         => InTransit' = InTransit
<1>1. (/\ A1 \in Seq(Nat) /\ A2 \in Seq(Nat) /\ A3 \in Seq(Nat)
       /\ A4 \in Seq(Nat) /\ A5 \in Seq(Nat) /\ A6 \in Seq(Nat)
       /\ A7 \in Seq(Nat) /\ A8 \in Seq(Nat) /\ A9 \in Seq(Nat))'
  BY Pieces, PTL
<1>2. (InTransit = P9)'
  BY PathInPieces, PTL
<1>3. /\ A1 \in Seq(Nat) /\ A2 \in Seq(Nat) /\ A3 \in Seq(Nat)
      /\ A4 \in Seq(Nat) /\ A5 \in Seq(Nat) /\ A6 \in Seq(Nat)
      /\ A7 \in Seq(Nat) /\ A8 \in Seq(Nat) /\ A9 \in Seq(Nat)
  BY Pieces
<1>4. /\ P2 \in Seq(Nat) /\ P3 \in Seq(Nat) /\ P4 \in Seq(Nat)
      /\ P5 \in Seq(Nat) /\ P6 \in Seq(Nat) /\ P7 \in Seq(Nat)
  BY Beginnings
<1>5. CASE /\ A1' \o A2' = A1 \o A2
          /\ UNCHANGED <<A3, A4, A5, A6, A7, A8, A9>>
  <2>1. P2' = P2
    BY <1>5 DEF P2
  <2>2. QED
    BY <1>2, <1>5, <2>1, PathInPieces DEF P3, P4, P5, P6, P7, P8, P9
<1>6. CASE /\ A2' \o A3' = A2 \o A3
          /\ UNCHANGED <<A1, A4, A5, A6, A7, A8, A9>>
  <2>1. A1' = A1
    BY <1>6
  <2>2. /\ A1 \in Seq(Nat) /\ A2 \in Seq(Nat) /\ A3 \in Seq(Nat)
        /\ A2' \in Seq(Nat) /\ A3' \in Seq(Nat)
    BY <1>1, <1>3, <1>4
  <2>3. Joint(A1, A2', A3') /\ Joint(A1, A2, A3)
    BY <2>2, Joints, Zenon
  <2>4. P3' = P3
    BY <1>6, <2>1, <2>3 DEF Joint, P2, P3
  <2>5. QED
    BY <1>2, <1>6, <2>4, PathInPieces DEF P4, P5, P6, P7, P8, P9
<1>7. CASE /\ A3' \o A4' = A3 \o A4
          /\ UNCHANGED <<A1, A2, A5, A6, A7, A8, A9>>
  <2>1. P2' = P2
    BY <1>7 DEF P2
  <2>2. /\ P2 \in Seq(Nat) /\ A3 \in Seq(Nat) /\ A4 \in Seq(Nat)
        /\ A3' \in Seq(Nat) /\ A4' \in Seq(Nat)
    BY <1>1, <1>3, <1>4
  <2>3. Joint(P2, A3', A4') /\ Joint(P2, A3, A4)
    BY <2>2, Joints, Zenon
  <2>4. P4' = P4
    BY <1>7, <2>1, <2>3 DEF Joint, P3, P4
  <2>5. QED
    BY <1>2, <1>7, <2>4, PathInPieces DEF P5, P6, P7, P8, P9
<1>8. CASE /\ A4' \o A5' = A4 \o A5
          /\ UNCHANGED <<A1, A2, A3, A6, A7, A8, A9>>
  <2>1. P3' = P3
    BY <1>8 DEF P2, P3
  <2>2. /\ P3 \in Seq(Nat) /\ A4 \in Seq(Nat) /\ A5 \in Seq(Nat)
        /\ A4' \in Seq(Nat) /\ A5' \in Seq(Nat)
    BY <1>1, <1>3, <1>4
  <2>3. Joint(P3, A4', A5') /\ Joint(P3, A4, A5)
    BY <2>2, Joints, Zenon
  <2>4. P5' = P5
    BY <1>8, <2>1, <2>3 DEF Joint, P4, P5
  <2>5. QED
    BY <1>2, <1>8, <2>4, PathInPieces DEF P6, P7, P8, P9
<1>9. CASE /\ A5' \o A6' = A5 \o A6
          /\ UNCHANGED <<A1, A2, A3, A4, A7, A8, A9>>
  <2>1. P4' = P4
    BY <1>9 DEF P2, P3, P4
  <2>2. /\ P4 \in Seq(Nat) /\ A5 \in Seq(Nat) /\ A6 \in Seq(Nat)
        /\ A5' \in Seq(Nat) /\ A6' \in Seq(Nat)
    BY <1>1, <1>3, <1>4
  <2>3. Joint(P4, A5', A6') /\ Joint(P4, A5, A6)
    BY <2>2, Joints, Zenon
  <2>4. P6' = P6
    BY <1>9, <2>1, <2>3 DEF Joint, P5, P6
  <2>5. QED
    BY <1>2, <1>9, <2>4, PathInPieces DEF P7, P8, P9
<1>10. CASE /\ A6' \o A7' = A6 \o A7
          /\ UNCHANGED <<A1, A2, A3, A4, A5, A8, A9>>
  <2>1. P5' = P5
    BY <1>10 DEF P2, P3, P4, P5
  <2>2. /\ P5 \in Seq(Nat) /\ A6 \in Seq(Nat) /\ A7 \in Seq(Nat)
        /\ A6' \in Seq(Nat) /\ A7' \in Seq(Nat)
    BY <1>1, <1>3, <1>4
  <2>3. Joint(P5, A6', A7') /\ Joint(P5, A6, A7)
    BY <2>2, Joints, Zenon
  <2>4. P7' = P7
    BY <1>10, <2>1, <2>3 DEF Joint, P6, P7
  <2>5. QED
    BY <1>2, <1>10, <2>4, PathInPieces DEF P8, P9
<1>11. CASE /\ A7' \o A8' = A7 \o A8
          /\ UNCHANGED <<A1, A2, A3, A4, A5, A6, A9>>
  <2>1. P6' = P6
    BY <1>11 DEF P2, P3, P4, P5, P6
  <2>2. /\ P6 \in Seq(Nat) /\ A7 \in Seq(Nat) /\ A8 \in Seq(Nat)
        /\ A7' \in Seq(Nat) /\ A8' \in Seq(Nat)
    BY <1>1, <1>3, <1>4
  <2>3. Joint(P6, A7', A8') /\ Joint(P6, A7, A8)
    BY <2>2, Joints, Zenon
  <2>4. P8' = P8
    BY <1>11, <2>1, <2>3 DEF Joint, P7, P8
  <2>5. QED
    BY <1>2, <1>11, <2>4, PathInPieces DEF P9
<1>12. CASE /\ A8' \o A9' = A8 \o A9
          /\ UNCHANGED <<A1, A2, A3, A4, A5, A6, A7>>
  <2>1. P7' = P7
    BY <1>12 DEF P2, P3, P4, P5, P6, P7
  <2>2. /\ P7 \in Seq(Nat) /\ A8 \in Seq(Nat) /\ A9 \in Seq(Nat)
        /\ A8' \in Seq(Nat) /\ A9' \in Seq(Nat)
    BY <1>1, <1>3, <1>4
  <2>3. Joint(P7, A8', A9') /\ Joint(P7, A8, A9)
    BY <2>2, Joints, Zenon
  <2>4. P9' = P9
    BY <1>12, <2>1, <2>3 DEF Joint, P8, P9
  <2>5. QED
    BY <1>2, <1>12, <2>4, PathInPieces
<1>13. QED
  BY <1>5, <1>6, <1>7, <1>8, <1>9, <1>10, <1>11, <1>12

LEMMA RecvMoves ==
  ASSUME Types, Types', Drained, NEW s \in Sides, Recv(s)
  PROVE  InTransit' = InTransit /\ UNCHANGED <<received, app, sent>>
<1>1. CASE s = "client"
  <2>1. UNCHANGED <<A3, A4, A5, A6, A7, A8, A9>>
    BY <1>1, RecvTakesAll DEF A3, A4, A5, A6, A7, A8, A9, Carried, Types, Sides
  <2>2. (A1' = A2 /\ A2' = <<>>) \/ (A1' = A1 /\ A2' = A2)
    BY <1>1, RecvTakesAll DEF A1, A2, Types, Sides
  <2>3. A1 = <<>>
    BY <1>1, RecvTakesAll DEF Drained, A1, Sides
  <2>4. A1' \o A2' = A1 \o A2
    BY <2>2, <2>3, WholeMoves, Pieces
  <2>5. QED
    BY <2>1, <2>4, SamePath, RecvTakesAll
<1>2. CASE s = "server"
  <2>1. UNCHANGED <<A1, A2, A3, A4, A5, A8, A9>>
    BY <1>2, RecvTakesAll DEF A1, A2, A3, A4, A5, A8, A9, Carried, Types, Sides
  <2>2. (A6' = A7 /\ A7' = <<>>) \/ (A6' = A6 /\ A7' = A7)
    BY <1>2, RecvTakesAll DEF A6, A7, Types, Sides
  <2>3. A6 = <<>>
    BY <1>2, RecvTakesAll DEF Drained, A6, Sides
  <2>4. A6' \o A7' = A6 \o A7
    BY <2>2, <2>3, WholeMoves, Pieces
  <2>5. QED
    BY <2>1, <2>4, SamePath, RecvTakesAll
<1>3. QED
  BY <1>1, <1>2 DEF Sides

LEMMA OutputPopMoves ==
  ASSUME Types, Types', NEW s \in Sides, OutputPop(s)
  PROVE  InTransit' = InTransit /\ UNCHANGED <<received, app, sent>>
<1>1. /\ UNCHANGED <<stream, inbox, received, app, sent>>
      /\ loop[s] = "pop"
  BY DEF OutputPop, netVars, appVars
<1>2. CASE packets[s] = <<>>
  <2>1. /\ UNCHANGED <<packets, hand>>
        /\ loop' = [loop EXCEPT ![s] = "wait"]
    BY <1>2 DEF OutputPop, Goto
  <2>2. UNCHANGED <<A1, A2, A3, A4, A5, A6, A7, A8, A9>>
    BY <1>1, <2>1 DEF A1, A2, A3, A4, A5, A6, A7, A8, A9, Carried, Types, Sides
  <2>3. QED
    BY <1>1, <2>2, SamePath
<1>3. CASE packets[s] # <<>>
  <2>1. /\ hand' = [hand EXCEPT ![s] = Head(packets[s])]
        /\ packets' = [packets EXCEPT ![s] = Tail(packets[s])]
        /\ loop' = [loop EXCEPT ![s] = "send"]
    BY <1>3 DEF OutputPop, Goto
  <2>2. CASE s = "server"
    <3>1. UNCHANGED <<A1, A2, A5, A6, A7, A8, A9>>
      BY <1>1, <2>1, <2>2 DEF A1, A2, A5, A6, A7, A8, A9, Carried, Types, Sides
    <3>2. A3 = <<>> /\ A3' = <<Head(A4)>> /\ A4' = Tail(A4)
      BY <1>1, <2>1, <2>2 DEF A3, A4, Carried, Types, Sides
    <3>3. A3' \o A4' = A3 \o A4
      BY <1>3, <2>2, <3>2, HeadMoves, Pieces DEF A4
    <3>4. QED
      BY <1>1, <3>1, <3>3, SamePath
  <2>3. CASE s = "client"
    <3>1. UNCHANGED <<A1, A2, A3, A4, A5, A6, A7>>
      BY <1>1, <2>1, <2>3 DEF A1, A2, A3, A4, A5, A6, A7, Carried, Types, Sides
    <3>2. A8 = <<>> /\ A8' = <<Head(A9)>> /\ A9' = Tail(A9)
      BY <1>1, <2>1, <2>3 DEF A8, A9, Carried, Types, Sides
    <3>3. A8' \o A9' = A8 \o A9
      BY <1>3, <2>3, <3>2, HeadMoves, Pieces DEF A9
    <3>4. QED
      BY <1>1, <3>1, <3>3, SamePath
  <2>4. QED
    BY <2>2, <2>3 DEF Sides
<1>4. QED
  BY <1>2, <1>3

LEMMA OutputSendMoves ==
  ASSUME Types, Types', NEW s \in Sides, OutputSend(s)
  PROVE  InTransit' = InTransit /\ UNCHANGED <<received, app, sent>>
<1>0. hand[s] \in Nat
  BY DEF Types
<1>1. /\ UNCHANGED <<packets, inbox, received, app, sent>>
      /\ loop[s] = "send" /\ loop' = [loop EXCEPT ![s] = "pop"]
      /\ stream' = [stream EXCEPT ![Other(s)] = Append(stream[Other(s)], hand[s])]
      /\ hand' = [hand EXCEPT ![s] = 0]
  BY DEF OutputSend, Goto, appVars
<1>2. CASE s = "server"
  <2>1. UNCHANGED <<A1, A4, A5, A6, A7, A8, A9>>
    BY <1>1, <1>2 DEF A1, A4, A5, A6, A7, A8, A9, Carried, Other, Types, Sides
  <2>2. A2' = Append(A2, hand[s]) /\ A3 = <<hand[s]>> /\ A3' = <<>>
    BY <1>1, <1>2 DEF A2, A3, Carried, Other, Types, Sides
  <2>3. A2' \o A3' = A2 \o A3
    BY <1>0, <2>2, LastMoves, Pieces
  <2>4. QED
    BY <1>1, <2>1, <2>3, SamePath
<1>3. CASE s = "client"
  <2>1. UNCHANGED <<A1, A2, A3, A4, A5, A6, A9>>
    BY <1>1, <1>3 DEF A1, A2, A3, A4, A5, A6, A9, Carried, Other, Types, Sides
  <2>2. A7' = Append(A7, hand[s]) /\ A8 = <<hand[s]>> /\ A8' = <<>>
    BY <1>1, <1>3 DEF A7, A8, Carried, Other, Types, Sides
  <2>3. A7' \o A8' = A7 \o A8
    BY <1>0, <2>2, LastMoves, Pieces
  <2>4. QED
    BY <1>1, <2>1, <2>3, SamePath
<1>4. QED
  BY <1>2, <1>3 DEF Sides

LEMMA ServerChunkMoves ==
  ASSUME Types, Types', Chunk("server")
  PROVE  InTransit' = InTransit /\ UNCHANGED <<received, app, sent>>
<1>1. /\ UNCHANGED <<packets, stream, received, app, sent>>
      /\ loop["server"] = "chunk" /\ inbox["server"] # <<>>
      /\ hand' = [hand EXCEPT !["server"] = Head(inbox["server"])]
      /\ inbox' = [inbox EXCEPT !["server"] = Tail(inbox["server"])]
      /\ loop' = [loop EXCEPT !["server"] = "echo"]
  BY DEF Chunk, Goto, netVars, appVars
<1>2. UNCHANGED <<A1, A2, A3, A4, A7, A8, A9>>
  BY <1>1 DEF A1, A2, A3, A4, A7, A8, A9, Carried, Types, Sides
<1>3. A5 = <<>> /\ A5' = <<Head(A6)>> /\ A6' = Tail(A6) /\ A6 # <<>>
  BY <1>1 DEF A5, A6, Carried, Types, Sides
<1>4. A5' \o A6' = A5 \o A6
  BY <1>3, HeadMoves, Pieces
<1>5. QED
  BY <1>1, <1>2, <1>4, SamePath

LEMMA EchoMoves ==
  ASSUME Types, Types', ServerOnReceived
  PROVE  InTransit' = InTransit /\ UNCHANGED <<received, app, sent>>
<1>1. /\ UNCHANGED <<stream, inbox, received, app, sent>>
      /\ loop["server"] = "echo"
      /\ packets' = [packets EXCEPT !["server"] = Append(packets["server"], hand["server"])]
      /\ hand' = [hand EXCEPT !["server"] = 0]
      /\ loop' = [loop EXCEPT !["server"] = "modify"]
  BY DEF ServerOnReceived, Goto, netVars, appVars
<1>2. UNCHANGED <<A1, A2, A3, A6, A7, A8, A9>>
  BY <1>1 DEF A1, A2, A3, A6, A7, A8, A9, Carried, Types, Sides
<1>3. A4' = Append(A4, hand["server"]) /\ A5 = <<hand["server"]>> /\ A5' = <<>>
  BY <1>1 DEF A4, A5, Carried, Types, Sides
<1>4. hand["server"] \in Nat
  BY DEF Types, Sides
<1>5. A4' \o A5' = A4 \o A5
  BY <1>3, <1>4, LastMoves, Pieces
<1>6. QED
  BY <1>1, <1>2, <1>5, SamePath

\* A packet leaves the path when Chunking delivers it at the client.
LEMMA ClientChunkDelivers ==
  ASSUME Types, Types', Chunk("client")
  PROVE  /\ InTransit # <<>>
         /\ InTransit' = Tail(InTransit)
         /\ received' = Append(received, Head(InTransit))
         /\ UNCHANGED <<app, sent>>
<1>1. /\ UNCHANGED <<packets, stream, app, sent>>
      /\ loop["client"] = "chunk" /\ inbox["client"] # <<>>
      /\ received' = Append(received, Head(inbox["client"]))
      /\ hand' = [hand EXCEPT !["client"] = Head(inbox["client"])]
      /\ inbox' = [inbox EXCEPT !["client"] = Tail(inbox["client"])]
      /\ loop' = [loop EXCEPT !["client"] = "handler"]
  BY DEF Chunk, Goto, netVars, appVars
<1>2. UNCHANGED <<A2, A3, A4, A5, A6, A7, A8, A9>>
  BY <1>1 DEF A2, A3, A4, A5, A6, A7, A8, A9, Carried, Types, Sides
<1>3. A1 # <<>> /\ A1' = Tail(A1) /\ received' = Append(received, Head(A1))
  BY <1>1 DEF A1, Types, Sides
<1>4. (InTransit = P9)'
  BY PathInPieces, PTL
<1>5. InTransit' = Tail(A1) \o A2 \o A3 \o A4 \o A5 \o A6 \o A7 \o A8 \o A9
  BY <1>2, <1>3, <1>4 DEF P2, P3, P4, P5, P6, P7, P8, P9
<1>6. QED
  BY <1>1, <1>3, <1>5, FirstOfPath

\* And one enters it when the application pushes it.
LEMMA PushEnters ==
  ASSUME Types, Types', AppPush
  PROVE  /\ InTransit' = Append(InTransit, sent)
         /\ UNCHANGED <<received, sent>>
<1>1. /\ UNCHANGED <<stream, loop, inbox, hand, sent, received>>
      /\ packets' = [packets EXCEPT !["client"] = Append(packets["client"], sent)]
  BY DEF AppPush, netVars
<1>2. UNCHANGED <<A1, A2, A3, A4, A5, A6, A7, A8>>
  BY <1>1 DEF A1, A2, A3, A4, A5, A6, A7, A8, Carried, Types, Sides
<1>3. A9' = Append(A9, sent)
  BY <1>1 DEF A9, Types, Sides
<1>4. (InTransit = P9)'
  BY PathInPieces, PTL
<1>5. P8' = P8
  BY <1>2 DEF P2, P3, P4, P5, P6, P7, P8
<1>6. InTransit' = P8 \o Append(A9, sent)
  BY <1>3, <1>4, <1>5 DEF P9
<1>7. P8 \in Seq(Nat) /\ A9 \in Seq(Nat) /\ sent \in Nat
  BY Pieces, Beginnings DEF Types
<1>8. InTransit' = Append(P8 \o A9, sent)
  BY <1>6, <1>7, AppendToConcat
<1>9. QED
  BY <1>1, <1>8, PathInPieces DEF P9

\* No other step touches it.
LEMMA PathStands ==
  ASSUME Types, Types', [Next]_vars,
         ~AppPush, ~Chunk("client"), ~Chunk("server"), ~ServerOnReceived,
         \A s \in Sides : ~Recv(s) /\ ~OutputPop(s) /\ ~OutputSend(s)
  PROVE  InTransit' = InTransit /\ received' = received
<1>1. CASE AppCall \/ AppModify \/ AppReturn \/ AppDelete \/ UNCHANGED vars
  <2>1. UNCHANGED <<packets, stream, loop, inbox, hand, received>>
    BY <1>1 DEF AppCall, AppModify, AppReturn, AppDelete, SetEvent, vars, netVars
  <2>2. QED
    BY <2>1 DEF InTransit, Carried
<1>2. ASSUME NEW s \in Sides, EpollWait(s) \/ ChunkDone(s)
      PROVE  InTransit' = InTransit /\ received' = received
  <2>1. /\ UNCHANGED <<packets, stream, inbox, hand, received>>
        /\ loop[s] \in {"wait", "chunk"}
        /\ \E label \in {"recv", "pop", "wait"} : loop' = [loop EXCEPT ![s] = label]
    BY <1>2 DEF EpollWait, ChunkDone, Goto, netVars
  <2>2. UNCHANGED <<A1, A2, A3, A4, A5, A6, A7, A8, A9>>
    BY <2>1 DEF A1, A2, A3, A4, A5, A6, A7, A8, A9, Carried, Types, Sides
  <2>3. QED
    BY <2>1, <2>2, SamePath
<1>3. CASE ClientOnReceived
  <2>1. /\ UNCHANGED <<packets, stream, inbox, received>>
        /\ loop["client"] = "handler" /\ loop' = [loop EXCEPT !["client"] = "chunk"]
        /\ hand' = [hand EXCEPT !["client"] = 0]
    BY <1>3 DEF ClientOnReceived, Goto, netVars
  <2>2. UNCHANGED <<A1, A2, A3, A4, A5, A6, A7, A8, A9>>
    BY <2>1 DEF A1, A2, A3, A4, A5, A6, A7, A8, A9, Carried, Types, Sides
  <2>3. QED
    BY <2>1, <2>2, SamePath
<1>4. CASE ServerModify
  <2>1. /\ UNCHANGED <<packets, stream, inbox, hand, received>>
        /\ loop["server"] = "modify" /\ loop' = [loop EXCEPT !["server"] = "chunk"]
    BY <1>4 DEF ServerModify, SetEvent, Goto
  <2>2. UNCHANGED <<A1, A2, A3, A4, A5, A6, A7, A8, A9>>
    BY <2>1 DEF A1, A2, A3, A4, A5, A6, A7, A8, A9, Carried, Types, Sides
  <2>3. QED
    BY <2>1, <2>2, SamePath
<1>5. QED
  BY <1>1, <1>2, <1>3, <1>4 DEF Next, App, Loop, HandleOutput, Quiet, Sides

-----------------------------------------------------------------------------
(* First in, first out.                                                     *)

\* As many packets as were pushed and not received are on the path.
LEMMA Balance ==
  ASSUME Types, PathIsFifo
  PROVE  /\ received \in Seq(Nat) /\ InTransit \in Seq(Nat) /\ Pushed \in Nat
         /\ Len(received) + Len(InTransit) = Pushed
<1>1. received \in Seq(Nat) /\ InTransit \in Seq(Nat) /\ Pushed \in Nat
  BY Beginnings, PathInPieces DEF Types, Pushed
<1>2. Len(received \o InTransit) = Len(received) + Len(InTransit)
  BY <1>1, ConcatProperties
<1>3. Len([n \in 1..Pushed |-> n]) = Pushed
  BY <1>1
<1>4. QED
  BY <1>1, <1>2, <1>3 DEF PathIsFifo

\* The next packet to be received is the next request.
LEMMA NextReceived ==
  ASSUME Types, PathIsFifo, InTransit # <<>>
  PROVE  Len(received) < Pushed /\ Head(InTransit) = Len(received) + 1
<1>1. /\ received \in Seq(Nat) /\ InTransit \in Seq(Nat) /\ Pushed \in Nat
      /\ Len(received) + Len(InTransit) = Pushed
  BY Balance
<1>2. Len(InTransit) \in Nat /\ Len(InTransit) > 0 /\ Len(received) \in Nat
  BY <1>1, EmptySeq, LenProperties
<1>3. (received \o InTransit)[Len(received) + 1] = InTransit[1]
  BY <1>1, <1>2, ConcatProperties
<1>4. [n \in 1..Pushed |-> n][Len(received) + 1] = Len(received) + 1
  BY <1>1, <1>2
<1>5. Head(InTransit) = InTransit[1]
  BY <1>1, HeadTailProperties
<1>6. QED
  BY <1>1, <1>2, <1>3, <1>4, <1>5 DEF PathIsFifo

LEMMA PathKept ==
  ASSUME Types, Types', Drained, PathIsFifo, [Next]_vars
  PROVE  PathIsFifo'
<1> DEFINE Same == InTransit' = InTransit /\ received' = received /\ Pushed' = Pushed
<1>1. ASSUME Same
      PROVE  PathIsFifo'
  BY <1>1 DEF PathIsFifo
<1>2. CASE AppPush
  <2>1. /\ InTransit' = Append(InTransit, sent) /\ received' = received
        /\ Pushed = sent - 1 /\ Pushed' = sent /\ sent \in Nat
    BY <1>2, PushEnters DEF AppPush, Pushed, Types
  <2>2. received \in Seq(Nat) /\ InTransit \in Seq(Nat) /\ Pushed \in Nat
    BY Balance
  <2>3. received \o Append(InTransit, sent) = Append(received \o InTransit, sent)
    BY <2>1, <2>2, AppendToConcat
  <2>4. \A k \in Nat : Append([n \in 1..k |-> n], k + 1) = [n \in 1..(k + 1) |-> n]
    OBVIOUS
  <2>5. Append([n \in 1..Pushed |-> n], sent) = [n \in 1..sent |-> n]
    BY <2>1, <2>2, <2>4
  <2>6. QED
    BY <2>1, <2>3, <2>5 DEF PathIsFifo
<1>3. CASE Chunk("client")
  <2>1. /\ InTransit # <<>> /\ InTransit' = Tail(InTransit)
        /\ received' = Append(received, Head(InTransit)) /\ Pushed' = Pushed
    BY <1>3, ClientChunkDelivers DEF Pushed
  <2>2. received \in Seq(Nat) /\ InTransit \in Seq(Nat)
    BY Balance
  <2>3. received' \o InTransit' = received \o InTransit
    BY <2>1, <2>2, MoveHead
  <2>4. QED
    BY <2>1, <2>3 DEF PathIsFifo
<1>4. CASE Chunk("server") \/ ServerOnReceived
  BY <1>1, <1>4, ServerChunkMoves, EchoMoves DEF Pushed
<1>5. ASSUME NEW s \in Sides, Recv(s) \/ OutputPop(s) \/ OutputSend(s)
      PROVE  PathIsFifo'
  BY <1>1, <1>5, RecvMoves, OutputPopMoves, OutputSendMoves DEF Pushed
<1>6. ASSUME ~AppPush, ~Chunk("client"), ~Chunk("server"), ~ServerOnReceived,
             \A s \in Sides : ~Recv(s) /\ ~OutputPop(s) /\ ~OutputSend(s)
      PROVE  PathIsFifo'
  <2>1. InTransit' = InTransit /\ received' = received
    BY <1>6, PathStands
  <2>2. Pushed' = Pushed
    <3>1. CASE AppCall
      BY <3>1 DEF AppCall, Pushed, Types
    <3>2. CASE AppModify \/ AppReturn \/ AppDelete
      BY <3>2 DEF AppModify, AppReturn, AppDelete, Pushed
    <3>3. CASE (\E s \in Sides : Loop(s)) \/ UNCHANGED vars
      BY <1>6, <3>3 DEF Loop, HandleOutput, EpollWait, ChunkDone, ClientOnReceived,
         ServerModify, Pushed, appVars, vars, Sides
    <3>4. QED
      BY <1>6, <3>1, <3>2, <3>3 DEF Next, App, Quiet
  <2>3. QED
    BY <1>1, <2>1, <2>2
<1>7. QED
  BY <1>2, <1>3, <1>4, <1>5, <1>6

-----------------------------------------------------------------------------
(* Synchronous calls.                                                       *)

LEMMA CallKept ==
  ASSUME IInv, [Next]_vars, Types'
  PROVE  CallInTurn'
<1> USE DEF IInv
<1>1. CASE AppCall
  BY <1>1 DEF AppCall, CallInTurn, ReplyMatchesCall, Types
<1>2. CASE AppPush
  BY <1>2 DEF AppPush, CallInTurn, ReplyMatchesCall, Types, syncVars
<1>3. CASE AppModify
  BY <1>3 DEF AppModify, CallInTurn, ReplyMatchesCall, Types, syncVars
<1>4. CASE AppReturn
  <2>1. synchronous => /\ Len(returned) = sent - 1 /\ Len(received) = sent
                       /\ ret = sent /\ sent > 0
                       /\ \A n \in 1..(sent - 1) : returned[n] = n
    BY <1>4 DEF AppReturn, CallInTurn, ReplyMatchesCall, Types
  <2>2. /\ app' = "use" /\ returned' = Append(returned, ret)
        /\ UNCHANGED <<sent, synchronous, received>>
    BY <1>4 DEF AppReturn
  <2>3. returned \in Seq(Nat) /\ ret \in Nat /\ sent \in Nat
    BY DEF Types
  <2>4. synchronous => Len(returned') = sent /\ \A n \in 1..sent : returned'[n] = n
    BY <2>1, <2>2, <2>3, AppendProperties
  <2>5. QED
    BY <2>1, <2>2, <2>4 DEF CallInTurn, ReplyMatchesCall
<1>5. CASE AppDelete
  BY <1>5 DEF AppDelete, CallInTurn, ReplyMatchesCall, syncVars
<1>6. CASE Chunk("client")
  <2>1. /\ InTransit # <<>> /\ received' = Append(received, Head(InTransit))
        /\ UNCHANGED <<app, sent, needAck, returned, synchronous>>
    BY <1>6, ClientChunkDelivers DEF Chunk, appVars
  <2>2. Len(received) < Pushed /\ Head(InTransit) = Len(received) + 1
    BY <2>1, NextReceived
  <2>3. /\ received \in Seq(Nat) /\ sent \in Nat /\ Head(InTransit) \in Nat
    BY <2>2, LenProperties DEF Types
  <2>4. Len(received') = Len(received) + 1
    BY <2>1, <2>3, AppendProperties
  <2>5. needAck => ret' = Head(InTransit) /\ replied' = TRUE
    BY <1>6, FirstOfPath DEF Chunk, A1
  <2>6. synchronous => app \in {"modify", "spin"} /\ ~replied /\ Len(received) = sent - 1
    BY <2>2, <2>3 DEF CallInTurn, Pushed, Types
  <2>7. QED
    BY <2>1, <2>2, <2>3, <2>4, <2>5, <2>6 DEF CallInTurn, ReplyMatchesCall, Pushed
<1>7. ASSUME NEW s \in Sides, Loop(s), ~Chunk("client")
      PROVE  CallInTurn'
  <2>1. UNCHANGED <<app, sent, returned, synchronous, replied, ret, needAck, received>>
    BY <1>7 DEF Loop, HandleOutput, EpollWait, Recv, Chunk, ChunkDone, ClientOnReceived,
       ServerOnReceived, ServerModify, OutputPop, OutputSend, appVars, syncVars, Sides
  <2>2. QED
    BY <2>1 DEF CallInTurn, ReplyMatchesCall
<1>8. CASE UNCHANGED vars
  BY <1>8 DEF vars, appVars, syncVars, CallInTurn, ReplyMatchesCall
<1>9. QED
  BY <1>1, <1>2, <1>3, <1>4, <1>5, <1>6, <1>7, <1>8 DEF Next, App, Quiet

LEMMA NoneReturnedKept ==
  ASSUME NoneReturned, [Next]_vars
  PROVE  NoneReturned'
<1>1. CASE App
  BY <1>1 DEF App, AppCall, AppPush, AppModify, AppReturn, AppDelete, NoneReturned
<1>2. ASSUME NEW s \in Sides, Loop(s)
      PROVE  NoneReturned'
  <2>1. UNCHANGED <<app, returned, synchronous>>
    BY <1>2 DEF Loop, HandleOutput, EpollWait, Recv, Chunk, ChunkDone, ClientOnReceived,
       ServerOnReceived, ServerModify, OutputPop, OutputSend, appVars, Sides
  <2>2. QED
    BY <2>1 DEF NoneReturned
<1>3. CASE UNCHANGED vars
  BY <1>3 DEF vars, appVars, NoneReturned
<1>4. QED
  BY <1>1, <1>2, <1>3 DEF Next, Quiet

\* A loop that is blocked has two packets on the path.
LEMMA OneAtATime ==
  ASSUME IInv
  PROVE  SyncNeverBlocked
<1> SUFFICES ASSUME synchronous, LoopsBlocked
             PROVE  FALSE
  BY DEF SyncNeverBlocked
<1>1. Pushed - Len(received) <= 1
  BY LenProperties DEF IInv, CallInTurn, Pushed, Types
<1>2. /\ Len(InTransit) <= 1
      /\ Len(InTransit) = Len(A1) + Len(A2) + Len(A3) + Len(A4) + Len(A5)
                          + Len(A6) + Len(A7) + Len(A8) + Len(A9)
  BY <1>1, Balance, PathLength, LenProperties DEF IInv
<1>3. /\ Len(A1) \in Nat /\ Len(A2) \in Nat /\ Len(A3) \in Nat
      /\ Len(A4) \in Nat /\ Len(A5) \in Nat /\ Len(A6) \in Nat
      /\ Len(A7) \in Nat /\ Len(A8) \in Nat /\ Len(A9) \in Nat
  BY Pieces, LenProperties DEF IInv
<1>4. CASE loop["server"] = "echo" /\ Len(packets["server"]) = Limit
  <2>1. Len(A5) = 1
    BY <1>4 DEF A5, Carried
  <2>2. Len(A4) > 0
    BY <1>3, <1>4, ConnectionAssumption DEF A4
  <2>3. QED
    BY <1>2, <1>3, <2>1, <2>2
<1>5. CASE \A s \in Sides : loop[s] = "send" /\ ~Writable(s)
  <2>1. Len(A3) = 1 /\ Len(A8) = 1
    BY <1>5 DEF A3, A8, Carried, Sides
  <2>2. QED
    BY <1>2, <1>3, <2>1
<1>6. QED
  BY <1>4, <1>5 DEF LoopsBlocked

-----------------------------------------------------------------------------
(* The theorems.                                                            *)

LEMMA Start == Init => IInv
<1> SUFFICES ASSUME Init
             PROVE  IInv
  OBVIOUS
<1>1. Types
  BY TypesHold
<1>2. Drained /\ CallInTurn /\ NoneReturned
  BY DEF Init, Drained, CallInTurn, ReplyMatchesCall, NoneReturned, Sides
<1>3. InTransit = <<>>
  BY DEF Init, InTransit, Carried, Sides
<1>4. PathIsFifo
  BY <1>3 DEF Init, PathIsFifo, Pushed
<1>5. QED
  BY <1>1, <1>2, <1>4 DEF IInv

LEMMA Step == IInv /\ [Next]_vars => IInv'
<1> SUFFICES ASSUME IInv, [Next]_vars
             PROVE  IInv'
  OBVIOUS
<1>1. Types'
  BY TypesKept DEF IInv
<1>2. Drained'
  BY DrainedKept DEF IInv
<1>3. PathIsFifo'
  BY <1>1, PathKept DEF IInv
<1>4. CallInTurn'
  BY <1>1, CallKept
<1>5. NoneReturned'
  BY NoneReturnedKept DEF IInv
<1>6. QED
  BY <1>1, <1>2, <1>3, <1>4, <1>5 DEF IInv

LEMMA Invariance == Spec => []IInv
  BY Start, Step, PTL DEF Spec

\* Whatever was pushed and not yet received is under way, once and in order
\* (HandleOutput, HandleInputImpl, Chunking, OnReceived).
THEOREM PathFirstInFirstOut == Spec => []PathIsFifo
<1>1. IInv => PathIsFifo
  BY DEF IInv
<1>2. QED
  BY <1>1, Invariance, PTL

\* A synchronous call is never answered with the reply to another one
\* (set_sync, Chunking, SyncSendPacket).
THEOREM RepliesMatch == Spec => []ReplyMatchesCall
<1>1. IInv => ReplyMatchesCall
  BY DEF IInv, CallInTurn, NoneReturned, ReplyMatchesCall
<1>2. QED
  BY <1>1, Invariance, PTL

\* With synchronous calls no loop waits for itself or for the other one, however
\* small the queues and the kernel's buffers are (Push, Send).
THEOREM NeverBlocked == Spec => []SyncNeverBlocked
<1>1. IInv => SyncNeverBlocked
  BY OneAtATime
<1>2. QED
  BY <1>1, Invariance, PTL

\* What the queues, buffers and hands hold are packets (Packet).
THEOREM TypeCorrect == Spec => []Types
<1>1. IInv => Types
  BY DEF IInv
<1>2. QED
  BY <1>1, Invariance, PTL
=============================================================================
