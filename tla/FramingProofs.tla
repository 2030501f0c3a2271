----------------------------- MODULE FramingProofs -----------------------------
(***************************************************************************)
(* Theorems about Framing, and their proofs.                               *)
(*                                                                         *)
(* The cells that were received and are still kept, and those on the wire, *)
(* are the end of one stream, in which the frames of all packets sent lie  *)
(* one after the other: LaidOut says where. Three invariants add to it     *)
(* where Chunking is in that stream: FitInv when every packet sent fits in *)
(* the buffer, MarkInv when HEAD is found only where a frame begins, and   *)
(* FullInv when, moreover, recv is asked for no byte at all.               *)
(***************************************************************************)
EXTENDS Framing, Integers, SequenceTheorems, WellFoundedInduction, TLAPS

Packets == [head : Seq(Nat), data : Seq(Nat)]

--------------------------------------------------------------------------------
(* The cells of a frame.                                                       *)

\* Two sequences of cells one after the other.
LEMMA JoinedCells ==
  ASSUME NEW s \in Seq(Nat), NEW t \in Seq(Nat)
  PROVE  /\ s \o t \in Seq(Nat) /\ Len(s \o t) = Len(s) + Len(t)
         /\ Len(s) \in Nat /\ Len(t) \in Nat
         /\ \A i \in 1 .. Len(s) : (s \o t)[i] = s[i]
         /\ \A i \in Len(s) + 1 .. Len(s) + Len(t) : (s \o t)[i] = t[i - Len(s)]
  BY ConcatProperties

LEMMA JoinedTwice ==
  ASSUME NEW s \in Seq(Nat), NEW t \in Seq(Nat), NEW u \in Seq(Nat)
  PROVE  (s \o t) \o u = s \o (t \o u)
  BY ConcatAssociative

\* One field before, and one after, some others.
LEMMA FieldBefore ==
  ASSUME NEW t \in Seq(Nat), NEW x \in Nat
  PROVE  /\ <<x>> \o t \in Seq(Nat) /\ Len(<<x>> \o t) = 1 + Len(t)
         /\ (<<x>> \o t)[1] = x
         /\ \A i \in 2 .. 1 + Len(t) : (<<x>> \o t)[i] = t[i - 1]
  BY JoinedCells

LEMMA FieldAfter ==
  ASSUME NEW t \in Seq(Nat), NEW x \in Nat
  PROVE  /\ t \o <<x>> \in Seq(Nat) /\ Len(t \o <<x>>) = Len(t) + 1
         /\ (t \o <<x>>)[Len(t) + 1] = x
         /\ \A i \in 1 .. Len(t) : (t \o <<x>>)[i] = t[i]
  BY JoinedCells

LEMMA FieldsBefore ==
  ASSUME NEW x \in Nat, NEW y \in Nat, NEW t \in Seq(Nat)
  PROVE  /\ <<x, y>> \o t \in Seq(Nat) /\ Len(<<x, y>> \o t) = 2 + Len(t)
         /\ (<<x, y>> \o t)[1] = x /\ (<<x, y>> \o t)[2] = y
         /\ \A i \in 3 .. 2 + Len(t) : (<<x, y>> \o t)[i] = t[i - 2]
  BY JoinedCells

LEMMA FieldsAround ==
  ASSUME NEW t \in Seq(Nat), NEW x \in Nat, NEW y \in Nat
  PROVE  LET a == <<x>> \o t \o <<y>>
         IN  /\ a \in Seq(Nat) /\ Len(a) = 2 + Len(t)
             /\ a[1] = x /\ a[2 + Len(t)] = y
             /\ \A i \in 2 .. 1 + Len(t) : a[i] = t[i - 1]
<1>1. Len(t) \in Nat
  OBVIOUS
<1>2. PICK b \in Seq(Nat) : b = <<x>> \o t
  BY FieldBefore
<1>3. Len(b) = 1 + Len(t) /\ b[1] = x /\ \A i \in 2 .. 1 + Len(t) : b[i] = t[i - 1]
  BY <1>2, FieldBefore
<1>4. /\ b \o <<y>> \in Seq(Nat) /\ Len(b \o <<y>>) = Len(b) + 1
      /\ (b \o <<y>>)[Len(b) + 1] = y
      /\ \A i \in 1 .. Len(b) : (b \o <<y>>)[i] = b[i]
  BY FieldAfter
<1> QED
  BY <1>1, <1>2, <1>3, <1>4

\* The cells of a body: the head with its length, the data with its length.
LEMMA BodyCells ==
  ASSUME NEW t \in Seq(Nat), NEW u \in Seq(Nat), NEW x \in Nat, NEW y \in Nat
  PROVE  LET b == <<x>> \o t \o <<y>> \o u
         IN  /\ b \in Seq(Nat) /\ Len(b) = 2 + Len(t) + Len(u)
             /\ b[1] = x /\ b[2 + Len(t)] = y
             /\ \A i \in 2 .. 1 + Len(t) : b[i] = t[i - 1]
             /\ \A i \in 3 + Len(t) .. 2 + Len(t) + Len(u) : b[i] = u[i - 2 - Len(t)]
<1>1. Len(t) \in Nat /\ Len(u) \in Nat
  OBVIOUS
<1>2. PICK a \in Seq(Nat) : a = <<x>> \o t \o <<y>>
  BY FieldsAround
<1>3. /\ Len(a) = 2 + Len(t) /\ a[1] = x /\ a[2 + Len(t)] = y
      /\ \A i \in 2 .. 1 + Len(t) : a[i] = t[i - 1]
  BY <1>2, FieldsAround
<1>4. /\ a \o u \in Seq(Nat) /\ Len(a \o u) = Len(a) + Len(u)
      /\ \A i \in 1 .. Len(a) : (a \o u)[i] = a[i]
      /\ \A i \in Len(a) + 1 .. Len(a) + Len(u) : (a \o u)[i] = u[i - Len(a)]
  BY JoinedCells
<1> QED
  BY <1>1, <1>2, <1>3, <1>4

\* The cells of a frame: the mark and the length of the body, and the body.
LEMMA FrameCells ==
  ASSUME NEW p \in Packets
  PROVE  /\ p.head \in Seq(Nat) /\ p.data \in Seq(Nat)
         /\ Body(p) \in Seq(Nat) /\ Len(Body(p)) = 2 + Len(p.head) + Len(p.data)
         /\ Frame(p) \in Seq(Nat) /\ Len(Frame(p)) = 4 + Len(p.head) + Len(p.data)
         /\ Frame(p)[1] = HEAD /\ Frame(p)[2] = Len(Body(p))
         /\ Frame(p)[3] = Len(p.head) /\ Frame(p)[4 + Len(p.head)] = Len(p.data)
         /\ \A i \in 4 .. 3 + Len(p.head) : Frame(p)[i] = p.head[i - 3]
         /\ \A i \in 5 + Len(p.head) .. 4 + Len(p.head) + Len(p.data) :
              Frame(p)[i] = p.data[i - 4 - Len(p.head)]
<1>1. p.head \in Seq(Nat) /\ p.data \in Seq(Nat)
  BY DEF Packets
<1>2. PICK t \in Seq(Nat), u \in Seq(Nat) : t = p.head /\ u = p.data
  BY <1>1
<1>3. PICK b : b = <<Len(t)>> \o t \o <<Len(u)>> \o u
  OBVIOUS
<1>4. Len(t) \in Nat /\ Len(u) \in Nat
  OBVIOUS
<1>5. /\ b \in Seq(Nat) /\ Len(b) = 2 + Len(t) + Len(u)
      /\ b[1] = Len(t) /\ b[2 + Len(t)] = Len(u)
      /\ \A i \in 2 .. 1 + Len(t) : b[i] = t[i - 1]
      /\ \A i \in 3 + Len(t) .. 2 + Len(t) + Len(u) : b[i] = u[i - 2 - Len(t)]
  <2>1. LET c == <<Len(t)>> \o t \o <<Len(u)>> \o u
        IN  /\ c \in Seq(Nat) /\ Len(c) = 2 + Len(t) + Len(u)
            /\ c[1] = Len(t) /\ c[2 + Len(t)] = Len(u)
            /\ \A i \in 2 .. 1 + Len(t) : c[i] = t[i - 1]
            /\ \A i \in 3 + Len(t) .. 2 + Len(t) + Len(u) : c[i] = u[i - 2 - Len(t)]
    BY <1>4, BodyCells
  <2> QED
    BY <2>1, <1>3, Zenon
<1>6. Len(b) = 2 + Len(t) + Len(u)
  BY <1>5
<1>7. b \in Seq(Nat) /\ Len(b) \in Nat /\ HEAD \in Nat
  BY <1>5 DEF HEAD
<1>8. PICK f : f = <<HEAD, Len(b)>> \o b
  OBVIOUS
<1>9. /\ f \in Seq(Nat) /\ Len(f) = 2 + Len(b) /\ f[1] = HEAD /\ f[2] = Len(b)
      /\ \A i \in 3 .. 2 + Len(b) : f[i] = b[i - 2]
  <2>1. /\ <<HEAD, Len(b)>> \o b \in Seq(Nat)
        /\ Len(<<HEAD, Len(b)>> \o b) = 2 + Len(b)
        /\ (<<HEAD, Len(b)>> \o b)[1] = HEAD /\ (<<HEAD, Len(b)>> \o b)[2] = Len(b)
        /\ \A i \in 3 .. 2 + Len(b) : (<<HEAD, Len(b)>> \o b)[i] = b[i - 2]
    BY <1>7, FieldsBefore
  <2> QED
    BY <2>1, <1>8
<1>10. f[3] = Len(t) /\ f[4 + Len(t)] = Len(u) /\ Len(f) = 4 + Len(t) + Len(u)
  <2>1. /\ 3 \in 3 .. 2 + Len(b) /\ 4 + Len(t) \in 3 .. 2 + Len(b)
        /\ 3 - 2 = 1 /\ (4 + Len(t)) - 2 = 2 + Len(t)
        /\ 2 + Len(b) = 4 + Len(t) + Len(u)
    BY <1>4, <1>6
  <2>2. f[3] = b[3 - 2] /\ f[4 + Len(t)] = b[(4 + Len(t)) - 2]
    BY <2>1, <1>9
  <2> QED
    BY <2>1, <2>2, <1>5, <1>9
<1>11. ASSUME NEW i \in 4 .. 3 + Len(t)
      PROVE  f[i] = t[i - 3]
  <2>1. /\ i \in 3 .. 2 + Len(b) /\ i - 2 \in 2 .. 1 + Len(t)
        /\ (i - 2) - 1 = i - 3
    BY <1>4, <1>6
  <2>2. f[i] = b[i - 2]
    BY <2>1, <1>9
  <2>3. b[i - 2] = t[(i - 2) - 1]
    BY <2>1, <1>5
  <2> QED
    BY <2>1, <2>2, <2>3
<1>12. ASSUME NEW i \in 5 + Len(t) .. 4 + Len(t) + Len(u)
      PROVE  f[i] = u[i - 4 - Len(t)]
  <2>1. /\ i \in 3 .. 2 + Len(b) /\ i - 2 \in 3 + Len(t) .. 2 + Len(t) + Len(u)
        /\ (i - 2) - 2 - Len(t) = i - 4 - Len(t)
    BY <1>4, <1>6
  <2>2. f[i] = b[i - 2]
    BY <2>1, <1>9
  <2>3. b[i - 2] = u[(i - 2) - 2 - Len(t)]
    BY <2>1, <1>5
  <2> QED
    BY <2>1, <2>2, <2>3
<1>13. Body(p) = b /\ Frame(p) = f
  BY <1>2, <1>3, <1>8 DEF Body, Frame
<1>14. QED
  BY <1>1, <1>2, <1>5, <1>9, <1>10, <1>11, <1>12, <1>13, Zenon

--------------------------------------------------------------------------------
(* Where the frames lie.                                                       *)

\* The frames of some packets lie one after the other up to the end of the
\* cells. at[k] cells come before frame k; it is negative once the frame has
\* been cut away or dropped, or the part of it before the cells.
LaidOut(packets, cells, at) ==
  /\ at \in [1 .. Len(packets) + 1 -> Int]
  /\ at[1] <= 0 /\ at[Len(packets) + 1] = Len(cells)
  /\ \A i, j \in 1 .. Len(packets) + 1 : i < j => at[i] < at[j]
  /\ \A k \in 1 .. Len(packets) : at[k + 1] = at[k] + Len(Frame(packets[k]))
  /\ \A k \in 1 .. Len(packets) : \A j \in 1 .. Len(Frame(packets[k])) :
       at[k] + j >= 1 => cells[at[k] + j] = Frame(packets[k])[j]

LEMMA FrameIsCells ==
  ASSUME NEW p \in Packets
  PROVE  /\ Frame(p) \in Seq(Nat) /\ Len(Frame(p)) \in Nat /\ Len(Frame(p)) >= 4
         /\ Len(Body(p)) \in Nat /\ Len(Frame(p)) = Len(Body(p)) + 2
<1>1. Frame(p) \in Seq(Nat) /\ Body(p) \in Seq(Nat)
  BY FrameCells
<1>2. PICK t \in Seq(Nat), u \in Seq(Nat) : t = p.head /\ u = p.data
  BY FrameCells
<1>3. Len(Frame(p)) = 4 + Len(t) + Len(u) /\ Len(Body(p)) = 2 + Len(t) + Len(u)
  BY <1>2, FrameCells, Zenon
<1>4. 4 + Len(t) + Len(u) >= 4 /\ 4 + Len(t) + Len(u) = (2 + Len(t) + Len(u)) + 2
  OBVIOUS
<1>5. QED
  BY <1>1, <1>3, <1>4

\* Another frame goes to the end.
LEMMA LayAfter ==
  ASSUME NEW packets \in Seq(Packets), NEW cells \in Seq(Nat), NEW at,
         LaidOut(packets, cells, at), NEW p \in Packets
  PROVE  \E new : /\ LaidOut(Append(packets, p), cells \o Frame(p), new)
                  /\ \A k \in 1 .. Len(packets) + 1 : new[k] = at[k]
<1>1. PICK n \in Nat : n = Len(packets)
  OBVIOUS
<1>2. PICK q : q = Append(packets, p)
  OBVIOUS
<1>3. Len(q) = n + 1 /\ q[n + 1] = p /\ \A k \in 1 .. n : q[k] = packets[k]
  BY <1>1, <1>2, AppendProperties
<1>4. PICK f \in Seq(Nat) : f = Frame(p)
  BY FrameIsCells
<1>5. PICK l \in Nat : l = Len(f) /\ l > 0
  BY <1>4, FrameIsCells
<1>6. PICK c : c = cells \o f
  OBVIOUS
<1>7. PICK z \in Nat : z = Len(cells)
  OBVIOUS
<1>8. /\ Len(c) = z + l
      /\ \A i \in 1 .. z : c[i] = cells[i]
      /\ \A i \in z + 1 .. z + l : c[i] = f[i - z]
  <2>1. /\ Len(cells \o f) = Len(cells) + Len(f)
        /\ \A i \in 1 .. Len(cells) : (cells \o f)[i] = cells[i]
        /\ \A i \in Len(cells) + 1 .. Len(cells) + Len(f) :
             (cells \o f)[i] = f[i - Len(cells)]
    BY JoinedCells
  <2> QED
    BY <2>1, <1>5, <1>6, <1>7, Zenon
<1>9. /\ at \in [1 .. n + 1 -> Int]
      /\ at[1] <= 0 /\ at[n + 1] = z
      /\ \A i, j \in 1 .. n + 1 : i < j => at[i] < at[j]
      /\ \A k \in 1 .. n : at[k + 1] = at[k] + Len(Frame(packets[k]))
      /\ \A k \in 1 .. n : \A j \in 1 .. Len(Frame(packets[k])) :
           at[k] + j >= 1 => cells[at[k] + j] = Frame(packets[k])[j]
  BY <1>1, <1>7, Zenon DEF LaidOut
<1>10. ASSUME NEW k \in 1 .. n + 1
       PROVE  at[k] \in Int /\ at[k] <= z
  <2>1. at[k] \in Int /\ (k = n + 1 \/ at[k] < at[n + 1])
    BY <1>9
  <2> QED
    BY <2>1, <1>9
<1>11. PICK new : new = [k \in 1 .. n + 2 |-> IF k = n + 2 THEN z + l ELSE at[k]]
  OBVIOUS
<1>12. /\ \A k \in 1 .. n + 1 : new[k] = at[k]
       /\ new[n + 2] = z + l
       /\ new \in [1 .. n + 2 -> Int]
  BY <1>9, <1>11
<1>13. new[1] <= 0
  BY <1>9, <1>12
<1>14. ASSUME NEW i \in 1 .. n + 2, NEW j \in 1 .. n + 2, i < j
       PROVE  new[i] < new[j]
  <2>1. at[i] \in Int /\ at[i] <= z /\ new[i] = at[i]
    <3>1. i \in 1 .. n + 1
      BY <1>14
    <3> QED
      BY <3>1, <1>10, <1>12
  <2>2. CASE j = n + 2
    BY <2>1, <2>2, <1>5, <1>12
  <2>3. CASE j # n + 2
    BY <2>1, <2>3, <1>9, <1>12, <1>14
  <2> QED
    BY <2>2, <2>3
<1>15. ASSUME NEW k \in 1 .. n + 1
       PROVE  new[k + 1] = new[k] + Len(Frame(q[k]))
  <2>1. CASE k = n + 1
    <3>1. Len(Frame(q[k])) = l /\ new[k] = z /\ new[k + 1] = z + l
      BY <2>1, <1>3, <1>4, <1>5, <1>9, <1>12
    <3> QED
      BY <3>1
  <2>2. CASE k # n + 1
    <3>1. k \in 1 .. n /\ k \in 1 .. n + 1 /\ k + 1 \in 1 .. n + 1
      BY <2>2
    <3>2. q[k] = packets[k] /\ at[k + 1] = at[k] + Len(Frame(packets[k]))
      BY <3>1, <1>3, <1>9
    <3>3. new[k] = at[k] /\ new[k + 1] = at[k + 1]
      BY <3>1, <1>12
    <3> QED
      BY <3>2, <3>3
  <2> QED
    BY <2>1, <2>2
<1>16. ASSUME NEW k \in 1 .. n + 1, NEW j \in 1 .. Len(Frame(q[k])), new[k] + j >= 1
       PROVE  c[new[k] + j] = Frame(q[k])[j]
  <2>1. CASE k = n + 1
    <3>1. Frame(q[k]) = f /\ j \in 1 .. l /\ new[k] = z
      BY <2>1, <1>3, <1>4, <1>5, <1>9, <1>12
    <3>2. z + j \in z + 1 .. z + l /\ (z + j) - z = j
      BY <3>1
    <3>3. c[z + j] = f[(z + j) - z]
      BY <3>2, <1>8
    <3> QED
      BY <3>1, <3>2, <3>3
  <2>2. CASE k # n + 1
    <3>1. k \in 1 .. n /\ q[k] = packets[k] /\ new[k] = at[k] /\ at[k] \in Int
      <4>1. k \in 1 .. n
        BY <2>2
      <4> QED
        BY <4>1, <1>3, <1>10, <1>12
    <3>2. /\ j \in 1 .. Len(Frame(packets[k])) /\ at[k] + j >= 1
          /\ packets[k] \in Packets /\ Len(Frame(packets[k])) \in Nat
      BY <3>1, <1>16, <1>1, ElementOfSeq, FrameIsCells
    <3>3. cells[at[k] + j] = Frame(packets[k])[j]
      BY <3>1, <3>2, <1>9
    <3>4. at[k + 1] = at[k] + Len(Frame(packets[k])) /\ at[k + 1] <= z
      BY <3>1, <1>9, <1>10
    <3>5. at[k] + j \in 1 .. z
      BY <3>1, <3>2, <3>4
    <3>6. c[at[k] + j] = cells[at[k] + j]
      BY <3>5, <1>8
    <3> QED
      BY <3>1, <3>3, <3>6
  <2> QED
    BY <2>1, <2>2
<1>17. LaidOut(q, c, new)
  <2>1. Len(q) + 1 = n + 2 /\ Len(c) = z + l
    BY <1>3, <1>8
  <2> QED
    BY <2>1, <1>3, <1>12, <1>13, <1>14, <1>15, <1>16 DEF LaidOut
<1> QED
  BY <1>1, <1>2, <1>4, <1>6, <1>12, <1>17, Zenon

\* Cells go from the front.
LEMMA CutBefore ==
  ASSUME NEW packets \in Seq(Packets), NEW cells \in Seq(Nat), NEW at,
         LaidOut(packets, cells, at), NEW m \in 0 .. Len(cells)
  PROVE  LaidOut(packets, SubSeq(cells, m + 1, Len(cells)),
                 [k \in 1 .. Len(packets) + 1 |-> at[k] - m])
<1>1. PICK n \in Nat : n = Len(packets)
  OBVIOUS
<1>2. PICK z \in Nat : z = Len(cells)
  OBVIOUS
<1>3. PICK c : c = SubSeq(cells, m + 1, z)
  OBVIOUS
<1>4. m \in Nat /\ m <= z
  BY <1>2
<1>5. Len(c) = z - m /\ \A i \in 1 .. z - m : c[i] = cells[m + i]
  <2>1. \A i \in m + 1 .. z : cells[i] \in Nat
    BY <1>2, <1>4, ElementOfSeq
  <2>2. /\ Len(c) = IF m + 1 <= z THEN z - (m + 1) + 1 ELSE 0
        /\ \A i \in 1 .. z - (m + 1) + 1 : c[i] = cells[(m + 1) + i - 1]
    BY <2>1, <1>3, <1>4, SubSeqProperties
  <2> QED
    BY <2>2, <1>4
<1>6. /\ at \in [1 .. n + 1 -> Int]
      /\ at[1] <= 0 /\ at[n + 1] = z
      /\ \A i, j \in 1 .. n + 1 : i < j => at[i] < at[j]
      /\ \A k \in 1 .. n : at[k + 1] = at[k] + Len(Frame(packets[k]))
      /\ \A k \in 1 .. n : \A j \in 1 .. Len(Frame(packets[k])) :
           at[k] + j >= 1 => cells[at[k] + j] = Frame(packets[k])[j]
  BY <1>1, <1>2, Zenon DEF LaidOut
<1>7. ASSUME NEW k \in 1 .. n + 1
       PROVE  at[k] \in Int /\ at[k] <= z
  <2>1. at[k] \in Int /\ (k = n + 1 \/ at[k] < at[n + 1])
    BY <1>6
  <2> QED
    BY <2>1, <1>6
<1>8. PICK new : new = [k \in 1 .. n + 1 |-> at[k] - m]
  OBVIOUS
<1>9. new \in [1 .. n + 1 -> Int] /\ \A k \in 1 .. n + 1 : new[k] = at[k] - m
  BY <1>4, <1>6, <1>8
<1>10. new[1] <= 0 /\ new[n + 1] = z - m
  BY <1>4, <1>6, <1>9
<1>11. ASSUME NEW i \in 1 .. n + 1, NEW j \in 1 .. n + 1, i < j
       PROVE  new[i] < new[j]
  <2>1. at[i] < at[j] /\ at[i] \in Int /\ at[j] \in Int
    BY <1>6, <1>11
  <2> QED
    BY <2>1, <1>4, <1>9
<1>12. ASSUME NEW k \in 1 .. n
       PROVE  /\ packets[k] \in Packets /\ Len(Frame(packets[k])) \in Nat
              /\ at[k] \in Int /\ at[k + 1] \in Int
              /\ new[k] = at[k] - m /\ new[k + 1] = at[k + 1] - m
  <2>1. packets[k] \in Packets /\ Len(Frame(packets[k])) \in Nat
    BY <1>1, ElementOfSeq, FrameIsCells
  <2>2. k \in 1 .. n + 1 /\ k + 1 \in 1 .. n + 1
    OBVIOUS
  <2> QED
    BY <2>1, <2>2, <1>9, <1>7
<1>13. ASSUME NEW k \in 1 .. n
       PROVE  new[k + 1] = new[k] + Len(Frame(packets[k]))
  <2>1. at[k + 1] = at[k] + Len(Frame(packets[k]))
    BY <1>6
  <2> QED
    BY <2>1, <1>4, <1>12
<1>14. ASSUME NEW k \in 1 .. n, NEW j \in 1 .. Len(Frame(packets[k])), new[k] + j >= 1
       PROVE  c[new[k] + j] = Frame(packets[k])[j]
  <2>1. /\ j \in Nat /\ j <= Len(Frame(packets[k])) /\ new[k] = at[k] - m
        /\ at[k] \in Int /\ Len(Frame(packets[k])) \in Nat
    BY <1>12
  <2>2. at[k] + j >= 1
    BY <2>1, <1>4, <1>14
  <2>3. cells[at[k] + j] = Frame(packets[k])[j]
    BY <2>2, <1>6
  <2>4. at[k + 1] = at[k] + Len(Frame(packets[k])) /\ at[k + 1] <= z
    BY <1>6, <1>7
  <2>5. new[k] + j \in 1 .. z - m /\ m + (new[k] + j) = at[k] + j
    BY <2>1, <2>4, <1>4, <1>14
  <2>6. c[new[k] + j] = cells[m + (new[k] + j)]
    BY <2>5, <1>5
  <2> QED
    BY <2>3, <2>5, <2>6
<1>15. LaidOut(packets, c, new)
  BY <1>1, <1>5, <1>9, <1>10, <1>11, <1>13, <1>14 DEF LaidOut
<1> QED
  BY <1>1, <1>2, <1>3, <1>8, <1>15, Zenon

--------------------------------------------------------------------------------
(* The receive buffer and the wire are one stream.                             *)

\* The front of the first part goes: so it does of the whole.
LEMMA CutJoined ==
  ASSUME NEW s \in Seq(Nat), NEW t \in Seq(Nat), NEW m \in 0 .. Len(s)
  PROVE  /\ SubSeq(s, m + 1, Len(s)) \in Seq(Nat)
         /\ SubSeq(s, m + 1, Len(s)) \o t = SubSeq(s \o t, m + 1, Len(s \o t))
<1>1. PICK x \in Nat, y \in Nat : x = Len(s) /\ y = Len(t)
  OBVIOUS
<1>2. m \in Nat /\ m <= x
  BY <1>1
<1>3. PICK u : u = s \o t
  OBVIOUS
<1>4. /\ u \in Seq(Nat) /\ Len(u) = x + y
      /\ \A i \in 1 .. x : u[i] = s[i]
      /\ \A i \in x + 1 .. x + y : u[i] = t[i - x]
  BY <1>1, <1>3, JoinedCells, Zenon
<1>5. PICK a : a = SubSeq(s, m + 1, x)
  OBVIOUS
<1>6. a \in Seq(Nat) /\ Len(a) = x - m /\ \A i \in 1 .. x - m : a[i] = s[m + i]
  <2>1. \A i \in m + 1 .. x : s[i] \in Nat
    BY <1>1, <1>2, ElementOfSeq
  <2>2. /\ a \in Seq(Nat)
        /\ Len(a) = IF m + 1 <= x THEN x - (m + 1) + 1 ELSE 0
        /\ \A i \in 1 .. x - (m + 1) + 1 : a[i] = s[(m + 1) + i - 1]
    BY <2>1, <1>2, <1>5, SubSeqProperties
  <2> QED
    BY <2>2, <1>2
<1>7. PICK b : b = SubSeq(u, m + 1, x + y)
  OBVIOUS
<1>8. /\ b \in Seq(Nat) /\ Len(b) = x + y - m
      /\ \A i \in 1 .. x + y - m : b[i] = u[m + i]
  <2>1. \A i \in m + 1 .. x + y : u[i] \in Nat
    BY <1>2, <1>4, ElementOfSeq
  <2>2. /\ b \in Seq(Nat)
        /\ Len(b) = IF m + 1 <= x + y THEN (x + y) - (m + 1) + 1 ELSE 0
        /\ \A i \in 1 .. (x + y) - (m + 1) + 1 : b[i] = u[(m + 1) + i - 1]
    BY <2>1, <1>2, <1>7, SubSeqProperties
  <2> QED
    BY <2>2, <1>2
<1>9. PICK r \in Nat : r = x - m
  BY <1>2
<1>10. PICK c : c = a \o t
  OBVIOUS
<1>11. /\ c \in Seq(Nat) /\ Len(c) = r + y
       /\ \A i \in 1 .. r : c[i] = a[i]
       /\ \A i \in r + 1 .. r + y : c[i] = t[i - r]
  <2>1. a \in Seq(Nat) /\ Len(a) = r
    BY <1>6, <1>9
  <2> QED
    BY <2>1, <1>1, <1>10, JoinedCells, Zenon
<1>12. ASSUME NEW i \in 1 .. Len(b)
       PROVE  c[i] = b[i]
  <2>1. i \in 1 .. x + y - m /\ b[i] = u[m + i]
    BY <1>8
  <2>2. CASE i <= x - m
    <3>1. i \in 1 .. r /\ i \in 1 .. x - m /\ m + i \in 1 .. x
      BY <2>1, <2>2, <1>2, <1>9
    <3>2. c[i] = a[i] /\ a[i] = s[m + i] /\ u[m + i] = s[m + i]
      BY <3>1, <1>4, <1>6, <1>11
    <3> QED
      BY <2>1, <3>2
  <2>3. CASE i > x - m
    <3>1. /\ i \in r + 1 .. r + y /\ m + i \in x + 1 .. x + y
          /\ i - r = (m + i) - x
      BY <2>1, <2>3, <1>2, <1>9
    <3>2. c[i] = t[i - r]
      BY <3>1, <1>11
    <3>3. u[m + i] = t[(m + i) - x]
      BY <3>1, <1>4
    <3> QED
      BY <2>1, <3>1, <3>2, <3>3
  <2> QED
    BY <2>1, <2>2, <2>3, <1>2
<1>13. c = b
  <2>1. c \in Seq(Nat) /\ b \in Seq(Nat) /\ Len(c) = r + y /\ Len(b) = x + y - m
    BY <1>8, <1>11
  <2>2. Len(c) = Len(b)
    BY <2>1, <1>2, <1>9
  <2> QED
    BY <2>1, <2>2, <1>12, SeqEqual
<1>14. QED
  BY <1>1, <1>3, <1>4, <1>5, <1>6, <1>7, <1>10, <1>13, Zenon

\* Some cells move from the front of the second part to the end of the first.
LEMMA MoveCells ==
  ASSUME NEW s \in Seq(Nat), NEW t \in Seq(Nat), NEW m \in 0 .. Len(t)
  PROVE  /\ s \o SubSeq(t, 1, m) \in Seq(Nat)
         /\ Len(s \o SubSeq(t, 1, m)) = Len(s) + m
         /\ SubSeq(t, m + 1, Len(t)) \in Seq(Nat)
         /\ (s \o SubSeq(t, 1, m)) \o SubSeq(t, m + 1, Len(t)) = s \o t
<1>1. PICK x \in Nat, y \in Nat : x = Len(s) /\ y = Len(t)
  OBVIOUS
<1>2. m \in Nat /\ m <= y
  BY <1>1
<1>3. PICK a : a = SubSeq(t, 1, m)
  OBVIOUS
<1>4. a \in Seq(Nat) /\ Len(a) = m /\ \A i \in 1 .. m : a[i] = t[i]
  <2>1. \A i \in 1 .. m : t[i] \in Nat
    BY <1>1, <1>2, ElementOfSeq
  <2>2. /\ a \in Seq(Nat)
        /\ Len(a) = IF 1 <= m THEN m - 1 + 1 ELSE 0
        /\ \A i \in 1 .. m - 1 + 1 : a[i] = t[1 + i - 1]
    BY <2>1, <1>2, <1>3, SubSeqProperties
  <2> QED
    BY <2>2, <1>2
<1>5. PICK b : b = SubSeq(t, m + 1, y)
  OBVIOUS
<1>6. b \in Seq(Nat) /\ Len(b) = y - m /\ \A i \in 1 .. y - m : b[i] = t[m + i]
  <2>1. \A i \in m + 1 .. y : t[i] \in Nat
    BY <1>1, <1>2, ElementOfSeq
  <2>2. /\ b \in Seq(Nat)
        /\ Len(b) = IF m + 1 <= y THEN y - (m + 1) + 1 ELSE 0
        /\ \A i \in 1 .. y - (m + 1) + 1 : b[i] = t[(m + 1) + i - 1]
    BY <2>1, <1>2, <1>5, SubSeqProperties
  <2> QED
    BY <2>2, <1>2
<1>7. a \o b = t
  <2>1. PICK r \in Nat : r = y - m
    BY <1>2
  <2>2. PICK c : c = a \o b
    OBVIOUS
  <2>3. /\ c \in Seq(Nat) /\ Len(c) = m + r
        /\ \A i \in 1 .. m : c[i] = a[i]
        /\ \A i \in m + 1 .. m + r : c[i] = b[i - m]
    <3>1. b \in Seq(Nat) /\ Len(b) = r
      BY <1>6, <2>1
    <3>2. /\ a \o b \in Seq(Nat) /\ Len(a \o b) = Len(a) + Len(b)
          /\ \A i \in 1 .. Len(a) : (a \o b)[i] = a[i]
          /\ \A i \in Len(a) + 1 .. Len(a) + Len(b) : (a \o b)[i] = b[i - Len(a)]
      BY <1>4, <3>1, JoinedCells
    <3> QED
      BY <1>4, <2>2, <3>1, <3>2, Zenon
  <2>4. ASSUME NEW i \in 1 .. Len(t)
        PROVE  c[i] = t[i]
    <3>1. i \in 1 .. y
      BY <1>1
    <3>2. CASE i <= m
      BY <3>1, <3>2, <2>3, <1>2, <1>4
    <3>3. CASE i > m
      <4>1. i \in m + 1 .. m + r /\ i - m \in 1 .. y - m /\ m + (i - m) = i
        BY <3>1, <3>3, <2>1, <1>2
      <4>2. c[i] = b[i - m] /\ b[i - m] = t[m + (i - m)]
        BY <4>1, <2>3, <1>6
      <4> QED
        BY <4>1, <4>2
    <3> QED
      BY <3>1, <3>2, <3>3, <1>2
  <2>5. c \in Seq(Nat) /\ Len(c) = Len(t)
    BY <2>1, <2>3, <1>1, <1>2
  <2>6. c = t
    BY <2>4, <2>5, SeqEqual
  <2> QED
    BY <2>2, <2>6
<1>8. (s \o a) \o b = s \o (a \o b)
  <2>1. a \in Seq(Nat) /\ b \in Seq(Nat)
    BY <1>4, <1>6
  <2> QED
    BY <2>1, JoinedTwice
<1>9. s \o a \in Seq(Nat) /\ Len(s \o a) = Len(s) + m
  BY <1>4, JoinedCells
<1>10. QED
  BY <1>1, <1>3, <1>5, <1>6, <1>7, <1>8, <1>9, Zenon

--------------------------------------------------------------------------------
(* What Chunking finds at the front of the buffer.                             *)

\* Where a frame lies at the front, the buffer begins with its cells.
LEMMA FrontCells ==
  ASSUME buffer \in Seq(Nat), wire \in Seq(Nat), sent \in Seq(Packets),
         NEW at, LaidOut(sent, buffer \o wire, at),
         NEW k \in 1 .. Len(sent), at[k] = 0
  PROVE  /\ sent[k] \in Packets
         /\ \A j \in 1 .. Len(Frame(sent[k])) :
              j <= Len(buffer) => buffer[j] = Frame(sent[k])[j]
<1>1. sent[k] \in Packets
  BY ElementOfSeq
<1>2. ASSUME NEW j \in 1 .. Len(Frame(sent[k])), j <= Len(buffer)
      PROVE  buffer[j] = Frame(sent[k])[j]
  <2>1. j \in Nat /\ j >= 1 /\ j \in 1 .. Len(buffer)
    BY <1>1, <1>2, FrameIsCells
  <2>2. at[k] + j = j
    BY <2>1
  <2>3. (buffer \o wire)[at[k] + j] = Frame(sent[k])[j]
    BY <2>1, <2>2 DEF LaidOut
  <2>4. (buffer \o wire)[j] = buffer[j]
    BY <2>1, JoinedCells
  <2> QED
    BY <2>2, <2>3, <2>4
<1>3. QED
  BY <1>1, <1>2

LEMMA FrontLength ==
  ASSUME buffer \in Seq(Nat), wire \in Seq(Nat), sent \in Seq(Packets),
         NEW at, LaidOut(sent, buffer \o wire, at),
         NEW k \in 1 .. Len(sent), at[k] = 0, Len(buffer) >= 2
  PROVE  /\ HasPrefix /\ buffer[2] = Len(Body(sent[k])) /\ buffer[2] \in Nat
         /\ Len(Frame(sent[k])) = buffer[2] + 2
<1>1. sent[k] \in Packets
  BY FrontCells
<1>2. /\ Len(Frame(sent[k])) \in Nat /\ Len(Frame(sent[k])) >= 4
      /\ Len(Body(sent[k])) \in Nat /\ Len(Frame(sent[k])) = Len(Body(sent[k])) + 2
  BY <1>1, FrameIsCells
<1>3. Frame(sent[k])[1] = HEAD /\ Frame(sent[k])[2] = Len(Body(sent[k]))
  BY <1>1, FrameCells
<1>4. buffer[1] = Frame(sent[k])[1] /\ buffer[2] = Frame(sent[k])[2]
  <2>1. /\ 1 \in 1 .. Len(Frame(sent[k])) /\ 2 \in 1 .. Len(Frame(sent[k]))
        /\ 1 <= Len(buffer) /\ 2 <= Len(buffer)
    BY <1>2
  <2> QED
    BY <2>1, FrontCells
<1>5. QED
  BY <1>2, <1>3, <1>4 DEF HasPrefix

\* A part of the buffer that agrees with some cells is these cells.
LEMMA PartIs ==
  ASSUME NEW s \in Seq(Nat), NEW t \in Seq(Nat), NEW m \in Nat, NEW n \in Nat,
         n = m + Len(t), n <= Len(s), \A i \in m + 1 .. n : s[i] = t[i - m]
  PROVE  SubSeq(s, m + 1, n) = t
<1>1. Len(s) \in Nat /\ Len(t) \in Nat
  OBVIOUS
<1>2. PICK a : a = SubSeq(s, m + 1, n)
  OBVIOUS
<1>3. /\ a \in Seq(Nat) /\ Len(a) = Len(t)
      /\ \A i \in 1 .. Len(t) : a[i] = s[m + i]
  <2>1. \A i \in m + 1 .. n : s[i] \in Nat
    BY <1>1, ElementOfSeq
  <2>2. /\ a \in Seq(Nat)
        /\ Len(a) = IF m + 1 <= n THEN n - (m + 1) + 1 ELSE 0
        /\ \A i \in 1 .. n - (m + 1) + 1 : a[i] = s[(m + 1) + i - 1]
    BY <2>1, <1>2, SubSeqProperties
  <2> QED
    BY <2>2, <1>1
<1>4. ASSUME NEW i \in 1 .. Len(t)
      PROVE  a[i] = t[i]
  <2>1. m + i \in m + 1 .. n /\ (m + i) - m = i
    BY <1>1
  <2> QED
    BY <2>1, <1>3
<1>5. a = t
  BY <1>3, <1>4, SeqEqual
<1>6. QED
  BY <1>2, <1>5

\* A frame that lies whole in the buffer is the packet it was made of, and its
\* lengths stay inside.
LEMMA FrontWhole ==
  ASSUME buffer \in Seq(Nat), wire \in Seq(Nat), sent \in Seq(Packets),
         NEW at, LaidOut(sent, buffer \o wire, at),
         NEW k \in 1 .. Len(sent), at[k] = 0,
         Len(Frame(sent[k])) <= Len(buffer)
  PROVE  FrontPacket = sent[k] /\ InPlace
<1>1. sent[k] \in Packets
  BY FrontCells
<1>2. PICK t \in Seq(Nat), u \in Seq(Nat) : sent[k] = [head |-> t, data |-> u]
  BY <1>1 DEF Packets
<1>3. PICK f \in Seq(Nat) : f = Frame(sent[k])
  BY <1>1, FrameIsCells
<1>4. sent[k].head = t /\ sent[k].data = u
  BY <1>2
<1>5. /\ Len(f) = 4 + Len(t) + Len(u)
      /\ f[3] = Len(t) /\ f[4 + Len(t)] = Len(u)
      /\ \A i \in 4 .. 3 + Len(t) : f[i] = t[i - 3]
      /\ \A i \in 5 + Len(t) .. 4 + Len(t) + Len(u) : f[i] = u[i - 4 - Len(t)]
  BY <1>1, <1>3, <1>4, FrameCells, Zenon
<1>6. PICK x \in Nat, y \in Nat : x = Len(t) /\ y = Len(u)
  OBVIOUS
<1>7. Len(f) = 4 + x + y /\ 4 + x + y <= Len(buffer)
  BY <1>3, <1>5, <1>6
<1>8. ASSUME NEW j \in 1 .. 4 + x + y
      PROVE  buffer[j] = f[j]
  <2>1. j \in 1 .. Len(Frame(sent[k])) /\ j <= Len(buffer)
    BY <1>3, <1>7
  <2> QED
    BY <2>1, <1>3, FrontCells
<1>9. buffer[3] = x /\ buffer[4 + x] = y
  <2>1. 3 \in 1 .. 4 + x + y /\ 4 + x \in 1 .. 4 + x + y
    BY <1>6
  <2> QED
    BY <2>1, <1>5, <1>6, <1>8
<1>10. SubSeq(buffer, 4, 3 + x) = t
  <2>1. ASSUME NEW i \in 4 .. 3 + x
        PROVE  buffer[i] = t[i - 3]
    <3>1. i \in 1 .. 4 + x + y /\ i \in 4 .. 3 + Len(t)
      BY <1>6
    <3> QED
      BY <3>1, <1>5, <1>8
  <2>2. 3 + x \in Nat /\ 3 + x = 3 + Len(t) /\ 3 + x <= Len(buffer)
    BY <1>6, <1>7
  <2>3. SubSeq(buffer, 3 + 1, 3 + x) = t
    BY <2>1, <2>2, PartIs
  <2> QED
    BY <2>3
<1>11. SubSeq(buffer, 5 + x, 4 + x + y) = u
  <2>1. ASSUME NEW i \in (4 + x) + 1 .. 4 + x + y
        PROVE  buffer[i] = u[i - (4 + x)]
    <3>1. /\ i \in 1 .. 4 + x + y /\ i \in 5 + Len(t) .. 4 + Len(t) + Len(u)
          /\ i - 4 - Len(t) = i - (4 + x)
      BY <1>6
    <3> QED
      BY <3>1, <1>5, <1>8
  <2>2. /\ 4 + x \in Nat /\ 4 + x + y \in Nat
        /\ 4 + x + y = (4 + x) + Len(u) /\ 4 + x + y <= Len(buffer)
    BY <1>6, <1>7
  <2>3. SubSeq(buffer, (4 + x) + 1, 4 + x + y) = u
    BY <2>1, <2>2, PartIs
  <2>4. (4 + x) + 1 = 5 + x
    BY <1>6
  <2> QED
    BY <2>3, <2>4
<1>12. FrontPacket = [head |-> t, data |-> u]
  BY <1>9, <1>10, <1>11 DEF FrontPacket
<1>13. InPlace
  <2>1. x + 4 = 4 + x /\ x + 4 + y = 4 + x + y /\ 4 <= 4 + x + y /\ x + 4 <= 4 + x + y
    BY <1>6
  <2>2. buffer[3] + 4 = 4 + x /\ buffer[buffer[3] + 4] = y
    BY <2>1, <1>9
  <2>3. Len(buffer) >= 4 /\ 4 + x <= Len(buffer) /\ 4 + x + y <= Len(buffer)
    <3>1. PICK b \in Nat : b = Len(buffer)
      OBVIOUS
    <3>2. 4 + x + y <= b
      BY <3>1, <1>7
    <3>3. b >= 4 /\ 4 + x <= b
      BY <3>2
    <3> QED
      BY <3>1, <3>2, <3>3
  <2>4. buffer[3] + 4 <= Len(buffer) /\ buffer[3] + 4 + buffer[buffer[3] + 4] <= Len(buffer)
    BY <2>2, <2>3, Zenon
  <2> QED
    BY <2>3, <2>4 DEF InPlace
<1>14. QED
  BY <1>2, <1>12, <1>13

\* Cutting a whole frame off the buffer leaves the rest of the stream.
LEMMA RestOfStream ==
  ASSUME buffer \in Seq(Nat), wire \in Seq(Nat), Len(buffer) >= 2,
         buffer[2] \in Nat, buffer[2] + 2 <= Len(buffer)
  PROVE  /\ Rest \in Seq(Nat)
         /\ Rest \o wire
            = SubSeq(buffer \o wire, buffer[2] + 3, Len(buffer \o wire))
<1>1. PICK m \in Nat : m = buffer[2] + 2
  OBVIOUS
<1>2. m \in 0 .. Len(buffer) /\ m + 1 = buffer[2] + 3
  BY <1>1
<1>3. /\ SubSeq(buffer, m + 1, Len(buffer)) \in Seq(Nat)
      /\ SubSeq(buffer, m + 1, Len(buffer)) \o wire
         = SubSeq(buffer \o wire, m + 1, Len(buffer \o wire))
  BY <1>2, CutJoined
<1>4. QED
  BY <1>2, <1>3 DEF Rest

--------------------------------------------------------------------------------
(* Type correctness, and what a step does to the stream.                       *)

TypeOK ==
  /\ sent \in Seq(Payloads)
  /\ wire \in Seq(Nat) /\ buffer \in Seq(Nat)
  /\ peerOpen \in BOOLEAN
  /\ loop \in {"recv", "chunk", "gone", "dead"}

LEMMA SentPackets ==
  ASSUME TypeOK
  PROVE  sent \in Seq(Packets) /\ Len(sent) \in Nat
<1>1. Payloads \subseteq Packets
  BY FramingAssumption DEF Packets
<1>2. QED
  BY <1>1 DEF TypeOK

\* A packet sent leaves the frames where they are and lays its own behind them.
LEMMA OutputLays ==
  ASSUME TypeOK, NEW p \in Payloads, Output(p), NEW at,
         LaidOut(sent, buffer \o wire, at)
  PROVE  /\ sent' \in Seq(Payloads) /\ wire' \in Seq(Nat)
         /\ Len(sent') = Len(sent) + 1
         /\ \A k \in 1 .. Len(sent) : sent'[k] = sent[k]
         /\ \E new : /\ LaidOut(sent', buffer' \o wire', new)
                     /\ \A k \in 1 .. Len(sent) + 1 : new[k] = at[k]
<1>1. p \in Packets /\ Frame(p) \in Seq(Nat)
  BY FramingAssumption, FrameIsCells DEF Packets
<1>2. /\ sent' = Append(sent, p) /\ wire' = wire \o Frame(p) /\ buffer' = buffer
  BY DEF Output
<1>3. sent \in Seq(Packets) /\ buffer \in Seq(Nat) /\ wire \in Seq(Nat)
  BY SentPackets DEF TypeOK
<1>4. buffer \o wire \in Seq(Nat) /\ wire \o Frame(p) \in Seq(Nat)
  BY <1>1, <1>3, ConcatProperties
<1>5. buffer' \o wire' = (buffer \o wire) \o Frame(p)
  <2>1. (buffer \o wire) \o Frame(p) = buffer \o (wire \o Frame(p))
    BY <1>1, <1>3, JoinedTwice
  <2> QED
    BY <2>1, <1>2, Zenon
<1>6. PICK new : /\ LaidOut(Append(sent, p), (buffer \o wire) \o Frame(p), new)
                 /\ \A k \in 1 .. Len(sent) + 1 : new[k] = at[k]
  <2>1. PICK c \in Seq(Nat), q \in Seq(Packets) : c = buffer \o wire /\ q = sent
    BY <1>3, <1>4
  <2>2. LaidOut(q, c, at)
    BY <2>1
  <2>3. \E new : /\ LaidOut(Append(q, p), c \o Frame(p), new)
                 /\ \A k \in 1 .. Len(q) + 1 : new[k] = at[k]
    BY <2>2, <1>1, LayAfter
  <2> QED
    BY <2>1, <2>3, Zenon
<1>7. LaidOut(sent', buffer' \o wire', new)
  BY <1>2, <1>5, <1>6
<1>8. /\ sent' \in Seq(Payloads) /\ Len(sent') = Len(sent) + 1
      /\ \A k \in 1 .. Len(sent) : sent'[k] = sent[k]
  BY <1>2, AppendProperties DEF TypeOK
<1>9. QED
  BY <1>2, <1>4, <1>6, <1>7, <1>8

\* recv moves cells from the wire to the buffer.
LEMMA RecvMoves ==
  ASSUME TypeOK, NEW n \in 1 .. Len(wire), Recv(n)
  PROVE  /\ buffer' \in Seq(Nat) /\ wire' \in Seq(Nat)
         /\ buffer' \o wire' = buffer \o wire
<1>1. n \in 0 .. Len(wire) /\ buffer \in Seq(Nat) /\ wire \in Seq(Nat)
  BY DEF TypeOK
<1>2. /\ buffer' = buffer \o SubSeq(wire, 1, n)
      /\ wire' = SubSeq(wire, n + 1, Len(wire))
  BY DEF Recv
<1>3. QED
  BY <1>1, <1>2, MoveCells

\* Dropping the buffer leaves the wire.
LEMMA ResetCuts ==
  ASSUME TypeOK, ChunkReset, NEW at, LaidOut(sent, buffer \o wire, at)
  PROVE  LaidOut(sent, buffer' \o wire',
                 [k \in 1 .. Len(sent) + 1 |-> at[k] - Len(buffer)])
<1>1. buffer' = <<>> /\ wire' = wire
  BY DEF ChunkReset
<1>2. /\ buffer \in Seq(Nat) /\ wire \in Seq(Nat) /\ sent \in Seq(Packets)
      /\ Len(buffer) \in 0 .. Len(buffer) /\ buffer \o wire \in Seq(Nat)
      /\ Len(buffer) \in 0 .. Len(buffer \o wire)
  BY SentPackets, ConcatProperties DEF TypeOK
<1>3. SubSeq(buffer, Len(buffer) + 1, Len(buffer)) = <<>>
  BY <1>2, SubSeqEmpty
<1>4. <<>> \o wire = SubSeq(buffer \o wire, Len(buffer) + 1, Len(buffer \o wire))
  BY <1>2, <1>3, CutJoined
<1>5. buffer' \o wire' = SubSeq(buffer \o wire, Len(buffer) + 1, Len(buffer \o wire))
  BY <1>1, <1>4
<1>6. LaidOut(sent, SubSeq(buffer \o wire, Len(buffer) + 1, Len(buffer \o wire)),
              [k \in 1 .. Len(sent) + 1 |-> at[k] - Len(buffer)])
  BY <1>2, CutBefore
<1>7. QED
  BY <1>5, <1>6

\* A frame that lies at the front is cut off whole, and delivered.
LEMMA PacketCuts ==
  ASSUME TypeOK, ChunkPacket, NEW at, LaidOut(sent, buffer \o wire, at),
         NEW k \in 1 .. Len(sent), at[k] = 0
  PROVE  /\ buffer' \in Seq(Nat) /\ delivered' = Append(delivered, sent[k])
         /\ \E m \in Nat :
              /\ m = Len(Frame(sent[k]))
              /\ LaidOut(sent, buffer' \o wire',
                         [i \in 1 .. Len(sent) + 1 |-> at[i] - m])
<1>1. /\ Len(buffer) >= 2 /\ ~Incomplete(buffer[2]) /\ wire' = wire
      /\ buffer' = Rest
      /\ delivered' = Append(delivered, IF InPlace THEN FrontPacket ELSE Stale)
  BY DEF ChunkPacket, HasPrefix
<1>2. /\ buffer \in Seq(Nat) /\ wire \in Seq(Nat) /\ sent \in Seq(Packets)
      /\ Len(buffer) \in Nat
  BY SentPackets DEF TypeOK
<1>3. /\ buffer[2] \in Nat /\ Len(Frame(sent[k])) = buffer[2] + 2
  BY <1>1, <1>2, FrontLength
<1>4. buffer[2] + 2 <= Len(buffer)
  BY <1>1, <1>2, <1>3 DEF Incomplete
<1>5. FrontPacket = sent[k] /\ InPlace
  BY <1>2, <1>3, <1>4, FrontWhole
<1>6. /\ Rest \in Seq(Nat)
      /\ Rest \o wire = SubSeq(buffer \o wire, buffer[2] + 3, Len(buffer \o wire))
  BY <1>1, <1>2, <1>3, <1>4, RestOfStream
<1>7. PICK m \in Nat : m = buffer[2] + 2
  BY <1>3
<1>8. buffer \o wire \in Seq(Nat) /\ m \in 0 .. Len(buffer \o wire)
  <2>1. buffer \o wire \in Seq(Nat) /\ Len(buffer \o wire) = Len(buffer) + Len(wire)
    BY <1>2, ConcatProperties
  <2>2. Len(wire) \in Nat
    BY <1>2
  <2> QED
    BY <2>1, <2>2, <1>2, <1>4, <1>7
<1>9. buffer[2] + 3 = m + 1
  BY <1>3, <1>7
<1>10. LaidOut(sent, SubSeq(buffer \o wire, m + 1, Len(buffer \o wire)),
               [i \in 1 .. Len(sent) + 1 |-> at[i] - m])
  BY <1>2, <1>8, CutBefore
<1>11. buffer' \o wire' = SubSeq(buffer \o wire, m + 1, Len(buffer \o wire))
  BY <1>1, <1>6, <1>9
<1>12. QED
  BY <1>1, <1>3, <1>5, <1>6, <1>7, <1>10, <1>11

--------------------------------------------------------------------------------
(* Packets that fit.                                                           *)

\* The next frame to be delivered lies at the front, and every frame before it
\* has been.
InStep(at) ==
  /\ delivered \in Seq(Packets) /\ Len(delivered) <= Len(sent)
  /\ at[Len(delivered) + 1] = 0
  /\ \A i \in 1 .. Len(delivered) : delivered[i] = sent[i]

\* There is room when recv is called, and the connection is deleted only after
\* its sender has closed it.
RoomToRecv ==
  /\ loop = "recv" => Len(buffer) < BufferSize
  /\ loop = "gone" => ~peerOpen

FitInv ==
  /\ TypeOK
  /\ AllFit => /\ \E at : LaidOut(sent, buffer \o wire, at) /\ InStep(at)
               /\ RoomToRecv

LEMMA InitLaidOut ==
  ASSUME Init
  PROVE  TypeOK /\ LaidOut(sent, buffer \o wire, [k \in 1 .. 1 |-> 0])
<1>1. sent = <<>> /\ wire = <<>> /\ buffer = <<>> /\ delivered = <<>>
  BY DEF Init
<1>2. TypeOK
  BY <1>1 DEF Init, TypeOK
<1>3. buffer \o wire = <<>> /\ Len(sent) = 0 /\ Len(<<>>) = 0
  BY <1>1
<1>4. LaidOut(sent, <<>>, [k \in 1 .. 1 |-> 0])
  BY <1>3 DEF LaidOut
<1>5. QED
  BY <1>2, <1>3, <1>4

LEMMA InitFits == Init => FitInv
<1> SUFFICES ASSUME Init PROVE FitInv
  OBVIOUS
<1>1. /\ delivered = <<>> /\ sent = <<>> /\ loop = "recv" /\ Len(buffer) = 0
      /\ Len(delivered) = 0 /\ Len(sent) = 0
  BY DEF Init
<1>2. RoomToRecv
  BY <1>1, FramingAssumption DEF RoomToRecv
<1>3. PICK at : at = [k \in 1 .. 1 |-> 0]
  OBVIOUS
<1>4. InStep(at)
  BY <1>1, <1>3 DEF InStep
<1>5. TypeOK /\ LaidOut(sent, buffer \o wire, at)
  BY <1>3, InitLaidOut
<1>6. QED
  BY <1>2, <1>4, <1>5 DEF FitInv

\* With everything fitting, what lies in the buffer is the beginning of the next
\* frame: Chunking recognises it, and the buffer can hold it.
LEMMA NextFrame ==
  ASSUME TypeOK, AllFit, NEW at, LaidOut(sent, buffer \o wire, at), InStep(at),
         Len(buffer) >= 2
  PROVE  /\ Len(delivered) + 1 \in 1 .. Len(sent)
         /\ HasPrefix /\ buffer[2] \in Nat /\ buffer[2] + 2 <= BufferSize
<1>1. /\ buffer \in Seq(Nat) /\ wire \in Seq(Nat) /\ sent \in Seq(Packets)
      /\ Len(buffer) \in Nat /\ Len(wire) \in Nat /\ Len(sent) \in Nat
      /\ Len(delivered) \in Nat
  BY SentPackets DEF TypeOK, InStep
<1>2. Len(delivered) # Len(sent)
  <2>1. Len(buffer \o wire) = Len(buffer) + Len(wire)
    BY <1>1, ConcatProperties
  <2>2. at[Len(sent) + 1] = Len(buffer \o wire)
    BY DEF LaidOut
  <2> QED
    BY <2>1, <2>2, <1>1 DEF InStep
<1>3. Len(delivered) + 1 \in 1 .. Len(sent)
  BY <1>1, <1>2 DEF InStep
<1>4. PICK k \in 1 .. Len(sent) : k = Len(delivered) + 1 /\ at[k] = 0
  BY <1>3 DEF InStep
<1>5. HasPrefix /\ buffer[2] \in Nat /\ Len(Frame(sent[k])) = buffer[2] + 2
  BY <1>1, <1>4, FrontLength
<1>6. Len(Frame(sent[k])) <= BufferSize
  BY DEF AllFit, Fits
<1>7. QED
  BY <1>3, <1>5, <1>6

\* Type correctness of every step.
LEMMA NextTypeOK == TypeOK /\ [Next]_vars => TypeOK'
<1> SUFFICES ASSUME TypeOK, [Next]_vars PROVE TypeOK'
  OBVIOUS
<1>1. ASSUME NEW p \in Payloads, Output(p) PROVE TypeOK'
  <2>1. p \in Packets /\ Frame(p) \in Seq(Nat)
    BY FramingAssumption, FrameIsCells DEF Packets
  <2>2. wire \o Frame(p) \in Seq(Nat) /\ Append(sent, p) \in Seq(Payloads)
    BY <2>1, ConcatProperties, AppendProperties DEF TypeOK
  <2> QED
    BY <1>1, <2>2 DEF Output, TypeOK
<1>2. CASE PeerClose
  BY <1>2 DEF PeerClose, TypeOK
<1>3. ASSUME NEW n \in 1 .. Len(wire), Recv(n) PROVE TypeOK'
  BY <1>3, RecvMoves DEF Recv, TypeOK
<1>4. CASE RecvZero
  BY <1>4 DEF RecvZero, TypeOK
<1>5. CASE ChunkWait
  BY <1>5 DEF ChunkWait, TypeOK
<1>6. CASE ChunkReset
  BY <1>6 DEF ChunkReset, TypeOK
<1>7. CASE ChunkPacket
  <2>1. /\ buffer \in Seq(Nat) /\ wire \in Seq(Nat) /\ Len(buffer) \in Nat
        /\ Len(buffer) >= 2 /\ ~Incomplete(buffer[2])
    BY <1>7 DEF ChunkPacket, HasPrefix, TypeOK
  <2>2. 2 \in 1 .. Len(buffer)
    BY <2>1
  <2>3. buffer[2] \in Nat
    BY <2>1, <2>2, ElementOfSeq
  <2>4. buffer[2] + 2 <= Len(buffer)
    BY <2>1, <2>3 DEF Incomplete
  <2>5. Rest \in Seq(Nat)
    BY <2>1, <2>3, <2>4, RestOfStream
  <2> QED
    BY <1>7, <2>5 DEF ChunkPacket, TypeOK
<1>8. CASE ChunkCrash
  BY <1>8 DEF ChunkCrash, TypeOK
<1>9. CASE UNCHANGED vars
  BY <1>9 DEF vars, TypeOK
<1>10. QED
  BY <1>1, <1>2, <1>3, <1>4, <1>5, <1>6, <1>7, <1>8, <1>9
     DEF Next, HandleInput, Closed

\* The actions that leave the stream and the deliveries alone.
LEMMA StreamKept ==
  ASSUME TypeOK, AllFit, NEW at, LaidOut(sent, buffer \o wire, at), InStep(at),
         sent' = sent, delivered' = delivered, buffer' \o wire' = buffer \o wire
  PROVE  LaidOut(sent', buffer' \o wire', at) /\ InStep(at)'
<1>1. LaidOut(sent', buffer' \o wire', at)
  BY Zenon
<1>2. InStep(at)'
  BY DEF InStep
<1>3. QED
  BY <1>1, <1>2

\* A packet sent, when everything fits.
LEMMA OutputFits ==
  ASSUME FitInv, TypeOK', NEW p \in Payloads, Output(p)
  PROVE  FitInv'
<1> SUFFICES ASSUME AllFit'
             PROVE  (\E at : LaidOut(sent, buffer \o wire, at) /\ InStep(at))' /\ RoomToRecv'
  BY Zenon DEF FitInv
<1>1. TypeOK
  BY DEF FitInv
<1>2. PICK n \in Nat : n = Len(sent)
  BY <1>1, SentPackets
<1>3. /\ sent' = Append(sent, p) /\ UNCHANGED <<peerOpen, buffer, loop, delivered>>
      /\ sent \in Seq(Payloads)
  BY <1>1 DEF Output, TypeOK
<1>4. Len(sent') = n + 1 /\ \A k \in 1 .. n : sent'[k] = sent[k]
  BY <1>2, <1>3, AppendProperties
<1>5. AllFit
  <2>1. ASSUME NEW k \in 1 .. n PROVE Fits(sent[k])
    <3>1. k \in 1 .. n + 1 /\ sent'[k] = sent[k]
      BY <1>2, <1>4
    <3>2. Fits(sent'[k])
      BY <3>1, <1>4 DEF AllFit
    <3> QED
      BY <3>1, <3>2
  <2> QED
    BY <2>1, <1>2 DEF AllFit
<1>6. PICK at : LaidOut(sent, buffer \o wire, at) /\ InStep(at)
  BY <1>5 DEF FitInv
<1>7. PICK new : /\ LaidOut(sent', buffer' \o wire', new)
                 /\ \A k \in 1 .. Len(sent) + 1 : new[k] = at[k]
  BY <1>1, <1>6, OutputLays
<1>8. InStep(new)'
  <2>1. PICK d \in Nat : d = Len(delivered) /\ d <= n /\ at[d + 1] = 0
    BY <1>2, <1>6 DEF InStep
  <2>2. d + 1 \in 1 .. n + 1
    BY <1>2, <2>1
  <2>3. new[d + 1] = 0
    BY <2>1, <2>2, <1>2, <1>7
  <2>4. d <= n + 1
    BY <1>2, <2>1
  <2>5. ASSUME NEW i \in 1 .. d PROVE delivered[i] = sent'[i]
    <3>1. i \in 1 .. n
      BY <1>2, <2>1
    <3> QED
      BY <3>1, <2>1, <1>4, <1>6 DEF InStep
  <2>6. delivered \in Seq(Packets)
    BY <1>6 DEF InStep
  <2> QED
    BY <1>3, <1>4, <2>1, <2>3, <2>4, <2>5, <2>6 DEF InStep
<1>9. RoomToRecv'
  BY <1>3, <1>5 DEF FitInv, RoomToRecv
<1>10. QED
  BY <1>7, <1>8, <1>9

\* A packet delivered, when everything fits.
LEMMA PacketFits ==
  ASSUME FitInv, TypeOK', ChunkPacket
  PROVE  FitInv'
<1> SUFFICES ASSUME AllFit'
             PROVE  (\E at : LaidOut(sent, buffer \o wire, at) /\ InStep(at))' /\ RoomToRecv'
  BY Zenon DEF FitInv
<1>1. /\ TypeOK /\ sent' = sent /\ UNCHANGED <<peerOpen, loop, sent>>
      /\ loop = "chunk" /\ Len(buffer) >= 2
  BY DEF FitInv, ChunkPacket, HasPrefix
<1>2. AllFit
  BY <1>1 DEF AllFit
<1>3. PICK at : LaidOut(sent, buffer \o wire, at) /\ InStep(at)
  BY <1>2 DEF FitInv
<1>4. PICK n \in Nat, d \in Nat :
        /\ n = Len(sent) /\ d = Len(delivered) /\ d + 1 \in 1 .. n /\ at[d + 1] = 0
        /\ \A i \in 1 .. d : delivered[i] = sent[i]
  BY <1>1, <1>2, <1>3, NextFrame, SentPackets DEF InStep
<1>5. sent[d + 1] \in Packets
  BY <1>1, <1>4, SentPackets, ElementOfSeq
<1>6. PICK m \in Nat :
        /\ m = Len(Frame(sent[d + 1]))
        /\ LaidOut(sent, buffer' \o wire', [i \in 1 .. n + 1 |-> at[i] - m])
        /\ delivered' = Append(delivered, sent[d + 1])
  BY <1>1, <1>3, <1>4, PacketCuts
<1>7. PICK new : new = [i \in 1 .. n + 1 |-> at[i] - m]
  OBVIOUS
<1>8. /\ delivered' \in Seq(Packets) /\ Len(delivered') = d + 1
      /\ \A i \in 1 .. d : delivered'[i] = delivered[i]
      /\ delivered'[d + 1] = sent[d + 1]
  BY <1>3, <1>4, <1>5, <1>6, AppendProperties DEF InStep
<1>9. new[d + 2] = 0
  <2>1. d + 2 \in 1 .. n + 1 /\ d + 2 = (d + 1) + 1
    BY <1>4
  <2>2. at[(d + 1) + 1] = at[d + 1] + Len(Frame(sent[d + 1]))
    BY <1>3, <1>4 DEF LaidOut
  <2> QED
    BY <2>1, <2>2, <1>4, <1>6, <1>7
<1>10. ASSUME NEW i \in 1 .. d + 1 PROVE delivered'[i] = sent[i]
  <2>1. i \in 1 .. d \/ i = d + 1
    BY <1>4
  <2> QED
    BY <2>1, <1>4, <1>8
<1>11. d + 1 <= n /\ (d + 1) + 1 = d + 2
  BY <1>4
<1>12. InStep(new)'
  BY <1>1, <1>4, <1>8, <1>9, <1>10, <1>11 DEF InStep
<1>13. LaidOut(sent', buffer' \o wire', new)
  BY <1>1, <1>6, <1>7
<1>14. RoomToRecv'
  BY <1>1 DEF RoomToRecv
<1>15. QED
  BY <1>12, <1>13, <1>14

LEMMA NextFits == FitInv /\ [Next]_vars => FitInv'
<1> SUFFICES ASSUME FitInv, [Next]_vars PROVE FitInv'
  OBVIOUS
<1>1. TypeOK /\ TypeOK'
  BY NextTypeOK DEF FitInv
<1>2. ASSUME NEW p \in Payloads, Output(p) PROVE FitInv'
  BY <1>1, <1>2, OutputFits
<1>3. CASE ChunkPacket
  BY <1>1, <1>3, PacketFits
<1>4. ASSUME NEW at, AllFit, LaidOut(sent, buffer \o wire, at), InStep(at)
      PROVE  ~ChunkReset
  <2>1. SUFFICES ASSUME ChunkReset PROVE FALSE
    OBVIOUS
  <2>2. Len(buffer) >= 2 /\ (HasPrefix => TooBig(buffer[2]))
    BY <2>1 DEF ChunkReset
  <2>3. HasPrefix /\ buffer[2] \in Nat /\ buffer[2] + 2 <= BufferSize
    BY <1>1, <1>4, <2>2, NextFrame
  <2> QED
    BY <2>2, <2>3, FramingAssumption DEF TooBig
<1>5. ASSUME sent' = sent, delivered' = delivered,
             \A at : AllFit /\ LaidOut(sent, buffer \o wire, at) /\ InStep(at)
                     => buffer' \o wire' = buffer \o wire /\ RoomToRecv'
      PROVE  FitInv'
  <2> SUFFICES ASSUME AllFit'
               PROVE  (\E at : LaidOut(sent, buffer \o wire, at) /\ InStep(at))'
                      /\ RoomToRecv'
    BY <1>1, Zenon DEF FitInv
  <2>1. AllFit
    BY <1>5 DEF AllFit
  <2>2. PICK at : LaidOut(sent, buffer \o wire, at) /\ InStep(at)
    BY <2>1 DEF FitInv
  <2>3. buffer' \o wire' = buffer \o wire /\ RoomToRecv'
    BY <1>5, <2>1, <2>2
  <2>4. LaidOut(sent', buffer' \o wire', at) /\ InStep(at)'
    BY <1>1, <1>5, <2>1, <2>2, <2>3, StreamKept
  <2> QED
    BY <2>3, <2>4
<1>6. AllFit => RoomToRecv
  BY DEF FitInv
<1>7. CASE PeerClose
  BY <1>5, <1>6, <1>7 DEF PeerClose, RoomToRecv
<1>8. ASSUME NEW n \in 1 .. Len(wire), Recv(n) PROVE FitInv'
  <2>1. buffer' \o wire' = buffer \o wire
    BY <1>1, <1>8, RecvMoves
  <2>2. loop' = "chunk" /\ sent' = sent /\ delivered' = delivered
    BY <1>8 DEF Recv
  <2> QED
    BY <1>5, <2>1, <2>2 DEF RoomToRecv
<1>9. CASE RecvZero
  <2>1. AllFit => ~peerOpen
    <3>1. SUFFICES ASSUME AllFit, peerOpen PROVE FALSE
      OBVIOUS
    <3>2. Len(buffer) < BufferSize /\ Room = 0
      BY <1>6, <1>9, <3>1 DEF RecvZero, RoomToRecv
    <3>3. Len(buffer) \in Nat
      BY <1>1 DEF TypeOK
    <3> QED
      BY <3>2, <3>3, FramingAssumption DEF Room
  <2>2. /\ loop' = "gone" /\ peerOpen' = peerOpen
        /\ sent' = sent /\ delivered' = delivered /\ buffer' = buffer /\ wire' = wire
    BY <1>9 DEF RecvZero
  <2> QED
    BY <1>5, <2>1, <2>2 DEF RoomToRecv
<1>10. CASE ChunkWait
  <2>1. /\ loop' = "recv" /\ peerOpen' = peerOpen
        /\ sent' = sent /\ delivered' = delivered /\ buffer' = buffer /\ wire' = wire
    BY <1>10 DEF ChunkWait
  <2>2. ASSUME NEW at, AllFit, LaidOut(sent, buffer \o wire, at), InStep(at)
        PROVE  Len(buffer) < BufferSize
    <3>1. Len(buffer) \in Nat /\ BufferSize \in Nat /\ 2 <= BufferSize
      BY <1>1, FramingAssumption DEF TypeOK
    <3>2. CASE Len(buffer) < 2
      BY <3>1, <3>2
    <3>3. CASE Len(buffer) >= 2
      <4>1. buffer[2] \in Nat /\ buffer[2] + 2 <= BufferSize
        BY <1>1, <2>2, <3>3, NextFrame
      <4>2. Incomplete(buffer[2])
        BY <1>10, <3>1, <3>3 DEF ChunkWait
      <4> QED
        BY <3>1, <4>1, <4>2, <3>3 DEF Incomplete
    <3> QED
      BY <3>1, <3>2, <3>3
  <2> QED
    BY <1>5, <2>1, <2>2 DEF RoomToRecv
<1>11. CASE ChunkReset
  <2>1. sent' = sent /\ delivered' = delivered
    BY <1>11 DEF ChunkReset
  <2> QED
    BY <1>4, <1>5, <1>11, <2>1
<1>12. CASE UNCHANGED vars
  <2>1. /\ loop' = loop /\ peerOpen' = peerOpen
        /\ sent' = sent /\ delivered' = delivered /\ buffer' = buffer /\ wire' = wire
    BY <1>12 DEF vars
  <2> QED
    BY <1>5, <1>6, <2>1 DEF RoomToRecv
<1>13. CASE ChunkCrash
  <2>1. /\ loop' = "dead" /\ peerOpen' = peerOpen
        /\ sent' = sent /\ delivered' = delivered /\ buffer' = buffer /\ wire' = wire
    BY <1>13 DEF ChunkCrash
  <2> QED
    BY <1>5, <2>1 DEF RoomToRecv
<1>14. QED
  BY <1>2, <1>3, <1>7, <1>8, <1>9, <1>10, <1>11, <1>12, <1>13 DEF Next, HandleInput, Closed

\* The packets that reached OnReceived are the first of those that were sent.
DeliveredInOrder ==
  /\ Len(delivered) <= Len(sent)
  /\ \A i \in 1 .. Len(delivered) : delivered[i] = sent[i]

LEMMA FitsInOrder ==
  ASSUME FitInv, AllFit
  PROVE  DeliveredInOrder /\ NothingForged /\ ClosedByPeerOnly
<1>1. /\ Len(sent) \in Nat /\ Len(delivered) \in Nat /\ Len(delivered) <= Len(sent)
      /\ \A i \in 1 .. Len(delivered) : delivered[i] = sent[i]
  BY SentPackets DEF FitInv, InStep
<1>2. NothingForged
  <2>1. PICK at : at = [i \in 1 .. Len(delivered) |-> i]
    OBVIOUS
  <2>2. /\ at \in [1 .. Len(delivered) -> 1 .. Len(sent)]
        /\ \A i, j \in 1 .. Len(delivered) : i < j => at[i] < at[j]
        /\ \A i \in 1 .. Len(delivered) : delivered[i] = sent[at[i]]
    BY <1>1, <2>1
  <2> QED
    BY <2>2 DEF NothingForged
<1>3. QED
  BY <1>1, <1>2 DEF DeliveredInOrder, ClosedByPeerOnly, FitInv, RoomToRecv

\* As long as every packet sent fits in the receive buffer, the packets that
\* reach OnReceived are those that were sent, one by one and in their order, and
\* HandleInputImpl deletes the connection only after its sender has closed it.
THEOREM FittingPacketsInOrder ==
  Spec => [](AllFit => DeliveredInOrder /\ NothingForged /\ ClosedByPeerOnly)
<1>1. FitInv => (AllFit => DeliveredInOrder /\ NothingForged /\ ClosedByPeerOnly)
  BY FitsInOrder
<1>2. QED
  BY <1>1, InitFits, NextFits, PTL DEF Spec

--------------------------------------------------------------------------------
(* Packets of any length, while HEAD is found only where a frame begins.       *)

\* Every delivered packet is one that was sent, behind the one delivered before
\* it, and what is left of the stream begins behind its frame.
TakenFrom(at, idx) ==
  /\ idx \in [1 .. Len(delivered) -> 1 .. Len(sent)]
  /\ \A i, j \in 1 .. Len(delivered) : i < j => idx[i] < idx[j]
  /\ \A i \in 1 .. Len(delivered) : delivered[i] = sent[idx[i]]
  /\ \A i \in 1 .. Len(delivered) : at[idx[i] + 1] <= 0

Taken ==
  /\ delivered \in Seq(Packets)
  /\ \E at, idx : LaidOut(sent, buffer \o wire, at) /\ TakenFrom(at, idx)

MarkInv == TypeOK /\ (AllMarked => Taken)

\* A step sends at most one packet more.
LEMMA MarkedBefore ==
  ASSUME TypeOK, [Next]_vars, AllMarked'
  PROVE  AllMarked
<1>1. CASE sent' = sent
  BY <1>1 DEF AllMarked
<1>2. ASSUME NEW p \in Payloads, sent' = Append(sent, p) PROVE AllMarked
  <2>1. PICK n \in Nat : n = Len(sent)
    BY SentPackets
  <2>2. Len(sent') = n + 1 /\ \A k \in 1 .. n : sent'[k] = sent[k]
    BY <1>2, <2>1, AppendProperties DEF TypeOK
  <2>3. ASSUME NEW k \in 1 .. n PROVE Marked(sent[k])
    <3>1. k \in 1 .. n + 1 /\ sent'[k] = sent[k]
      BY <2>1, <2>2
    <3>2. Marked(sent'[k])
      BY <3>1, <2>2 DEF AllMarked
    <3> QED
      BY <3>1, <3>2
  <2> QED
    BY <2>1, <2>3 DEF AllMarked
<1>3. sent' = sent \/ \E p \in Payloads : sent' = Append(sent, p)
  BY DEF Next, Output, PeerClose, HandleInput, Recv, RecvZero, ChunkWait, ChunkReset,
         ChunkPacket, ChunkCrash, Closed, vars
<1>4. QED
  BY <1>1, <1>2, <1>3

LEMMA SmallestOf ==
  ASSUME NEW T \in SUBSET Nat, T # {}
  PROVE  \E m \in T : \A k \in T : m <= k
<1> DEFINE R == {p \in Nat \X Nat : p[1] < p[2]}
<1>1. IsWellFoundedOn(R, Nat)
  BY NatLessThanWellFounded DEF OpToRel
<1>2. PICK m \in T : \A k \in T : ~(<<k, m>> \in R)
  <2> HIDE DEF R
  <2> QED
    BY <1>1, WFMin
<1>3. ASSUME NEW k \in T, k < m PROVE FALSE
  <2>1. k \in Nat /\ m \in Nat
    OBVIOUS
  <2>2. <<k, m>> \in R
    BY <1>3, <2>1
  <2> QED
    BY <1>2, <2>2
<1>4. ASSUME NEW k \in T PROVE m <= k
  <2>1. k \in Nat /\ m \in Nat
    OBVIOUS
  <2> QED
    BY <1>3, <2>1
<1>5. QED
  BY <1>4

\* HEAD at the front of the buffer is the first cell of a frame.
LEMMA FrontFrame ==
  ASSUME TypeOK, AllMarked, NEW at, LaidOut(sent, buffer \o wire, at),
         Len(buffer) >= 1, buffer[1] = HEAD
  PROVE  \E k \in 1 .. Len(sent) : at[k] = 0
<1>1. PICK n \in Nat, c \in Seq(Nat) :
        /\ n = Len(sent) /\ c = buffer \o wire /\ Len(c) >= 1 /\ c[1] = HEAD
  <2>1. Len(buffer) \in Nat /\ 1 \in 1 .. Len(buffer) /\ Len(wire) \in Nat
    BY DEF TypeOK
  <2>2. /\ buffer \o wire \in Seq(Nat) /\ (buffer \o wire)[1] = buffer[1]
        /\ Len(buffer \o wire) = Len(buffer) + Len(wire)
    BY <2>1, JoinedCells DEF TypeOK
  <2>3. Len(buffer \o wire) >= 1
    BY <2>1, <2>2
  <2> QED
    BY <2>2, <2>3, SentPackets
<1>2. /\ at \in [1 .. n + 1 -> Int] /\ at[1] <= 0 /\ at[n + 1] = Len(c)
      /\ \A k \in 1 .. n : at[k + 1] = at[k] + Len(Frame(sent[k]))
      /\ \A k \in 1 .. n : \A j \in 1 .. Len(Frame(sent[k])) :
           at[k] + j >= 1 => c[at[k] + j] = Frame(sent[k])[j]
  BY <1>1 DEF LaidOut
<1> DEFINE T == {k \in 1 .. n + 1 : at[k] > 0}
<1>3. PICK m \in T : \A k \in T : m <= k
  <2>1. n + 1 \in T /\ T \subseteq Nat
    BY <1>1, <1>2
  <2> HIDE DEF T
  <2> QED
    BY <2>1, SmallestOf
<1>4. m # 1 /\ m \in 1 .. n + 1 /\ at[m] > 0
  BY <1>2
<1>5. PICK k \in 1 .. n : k + 1 = m
  BY <1>4
<1>6. at[k] \in Int /\ at[k] <= 0
  <2>1. k \in 1 .. n + 1 /\ k < m
    BY <1>5
  <2>2. k \notin T
    BY <1>3, <2>1
  <2>3. at[k] \in Int /\ ~(at[k] > 0)
    BY <2>1, <2>2, <1>2
  <2> QED
    BY <2>3
<1>7. sent[k] \in Packets /\ sent[k] \in Payloads
  BY <1>1, SentPackets, ElementOfSeq DEF TypeOK
<1>8. PICK l \in Nat : l = Len(Frame(sent[k])) /\ at[k] + l > 0
  <2>1. Len(Frame(sent[k])) \in Nat
    BY <1>7, FrameIsCells
  <2> QED
    BY <2>1, <1>2, <1>4, <1>5
<1>9. ASSUME at[k] # 0 PROVE FALSE
  <2>1. PICK j \in 2 .. l : at[k] + j = 1
    <3>1. 1 - at[k] \in 2 .. l /\ at[k] + (1 - at[k]) = 1
      BY <1>6, <1>8, <1>9
    <3> QED
      BY <3>1
  <2>2. j \in 1 .. Len(Frame(sent[k])) /\ j \in 2 .. Len(Frame(sent[k]))
    BY <1>8
  <2>3. c[at[k] + j] = Frame(sent[k])[j]
    BY <1>2, <2>1, <2>2
  <2>4. Frame(sent[k])[j] # HEAD
    BY <1>1, <2>2 DEF AllMarked, Marked
  <2> QED
    BY <1>1, <2>1, <2>3, <2>4
<1>10. QED
  BY <1>1, <1>9

\* The actions that take cells off the front of the stream and deliver nothing.
LEMMA CutKeepsTaken ==
  ASSUME TypeOK, delivered \in Seq(Packets), NEW at, NEW idx, NEW m \in Nat,
         LaidOut(sent, buffer \o wire, at), TakenFrom(at, idx)
  PROVE  TakenFrom([k \in 1 .. Len(sent) + 1 |-> at[k] - m], idx)
<1>1. PICK n \in Nat, d \in Nat : n = Len(sent) /\ d = Len(delivered)
  BY SentPackets
<1>2. PICK new : new = [k \in 1 .. n + 1 |-> at[k] - m]
  OBVIOUS
<1>3. ASSUME NEW i \in 1 .. d PROVE new[idx[i] + 1] <= 0
  <2>1. idx[i] + 1 \in 1 .. n + 1 /\ at[idx[i] + 1] <= 0
    BY <1>1 DEF TakenFrom
  <2>2. at[idx[i] + 1] \in Int
    BY <1>1, <2>1 DEF LaidOut
  <2> QED
    BY <1>2, <2>1, <2>2
<1>4. TakenFrom(new, idx)
  BY <1>1, <1>3 DEF TakenFrom
<1>5. QED
  BY <1>1, <1>2, <1>4

LEMMA InitMarked == Init => TypeOK /\ Taken
<1> SUFFICES ASSUME Init PROVE TypeOK /\ Taken
  OBVIOUS
<1>1. /\ delivered = <<>> /\ Len(delivered) = 0
  BY DEF Init
<1>2. PICK at : at = [k \in 1 .. 1 |-> 0]
  OBVIOUS
<1>3. TypeOK /\ LaidOut(sent, buffer \o wire, at)
  BY <1>2, InitLaidOut
<1>4. PICK idx : idx = [i \in 1 .. 0 |-> 1]
  OBVIOUS
<1>5. TakenFrom(at, idx)
  BY <1>1, <1>4 DEF TakenFrom
<1>6. QED
  BY <1>1, <1>3, <1>5 DEF Taken

LEMMA OutputMarked ==
  ASSUME TypeOK, Taken, NEW p \in Payloads, Output(p)
  PROVE  Taken'
<1>1. PICK at, idx : LaidOut(sent, buffer \o wire, at) /\ TakenFrom(at, idx)
  BY DEF Taken
<1>2. PICK new : /\ LaidOut(sent', buffer' \o wire', new)
                 /\ \A k \in 1 .. Len(sent) + 1 : new[k] = at[k]
  BY <1>1, OutputLays DEF Taken
<1>3. PICK n \in Nat, d \in Nat : n = Len(sent) /\ d = Len(delivered)
  BY SentPackets DEF Taken
<1>4. delivered' = delivered /\ Len(sent') = n + 1 /\ \A k \in 1 .. n : sent'[k] = sent[k]
  BY <1>1, <1>3, OutputLays DEF Taken, Output
<1>5. /\ idx \in [1 .. d -> 1 .. n]
      /\ \A i, j \in 1 .. d : i < j => idx[i] < idx[j]
      /\ \A i \in 1 .. d : delivered[i] = sent[idx[i]]
      /\ \A i \in 1 .. d : at[idx[i] + 1] <= 0
  BY <1>1, <1>3 DEF TakenFrom
<1>6. ASSUME NEW i \in 1 .. d
      PROVE  /\ idx[i] \in 1 .. n + 1 /\ delivered[i] = sent'[idx[i]]
             /\ new[idx[i] + 1] <= 0
  <2>1. idx[i] \in 1 .. n /\ idx[i] \in 1 .. n + 1 /\ idx[i] + 1 \in 1 .. n + 1
    BY <1>5
  <2> QED
    BY <2>1, <1>2, <1>3, <1>4, <1>5
<1>7. idx \in [1 .. d -> 1 .. n + 1]
  BY <1>5, <1>6
<1>8. TakenFrom(new, idx)'
  BY <1>3, <1>4, <1>5, <1>6, <1>7 DEF TakenFrom
<1>9. QED
  BY <1>2, <1>4, <1>8 DEF Taken

LEMMA ResetMarked ==
  ASSUME TypeOK, Taken, ChunkReset
  PROVE  Taken'
<1>1. PICK at, idx : LaidOut(sent, buffer \o wire, at) /\ TakenFrom(at, idx)
  BY DEF Taken
<1>2. sent' = sent /\ delivered' = delivered
  BY DEF ChunkReset
<1>3. PICK m \in Nat : m = Len(buffer)
  BY DEF TypeOK
<1>4. PICK new : new = [k \in 1 .. Len(sent) + 1 |-> at[k] - m]
  OBVIOUS
<1>5. LaidOut(sent', buffer' \o wire', new)
  BY <1>1, <1>2, <1>3, <1>4, ResetCuts DEF Taken
<1>6. TakenFrom(new, idx)
  BY <1>1, <1>4, CutKeepsTaken DEF Taken
<1>7. TakenFrom(new, idx)'
  BY <1>2, <1>6 DEF TakenFrom
<1>8. QED
  BY <1>2, <1>5, <1>7 DEF Taken

LEMMA PacketMarked ==
  ASSUME TypeOK, AllMarked, Taken, ChunkPacket
  PROVE  Taken'
<1>1. PICK at, idx : LaidOut(sent, buffer \o wire, at) /\ TakenFrom(at, idx)
  BY DEF Taken
<1>2. sent' = sent /\ Len(buffer) >= 2 /\ buffer[1] = HEAD 
  BY DEF ChunkPacket, HasPrefix
<1>3. Len(buffer) >= 1
  BY <1>2 DEF TypeOK
<1>4. PICK n \in Nat, d \in Nat : n = Len(sent) /\ d = Len(delivered)
  BY SentPackets DEF Taken
<1>5. PICK k \in 1 .. n : at[k] = 0
  BY <1>1, <1>2, <1>3, <1>4, FrontFrame
<1>6. PICK m \in Nat :
        /\ m = Len(Frame(sent[k]))
        /\ LaidOut(sent, buffer' \o wire', [i \in 1 .. n + 1 |-> at[i] - m])
        /\ delivered' = Append(delivered, sent[k])
  BY <1>1, <1>2, <1>4, <1>5, PacketCuts
<1>7. PICK new : new = [i \in 1 .. n + 1 |-> at[i] - m]
  OBVIOUS
<1>8. sent[k] \in Packets
  BY <1>2, <1>4, SentPackets, ElementOfSeq
<1>9. /\ delivered' \in Seq(Packets) /\ Len(delivered') = d + 1
      /\ \A i \in 1 .. d : delivered'[i] = delivered[i]
      /\ delivered'[d + 1] = sent[k]
  BY <1>4, <1>6, <1>8, AppendProperties DEF Taken
<1>10. /\ idx \in [1 .. d -> 1 .. n]
       /\ \A i, j \in 1 .. d : i < j => idx[i] < idx[j]
       /\ \A i \in 1 .. d : delivered[i] = sent[idx[i]]
       /\ \A i \in 1 .. d : at[idx[i] + 1] <= 0
  BY <1>1, <1>4 DEF TakenFrom
<1>11. /\ at \in [1 .. n + 1 -> Int]
       /\ \A i, j \in 1 .. n + 1 : i < j => at[i] < at[j]
       /\ at[k + 1] = at[k] + m
  BY <1>1, <1>4, <1>6 DEF LaidOut
<1>12. ASSUME NEW i \in 1 .. d PROVE idx[i] < k /\ new[idx[i] + 1] <= 0
  <2>1. idx[i] \in 1 .. n /\ at[idx[i] + 1] <= 0
    BY <1>10
  <2>2. idx[i] + 1 \in 1 .. n + 1 /\ k \in 1 .. n + 1
    BY <2>1
  <2>3. at[idx[i] + 1] \in Int
    BY <2>2, <1>11
  <2>4. ~(k < idx[i] + 1)
    <3>1. SUFFICES ASSUME k < idx[i] + 1 PROVE FALSE
      OBVIOUS
    <3>2. at[k] < at[idx[i] + 1]
      BY <3>1, <2>2, <1>11
    <3> QED
      BY <3>2, <2>1, <2>3, <1>5
  <2>5. new[idx[i] + 1] = at[idx[i] + 1] - m
    BY <1>7, <2>2
  <2> QED
    BY <2>1, <2>3, <2>4, <2>5
<1>13. new[k + 1] = 0
  <2>1. k + 1 \in 1 .. n + 1
    OBVIOUS
  <2> QED
    BY <2>1, <1>5, <1>7, <1>11
<1>14. PICK taken : taken = [i \in 1 .. d + 1 |-> IF i = d + 1 THEN k ELSE idx[i]]
  OBVIOUS
<1>15. taken[d + 1] = k /\ \A i \in 1 .. d : taken[i] = idx[i]
  BY <1>14
<1>16. ASSUME NEW i \in 1 .. d + 1
       PROVE  /\ taken[i] \in 1 .. n /\ delivered'[i] = sent[taken[i]]
              /\ new[taken[i] + 1] <= 0
  <2>1. CASE i = d + 1
    BY <2>1, <1>9, <1>13, <1>15
  <2>2. CASE i \in 1 .. d
    BY <2>2, <1>9, <1>10, <1>12, <1>15
  <2> QED
    BY <2>1, <2>2
<1>17. ASSUME NEW i \in 1 .. d + 1, NEW j \in 1 .. d + 1, i < j
       PROVE  taken[i] < taken[j]
  <2>1. i \in 1 .. d /\ taken[i] = idx[i]
    BY <1>15, <1>17
  <2>2. CASE j = d + 1
    BY <2>1, <2>2, <1>12, <1>15
  <2>3. CASE j \in 1 .. d
    BY <2>1, <2>3, <1>10, <1>15, <1>17
  <2> QED
    BY <2>2, <2>3
<1>18. taken \in [1 .. d + 1 -> 1 .. n]
  BY <1>14, <1>16
<1>19. TakenFrom(new, taken)'
  BY <1>2, <1>4, <1>9, <1>16, <1>17, <1>18 DEF TakenFrom
<1>20. LaidOut(sent', buffer' \o wire', new)
  BY <1>2, <1>6, <1>7
<1>21. QED
  BY <1>9, <1>19, <1>20 DEF Taken

LEMMA NextMarked == MarkInv /\ [Next]_vars => MarkInv'
<1> SUFFICES ASSUME MarkInv, [Next]_vars, AllMarked' PROVE Taken'
  BY NextTypeOK DEF MarkInv
<1>1. TypeOK /\ AllMarked /\ Taken
  BY MarkedBefore DEF MarkInv
<1>2. ASSUME NEW p \in Payloads, Output(p) PROVE Taken'
  BY <1>1, <1>2, OutputMarked
<1>3. CASE ChunkReset
  BY <1>1, <1>3, ResetMarked
<1>4. CASE ChunkPacket
  BY <1>1, <1>4, PacketMarked
<1>5. ASSUME sent' = sent, delivered' = delivered, buffer' \o wire' = buffer \o wire
      PROVE  Taken'
  <2>1. PICK at, idx : LaidOut(sent, buffer \o wire, at) /\ TakenFrom(at, idx)
    BY <1>1 DEF Taken
  <2>2. LaidOut(sent', buffer' \o wire', at)
    BY <1>5, <2>1, Zenon
  <2>3. TakenFrom(at, idx)'
    BY <1>5, <2>1 DEF TakenFrom
  <2> QED
    BY <1>1, <1>5, <2>2, <2>3 DEF Taken
<1>6. CASE PeerClose
  BY <1>5, <1>6 DEF PeerClose
<1>7. ASSUME NEW n \in 1 .. Len(wire), Recv(n) PROVE Taken'
  <2>1. buffer' \o wire' = buffer \o wire
    BY <1>1, <1>7, RecvMoves
  <2>2. sent' = sent /\ delivered' = delivered
    BY <1>7 DEF Recv
  <2> QED
    BY <1>5, <2>1, <2>2
<1>8. CASE RecvZero
  BY <1>5, <1>8 DEF RecvZero
<1>9. CASE ChunkWait
  BY <1>5, <1>9 DEF ChunkWait
<1>10. CASE ChunkCrash
  BY <1>5, <1>10 DEF ChunkCrash
<1>11. CASE UNCHANGED vars
  BY <1>5, <1>11 DEF vars
<1>12. QED
  BY <1>2, <1>3, <1>4, <1>6, <1>7, <1>8, <1>9, <1>10, <1>11 DEF Next, HandleInput, Closed

\* Chunking never invents, repeats or reorders a packet, also after it has lost
\* its place in the stream, as long as none of the packets sent holds HEAD; nor
\* whatever they hold, as long as all of them fit.
THEOREM NothingIsForged == Spec => []NothingForged
<1>1. FitInv /\ MarkInv => NothingForged
  <2> SUFFICES ASSUME FitInv, MarkInv, AllFit \/ AllMarked PROVE NothingForged
    BY DEF NothingForged
  <2>1. CASE AllFit
    BY <2>1, FitsInOrder
  <2>2. CASE AllMarked
    BY <2>2 DEF MarkInv, Taken, TakenFrom, NothingForged
  <2> QED
    BY <2>1, <2>2
<1>2. Init => MarkInv
  BY InitMarked DEF MarkInv
<1>3. QED
  BY <1>1, <1>2, InitFits, NextFits, NextMarked, PTL DEF Spec

--------------------------------------------------------------------------------
(* The connection is deleted only behind a frame the buffer cannot hold.       *)

\* recv is asked for no byte only behind a frame that fills the buffer without
\* being complete, and if HEAD marks frames, such a packet was sent.
Full ==
  /\ Room = 0 /\ HasPrefix /\ Filling(buffer[2])
  /\ AllMarked => \E n \in 1 .. Len(sent) : Filling(Len(Body(sent[n])))

FullInv ==
  /\ MarkInv /\ Len(buffer) <= BufferSize
  /\ loop = "recv" => Len(buffer) < BufferSize \/ Full
  /\ loop = "gone" => ~peerOpen \/ Full

\* A packet that fills the buffer stays one of those sent.
LEMMA FullKept ==
  ASSUME TypeOK, [Next]_vars, Full, buffer' = buffer
  PROVE  Full'
<1>1. Room' = 0 /\ HasPrefix' /\ Filling(buffer[2])'
  BY DEF Full, Room, HasPrefix, Filling
<1>2. ASSUME AllMarked' PROVE \E n \in 1 .. Len(sent') : Filling(Len(Body(sent'[n])))
  <2>1. PICK n \in 1 .. Len(sent) : Filling(Len(Body(sent[n])))
    BY <1>2, MarkedBefore DEF Full
  <2>2. n \in 1 .. Len(sent') /\ sent'[n] = sent[n]
    <3>1. CASE sent' = sent
      BY <3>1
    <3>2. ASSUME NEW p \in Payloads, sent' = Append(sent, p)
          PROVE  n \in 1 .. Len(sent') /\ sent'[n] = sent[n]
      <4>1. /\ Len(sent') = Len(sent) + 1 /\ Len(sent) \in Nat
            /\ \A k \in 1 .. Len(sent) : sent'[k] = sent[k]
        BY <3>2, AppendProperties DEF TypeOK
      <4> QED
        BY <4>1
    <3>3. sent' = sent \/ \E p \in Payloads : sent' = Append(sent, p)
      BY DEF Next, Output, PeerClose, HandleInput, Recv, RecvZero, ChunkWait, ChunkReset,
             ChunkPacket, ChunkCrash, Closed, vars
    <3> QED
      BY <3>1, <3>2, <3>3
  <2> QED
    BY <2>1, <2>2
<1>3. QED
  BY <1>1, <1>2 DEF Full, Filling

\* Chunking leaves a full buffer only behind a frame of that one length.
LEMMA WaitFull ==
  ASSUME MarkInv, ChunkWait, ~(Len(buffer) < BufferSize), Len(buffer) <= BufferSize
  PROVE  Full
<1>1. TypeOK /\ Len(buffer) \in Nat /\ BufferSize \in Nat /\ 2 <= BufferSize
  BY FramingAssumption DEF MarkInv, TypeOK
<1>2. Len(buffer) = BufferSize /\ Len(buffer) >= 2
  BY <1>1
<1>3. HasPrefix /\ ~TooBig(buffer[2]) /\ Incomplete(buffer[2])
  BY <1>1, <1>2 DEF ChunkWait
<1>4. buffer[2] \in Nat
  <2>1. 2 \in 1 .. Len(buffer) /\ buffer \in Seq(Nat)
    BY <1>1, <1>2 DEF TypeOK
  <2> QED
    BY <2>1, ElementOfSeq
<1>5. Filling(buffer[2]) /\ Room = 0
  BY <1>1, <1>2, <1>3, <1>4 DEF TooBig, Incomplete, Filling, Room
<1>6. ASSUME AllMarked PROVE \E n \in 1 .. Len(sent) : Filling(Len(Body(sent[n])))
  <2>1. PICK at : LaidOut(sent, buffer \o wire, at)
    BY <1>6 DEF MarkInv, Taken
  <2>2. buffer[1] = HEAD /\ Len(buffer) >= 1
    BY <1>1, <1>2, <1>3 DEF HasPrefix
  <2>3. PICK k \in 1 .. Len(sent) : at[k] = 0
    BY <1>1, <1>6, <2>1, <2>2, FrontFrame
  <2>4. buffer[2] = Len(Body(sent[k]))
    BY <1>1, <1>2, <2>1, <2>3, SentPackets, FrontLength DEF TypeOK
  <2> QED
    BY <1>5, <2>4 DEF Filling
<1>7. QED
  BY <1>3, <1>5, <1>6 DEF Full

LEMMA NextFull == FullInv /\ [Next]_vars => FullInv'
<1> SUFFICES ASSUME FullInv, [Next]_vars PROVE FullInv'
  OBVIOUS
<1>1. MarkInv /\ TypeOK /\ MarkInv' /\ TypeOK'
  BY NextMarked DEF FullInv, MarkInv
<1>2. /\ Len(buffer) \in Nat /\ BufferSize \in Nat /\ 2 <= BufferSize
      /\ Len(buffer) <= BufferSize /\ Len(wire) \in Nat
  BY <1>1, FramingAssumption DEF TypeOK, FullInv
<1>3. ASSUME buffer' = buffer, loop' = loop, peerOpen' = peerOpen \/ ~peerOpen'
      PROVE  FullInv'
  BY <1>1, <1>2, <1>3, FullKept DEF FullInv
<1>4. ASSUME NEW p \in Payloads, Output(p) PROVE FullInv'
  BY <1>3, <1>4 DEF Output
<1>5. CASE PeerClose
  BY <1>3, <1>5 DEF PeerClose
<1>6. ASSUME NEW n \in 1 .. Len(wire), Recv(n) PROVE FullInv'
  <2>1. n \in Nat /\ n <= BufferSize - Len(buffer) /\ n <= Len(wire) /\ loop' = "chunk"
        /\ buffer' = buffer \o SubSeq(wire, 1, n)
    BY <1>6 DEF Recv, Room
  <2>2. SubSeq(wire, 1, n) \in Seq(Nat) /\ Len(SubSeq(wire, 1, n)) = n
    BY <1>1, <2>1, SubSeqProperties, ElementOfSeq DEF TypeOK
  <2>3. Len(buffer') = Len(buffer) + n
    BY <1>1, <2>1, <2>2, JoinedCells DEF TypeOK
  <2> QED
    BY <1>1, <1>2, <2>1, <2>3 DEF FullInv
<1>7. CASE RecvZero
  <2>1. /\ loop = "recv" /\ loop' = "gone" /\ peerOpen' = peerOpen /\ buffer' = buffer
        /\ Room = 0 \/ ~peerOpen
    BY <1>7 DEF RecvZero
  <2>2. ASSUME peerOpen PROVE Full
    BY <1>2, <2>1, <2>2 DEF FullInv, Room
  <2> QED
    BY <1>1, <1>2, <2>1, <2>2, FullKept DEF FullInv
<1>8. CASE ChunkWait
  <2>1. loop' = "recv" /\ buffer' = buffer
    BY <1>8 DEF ChunkWait
  <2>2. Len(buffer) < BufferSize \/ Full'
    BY <1>1, <1>2, <1>8, <2>1, WaitFull, FullKept
  <2> QED
    BY <1>1, <1>2, <2>1, <2>2 DEF FullInv
<1>9. CASE ChunkReset
  <2>1. loop' = "recv" /\ buffer' = <<>> /\ Len(<<>>) = 0
    BY <1>9 DEF ChunkReset
  <2> QED
    BY <1>1, <1>2, <2>1 DEF FullInv
<1>10. CASE ChunkPacket
  <2>1. /\ loop' = "chunk" /\ buffer' = Rest /\ Len(buffer) >= 2 /\ ~Incomplete(buffer[2])
    BY <1>10 DEF ChunkPacket, HasPrefix
  <2>2. 2 \in 1 .. Len(buffer) /\ buffer \in Seq(Nat)
    BY <1>1, <1>2, <2>1 DEF TypeOK
  <2>3. buffer[2] \in Nat
    BY <2>2, ElementOfSeq
  <2>4. PICK m \in Nat : m = buffer[2] + 2 /\ m <= Len(buffer) /\ m + 1 = buffer[2] + 3
    BY <1>2, <2>1, <2>3 DEF Incomplete
  <2>5. Len(SubSeq(buffer, m + 1, Len(buffer))) <= Len(buffer)
    BY <1>2, <2>2, <2>4, SubSeqProperties, ElementOfSeq
  <2>6. Len(buffer') <= Len(buffer)
    BY <2>1, <2>4, <2>5 DEF Rest
  <2>7. Len(buffer') \in Nat
    BY <1>1 DEF TypeOK
  <2> QED
    BY <1>1, <1>2, <2>1, <2>6, <2>7 DEF FullInv
<1>11. CASE ChunkCrash
  BY <1>1, <1>2, <1>11 DEF ChunkCrash, FullInv
<1>12. CASE UNCHANGED vars
  BY <1>3, <1>12 DEF vars
<1>13. QED
  BY <1>3, <1>4, <1>5, <1>6, <1>7, <1>8, <1>9, <1>10, <1>11, <1>12
     DEF Next, HandleInput, Closed

\* HandleInputImpl deletes the connection of a sender that has not closed it only
\* behind a frame that fills the buffer without ever being complete: so never
\* while all packets fit, and while none holds HEAD, only after one whose body is
\* a cell shorter than the buffer was sent.
THEOREM ClosedOnlyIfFull == Spec => []ClosedByPeerOrFull
<1>1. Init => FullInv
  BY InitMarked, FramingAssumption DEF Init, FullInv, MarkInv
<1>2. FitInv /\ FullInv => ClosedByPeerOrFull
  BY FitsInOrder DEF FullInv, Full, ClosedByPeerOrFull, ClosedByPeerOnly
<1>3. QED
  BY <1>1, <1>2, InitFits, NextFits, NextFull, PTL DEF Spec

================================================================================
