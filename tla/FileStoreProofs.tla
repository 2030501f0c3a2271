--------------------------- MODULE FileStoreProofs ---------------------------
(***************************************************************************)
(* Proofs about FileStore: a server whose disk has room and that stops     *)
(* only between requests never loses, mixes up or renumbers a stored file, *)
(* for any files, any number of them, any number of restarts and whatever  *)
(* order the hash map yields its nodes in.                                 *)
(***************************************************************************)
EXTENDS FileStore, TLAPS, FiniteSetTheorems, SequenceTheorems,
        WellFoundedInduction

\* The circumstances the theorems assume.
Orderly == CrashPoints \subseteq {"idle"} /\ MaxData <= DiskSpace

Last == IF pc = "down" THEN Latest(Recovered) ELSE latest

\* The nodes of m are numbered from one, lie one behind the other, and end
\* with l.
Chain(m, l) ==
  /\ l \in Node
  /\ m \in [1..l.file_id -> Node]
  /\ \A id \in 1..l.file_id :
       m[id].file_id = id /\ m[id].start + m[id].length <= l.start + l.length
  /\ \A x, y \in 1..l.file_id : x < y => m[x].start + m[x].length <= m[y].start
  /\ IF l.file_id = 0 THEN l = MetaNode(0, 0, 0) ELSE m[l.file_id] = l

\* The first k nodes of meta_storage.idx are nodes of m, and those of ids.
FirstNodes(m, n, k, ids) ==
  /\ k <= Len(entries)
  /\ \A j \in 1..k : entries[j].file_id \in 1..n /\ entries[j] = m[entries[j].file_id]
  /\ \A id \in ids : \E j \in 1..k : entries[j].file_id = id

FileHolds(m, n) == size = n /\ FirstNodes(m, n, n, 1..n)

\* save_metadata has written every node that its iterator has passed.
SavedSoFar ==
  LET n == latest.file_id IN
  /\ size = n
  /\ remaining \subseteq 1..n
  /\ pos + Cardinality(remaining) = n
  /\ FirstNodes(metas, n, pos, (1..n) \ remaining)

\* The ids answered are all those stored but the one being answered, and
\* their bytes are where their nodes say.
Answered ==
  /\ DOMAIN acked = 1..(IF pc \in Saving THEN Last.file_id - 1 ELSE Last.file_id)
  /\ \A id \in DOMAIN acked : Bytes(Known[id]) = acked[id]

\* The inductive invariant.
IInv ==
  /\ TypeOK
  /\ Chain(Known, Last)
  /\ Last.start + Last.length = Len(data)
  /\ Answered
  /\ pc \in Saving => latest.file_id > 0 /\ Bytes(latest) = pending
  /\ pc \notin Saving => FileHolds(Known, Last.file_id)
  /\ pc = "entries" => SavedSoFar
-----------------------------------------------------------------------------
(* What init reads. *)

\* A set of numbers with an upper bound has a greatest element.
LEMMA GreatestNumber ==
  ASSUME NEW n \in Nat, NEW S \in SUBSET (0..n), S # {}
  PROVE  \E x \in S : \A y \in S : y <= x
<1> DEFINE Less == {ss \in Nat \X Nat : ss[1] < ss[2]}
           Distances == {n - x : x \in S}
<1>1. IsWellFoundedOn(Less, Nat)
  BY NatLessThanWellFounded DEF OpToRel
<1>1a. \A x \in S : x \in Nat /\ n - x \in Nat
  OBVIOUS
<1>2. Distances \subseteq Nat /\ Distances # {}
  <2>1. Distances \subseteq Nat
    BY <1>1a
  <2>2. PICK x \in S : TRUE
    OBVIOUS
  <2>3. n - x \in Distances
    BY <2>2
  <2>4. QED
    BY <2>1, <2>3
<1>3. PICK d \in Distances : \A e \in Distances : ~ (<<e, d>> \in Less)
  <2> HIDE DEF Distances, Less
  <2> QED
    BY <1>1, <1>2, WFMin
<1>4. PICK x \in S : d = n - x
  BY <1>3
<1>5. ASSUME NEW y \in S PROVE y <= x
  <2>1. n - y \in Distances /\ n - y \in Nat /\ n - x \in Nat
    BY <1>1a
  <2>2. ~ (n - y < n - x)
    BY <1>3, <1>4, <2>1
  <2>3. x \in Int /\ y \in Int
    BY <1>1a
  <2>4. QED
    BY <2>2, <2>3
<1>6. QED
  BY <1>5

\* A file that holds the nodes of a chain gives back the chain and its end.
LEMMA RecoversChain ==
  ASSUME entries \in Seq(Node), NEW m, NEW l, Chain(m, l), FileHolds(m, l.file_id)
  PROVE  Recovered = m /\ Latest(Recovered) = l
<1> DEFINE n == l.file_id
<1>1. n \in Nat /\ size = n /\ n <= Len(entries) /\ Len(entries) \in Nat
  BY DEF Chain, FileHolds, FirstNodes, Node
<1>2. \A j \in 1..n : ReadNode(j) = entries[j]
  BY <1>1 DEF ReadNode, Smaller
<1>3. Recovered = m
  <2>1. CASE n = 0
    <3>1. m = Empty
      BY <2>1 DEF Chain, Empty
    <3>2. {ReadNode(j).file_id : j \in 1..size} = {}
      BY <1>1, <2>1
    <3>3. QED
      BY <3>1, <3>2 DEF Recovered, Empty
  <2>2. CASE n # 0
    <3> DEFINE Same(id, j) == /\ ReadNode(j).file_id = id
                              /\ \A k \in 1..size : ReadNode(k).file_id = id => k <= j
               last(id) == CHOOSE j \in 1..size : Same(id, j)
    <3>1. entries # <<>>
      BY <1>1, <2>2
    <3>2. {ReadNode(j).file_id : j \in 1..size} = 1..n
      <4>1. ASSUME NEW j \in 1..n PROVE ReadNode(j).file_id \in 1..n
        <5>1. ReadNode(j) = entries[j]
          BY <1>2
        <5>2. entries[j].file_id \in 1..n
          BY DEF FileHolds, FirstNodes
        <5>3. QED
          BY <5>1, <5>2
      <4>2. ASSUME NEW id \in 1..n PROVE \E j \in 1..n : ReadNode(j).file_id = id
        <5>1. PICK j \in 1..n : entries[j].file_id = id
          BY DEF FileHolds, FirstNodes
        <5>2. QED
          BY <1>2, <5>1
      <4>3. {ReadNode(j).file_id : j \in 1..n} = 1..n
        BY <4>1, <4>2, Zenon
      <4>4. QED
        BY <1>1, <4>3
    <3>3. Recovered = [id \in 1..n |-> ReadNode(last(id))]
      BY <3>1, <3>2 DEF Recovered
    <3>4. ASSUME NEW id \in 1..n PROVE ReadNode(last(id)) = m[id]
      <4> DEFINE Places == {j \in 1..n : entries[j].file_id = id}
      <4>1. Places # {} /\ Places \subseteq 1..n
        BY <1>1 DEF FileHolds, FirstNodes
      <4>2. PICK j \in Places : \A k \in Places : k <= j
        <5>1. Places \in SUBSET (0..n)
          BY <1>1, <4>1
        <5> HIDE DEF Places
        <5>2. QED
          BY <1>1, <4>1, <5>1, GreatestNumber
      <4>3. Same(id, j)
        BY <1>1, <1>2, <4>1, <4>2
      <4>4. last(id) \in 1..size /\ Same(id, last(id))
        BY <1>1, <4>3
      <4>5. last(id) \in 1..n /\ entries[last(id)].file_id = id
        BY <1>1, <1>2, <4>4
      <4>6. QED
        <5> HIDE DEF last, Same
        <5> QED
          BY <1>2, <4>5 DEF FileHolds, FirstNodes
    <3>5. QED
      BY <3>3, <3>4 DEF Chain
  <2>3. QED
    BY <2>1, <2>2
<1>4. Latest(m) = l
  <2>1. DOMAIN m = 1..n
    BY DEF Chain
  <2>2. CASE n = 0
    BY <2>1, <2>2 DEF Chain, Latest
  <2>3. CASE n # 0
    <3>1. (CHOOSE id \in DOMAIN m : \A other \in DOMAIN m : other <= id) = n
      BY <1>1, <2>1, <2>3
    <3>2. QED
      BY <1>1, <2>1, <2>3, <3>1 DEF Chain, Latest
  <2>4. QED
    BY <2>2, <2>3
<1>5. QED
  BY <1>3, <1>4

-----------------------------------------------------------------------------
(* The invariant holds initially and is preserved by every step. *)

LEMMA InitIInv == Init => IInv
<1> SUFFICES ASSUME Init PROVE IInv
  OBVIOUS
<1> USE DEF Init
<1>1. TypeOK
  <2>1. latest \in Node
    BY FileStoreAssumption DEF Node, MetaNode
  <2>2. DOMAIN metas = {} /\ metas \in [DOMAIN metas -> Node]
    BY DEF Empty
  <2>3. DOMAIN acked = {} /\ acked \in [DOMAIN acked -> Seq(Byte)]
    BY DEF Empty
  <2>4. data \in Seq(Byte) /\ entries \in Seq(Node) /\ pending \in Seq(Byte)
    OBVIOUS
  <2>5. /\ size \in 0..MaxId /\ pos \in 0..MaxId
        /\ leaked \in 0..FdLimit /\ remaining \subseteq 1..MaxId
    BY FileStoreAssumption
  <2>6. created \in BOOLEAN /\ pc = "down"
    OBVIOUS
  <2> HIDE DEF Init
  <2>7. QED
    BY <2>1, <2>2, <2>3, <2>4, <2>5, <2>6 DEF TypeOK
<1>2. Recovered = Empty /\ Known = Empty
  BY DEF Recovered, Known
<1>3. Last = MetaNode(0, 0, 0)
  BY <1>2 DEF Last, Latest, Empty
<1>4. Chain(Known, Last)
  BY <1>2, <1>3, FileStoreAssumption DEF Chain, Empty, MetaNode, Node
<1>5. Last.start + Last.length = Len(data)
  BY <1>3 DEF MetaNode
<1>6. Answered
  BY <1>3 DEF Answered, Empty, MetaNode, Saving
<1>7. FileHolds(Known, Last.file_id)
  BY <1>3 DEF FileHolds, FirstNodes, MetaNode
<1>8. QED
  BY <1>1, <1>4, <1>5, <1>6, <1>7 DEF IInv, Saving

\* A step that changes no file and no answer, and after which the server

\* knows, or will find again, what it knew, keeps the invariant.
LEMMA NothingStored ==
  ASSUME IInv, TypeOK', pc \notin Saving, pc' \notin Saving,
         Known' = Known, Last' = Last, UNCHANGED <<data, size, entries, acked>>
  PROVE  IInv'
<1>1. Chain(Known, Last)'
  BY DEF IInv, Chain
<1>2. Answered'
  BY DEF IInv, Answered, Bytes
<1>3. FileHolds(Known, Last.file_id)'
  BY DEF IInv, FileHolds, FirstNodes
<1>4. QED
  BY <1>1, <1>2, <1>3 DEF IInv, Saving

\* init finds the files and the latest node again.
LEMMA StepStart ==
  ASSUME IInv, Start
  PROVE  IInv'
<1> USE DEF Start
<1>1. Known' = Known /\ Last' = Last
  BY DEF Known, Last
<1>2. metas' \in [1..latest'.file_id -> Node] /\ latest' \in Node
  BY DEF IInv, Chain, Known, Last
<1>3. TypeOK'
  <2>1. latest'.file_id \in 0..MaxId
    BY <1>2 DEF Node
  <2>2. QED
    BY <1>2, <2>1, FileStoreAssumption, SMTT(30) DEF IInv, TypeOK, files, Saving
<1>4. QED
  BY <1>1, <1>3, NothingStored DEF files, Saving

\* A server that dies while idle will find what it knew.
LEMMA StepDie ==
  ASSUME IInv, pc = "idle", Die
  PROVE  IInv'
<1> USE DEF Die
<1>1. Recovered' = Recovered
  BY DEF Recovered, ReadNode, files
<1>2. Recovered = metas /\ Latest(Recovered) = latest
  BY RecoversChain DEF IInv, TypeOK, Known, Last, Saving
<1>3. Known' = Known /\ Last' = Last
  BY <1>1, <1>2 DEF Known, Last
<1>4. TypeOK'
  BY FileStoreAssumption DEF IInv, TypeOK, files, Empty, MetaNode, Node, Saving
<1>5. QED
  BY <1>3, <1>4, NothingStored DEF files, Saving

LEMMA StepGet ==
  ASSUME IInv, NEW wanted, Get(wanted)
  PROVE  IInv'
<1> USE DEF Get
<1>1. Known' = Known /\ Last' = Last
  BY DEF Known, Last, Recovered, ReadNode, files
<1>2. TypeOK'
  <2>1. leaked' \in 0..FdLimit
    BY FileStoreAssumption DEF IInv, TypeOK
  <2>2. UNCHANGED <<data, created, size, entries, metas, latest, pc, remaining, pos, pending, acked>>
    BY DEF files
  <2>3. QED
    BY <2>1, <2>2 DEF IInv, TypeOK
<1>3. QED
  BY <1>1, <1>2, NothingStored DEF files, Saving

\* The bytes of a node that lies inside a file stay when the file grows.
LEMMA GrowingKeepsBytes ==
  ASSUME NEW old \in Seq(Byte), NEW more \in Seq(Byte),
         NEW start \in Nat, NEW end \in Nat, end <= Len(old)
  PROVE  SubSeq(old \o more, start + 1, end) = SubSeq(old, start + 1, end)
<1>1. /\ old \o more \in Seq(Byte)
      /\ Len(old \o more) = Len(old) + Len(more)
      /\ \A i \in 1..Len(old) : (old \o more)[i] = old[i]
      /\ Len(old) \in Nat
  BY ConcatProperties
<1>2. CASE end < start + 1
  BY <1>2, SubSeqEmpty
<1>3. CASE end >= start + 1
  <2>1. \A i \in start + 1..end : (old \o more)[i] = old[i] /\ old[i] \in Byte
    BY <1>1
  <2>2. /\ SubSeq(old \o more, start + 1, end) \in Seq(Byte)
        /\ SubSeq(old, start + 1, end) \in Seq(Byte)
        /\ Len(SubSeq(old \o more, start + 1, end)) = end - start
        /\ Len(SubSeq(old, start + 1, end)) = end - start
        /\ \A i \in 1..end - start :
             SubSeq(old \o more, start + 1, end)[i] = SubSeq(old, start + 1, end)[i]
    BY <1>3, <2>1, SubSeqProperties
  <2>3. QED
    BY <2>2, SeqEqual
<1>4. QED
  BY <1>2, <1>3

\* What is appended is what the node behind the old end finds.
LEMMA AppendedIsFound ==
  ASSUME NEW old \in Seq(Byte), NEW more \in Seq(Byte)
  PROVE  SubSeq(old \o more, Len(old) + 1, Len(old) + Len(more)) = more
<1> DEFINE new == old \o more
           found == SubSeq(new, Len(old) + 1, Len(old) + Len(more))
<1>1. /\ new \in Seq(Byte) /\ Len(new) = Len(old) + Len(more)
      /\ \A i \in 1..Len(more) : new[Len(old) + i] = more[i]
      /\ Len(old) \in Nat /\ Len(more) \in Nat
  BY ConcatProperties
<1>2. \A i \in Len(old) + 1..Len(old) + Len(more) : new[i] \in Byte
  BY <1>1
<1>3. found \in Seq(Byte) /\ Len(found) = Len(more)
  <2> HIDE DEF new
  <2> QED
    BY <1>1, <1>2, SubSeqProperties
<1>4. ASSUME NEW i \in 1..Len(more) PROVE found[i] = more[i]
  <2>1. found[i] = new[Len(old) + i]
    <3> HIDE DEF new
    <3> QED
      BY <1>1, <1>2, SubSeqProperties
  <2>2. QED
    BY <1>1, <2>1
<1>5. QED
  <2> HIDE DEF found, new
  <2> QED
    BY <1>3, <1>4, SeqEqual DEF found, new

-----------------------------------------------------------------------------
(* The steps of a PUT. *)

LEMMA StepPut ==
  ASSUME IInv, Orderly, NEW content \in Contents, Put(content)
  PROVE  IInv'
<1> USE DEF Put, NewOffset
<1> DEFINE n == latest.file_id
<1>1. /\ n \in Nat /\ n < MaxId /\ latest \in Node
      /\ data \in Seq(Byte) /\ Len(data) \in Nat
      /\ content \in Seq(Byte) /\ Len(content) \in Nat
  <2>1. data \in Seq(Byte) /\ content \in Seq(Byte) /\ latest \in Node
    BY FileStoreAssumption DEF IInv, TypeOK
  <2>2. Len(data) \in Nat /\ Len(content) \in Nat
    BY <2>1, LenProperties
  <2>3. n \in Nat /\ n < MaxId
    BY <2>1, FileStoreAssumption DEF Node
  <2>4. QED
    BY <2>1, <2>2, <2>3
<1>2. Known = metas /\ Last = latest /\ Known' = metas' /\ Last' = latest'
  BY DEF Known, Last
<1>3. data' = data \o content
  <2>1. Smaller(Len(content), DiskSpace - Len(data)) = Len(content)
    BY <1>1, FileStoreAssumption DEF Smaller, Orderly
  <2>2. SubSeq(content, 1, Len(content)) = content
    BY <1>1
  <2>3. QED
    BY <2>1, <2>2
<1>4. data' \in Seq(Byte) /\ Len(data') = Len(data) + Len(content)
  BY <1>1, <1>3, ConcatProperties
<1>5. latest' = MetaNode(n + 1, Len(data), Len(content))
  BY <1>2 DEF IInv
<1>6. /\ latest' \in Node /\ latest'.file_id = n + 1
      /\ latest'.start = Len(data) /\ latest'.length = Len(content)
  BY <1>1, <1>5, FileStoreAssumption, SMTT(30) DEF MetaNode, Node
<1>7. metas \in [1..n -> Node]
  BY <1>2 DEF IInv, Chain
<1>8. metas' = [id \in 1..n + 1 |-> IF id = n + 1 THEN latest' ELSE metas[id]]
  <2>1. DOMAIN metas \union {latest'.file_id} = 1..n + 1
    BY <1>1, <1>6, <1>7
  <2>2. QED
    BY <1>6, <2>1
<1>9. metas' \in [1..n + 1 -> Node]
  BY <1>1, <1>6, <1>7, <1>8
<1> HIDE DEF Put, NewOffset
<1>10. /\ \A id \in 1..n : metas'[id] = metas[id]
       /\ metas'[n + 1] = latest'
  <2>1. \A id \in 1..n : id \in 1..n + 1 /\ id # n + 1
    BY <1>1
  <2>2. n + 1 \in 1..n + 1
    BY <1>1
  <2> HIDE DEF n
  <2>3. QED
    BY <1>8, <2>1, <2>2
<1>11. TypeOK'
  <2>1. /\ UNCHANGED <<size, entries, remaining, pos, leaked, acked>>
        /\ created' = TRUE /\ pc' = "size" /\ pending' = content
    BY DEF Put
  <2>2. DOMAIN metas' \subseteq 1..MaxId /\ metas' \in [DOMAIN metas' -> Node]
    <3>1. DOMAIN metas' = 1..n + 1
      BY <1>9
    <3>2. 1..n + 1 \subseteq 1..MaxId
      BY <1>1, FileStoreAssumption
    <3>3. QED
      BY <1>9, <3>1, <3>2
  <2>3. QED
    BY <1>1, <1>4, <1>6, <2>1, <2>2 DEF IInv, TypeOK, Saving
<1>12. Chain(Known, Last)'
  <2>1. \A id \in 1..n : /\ metas[id].file_id = id
                         /\ metas[id].start + metas[id].length <= Len(data)
    BY <1>2 DEF IInv, Chain
  <2>2. \A id \in 1..n + 1 :
          /\ metas'[id].file_id = id
          /\ metas'[id].start + metas'[id].length <= latest'.start + latest'.length
    <3>1. ASSUME NEW id \in 1..n
          PROVE  metas[id].start + metas[id].length <= Len(data) + Len(content)
      <4>1. metas[id].start \in Nat /\ metas[id].length \in Nat
        BY <1>7 DEF Node
      <4>2. metas[id].start + metas[id].length <= Len(data)
        BY <2>1
      <4>3. QED
        BY <1>1, <4>1, <4>2
    <3>2. \A id \in 1..n + 1 : id \in 1..n \/ id = n + 1
      BY <1>1
    <3>3. Len(data) + Len(content) \in Nat
      BY <1>1
    <3>4. QED
      BY <1>6, <1>10, <2>1, <3>1, <3>2, <3>3
  <2>3. ASSUME NEW x \in 1..n + 1, NEW y \in 1..n + 1, x < y
        PROVE  metas'[x].start + metas'[x].length <= metas'[y].start
    <3>1. CASE y = n + 1
      BY <1>1, <1>6, <1>10, <2>1, <2>3, <3>1
    <3>2. CASE y # n + 1
      <4>1. x \in 1..n /\ y \in 1..n
        BY <1>1, <2>3, <3>2
      <4>2. QED
        BY <1>2, <1>10, <2>3, <4>1 DEF IInv, Chain
    <3>3. QED
      BY <3>1, <3>2
  <2>4. QED
    BY <1>1, <1>2, <1>6, <1>9, <1>10, <2>2, <2>3 DEF Chain
<1>13. Last'.start + Last'.length = Len(data')
  BY <1>2, <1>4, <1>6
<1>14. Bytes(latest)' = pending'
  <2>1. Bytes(latest)' = SubSeq(data', Len(data) + 1, Len(data) + Len(content))
    BY <1>1, <1>4, <1>6 DEF Bytes, Smaller
  <2>2. QED
    BY <1>1, <1>3, <2>1, AppendedIsFound DEF Put
<1>15. Answered'
  <2>1. DOMAIN acked = 1..n /\ acked' = acked
    BY <1>2 DEF IInv, Answered, Put, Saving
  <2>2. ASSUME NEW id \in 1..n PROVE Bytes(metas[id])' = Bytes(metas[id])
    <3> DEFINE end == metas[id].start + metas[id].length
    <3>1. metas[id].start \in Nat /\ end \in Nat /\ end <= Len(data)
      BY <1>2, <1>7 DEF IInv, Chain, Node
    <3>2. Bytes(metas[id]) = SubSeq(data, metas[id].start + 1, end)
      BY <1>1, <3>1 DEF Bytes, Smaller
    <3>3. Bytes(metas[id])' = SubSeq(data', metas[id].start + 1, end)
      <4>1. end <= Len(data')
        BY <1>1, <1>4, <3>1
      <4>2. metas'[id] = metas[id]
        BY <1>10
      <4>3. QED
        BY <4>1, <4>2 DEF Bytes, Smaller
    <3>4. SubSeq(data \o content, metas[id].start + 1, end)
            = SubSeq(data, metas[id].start + 1, end)
      <4> DEFINE start == metas[id].start
      <4>1. start \in Nat /\ end \in Nat /\ end <= Len(data)
        BY <3>1
      <4> HIDE DEF start, end
      <4>2. SubSeq(data \o content, start + 1, end) = SubSeq(data, start + 1, end)
        BY <1>1, <4>1, GrowingKeepsBytes
      <4>3. QED
        BY <4>2 DEF start
    <3>5. QED
      BY <1>3, <3>2, <3>3, <3>4
  <2>3. ASSUME NEW id \in 1..n PROVE Bytes(Known[id])' = acked'[id]
    <3>1. Bytes(metas[id]) = acked[id]
      BY <1>2, <2>1 DEF IInv, Answered
    <3>2. Bytes(Known[id])' = Bytes(metas[id])'
      BY <1>2 DEF Bytes
    <3>3. QED
      BY <2>1, <2>2, <3>1, <3>2
  <2>4. Last'.file_id - 1 = n /\ pc' = "size"
    BY <1>1, <1>2, <1>6 DEF Put
  <2>5. QED
    BY <2>1, <2>3, <2>4 DEF Answered, Saving
<1>16. latest'.file_id > 0 /\ pc' = "size"
  BY <1>1, <1>6 DEF Put
<1>17. QED
  BY <1>11, <1>12, <1>13, <1>14, <1>15, <1>16 DEF IInv, Saving

\* A step of save_metadata changes neither the stored files nor the answers.
LEMMA WhileSaving ==
  ASSUME IInv, TypeOK', pc \in Saving, pc' \in Saving,
         UNCHANGED <<data, metas, latest, acked, pending>>, pc' = "entries" => SavedSoFar'
  PROVE  IInv'
<1>1. Known' = Known /\ Last' = Last
  BY DEF Known, Last, Saving
<1>2. Chain(Known, Last)'
  BY <1>1 DEF IInv, Chain
<1>3. Answered'
  BY <1>1 DEF IInv, Answered, Bytes, Saving
<1>4. (Bytes(latest) = pending)'
  BY DEF IInv, Bytes
<1>5. QED
  BY <1>1, <1>2, <1>3, <1>4 DEF IInv, Saving

LEMMA StepSaveSize ==
  ASSUME IInv, SaveSize
  PROVE  IInv'
<1> DEFINE n == latest.file_id
<1>1. n \in 0..MaxId /\ n \in Nat /\ MaxId \in Nat
  BY FileStoreAssumption DEF IInv, TypeOK, Node
<1>2. DOMAIN metas = 1..n
  BY DEF IInv, Chain, Known, Last, SaveSize
<1>3. Cardinality(1..n) = n
  BY <1>1, FS_Interval
<1>4. size' = n /\ remaining' = 1..n /\ pos' = 0
  BY <1>2, <1>3 DEF SaveSize, FileCount
<1>5. TypeOK'
  BY <1>1, <1>4 DEF IInv, TypeOK, SaveSize, Saving
<1>6. SavedSoFar'
  <2>1. latest' = latest /\ Len(entries') \in Nat
    BY DEF IInv, TypeOK, SaveSize
  <2>2. FirstNodes(metas, n, pos, (1..n) \ remaining)'
    BY <1>4, <2>1 DEF FirstNodes
  <2>3. QED
    BY <1>1, <1>3, <1>4, <2>1, <2>2 DEF SavedSoFar
<1>7. QED
  BY <1>5, <1>6, WhileSaving DEF SaveSize, Saving
LEMMA StepSaveEntry ==
  ASSUME IInv, SaveEntry
  PROVE  IInv'
<1> DEFINE n == latest.file_id
           L == IF pos < Len(entries) THEN Len(entries) ELSE pos + 1
<1>1. /\ n \in 0..MaxId /\ n \in Nat /\ MaxId \in Nat
      /\ pos \in Nat /\ entries \in Seq(Node) /\ Len(entries) \in Nat
  <2>1. latest \in Node /\ pos \in 0..MaxId /\ entries \in Seq(Node)
    BY DEF IInv, TypeOK
  <2>2. n \in 0..MaxId /\ MaxId \in Nat
    BY <2>1, FileStoreAssumption DEF Node
  <2>3. QED
    BY <2>1, <2>2, LenProperties
<1>2. metas \in [1..n -> Node] /\ \A id \in 1..n : metas[id].file_id = id
  <2>1. Chain(Known, Last) /\ Known = metas /\ Last = latest
    BY DEF IInv, Known, Last, SaveEntry
  <2>2. QED
    BY <2>1 DEF Chain
<1>3. SavedSoFar
  BY DEF IInv, SaveEntry
<1>4. PICK id \in remaining :
        /\ entries' = [j \in 1..L |-> IF j = pos + 1 THEN metas[id] ELSE entries[j]]
        /\ remaining' = remaining \ {id}
  BY DEF SaveEntry, WithNode
<1>4a. IsFiniteSet(remaining)
  <2>1. IsFiniteSet(1..n)
    <3>1. 1 \in Int /\ n \in Int
      BY <1>1
    <3> HIDE DEF n
    <3>2. QED
      BY <3>1, FS_Interval
  <2>2. remaining \in SUBSET (1..n)
    BY <1>3 DEF SavedSoFar
  <2>3. QED
    BY <2>1, <2>2, FS_Subset
<1>5. id \in 1..n /\ metas[id] \in Node /\ metas[id].file_id = id
  BY <1>2, <1>3 DEF SavedSoFar
<1>6. pos <= Len(entries) /\ L \in Nat /\ pos + 1 <= L
  BY <1>1, <1>3 DEF SavedSoFar, FirstNodes
<1>7. entries' \in Seq(Node) /\ Len(entries') = L
  <2>1. ASSUME NEW j \in 1..L, j # pos + 1 PROVE entries[j] \in Node
    BY <1>1, <1>6, <2>1
  <2>2. entries' \in [1..L -> Node]
    BY <1>4, <1>5, <2>1
  <2> HIDE DEF L
  <2>3. QED
    BY <1>6, <2>2
<1>8. /\ entries'[pos + 1] = metas[id]
      /\ \A j \in 1..pos : entries'[j] = entries[j]
  BY <1>1, <1>4, <1>6
<1>9. Cardinality(remaining') = Cardinality(remaining) - 1 /\ Cardinality(remaining) \in Nat
  BY <1>4, <1>4a, FS_RemoveElement, FS_CardinalityType
<1>10. pos' = pos + 1 /\ pos + 1 + Cardinality(remaining') = n /\ pos + 1 <= n
  <2>1. pos' = pos + 1
    BY DEF SaveEntry
  <2>2. pos + Cardinality(remaining) = n
    BY <1>3 DEF SavedSoFar
  <2>3. Cardinality(remaining) # 0
    BY <1>4, <1>4a, FS_EmptySet
  <2> HIDE DEF n
  <2>4. QED
    BY <1>1, <1>9, <2>1, <2>2, <2>3
<1>11. UNCHANGED <<data, size, metas, latest, pc, acked, pending, created, leaked>>
  BY DEF SaveEntry
<1>12. TypeOK'
  <2>1. pos' \in 0..MaxId
    BY <1>1, <1>10
  <2>2. remaining' \subseteq 1..MaxId
    BY <1>4 DEF IInv, TypeOK
  <2>3. QED
    BY <1>7, <1>11, <2>1, <2>2 DEF IInv, TypeOK
<1>13. SavedSoFar'
  <2>1. ASSUME NEW j \in 1..pos + 1
        PROVE  entries'[j].file_id \in 1..n /\ entries'[j] = metas[entries'[j].file_id]
    <3>1. CASE j = pos + 1
      BY <1>5, <1>8, <3>1
    <3>2. CASE j # pos + 1
      <4>1. j \in 1..pos
        BY <1>1, <3>2
      <4>2. QED
        BY <1>3, <1>8, <4>1 DEF SavedSoFar, FirstNodes
    <3>3. QED
      BY <3>1, <3>2
  <2>2. ASSUME NEW other \in (1..n) \ remaining'
        PROVE  \E j \in 1..pos + 1 : entries'[j].file_id = other
    <3>1. CASE other = id
      <4>1. pos + 1 \in 1..pos + 1
        BY <1>1
      <4>2. QED
        BY <1>5, <1>8, <3>1, <4>1
    <3>2. CASE other # id
      <4>1. other \in (1..n) \ remaining
        BY <1>4, <3>2
      <4>2. PICK j \in 1..pos : entries[j].file_id = other
        BY <1>3, <4>1 DEF SavedSoFar, FirstNodes
      <4>3. j \in 1..pos + 1
        BY <1>1
      <4>4. QED
        BY <1>8, <4>2, <4>3
    <3>3. QED
      BY <3>1, <3>2
  <2>3. FirstNodes(metas, n, pos, (1..n) \ remaining)'
    BY <1>6, <1>7, <1>10, <1>11, <2>1, <2>2 DEF FirstNodes
  <2>4. size' = n /\ remaining' \subseteq 1..n
    BY <1>3, <1>4, <1>11 DEF SavedSoFar
  <2>5. QED
    BY <1>10, <1>11, <2>3, <2>4 DEF SavedSoFar
<1>14. QED
  BY <1>11, <1>12, <1>13, WhileSaving DEF SaveEntry, Saving

\* The answer comes when the last node is written: the file holds them all.
LEMMA StepPutReply ==
  ASSUME IInv, PutReply
  PROVE  IInv'
<1> DEFINE n == latest.file_id
<1>1. pc = "entries" /\ pc' = "idle" /\ UNCHANGED <<files, memory>>
  BY DEF PutReply
<1>2. Known = metas /\ Last = latest /\ Known' = metas /\ Last' = latest
  BY <1>1 DEF Known, Last, memory
<1>3. n \in Nat /\ n > 0 /\ n <= MaxId /\ MaxId \in Nat
  BY <1>1, FileStoreAssumption DEF IInv, TypeOK, Node, Saving
<1>4. DOMAIN acked = 1..n - 1 /\ \A id \in 1..n - 1 : Bytes(metas[id]) = acked[id]
  BY <1>1, <1>2 DEF IInv, Answered, Saving
<1>5. acked' = [id \in 1..n |-> IF id = n THEN pending ELSE acked[id]]
  <2>1. DOMAIN acked \union {n} = 1..n
    BY <1>3, <1>4
  <2>2. QED
    BY <2>1 DEF PutReply
<1>6. TypeOK'
  <2>1. acked' \in [1..n -> Seq(Byte)]
    BY <1>3, <1>4, <1>5 DEF IInv, TypeOK
  <2>2. DOMAIN acked' \subseteq 1..MaxId
    BY <1>3, <1>5
  <2>3. QED
    BY <1>1, <2>1, <2>2 DEF IInv, TypeOK, files, memory
<1>7. Answered'
  <2>1. metas[n] = latest /\ Bytes(latest) = pending
    BY <1>1, <1>2, <1>3 DEF IInv, Chain, Saving
  <2>2. \A id \in 1..n : Bytes(metas[id]) = acked'[id]
    <3>1. \A id \in 1..n : id = n \/ id \in 1..n - 1
      BY <1>3
    <3>2. QED
      BY <1>4, <1>5, <2>1, <3>1
  <2>3. ASSUME NEW id \in 1..n PROVE Bytes(Known[id])' = acked'[id]
    <3>1. Bytes(Known[id])' = Bytes(metas[id])
      BY <1>1, <1>2 DEF Bytes, files
    <3>2. QED
      BY <2>2, <3>1
  <2>4. QED
    BY <1>1, <1>2, <1>5, <2>3 DEF Answered, Saving
<1>8. FileHolds(Known, Last.file_id)'
  <2>1. remaining = {} /\ pos = n /\ size = n /\ FirstNodes(metas, n, n, 1..n)
    <3>1. remaining = {} /\ SavedSoFar
      BY <1>1 DEF IInv, PutReply
    <3>2. Cardinality({}) = 0 /\ (1..n) \ {} = 1..n
      BY FS_EmptySet
    <3>3. pos = n
      BY <1>3, <3>1, <3>2 DEF SavedSoFar, IInv, TypeOK
    <3>4. QED
      BY <3>1, <3>2, <3>3 DEF SavedSoFar
  <2>2. QED
    BY <1>1, <1>2, <2>1 DEF FileHolds, FirstNodes, files
<1>9. Chain(Known, Last)' /\ (Last.start + Last.length = Len(data))'
  BY <1>1, <1>2 DEF IInv, Chain, files
<1>10. QED
  BY <1>1, <1>6, <1>7, <1>8, <1>9 DEF IInv, Saving

\* A server that runs out of descriptors dies while idle, too.
LEMMA Step ==
  ASSUME IInv, Orderly, [Next]_vars
  PROVE  IInv'
<1>1. CASE Start
  BY <1>1, StepStart
<1>2. CASE \E content \in Contents : Put(content)
  BY <1>2, StepPut
<1>3. CASE PutWithoutFd
  BY <1>3, StepDie DEF PutWithoutFd
<1>4. CASE SaveSize
  BY <1>4, StepSaveSize
<1>5. CASE SaveEntry
  BY <1>5, StepSaveEntry
<1>6. CASE PutReply
  BY <1>6, StepPutReply
<1>7. CASE \E wanted \in 0..MaxId + 1 : Get(wanted)
  BY <1>7, StepGet
<1>8. CASE Crash
  BY <1>8, StepDie DEF Crash, Orderly
<1>9. CASE UNCHANGED vars
  <2>1. Known' = Known /\ Last' = Last
    BY <1>9 DEF vars, files, memory, Known, Last, Recovered, ReadNode
  <2>2. TypeOK'
    BY <1>9 DEF vars, files, memory, IInv, TypeOK
  <2>3. CASE pc \in Saving
    <3>1. SavedSoFar' = SavedSoFar
      BY <1>9 DEF vars, files, memory, SavedSoFar, FirstNodes
    <3>2. QED
      BY <1>9, <2>2, <2>3, <3>1, WhileSaving DEF vars, files, memory, IInv
  <2>4. CASE pc \notin Saving
    BY <1>9, <2>1, <2>2, <2>4, NothingStored DEF vars, files, memory
  <2>5. QED
    BY <2>3, <2>4
<1>10. QED
  BY <1>1, <1>2, <1>3, <1>4, <1>5, <1>6, <1>7, <1>8, <1>9 DEF Next
-----------------------------------------------------------------------------
(* The theorems. *)

\* The inductive invariant holds in every state of an orderly server.
THEOREM Invariance == ASSUME Orderly PROVE Spec => []IInv
<1>1. IInv /\ [Next]_vars => IInv'
  BY Step
<1>2. QED
  BY InitIInv, <1>1, PTL DEF Spec

\* The types hold.
THEOREM TypeCorrect == ASSUME Orderly PROVE Spec => []TypeOK
<1>1. IInv => TypeOK
  BY DEF IInv
<1>2. QED
  BY Invariance, <1>1, PTL

\* A PUT that was answered can be read back, now and after every restart.
THEOREM AnsweredFilesReadBack == ASSUME Orderly PROVE Spec => []ReadBack
<1>1. IInv => ReadBack
  <2> SUFFICES ASSUME IInv, NEW id \in DOMAIN acked
               PROVE  id \in DOMAIN Known /\ Bytes(Known[id]) = acked[id]
    BY DEF ReadBack
  <2>1. DOMAIN Known = 1..Last.file_id /\ Last.file_id \in Nat
    BY DEF IInv, Chain, Node
  <2>2. id \in 1..Last.file_id
    BY <2>1 DEF IInv, Answered
  <2>3. QED
    BY <2>1, <2>2 DEF IInv, Answered
<1>2. QED
  BY Invariance, <1>1, PTL

\* No two files share a byte of data_storage.dat.
THEOREM FilesAreDisjoint == ASSUME Orderly PROVE Spec => []FilesDisjoint
<1>1. IInv => FilesDisjoint
  BY DEF IInv, Chain, FilesDisjoint
<1>2. QED
  BY Invariance, <1>1, PTL

\* A server stopped while idle comes back with the files, the next id and the

\* next offset it had.
THEOREM RestartIsHarmless == ASSUME Orderly PROVE Spec => []RestartRestores
<1>1. IInv => RestartRestores
  <2> SUFFICES ASSUME IInv, pc = "idle"
               PROVE  Recovered = metas /\ Latest(Recovered) = latest
    BY DEF RestartRestores
  <2>1. QED
    BY RecoversChain DEF IInv, TypeOK, Known, Last, Saving
<1>2. QED
  BY Invariance, <1>1, PTL

\* An id that was answered stands for the same content for ever.
THEOREM IdsAreStable == ASSUME Orderly PROVE Spec => IdNeverReused
<1> DEFINE Same == \A id \in DOMAIN acked : id \in DOMAIN acked' /\ acked'[id] = acked[id]
<1>1. IInv /\ [Next]_vars => [Same]_vars
  <2> SUFFICES ASSUME IInv, Next PROVE Same
    OBVIOUS
  <2>1. CASE PutReply
    <3>1. DOMAIN acked = 1..latest.file_id - 1 /\ latest.file_id \in Nat
      BY <2>1 DEF IInv, TypeOK, Node, Answered, Last, Saving, PutReply
    <3>2. latest.file_id \notin DOMAIN acked
      BY <3>1
    <3>3. QED
      BY <2>1, <3>2 DEF PutReply
  <2>2. CASE ~PutReply
    <3>1. acked' = acked
      BY <2>2 DEF Next, Start, Put, PutWithoutFd, SaveSize, SaveEntry, Get, Crash, Die
    <3>2. QED
      BY <3>1
  <2>3. QED
    BY <2>1, <2>2
<1>2. QED
  BY Invariance, <1>1, PTL DEF Spec, IdNeverReused

\* data_storage.dat is there as soon as a file is.
FilesMakeData == Last.file_id > 0 => created

LEMMA StepMakesData ==
  ASSUME IInv, FilesMakeData, Orderly, [Next]_vars
  PROVE  FilesMakeData'
<1>1. CASE Start
  BY <1>1 DEF Start, FilesMakeData, Last, files
<1>2. CASE \E content \in Contents : Put(content)
  BY <1>2 DEF Put, FilesMakeData
<1>3. ASSUME pc = "idle", Die PROVE FilesMakeData'
  <2>1. Recovered' = Recovered /\ created' = created /\ pc' = "down"
    BY <1>3 DEF Die, Recovered, ReadNode, files
  <2>2. Latest(Recovered) = latest
    BY <1>3, RecoversChain DEF IInv, TypeOK, Known, Last, Saving
  <2>3. Last' = Last
    BY <1>3, <2>1, <2>2 DEF Last
  <2>4. QED
    BY <2>1, <2>3 DEF FilesMakeData
<1>4. CASE PutWithoutFd
  BY <1>3, <1>4 DEF PutWithoutFd
<1>5. CASE SaveSize \/ SaveEntry \/ PutReply
  BY <1>5 DEF SaveSize, SaveEntry, PutReply, FilesMakeData, Last, files, memory
<1>6. CASE \E wanted \in 0..MaxId + 1 : Get(wanted)
  BY <1>6 DEF Get, FilesMakeData, Last, Recovered, ReadNode, files
<1>7. CASE Crash
  BY <1>3, <1>7 DEF Crash, Orderly
<1>8. CASE UNCHANGED vars
  BY <1>8 DEF vars, files, memory, FilesMakeData, Last, Recovered, ReadNode
<1>9. QED
  BY <1>1, <1>2, <1>4, <1>5, <1>6, <1>7, <1>8 DEF Next

\* A GET is answered with SUCCESS only by the file that was PUT under its id, as
\* long as another FILE can be opened (DataServer::Get).
THEOREM ServedWhileFilesOpen == ASSUME Orderly PROVE Spec => ServedWhileFdsLast
<1> DEFINE Carries == leaked < FdLimit /\ reply' # reply => SuccessCarriesFile'
<1>1. Init => FilesMakeData
  <2> SUFFICES ASSUME Init PROVE Last.file_id = 0
    BY DEF FilesMakeData
  <2>1. Recovered = Empty /\ DOMAIN Empty = {}
    BY DEF Init, Recovered, Empty
  <2>2. QED
    BY <2>1 DEF Init, Last, Latest, MetaNode
<1>2. IInv /\ FilesMakeData /\ [Next]_vars => [Carries]_vars
  <2> SUFFICES ASSUME IInv, FilesMakeData, Next, leaked < FdLimit, reply' # reply
               PROVE  SuccessCarriesFile'
    OBVIOUS
  <2>1. CASE PutReply
    BY <2>1 DEF PutReply, SuccessCarriesFile
  <2>2. CASE \E wanted \in 0..MaxId + 1 : Get(wanted)
    <3>1. PICK wanted \in 0..MaxId + 1 : Get(wanted)
      BY <2>2
    <3>2. PICK id : id = IF wanted <= 0 THEN 10 ELSE wanted
      OBVIOUS
    <3> SUFFICES ASSUME reply'.response = "SUCCESS"
                 PROVE  reply'.id \in DOMAIN acked' /\ reply'.content = acked'[reply'.id]
      BY DEF SuccessCarriesFile
    <3>3. /\ pc = "idle" /\ acked' = acked
          /\ reply' = [req |-> "GET", id |-> id,
                       response |-> IF id \in DOMAIN metas THEN "SUCCESS" ELSE "OTHER_ERROR",
                       content |-> IF id \in DOMAIN metas /\ created
                                   THEN Bytes(metas[id]) ELSE <<"garbage">>]
      BY <3>1, <3>2 DEF Get
    <3>4. id \in DOMAIN metas /\ reply'.id = id
      BY <3>3
    <3>5. /\ Known = metas /\ Last = latest /\ pc \notin Saving
      BY <3>3 DEF Known, Last, Saving
    <3>6. DOMAIN metas = 1..latest.file_id /\ latest.file_id \in Nat
      BY <3>5 DEF IInv, Chain, Node
    <3>7. id \in DOMAIN acked /\ Bytes(metas[id]) = acked[id]
      BY <3>4, <3>5, <3>6 DEF IInv, Answered
    <3>8. created
      BY <3>4, <3>5, <3>6 DEF FilesMakeData
    <3>9. QED
      BY <3>3, <3>4, <3>7, <3>8
  <2>3. CASE Start \/ (\E content \in Contents : Put(content)) \/ PutWithoutFd
             \/ SaveSize \/ SaveEntry \/ Crash
    BY <2>3 DEF Start, Put, PutWithoutFd, SaveSize, SaveEntry, Crash, Die
  <2>4. QED
    BY <2>1, <2>2, <2>3 DEF Next
<1>3. IInv /\ FilesMakeData /\ [Next]_vars => FilesMakeData'
  BY StepMakesData
<1>4. QED
  BY Invariance, <1>1, <1>2, <1>3, PTL DEF Spec, ServedWhileFdsLast
=============================================================================
