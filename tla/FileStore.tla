------------------------------ MODULE FileStore ------------------------------
(***************************************************************************)
(* The file server of single_fs/app: EchoFromIfs answers GET and PUT on    *)
(* the one CommunicateLoop thread with the Ifs of single_fs/depends/fs.    *)
(* Ifs appends every file to data_storage.dat, keeps a MetaNode for each   *)
(* in memory, and after a PUT rewrites meta_storage.idx in place: the      *)
(* number of nodes, then each of them in the hash map's order.  init reads *)
(* that file when the server starts.                                       *)
(*                                                                         *)
(* The two files survive a crash; everything else is lost.  Crash is       *)
(* enabled where CrashPoints says.                                         *)
(***************************************************************************)
EXTENDS Integers, Sequences, FiniteSets

CONSTANTS Byte,         \* what files are made of
          Contents,     \* the files that clients PUT
          CrashPoints,  \* the values of pc at which the server may crash
          DiskSpace,    \* bytes that fit in data_storage.dat
          FdLimit,      \* FILEs the process can open besides its sockets
          MaxId,        \* bound: ids the server hands out
          MaxData,      \* bound: bytes that PUTs append
          MaxMisses     \* bound: FILEs that GETs leak in one run of the server

Saving == {"size", "entries"}

ASSUME FileStoreAssumption ==
  /\ Contents \subseteq Seq(Byte)
  /\ CrashPoints \subseteq {"idle"} \union Saving
  /\ DiskSpace \in Nat /\ FdLimit \in Nat \ {0}
  /\ MaxId \in Nat /\ MaxData \in Nat /\ MaxMisses \in Nat

VARIABLES
  data,       \* data_storage.dat
  created,    \* data_storage.dat exists
  size,       \* the first word of meta_storage.idx
  entries,    \* the MetaNodes that follow it
  metas,      \* meta_datas: the nodes by id
  latest,     \* latest_data
  pc,         \* "down", "idle", or where save_metadata is
  remaining,  \* ids the iterator of save_metadata has still to visit
  pos,        \* nodes it has written
  leaked,     \* FILEs never closed
  pending,    \* the content of the PUT being answered
  reply,      \* the last reply
  acked       \* history: the content behind every id replied to a PUT

files == <<data, created, size, entries>>
memory == <<metas, latest, remaining, pos, leaked, pending>>
vars == <<files, memory, pc, reply, acked>>

Empty == [id \in {} |-> 0]   \* the map without entries

MetaNode(id, start, length) == [file_id |-> id, start |-> start, length |-> length]

Smaller(a, b) == IF a <= b THEN a ELSE b

\* Mutants: fread without fseek; the lowest id for the latest.
BytesFromStart(node) == SubSeq(data, 1, Smaller(node.length, Len(data)))
LatestLowest(map) ==
  IF DOMAIN map = {} THEN MetaNode(0, 0, 0)
  ELSE map[CHOOSE id \in DOMAIN map : \A other \in DOMAIN map : other >= id]

\* What fseek and fread find: short when the file ends before the node does.
Bytes(node) ==
  SubSeq(data, node.start + 1, Smaller(node.start + node.length, Len(data)))

NoReply == [req |-> "none", id |-> 0, response |-> "SUCCESS", content |-> <<>>]

\* The j-th node init reads: a read past the end of the file leaves the node
\* of the previous one in place.
ReadNode(j) == entries[Smaller(j, Len(entries))]

\* The map init builds; a file of at most four bytes is taken for empty, and
\* a later node of the same id replaces an earlier one.
Recovered ==
  IF entries = <<>> THEN Empty
  ELSE LET last(id) == CHOOSE j \in 1..size :
             /\ ReadNode(j).file_id = id
             /\ \A k \in 1..size : ReadNode(k).file_id = id => k <= j
       IN  [id \in {ReadNode(j).file_id : j \in 1..size} |-> ReadNode(last(id))]

Latest(map) ==
  IF DOMAIN map = {} THEN MetaNode(0, 0, 0)
  ELSE map[CHOOSE id \in DOMAIN map : \A other \in DOMAIN map : other <= id]

Init ==
  /\ data = <<>> /\ created = FALSE
  /\ size = 0 /\ entries = <<>>
  /\ metas = Empty /\ latest = MetaNode(0, 0, 0)
  /\ pc = "down"
  /\ remaining = {} /\ pos = 0
  /\ leaked = 0
  /\ pending = <<>>
  /\ reply = NoReply
  /\ acked = Empty
-----------------------------------------------------------------------------
\* InitedIfs: the first request initialises the Singleton.
Start ==
  /\ pc = "down"
  /\ metas' = Recovered
  /\ latest' = Latest(Recovered)
  /\ pc' = "idle"
  /\ UNCHANGED <<files, remaining, pos, leaked, pending, reply, acked>>

\* Where Ifs::write expects the new bytes to go.
NewOffset == latest.start + latest.length

\* PUT, Ifs::write: the file is open for appending, so fseek moves nothing and
\* the bytes go to its end; as many as the disk takes, which nobody compares
\* with the length.  The new id is the latest plus one.
Put(content) ==
  /\ pc = "idle"
  /\ leaked < FdLimit
  /\ latest.file_id < MaxId
  /\ Len(data) + Len(content) <= MaxData
  /\ data' = data \o SubSeq(content, 1, Smaller(Len(content), DiskSpace - Len(data)))
  /\ created' = TRUE
  /\ latest' = MetaNode(latest.file_id + 1, NewOffset, Len(content))
  /\ metas' = [id \in DOMAIN metas \union {latest'.file_id} |->
                 IF id = latest'.file_id THEN latest' ELSE metas[id]]
  /\ pending' = content
  /\ pc' = "size"
  /\ UNCHANGED <<size, entries, remaining, pos, leaked, reply, acked>>

\* What a process leaves behind when it dies: its files and nothing else.
Die ==
  /\ pc' = "down"
  /\ metas' = Empty /\ latest' = MetaNode(0, 0, 0)
  /\ remaining' = {} /\ pos' = 0 /\ leaked' = 0 /\ pending' = <<>>
  /\ UNCHANGED <<files, reply, acked>>

\* With no descriptor left fopen returns NULL and fseek(NULL) kills the server.
PutWithoutFd ==
  /\ pc = "idle"
  /\ leaked = FdLimit
  /\ Die

FileCountStale == Cardinality(DOMAIN metas) - 1      \* mutant: counted too early
FileCount == Cardinality(DOMAIN metas)

\* save_metadata: open without O_TRUNC and write the number of nodes.
SaveSize ==
  /\ pc = "size"
  /\ size' = FileCount
  /\ remaining' = DOMAIN metas
  /\ pos' = 0
  /\ pc' = "entries"
  /\ UNCHANGED <<data, created, entries, metas, latest, leaked, pending, reply, acked>>

\* meta_storage.idx after write() puts a node at the current position.
WithNodeAppended(node) == Append(entries, node)   \* mutant: O_APPEND
WithNode(node) ==
  [j \in 1..(IF pos < Len(entries) THEN Len(entries) ELSE pos + 1) |->
     IF j = pos + 1 THEN node ELSE entries[j]]

\* Write the next node of the hash map over the one that was there.
SaveEntry ==
  /\ pc = "entries"
  /\ \E id \in remaining :
       /\ entries' = WithNode(metas[id])
       /\ remaining' = remaining \ {id}
  /\ pos' = pos + 1
  /\ UNCHANGED <<data, created, size, metas, latest, pc, leaked, pending, reply, acked>>

\* All written: SUCCESS and the id go back to the client.
PutReply ==
  /\ pc = "entries"
  /\ remaining = {}
  /\ reply' = [req |-> "PUT", id |-> latest.file_id, response |-> "SUCCESS", content |-> <<>>]
  /\ acked' = [id \in DOMAIN acked \union {latest.file_id} |->
                 IF id = latest.file_id THEN pending ELSE acked[id]]
  /\ pc' = "idle"
  /\ UNCHANGED <<files, memory>>

\* GET: get_length, then Ifs::read.  An id of zero or less means 10.  The
\* file opened for an id that is not there stays open.  A failed read turns
\* FILE_DID_NOT_EXIST into OTHER_ERROR and leaves SUCCESS alone; the buffer
\* is then sent as it came from new.
Get(wanted) ==
  LET id == IF wanted <= 0 THEN 10 ELSE wanted
      exists == id \in DOMAIN metas
      opened == created /\ leaked < FdLimit
  IN  /\ pc = "idle"
      /\ opened /\ ~exists => leaked < MaxMisses
      /\ leaked' = IF opened /\ ~exists THEN leaked + 1 ELSE leaked
      /\ reply' = [req |-> "GET", id |-> id,
                   response |-> IF exists THEN "SUCCESS" ELSE "OTHER_ERROR",
                   content |-> IF exists /\ opened THEN Bytes(metas[id]) ELSE <<"garbage">>]
      /\ UNCHANGED <<files, metas, latest, pc, remaining, pos, pending, acked>>

Crash == pc \in CrashPoints /\ Die

Next ==
  \/ Start
  \/ \E content \in Contents : Put(content)
  \/ PutWithoutFd \/ SaveSize \/ SaveEntry \/ PutReply
  \/ \E wanted \in 0..MaxId + 1 : Get(wanted)
  \/ Crash

Spec == Init /\ [][Next]_vars
-----------------------------------------------------------------------------
Node == [file_id : 0..MaxId, start : Nat, length : Nat]

\* The type of every variable.
TypeOK ==
  /\ data \in Seq(Byte)
  /\ created \in BOOLEAN
  /\ size \in 0..MaxId
  /\ entries \in Seq(Node)
  /\ DOMAIN metas \subseteq 1..MaxId /\ metas \in [DOMAIN metas -> Node]
  /\ latest \in Node
  /\ pc \in {"down", "idle"} \union Saving
  /\ remaining \subseteq 1..MaxId
  /\ pos \in 0..MaxId
  /\ leaked \in 0..FdLimit
  /\ pending \in Seq(Byte)
  /\ DOMAIN acked \subseteq 1..MaxId /\ acked \in [DOMAIN acked -> Seq(Byte)]

\* The nodes the server has, or will have once it starts.
Known == IF pc = "down" THEN Recovered ELSE metas

\* Every file whose PUT was answered with SUCCESS can be read back, whole,
\* under the id in the answer: now, and after a restart.
ReadBack ==
  \A id \in DOMAIN acked : id \in DOMAIN Known /\ Bytes(Known[id]) = acked[id]

\* The files do not overlap in data_storage.dat.
FilesDisjoint ==
  \A a, b \in DOMAIN Known :
    a < b => Known[a].start + Known[a].length <= Known[b].start

\* A server that stops while it is idle comes back with what it had: the same
\* files, the same next id and the same next offset.
RestartRestores ==
  pc = "idle" => Recovered = metas /\ Latest(Recovered) = latest

\* SUCCESS to a GET means that the reply carries the file that was PUT.
SuccessCarriesFile ==
  reply.req = "GET" /\ reply.response = "SUCCESS" =>
    reply.id \in DOMAIN acked /\ reply.content = acked[reply.id]

\* It does as long as a FILE can still be opened.
ServedWhileFdsLast ==
  [][leaked < FdLimit /\ reply' # reply => SuccessCarriesFile']_vars

\* An id, once answered to a PUT, never stands for another content.
IdNeverReused ==
  [][\A id \in DOMAIN acked : id \in DOMAIN acked' /\ acked'[id] = acked[id]]_vars
=============================================================================
