--------------------------- MODULE EventServerProofs ---------------------------
(***************************************************************************)
(* Proofs about EventServer for any browsers, any number of requests, of    *)
(* watched descriptors and of those counted before, and any junk in the     *)
(* epoll_event: no input of a connection is forgotten while the loop waits. *)
(* And about OldNet, whose loop takes edges too, for any clients and sizes:  *)
(* an open connection is dropped only where its packet's header was cut.     *)
(***************************************************************************)
EXTENDS EventServer, TLAPS, FiniteSetTheorems, SequenceTheorems

Bits  == {"in", "out", "et", "oneshot", "disarmed"}
Event == [fd : Fds, mask : {"IoClosed", "IoReadable", "IoWritable"}]

Types ==
  /\ batch \in Seq(Event) /\ answering \in BOOLEAN
  /\ peer \in [Clients -> {"away", "open", "closed", "reset"}]
  /\ reads \in [Clients -> BOOLEAN]
  /\ sent \in [Clients -> Nat]
  /\ inbox \in [Clients -> Seq({"head", "tail"})]
  /\ backlog \in Seq(Clients)
  /\ interest \in [Fds -> SUBSET Bits]
  /\ ready \in [Fds -> BOOLEAN]

\* A connection that is waiting, watched or reported has been made.
Made ==
  /\ \A i \in 1 .. Len(backlog) : peer[backlog[i]] # "away"
  /\ \A c \in Clients : peer[c] = "away" => interest[c] = {}
  /\ \A i \in 1 .. Len(batch) : batch[i].fd # Listener => peer[batch[i].fd] # "away"

\* What epoll_wait returned: the listener at most once, while there is one to
\* accept; a reset connection as closed, and no other. The first is a browser
\* while it is sent its page.
Batch ==
  /\ \A i \in 1 .. Len(batch) : batch[i].mask = "IoClosed" =>
       batch[i].fd \in Clients /\ peer[batch[i].fd] = "reset"
  /\ \A i \in 1 .. Len(batch) : batch[i].fd = Listener =>
       backlog # <<>> /\ \A j \in 1 .. Len(batch) : batch[j].fd = Listener => i = j
  /\ answering => batch # <<>> /\ batch[1].fd \in Clients

\* epoll has fd on its list if there is input.
Pending(fd) == \E i \in 1 .. Len(batch) : batch[i].fd = fd
Armed(c) ==
  /\ "disarmed" \notin interest[c]
  /\ "in" \in interest[c] \/ "out" \in interest[c]
  /\ reads[c] /\ (inbox[c] # <<>> \/ peer[c] # "open") => ready[c]

\* Every watched connection is still to be handled, or epoll remembers it.
Remembered ==
  \A c \in Clients : interest[c] # {} /\ peer[c] # "reset" => Pending(c) \/ Armed(c)

\* The inductive invariant.
IInv == Types /\ Made /\ Batch /\ Remembered
--------------------------------------------------------------------------------
(* epoll and the batch.                                                        *)

LEMMA ClientsAreFds == Clients \subseteq Fds /\ Listener \in Fds /\ Listener \notin Clients
BY EventAssumption DEF Fds

LEMMA ConditionsOf ==
  ASSUME NEW c \in Clients
  PROVE  /\ "in" \in Conditions(c) <=> inbox[c] # <<>> \/ peer[c] # "open"
         /\ "out" \in Conditions(c) <=> reads[c] \/ peer[c] # "open"
         /\ "hup" \in Conditions(c) <=> peer[c] = "reset"
BY ClientsAreFds DEF Conditions

LEMMA ConditionsOfListener ==
  /\ Conditions(Listener) \subseteq {"in"}
  /\ Conditions(Listener) # {} <=> backlog # <<>>
BY DEF Conditions

\* A watched connection with input and a browser that reads is on the list.
LEMMA ArmedIsReported ==
  ASSUME Types, NEW c \in Clients, Armed(c), reads[c], "in" \in Conditions(c)
  PROVE  Reported(c)
<1>1. /\ "disarmed" \notin interest[c] /\ interest[c] # {} /\ ready[c]
      /\ "in" \in interest[c] \/ "out" \in interest[c]
  BY ConditionsOf DEF Armed
<1>2. "in" \in Conditions(c) /\ "out" \in Conditions(c)
  BY ConditionsOf
<1>3. Reports(c) # {}
  BY <1>1, <1>2 DEF Reports
<1>4. QED
  BY <1>1, <1>3 DEF Reported, Watched

LEMMA FirstEvent ==
  ASSUME Types, batch # <<>>
  PROVE  /\ Head(batch) \in Event /\ Head(batch) = batch[1]
         /\ Current \in Fds
         /\ 1 \in 1 .. Len(batch)
<1>1. batch \in Seq(Event) /\ batch # <<>>
  BY DEF Types
<1>2. Head(batch) \in Event
  BY <1>1, HeadTailProperties
<1>3. Head(batch) = batch[1] /\ 1 \in 1 .. Len(batch)
  BY <1>1
<1>4. Current \in Fds
  BY <1>2 DEF Current, Event
<1>5. QED
  BY <1>2, <1>3, <1>4

LEMMA RestOfBatch ==
  ASSUME Types, batch # <<>>
  PROVE  /\ Tail(batch) \in Seq(Event)
         /\ Len(batch) \in Nat /\ Len(Tail(batch)) = Len(batch) - 1
         /\ \A i \in 1 .. Len(Tail(batch)) : Tail(batch)[i] = batch[i + 1]
BY HeadTailProperties, LenProperties DEF Types

\* Once the first event is handled, the others are still to be handled.
LEMMA OthersPend ==
  ASSUME Types, batch # <<>>, batch' = Tail(batch),
         NEW fd, Pending(fd), fd # Current
  PROVE  Pending(fd)'
<1>1. PICK i \in 1 .. Len(batch) : batch[i].fd = fd
  BY DEF Pending
<1>2. i # 1
  BY <1>1, FirstEvent DEF Current
<1>3. i - 1 \in 1 .. Len(Tail(batch)) /\ Tail(batch)[i - 1] = batch[i]
  BY <1>1, <1>2, RestOfBatch
<1>4. QED
  BY <1>1, <1>3 DEF Pending

\* A connection that is made is not unmade, and a reset one stays so.
PeerMoves ==
  \A c \in Clients : /\ peer[c] = "reset" => peer'[c] = "reset"
                     /\ peer[c] # "away" => peer'[c] # "away"

\* The part of Made that is about the batch, and Batch, while browsers act.
LEMMA BatchStays ==
  ASSUME Types, Made, Batch, PeerMoves, batch' = batch,
         answering' => batch # <<>> /\ batch[1].fd \in Clients,
         backlog # <<>> => backlog' # <<>>
  PROVE  /\ Batch'
         /\ \A i \in 1 .. Len(batch') : batch'[i].fd # Listener => peer'[batch'[i].fd] # "away"
<1>1. \A i \in 1 .. Len(batch) : batch[i] \in Event
  BY ElementOfSeq DEF Types
<1>2. \A i \in 1 .. Len(batch) : batch[i].fd # Listener => peer'[batch[i].fd] # "away"
  BY <1>1 DEF Made, PeerMoves, Event, Fds
<1>3. \A i \in 1 .. Len(batch) : batch[i].mask = "IoClosed" =>
        batch[i].fd \in Clients /\ peer'[batch[i].fd] = "reset"
  BY <1>1 DEF Batch, PeerMoves
<1>4. QED
  BY <1>2, <1>3 DEF Batch

\* The same when the first event has been handled.
LEMMA BatchMoves ==
  ASSUME Types, Made, Batch, PeerMoves, batch # <<>>, batch' = Tail(batch),
         answering' = FALSE,
         Current # Listener => backlog' = backlog
  PROVE  /\ Batch'
         /\ \A i \in 1 .. Len(batch') : batch'[i].fd # Listener => peer'[batch'[i].fd] # "away"
<1>1. \A i \in 1 .. Len(batch') : i + 1 \in 1 .. Len(batch) /\ batch'[i] = batch[i + 1]
  BY RestOfBatch
<1>2. \A i \in 1 .. Len(batch) : batch[i] \in Event
  BY ElementOfSeq DEF Types
<1>3. \A i \in 1 .. Len(batch') : batch'[i].fd # Listener => peer'[batch'[i].fd] # "away"
  BY <1>1, <1>2 DEF Made, PeerMoves, Event, Fds
<1>4. \A i \in 1 .. Len(batch') : batch'[i].mask = "IoClosed" =>
        batch'[i].fd \in Clients /\ peer'[batch'[i].fd] = "reset"
  BY <1>1, <1>2 DEF Batch, PeerMoves
<1>5. ASSUME NEW i \in 1 .. Len(batch'), batch'[i].fd = Listener
      PROVE  /\ backlog' # <<>>
             /\ \A j \in 1 .. Len(batch') : batch'[j].fd = Listener => i = j
  <2>1. i \in Nat /\ i + 1 \in 1 .. Len(batch) /\ batch[i + 1].fd = Listener
    BY <1>1, <1>5
  <2>2. backlog # <<>> /\ \A j \in 1 .. Len(batch) : batch[j].fd = Listener => i + 1 = j
    BY <2>1 DEF Batch
  <2>3. batch[1].fd # Listener
    BY <2>1, <2>2, FirstEvent
  <2>4. backlog' # <<>>
    BY <2>2, <2>3, FirstEvent DEF Current
  <2>5. ASSUME NEW j \in 1 .. Len(batch'), batch'[j].fd = Listener PROVE i = j
    BY <2>1, <2>2, <2>5, <1>1
  <2>6. QED
    BY <2>4, <2>5
<1>6. QED
  BY <1>3, <1>4, <1>5 DEF Batch
--------------------------------------------------------------------------------
(* The browsers.                                                               *)

LEMMA ArmedStays ==
  ASSUME NEW c \in Clients, Armed(c),
         interest'[c] = interest[c], ready'[c] = ready[c], inbox'[c] = inbox[c],
         peer'[c] = peer[c], reads'[c] = reads[c]
  PROVE  Armed(c)'
BY DEF Armed

\* What happens on a connection that is not waiting to be handled puts it on
\* the list.
LEMMA WokenIsArmed ==
  ASSUME Types, NEW c \in Clients, Armed(c), Wake(c), interest' = interest
  PROVE  Armed(c)'
<1>1. Watched(c)
  BY DEF Armed, Watched
<1>2. ready'[c] = TRUE
  BY <1>1, ClientsAreFds DEF Wake, Types
<1>3. QED
  BY <1>2 DEF Armed

LEMMA WakeType ==
  ASSUME Types, NEW fd \in Fds, Wake(fd)
  PROVE  ready' \in [Fds -> BOOLEAN] /\ \A g \in Fds : g # fd => ready'[g] = ready[g]
BY DEF Wake, Types, Watched

LEMMA PendingStays ==
  ASSUME batch' = batch, NEW fd
  PROVE  Pending(fd)' <=> Pending(fd)
BY DEF Pending

LEMMA ConnectStep ==
  ASSUME IInv, NEW c \in Clients, Connect(c)
  PROVE  IInv'
<1> USE DEF IInv
<1>1. /\ peer[c] = "away" /\ peer' = [peer EXCEPT ![c] = "open"]
      /\ backlog' = Append(backlog, c)
      /\ Wake(Listener)
      /\ UNCHANGED <<batch, answering, reads, sent, inbox, interest>>
  BY DEF Connect
<1>2. Types'
  <2>1. backlog' \in Seq(Clients)
    BY <1>1, AppendProperties DEF Types
  <2>2. ready' \in [Fds -> BOOLEAN]
    BY <1>1, WakeType, ClientsAreFds
  <2>3. QED
    BY <1>1, <2>1, <2>2 DEF Types
<1>3. PeerMoves
  BY <1>1 DEF PeerMoves, Types
<1>4. /\ Len(backlog) \in Nat /\ Len(backlog') = Len(backlog) + 1
      /\ \A i \in 1 .. Len(backlog) : backlog'[i] = backlog[i] /\ backlog[i] \in Clients
      /\ backlog'[Len(backlog) + 1] = c
      /\ backlog' # <<>>
  <2>1. backlog \in Seq(Clients)
    BY DEF Types
  <2>2. Len(backlog) \in Nat /\ \A i \in 1 .. Len(backlog) : backlog[i] \in Clients
    BY <2>1, LenProperties, ElementOfSeq
  <2>3. /\ Append(backlog, c) # <<>>
        /\ Len(Append(backlog, c)) = Len(backlog) + 1
        /\ \A i \in 1 .. Len(backlog) : Append(backlog, c)[i] = backlog[i]
        /\ Append(backlog, c)[Len(backlog) + 1] = c
    BY <2>1, AppendProperties
  <2>4. QED
    BY <1>1, <2>2, <2>3
<1>5. /\ Batch'
      /\ \A i \in 1 .. Len(batch') : batch'[i].fd # Listener => peer'[batch'[i].fd] # "away"
  BY <1>1, <1>3, <1>4, BatchStays DEF Batch
<1>6. \A i \in 1 .. Len(backlog') : peer'[backlog'[i]] # "away"
  BY <1>1, <1>3, <1>4 DEF Made, PeerMoves, Types
<1>7. \A d \in Clients : peer'[d] = "away" => interest'[d] = {}
  BY <1>1, <1>3 DEF Made, PeerMoves
<1>8. ASSUME NEW d \in Clients, interest'[d] # {}, peer'[d] # "reset"
      PROVE  Pending(d)' \/ Armed(d)'
  <2>1. d # c
    BY <1>1, <1>8 DEF Made
  <2>2. peer'[d] = peer[d] /\ ready'[d] = ready[d]
    BY <1>1, <2>1, WakeType, ClientsAreFds DEF Types
  <2>3. Pending(d) \/ Armed(d)
    BY <1>1, <1>8, <2>2 DEF Remembered
  <2>4. QED
    BY <1>1, <2>2, <2>3, PendingStays, ArmedStays
<1>9. QED
  BY <1>2, <1>5, <1>6, <1>7, <1>8 DEF Made, Remembered

LEMMA SendPieces ==
  ASSUME Types, NEW c \in Clients, Send(c)
  PROVE  inbox' \in [Clients -> Seq({"head", "tail"})] /\ sent' \in [Clients -> Nat]
<1> DEFINE pieces == [i \in 1 .. 2 |-> IF (sent[c] + i) % 2 = 1 THEN "head" ELSE "tail"]
<1>1. PICK n \in 1 .. (2 - (sent[c] % 2)) :
        /\ inbox' = [inbox EXCEPT ![c] = @ \o SubSeq(pieces, 1, n)]
        /\ sent' = [sent EXCEPT ![c] = @ + n]
  BY DEF Send
<1>2. sent[c] \in Nat /\ n \in Nat /\ n \in 1 .. 2
  BY <1>1 DEF Types
<1>3. \A i \in 1 .. n : pieces[i] \in {"head", "tail"}
  BY <1>2
<1> HIDE DEF pieces
<1>4. SubSeq(pieces, 1, n) \in Seq({"head", "tail"})
  BY <1>2, <1>3, SubSeqProperties
<1>5. inbox[c] \o SubSeq(pieces, 1, n) \in Seq({"head", "tail"})
  BY <1>4, ConcatProperties DEF Types
<1>6. inbox' = [inbox EXCEPT ![c] = inbox[c] \o SubSeq(pieces, 1, n)]
  BY <1>1
<1>7. inbox' \in [Clients -> Seq({"head", "tail"})]
  BY <1>5, <1>6 DEF Types
<1>8. sent' \in [Clients -> Nat]
  BY <1>1, <1>2 DEF Types
<1>9. QED
  BY <1>7, <1>8

LEMMA SendStep ==
  ASSUME IInv, NEW c \in Clients, Send(c)
  PROVE  IInv'
<1> USE DEF IInv
<1>1. /\ Wake(c)
      /\ UNCHANGED <<batch, answering, peer, reads, backlog, interest>>
  BY DEF Send
<1>2. ready' \in [Fds -> BOOLEAN] /\ \A g \in Fds : g # c => ready'[g] = ready[g]
  BY <1>1, WakeType, ClientsAreFds
<1>3. Types'
  BY <1>1, <1>2, SendPieces DEF Types
<1>4. Made' /\ Batch'
  BY <1>1 DEF Made, Batch
<1>5. ASSUME NEW d \in Clients, interest'[d] # {}, peer'[d] # "reset"
      PROVE  Pending(d)' \/ Armed(d)'
  <2>1. Pending(d) \/ Armed(d)
    BY <1>1, <1>5 DEF Remembered
  <2>2. CASE Pending(d)
    BY <1>1, <2>2, PendingStays
  <2>3. CASE Armed(d) /\ d = c
    BY <1>1, <2>3, WokenIsArmed
  <2>4. CASE Armed(d) /\ d # c
    <3>1. inbox'[d] = inbox[d]
      BY <2>4 DEF Send, Types
    <3>2. QED
      BY <1>1, <1>2, <2>4, <3>1, ArmedStays, ClientsAreFds
  <2>5. QED
    BY <2>1, <2>2, <2>3, <2>4
<1>6. QED
  BY <1>3, <1>4, <1>5 DEF Remembered

LEMMA LeaveStep ==
  ASSUME IInv, NEW c \in Clients, Leave(c)
  PROVE  IInv'
<1> USE DEF IInv
<1>1. /\ peer[c] = "open"
      /\ peer' \in {[peer EXCEPT ![c] = "closed"], [peer EXCEPT ![c] = "reset"]}
      /\ Wake(c)
      /\ UNCHANGED <<batch, answering, reads, sent, backlog, inbox, interest>>
  BY DEF Leave
<1>2. ready' \in [Fds -> BOOLEAN] /\ \A g \in Fds : g # c => ready'[g] = ready[g]
  BY <1>1, WakeType, ClientsAreFds
<1>3. Types'
  BY <1>1, <1>2 DEF Types
<1>4. PeerMoves /\ \A d \in Clients : d # c => peer'[d] = peer[d]
  BY <1>1 DEF PeerMoves, Types
<1>5. /\ Batch'
      /\ \A i \in 1 .. Len(batch') : batch'[i].fd # Listener => peer'[batch'[i].fd] # "away"
  BY <1>1, <1>4, BatchStays DEF Batch
<1>6. \A i \in 1 .. Len(backlog') : peer'[backlog'[i]] # "away"
  BY <1>1, <1>4, ElementOfSeq DEF Made, PeerMoves, Types
<1>7. \A d \in Clients : peer'[d] = "away" => interest'[d] = {}
  BY <1>1, <1>4 DEF Made, PeerMoves
<1>8. ASSUME NEW d \in Clients, interest'[d] # {}, peer'[d] # "reset"
      PROVE  Pending(d)' \/ Armed(d)'
  <2>1. Pending(d) \/ Armed(d)
    BY <1>1, <1>4, <1>8 DEF Remembered, PeerMoves
  <2>2. CASE Pending(d)
    BY <1>1, <2>2, PendingStays
  <2>3. CASE Armed(d) /\ d = c
    BY <1>1, <2>3, WokenIsArmed
  <2>4. CASE Armed(d) /\ d # c
    BY <1>1, <1>2, <1>4, <2>4, ArmedStays, ClientsAreFds
  <2>5. QED
    BY <2>1, <2>2, <2>3, <2>4
<1>9. QED
  BY <1>3, <1>5, <1>6, <1>7, <1>8 DEF Made, Remembered

LEMMA StopReadingStep ==
  ASSUME IInv, NEW c \in Clients, StopReading(c)
  PROVE  IInv'
<1> USE DEF IInv
<1>1. /\ reads' = [reads EXCEPT ![c] = FALSE]
      /\ UNCHANGED <<batch, answering, peer, sent, backlog, inbox, interest, ready>>
  BY DEF StopReading, epoll
<1>2. Types'
  BY <1>1 DEF Types
<1>3. Made' /\ Batch'
  BY <1>1 DEF Made, Batch
<1>4. Remembered'
  BY <1>1 DEF Remembered, Armed, Pending, Types
<1>5. QED
  BY <1>2, <1>3, <1>4
--------------------------------------------------------------------------------
(* The loop.                                                                   *)

\* A sequence of a finite set's elements without repetition that is as long as
\* the set is large has them all.
LEMMA OrderHasAll ==
  ASSUME NEW S, IsFiniteSet(S), NEW order \in SetToSeqs(S)
  PROVE  /\ order \in [1 .. Cardinality(S) -> S] /\ Cardinality(S) \in Nat
         /\ DOMAIN order = 1 .. Cardinality(S)
         /\ \A i, j \in DOMAIN order : order[i] = order[j] => i = j
         /\ \A fd \in S : \E i \in DOMAIN order : order[i] = fd
<1> DEFINE n == Cardinality(S)
<1>1. n \in Nat /\ IsFiniteSet(1 .. n) /\ Cardinality(1 .. n) = n
  BY FS_CardinalityType, FS_Interval
<1> HIDE DEF n
<1>2. order \in [1 .. n -> S] /\ \A i, j \in 1 .. n : i # j => order[i] # order[j]
  BY DEF SetToSeqs, n
<1>3. order \in Injection(1 .. n, S)
  BY <1>2 DEF Injection, IsInjective
<1>4. n = Cardinality(S)
  BY DEF n
<1>5. order \in Surjection(1 .. n, S)
  BY <1>1, <1>3, <1>4, FS_Injection
<1>6. \A fd \in S : \E i \in 1 .. n : order[i] = fd
  BY <1>5 DEF Surjection
<1>7. QED
  BY <1>1, <1>2, <1>4, <1>6

LEMMA MaskFacts ==
  ASSUME NEW fd \in Fds
  PROVE  /\ Mask(fd) \in {"IoClosed", "IoReadable", "IoWritable"}
         /\ Mask(fd) = "IoClosed" => fd \in Clients /\ peer[fd] = "reset"
<1>1. CASE "hup" \in Reports(fd)
  <2>1. "hup" \in Conditions(fd)
    BY <1>1 DEF Reports
  <2>2. fd # Listener
    BY <2>1, ConditionsOfListener
  <2>3. fd \in Clients
    BY <2>2 DEF Fds
  <2>4. Mask(fd) = "IoClosed"
    BY <1>1 DEF Mask
  <2>5. QED
    BY <2>1, <2>3, <2>4, ConditionsOf
<1>2. CASE "hup" \notin Reports(fd) /\ "in" \in Reports(fd)
  <2>1. Mask(fd) = "IoReadable"
    BY <1>2 DEF Mask
  <2>2. QED
    BY <2>1
<1>3. CASE "hup" \notin Reports(fd) /\ "in" \notin Reports(fd)
  <2>1. Mask(fd) = "IoWritable"
    BY <1>3 DEF Mask
  <2>2. QED
    BY <2>1
<1>4. QED
  BY <1>1, <1>2, <1>3

LEMMA PollStep ==
  ASSUME IInv, PollEvent
  PROVE  IInv'
<1> USE DEF IInv
<1> DEFINE fds == {fd \in Fds : Reported(fd)}
<1>1. PICK order \in SetToSeqs(fds) :
        batch' = [i \in DOMAIN order |-> [fd |-> order[i], mask |-> Mask(order[i])]]
  BY DEF PollEvent
<1>2. /\ batch = <<>>
      /\ ready' = [fd \in Fds |-> fd \in fds /\ "et" \notin interest[fd]]
      /\ interest' = [fd \in Fds |->
           IF fd \in fds /\ "oneshot" \in interest[fd]
             THEN interest[fd] \cup {"disarmed"} ELSE interest[fd]]
      /\ UNCHANGED <<answering, peer, reads, sent, backlog, inbox>>
  BY DEF PollEvent, browser
<1>3. IsFiniteSet(fds)
  <2>1. IsFiniteSet(Fds)
    BY EventAssumption, FS_AddElement DEF Fds
  <2>2. QED
    BY <2>1, FS_Subset
<1>4. fds \subseteq Fds /\ \A fd \in fds : Reported(fd)
  OBVIOUS
<1>5. \A fd \in Fds \ fds : ~Reported(fd)
  OBVIOUS
<1> HIDE DEF fds
<1>6. PICK n \in Nat :
        /\ DOMAIN order = 1 .. n
        /\ order \in [1 .. n -> fds]
        /\ \A i, j \in 1 .. n : order[i] = order[j] => i = j
        /\ \A fd \in fds : \E i \in 1 .. n : order[i] = fd
  BY <1>3, OrderHasAll
<1>7. batch' \in [1 .. n -> Event]
  BY <1>1, <1>4, <1>6, MaskFacts DEF Event
<1>8. batch' \in Seq(Event) /\ Len(batch') = n
  BY <1>6, <1>7, SeqDef, LenProperties
<1>9. \A i \in 1 .. n : /\ batch'[i].fd = order[i] /\ batch'[i].fd \in fds
                        /\ batch'[i].mask = Mask(order[i])
  BY <1>1, <1>6
<1>10. Types'
  <2>1. ready' \in [Fds -> BOOLEAN]
    BY <1>2
  <2>2. interest' \in [Fds -> SUBSET Bits]
    BY <1>2 DEF Types, Bits
  <2>3. QED
    BY <1>2, <1>8, <2>1, <2>2 DEF Types
<1>11. \A fd \in fds : interest[fd] # {}
  BY <1>4 DEF Reported, Watched
<1>12. Made'
  <2>1. \A i \in 1 .. n : batch'[i].fd # Listener => peer'[batch'[i].fd] # "away"
    BY <1>2, <1>4, <1>9, <1>11 DEF Made, Fds
  <2>2. \A c \in Clients : peer'[c] = "away" => interest'[c] = {}
    BY <1>2, <1>11, ClientsAreFds DEF Made
  <2>3. QED
    BY <1>2, <1>8, <2>1, <2>2 DEF Made
<1>13. Batch'
  <2>1. \A i \in 1 .. n : batch'[i].mask = "IoClosed" =>
          batch'[i].fd \in Clients /\ peer'[batch'[i].fd] = "reset"
    BY <1>2, <1>4, <1>9, MaskFacts
  <2>2. ASSUME NEW i \in 1 .. n, batch'[i].fd = Listener
        PROVE  backlog' # <<>> /\ \A j \in 1 .. n : batch'[j].fd = Listener => i = j
    <3>1. Reported(Listener)
      BY <1>4, <1>9, <2>2
    <3>2. backlog # <<>>
      BY <3>1, ConditionsOfListener DEF Reported, Reports
    <3>3. QED
      BY <1>2, <1>6, <1>9, <2>2, <3>2
  <2>3. ~answering'
    BY <1>2 DEF Batch
  <2>4. QED
    BY <1>8, <2>1, <2>2, <2>3 DEF Batch
<1>14. ASSUME NEW c \in Clients, interest'[c] # {}, peer'[c] # "reset"
       PROVE  Pending(c)' \/ Armed(c)'
  <2>1. CASE c \in fds
    <3>1. PICK i \in 1 .. n : order[i] = c
      BY <1>6, <2>1
    <3>2. QED
      BY <1>8, <1>9, <3>1 DEF Pending
  <2>2. CASE c \notin fds
    <3>1. c \in Fds /\ interest'[c] = interest[c] /\ ~Reported(c)
      BY <1>2, <1>5, <2>2, ClientsAreFds
    <3>2. ~Pending(c)
      BY <1>2 DEF Pending
    <3>3. Armed(c)
      BY <1>2, <1>14, <3>1, <3>2 DEF Remembered
    <3>4. ~(reads[c] /\ (inbox[c] # <<>> \/ peer[c] # "open"))
      BY <3>1, <3>3, ArmedIsReported, ConditionsOf
    <3>5. QED
      BY <1>2, <3>1, <3>3, <3>4 DEF Armed
  <2>3. QED
    BY <2>1, <2>2
<1>15. QED
  BY <1>10, <1>12, <1>13, <1>14 DEF Remembered

\* What Remembered asks of a connection the handled event was not about.
LEMMA OtherRemembered ==
  ASSUME Types, Remembered, batch # <<>>, batch' = Tail(batch),
         NEW d \in Clients, d # Current, interest'[d] # {}, peer'[d] # "reset",
         interest'[d] = interest[d], ready'[d] = ready[d], inbox'[d] = inbox[d],
         peer'[d] = peer[d], reads'[d] = reads[d]
  PROVE  Pending(d)' \/ Armed(d)'
<1>1. Pending(d) \/ Armed(d)
  BY DEF Remembered
<1>2. QED
  BY <1>1, OthersPend, ArmedStays

LEMMA AcceptStep ==
  ASSUME IInv, Accept
  PROVE  IInv'
<1> USE DEF IInv
<1> DEFINE c == Head(backlog)
<1>1. /\ batch # <<>> /\ Current = Listener /\ batch' = Tail(batch)
      /\ backlog' = Tail(backlog)
      /\ UNCHANGED <<answering, peer, reads, sent, inbox>>
      /\ \/ UNCHANGED <<interest, ready>>
         \/ \E junk \in JunkBits :
              /\ interest' = [interest EXCEPT ![c] = Added(junk)]
              /\ ready' = [ready EXCEPT ![c] = TRUE]
  BY DEF Accept, Handled, browser, epoll
<1> HIDE DEF c
<1>2. backlog # <<>>
  BY <1>1, FirstEvent DEF Batch, Current
<1>3. /\ c \in Clients /\ peer[c] # "away"
      /\ backlog' \in Seq(Clients)
      /\ \A i \in 1 .. Len(backlog') : peer[backlog'[i]] # "away"
  <2>1. backlog \in Seq(Clients) /\ backlog # <<>>
    BY <1>2 DEF Types
  <2>2. /\ Head(backlog) \in Clients /\ Tail(backlog) \in Seq(Clients)
        /\ Head(backlog) = backlog[1] /\ Len(backlog) \in Nat /\ Len(backlog) > 0
        /\ Len(Tail(backlog)) = Len(backlog) - 1
        /\ \A i \in 1 .. Len(Tail(backlog)) : Tail(backlog)[i] = backlog[i + 1]
    BY <2>1, HeadTailProperties, LenProperties, EmptySeq
  <2>3. \A i \in 1 .. Len(Tail(backlog)) : i + 1 \in 1 .. Len(backlog)
    BY <2>2
  <2>4. peer[backlog[1]] # "away"
    BY <2>2 DEF Made
  <2>5. \A i \in 1 .. Len(Tail(backlog)) : peer[backlog[i + 1]] # "away"
    BY <2>3 DEF Made
  <2>6. QED
    BY <1>1, <2>2, <2>4, <2>5 DEF c
<1>4. /\ interest' \in [Fds -> SUBSET Bits] /\ ready' \in [Fds -> BOOLEAN]
      /\ \A d \in Clients : d # c => interest'[d] = interest[d] /\ ready'[d] = ready[d]
      /\ \/ UNCHANGED <<interest, ready>>
         \/ "in" \in interest'[c] /\ "disarmed" \notin interest'[c] /\ ready'[c]
  <2>1. CASE UNCHANGED <<interest, ready>>
    BY <2>1 DEF Types
  <2>2. ASSUME NEW junk \in JunkBits,
               interest' = [interest EXCEPT ![c] = Added(junk)],
               ready' = [ready EXCEPT ![c] = TRUE]
        PROVE  <1>4!:
    <3>1. Added(junk) \in SUBSET Bits /\ "in" \in Added(junk) /\ "disarmed" \notin Added(junk)
      BY EventAssumption DEF Added, Bits
    <3>2. c \in Fds
      BY <1>3, ClientsAreFds
    <3>3. QED
      BY <2>2, <3>1, <3>2, ClientsAreFds DEF Types
  <2>3. QED
    BY <1>1, <2>1, <2>2
<1>5. answering' = FALSE
  BY <1>1, FirstEvent, ClientsAreFds DEF Batch, Current, Types
<1>6. Types'
  BY <1>1, <1>3, <1>4, RestOfBatch DEF Types
<1>7. PeerMoves
  BY <1>1 DEF PeerMoves
<1>8. /\ Batch'
      /\ \A i \in 1 .. Len(batch') : batch'[i].fd # Listener => peer'[batch'[i].fd] # "away"
  BY <1>1, <1>5, <1>7, BatchMoves
<1>9. Made'
  BY <1>1, <1>3, <1>4, <1>8 DEF Made
<1>10. ASSUME NEW d \in Clients, interest'[d] # {}, peer'[d] # "reset"
       PROVE  Pending(d)' \/ Armed(d)'
  <2>1. d # Current
    BY <1>1, ClientsAreFds
  <2>2. CASE interest'[d] = interest[d] /\ ready'[d] = ready[d]
    BY <1>1, <1>10, <2>1, <2>2, OtherRemembered
  <2>3. CASE d = c /\ "in" \in interest'[c] /\ "disarmed" \notin interest'[c] /\ ready'[c]
    BY <2>3 DEF Armed
  <2>4. QED
    BY <1>4, <2>2, <2>3
<1>11. QED
  BY <1>6, <1>8, <1>9, <1>10 DEF Remembered

\* The loop has handled an event of a connection: its switch, and the peer that
\* may be reset, are all that changed.
LEMMA HandledStep ==
  ASSUME IInv, PeerMoves, Types', batch # <<>>, batch' = Tail(batch), ~answering',
         backlog' = backlog,
         NEW c, c = Current, c # Listener => peer'[c] # "away",
         \A d \in Clients : d # c =>
           /\ interest'[d] = interest[d] /\ ready'[d] = ready[d]
           /\ inbox'[d] = inbox[d] /\ peer'[d] = peer[d] /\ reads'[d] = reads[d],
         c \in Clients => interest'[c] = {} \/ peer'[c] = "reset" \/ Armed(c)'
  PROVE  IInv'
<1> USE DEF IInv
<1>1. answering' = FALSE
  BY DEF Types
<1>2. /\ Batch'
      /\ \A i \in 1 .. Len(batch') : batch'[i].fd # Listener => peer'[batch'[i].fd] # "away"
  BY <1>1, BatchMoves
<1>3. \A i \in 1 .. Len(backlog') : peer'[backlog'[i]] # "away"
  BY ElementOfSeq DEF Made, PeerMoves, Types
<1>4. \A d \in Clients : peer'[d] = "away" => interest'[d] = {}
  BY ClientsAreFds DEF Made
<1>5. ASSUME NEW d \in Clients, interest'[d] # {}, peer'[d] # "reset"
      PROVE  Pending(d)' \/ Armed(d)'
  <2>1. CASE d = c
    BY <1>5, <2>1
  <2>2. CASE d # c
    BY <1>5, <2>2, OtherRemembered
  <2>3. QED
    BY <2>1, <2>2
<1>6. QED
  BY <1>2, <1>3, <1>4, <1>5 DEF Made, Remembered

LEMMA CurrentIsMade ==
  ASSUME IInv, batch # <<>>
  PROVE  Current # Listener => Current \in Clients /\ peer[Current] # "away"
BY FirstEvent DEF IInv, Made, Current, Fds

\* SetEvent after room was reported: input that came meanwhile is an edge again.
LEMMA WritableStep ==
  ASSUME IInv, Writable
  PROVE  IInv'
<1>1. batch # <<>>
  BY DEF Writable, Handles
<1>2. PICK c \in Fds : c = Current
  BY <1>1, FirstEvent DEF IInv
<1>3. /\ batch # <<>> /\ batch' = Tail(batch) /\ ~answering /\ answering' = answering
      /\ interest' = [interest EXCEPT ![c] = {"in", "et"}]
      /\ ready' = [ready EXCEPT ![c] = TRUE]
      /\ UNCHANGED <<peer, reads, sent, backlog, inbox>>
  BY <1>2 DEF Writable, Handles, Handled, SetEvent, browser
<1>4. Types /\ c \in Fds /\ (c # Listener => c \in Clients /\ peer[c] # "away")
  BY <1>2, <1>3, FirstEvent, CurrentIsMade DEF IInv
<1>5. Types'
  BY <1>3, <1>4, RestOfBatch DEF Types, Bits
<1>6. PeerMoves
  BY <1>3 DEF PeerMoves
<1>7. \A d \in Clients : d # c =>
        /\ interest'[d] = interest[d] /\ ready'[d] = ready[d]
        /\ inbox'[d] = inbox[d] /\ peer'[d] = peer[d] /\ reads'[d] = reads[d]
  BY <1>3, <1>4, ClientsAreFds DEF Types
<1>8. c \in Clients => Armed(c)'
  BY <1>3, <1>4 DEF Armed, Types
<1>9. QED
  BY <1>3, <1>4, <1>2, <1>5, <1>6, <1>7, <1>8, HandledStep

LEMMA IoClosedStep ==
  ASSUME IInv, IoClosed
  PROVE  IInv'
<1>1. batch # <<>>
  BY DEF IoClosed, Handles
<1>2. PICK c \in Fds : c = Current
  BY <1>1, FirstEvent DEF IInv
<1>3. /\ batch # <<>> /\ batch' = Tail(batch) /\ ~answering /\ answering' = answering
      /\ Head(batch).mask = "IoClosed"
      /\ UNCHANGED <<peer, reads, sent, backlog, inbox, interest, ready>>
  BY <1>2 DEF IoClosed, Handles, Handled, browser, epoll
<1>4. Types /\ (c # Listener => c \in Clients /\ peer[c] # "away")
  BY <1>2, <1>3, CurrentIsMade DEF IInv
<1>5. peer[c] = "reset"
  BY <1>2, <1>3, <1>4, FirstEvent DEF IInv, Batch, Current
<1>6. Types'
  BY <1>3, <1>4, RestOfBatch DEF Types
<1>7. PeerMoves
  BY <1>3 DEF PeerMoves
<1>8. QED
  BY <1>3, <1>4, <1>5, <1>2, <1>6, <1>7, HandledStep

LEMMA AnswerStep ==
  ASSUME IInv, Answer
  PROVE  IInv'
<1>1. batch # <<>>
  BY DEF IInv, Answer, Batch
<1>2. PICK c \in Fds : c = Current
  BY <1>1, FirstEvent DEF IInv
<1>3. /\ answering /\ batch' = Tail(batch) /\ answering' = FALSE
      /\ interest' = [interest EXCEPT ![c] = {"out", "et"}]
      /\ ready' = [ready EXCEPT ![c] = TRUE]
      /\ peer' = peer \/ (peer[c] # "open" /\ peer' = [peer EXCEPT ![c] = "reset"])
      /\ UNCHANGED <<reads, sent, backlog, inbox>>
  BY <1>2 DEF Answer, Handled, SetEvent
<1>4. Types /\ batch # <<>> /\ c \in Clients /\ peer[c] # "away"
  BY <1>2, <1>3, FirstEvent, CurrentIsMade, ClientsAreFds DEF IInv, Batch, Current
<1>5. Types'
  <2>1. peer' \in [Clients -> {"away", "open", "closed", "reset"}]
    BY <1>3, <1>4 DEF Types
  <2>2. interest' \in [Fds -> SUBSET Bits] /\ ready' \in [Fds -> BOOLEAN]
    BY <1>3, <1>4, ClientsAreFds DEF Types, Bits
  <2>3. QED
    BY <1>3, <1>4, <2>1, <2>2, RestOfBatch DEF Types
<1>6. PeerMoves
  BY <1>3, <1>4 DEF PeerMoves, Types
<1>7. \A d \in Clients : d # c =>
        /\ interest'[d] = interest[d] /\ ready'[d] = ready[d]
        /\ inbox'[d] = inbox[d] /\ peer'[d] = peer[d] /\ reads'[d] = reads[d]
  BY <1>3, <1>4, ClientsAreFds DEF Types
<1>8. Armed(c)'
  BY <1>3, <1>4, ClientsAreFds DEF Armed, Types
<1>9. peer'[c] # "away"
  BY <1>4, <1>6 DEF PeerMoves
<1>10. QED
  BY <1>3, <1>4, <1>2, <1>5, <1>6, <1>7, <1>8, <1>9, HandledStep

\* A request is taken in and not yet answered, or the server stops: the event
\* stays the first of the batch.
LEMMA TakenInStep ==
  ASSUME IInv, batch # <<>>, NEW c \in Clients, c = Current,
         inbox' = [inbox EXCEPT ![c] = <<>>], answering' \in BOOLEAN,
         UNCHANGED <<batch, peer, reads, sent, backlog, interest, ready>>
  PROVE  IInv'
<1> USE DEF IInv
<1>1. Types'
  BY EmptySeq DEF Types
<1>2. Made'
  BY DEF Made
<1>3. batch[1].fd \in Clients
  BY FirstEvent DEF Current
<1>4. Batch'
  BY <1>3 DEF Batch
<1>5. Pending(c)'
  BY FirstEvent DEF Pending, Current
<1>6. ASSUME NEW d \in Clients, interest'[d] # {}, peer'[d] # "reset", d # c
      PROVE  Pending(d)' \/ Armed(d)'
  <2>1. Pending(d) \/ Armed(d)
    BY <1>6 DEF Remembered
  <2>2. inbox'[d] = inbox[d]
    BY <1>6 DEF Types
  <2>3. QED
    BY <2>1, <2>2, PendingStays, ArmedStays
<1>7. QED
  BY <1>1, <1>2, <1>4, <1>5, <1>6 DEF Remembered

LEMMA ReadableStep ==
  ASSUME IInv, Readable
  PROVE  IInv'
<1>1. batch # <<>>
  BY DEF Readable, Handles
<1>2. PICK c \in Fds : c = Current
  BY <1>1, FirstEvent DEF IInv
<1>3. /\ batch # <<>> /\ ~answering /\ c # Listener
      /\ inbox' = [inbox EXCEPT ![c] = <<>>]
      /\ UNCHANGED <<peer, reads, sent, backlog>>
  BY <1>2 DEF Readable, Handles, browser
<1>4. Types /\ c \in Clients /\ peer[c] # "away" /\ answering \in BOOLEAN
  BY <1>2, <1>3, CurrentIsMade DEF IInv, Types
<1>5. \/ ClearEvent(c) /\ batch' = Tail(batch) /\ answering' = answering
      \/ answering' \in {TRUE, answering} /\ UNCHANGED <<batch, interest, ready>>
  BY <1>2 DEF Readable, Handled, epoll
<1>6. CASE ClearEvent(c) /\ batch' = Tail(batch) /\ answering' = answering
  <2>1. /\ interest' = [interest EXCEPT ![c] = {}]
        /\ ready' = [ready EXCEPT ![c] = FALSE]
    BY <1>6 DEF ClearEvent
  <2>2. Types'
    BY <1>3, <1>4, <1>6, <2>1, RestOfBatch, EmptySeq, ClientsAreFds DEF Types
  <2>3. PeerMoves
    BY <1>3 DEF PeerMoves
  <2>4. \A d \in Clients : d # c =>
          /\ interest'[d] = interest[d] /\ ready'[d] = ready[d]
          /\ inbox'[d] = inbox[d] /\ peer'[d] = peer[d] /\ reads'[d] = reads[d]
    BY <1>3, <1>4, <2>1, ClientsAreFds DEF Types
  <2>5. interest'[c] = {}
    BY <1>4, <2>1, ClientsAreFds DEF Types
  <2>6. QED
    BY <1>3, <1>4, <1>2, <1>6, <2>2, <2>3, <2>4, <2>5, HandledStep
<1>7. CASE answering' \in {TRUE, answering} /\ UNCHANGED <<batch, interest, ready>>
  BY <1>3, <1>4, <1>2, <1>7, TakenInStep
<1>8. QED
  BY <1>5, <1>6, <1>7
--------------------------------------------------------------------------------
LEMMA InitIInv == Init => IInv
<1>1. SUFFICES ASSUME Init PROVE IInv
  OBVIOUS
<1>2. PICK first \in FirstFdNum, junk \in JunkBits :
        interest = [fd \in Fds |-> IF fd = Listener /\ first < MaxEventNum
                                     THEN Added(junk) ELSE {}]
  BY <1>1 DEF Init
<1>3. Added(junk) \in SUBSET Bits
  BY EventAssumption DEF Added, Bits
<1>4. interest \in [Fds -> SUBSET Bits] /\ \A c \in Clients : interest[c] = {}
  BY <1>2, <1>3, ClientsAreFds
<1>5. Types
  BY <1>1, <1>4, EmptySeq DEF Init, Types
<1>6. Made /\ Batch /\ Remembered
  BY <1>1, <1>4 DEF Init, Made, Batch, Remembered
<1>7. QED
  BY <1>5, <1>6 DEF IInv

LEMMA Invariance == Spec => []IInv
<1>1. ASSUME IInv, [Next]_vars PROVE IInv'
  <2>1. CASE UNCHANGED vars
    BY <1>1, <2>1
      DEF vars, browser, epoll, IInv, Types, Made, Batch, Remembered, Pending, Armed
  <2>2. CASE \E c \in Clients : Browser(c)
    BY <1>1, <2>2, ConnectStep, SendStep, LeaveStep, StopReadingStep DEF Browser
  <2>3. CASE EventLoop
    BY <1>1, <2>3, PollStep, AcceptStep, ReadableStep, AnswerStep, WritableStep, IoClosedStep
      DEF EventLoop
  <2>4. QED
    BY <1>1, <2>1, <2>2, <2>3 DEF Next
<1>2. QED
  BY InitIInv, <1>1, PTL DEF Spec

\* However browsers connect, send, leave and stop reading while a connection is
\* switched between input and room, and whatever AddEvent or-s into: while the
\* loop waits, epoll has every input on its list (SetEvent, EventLoop).
THEOREM NoInputForgotten == Spec => []NoLostEdge
<1>1. ASSUME IInv PROVE NoLostEdge
  <2>1. SUFFICES ASSUME batch = <<>>, NEW c \in Clients, interest[c] # {}, reads[c],
                        peer[c] # "reset", "in" \in Conditions(c)
                 PROVE  Reported(c)
    BY DEF NoLostEdge
  <2>2. ~Pending(c)
    BY <2>1 DEF Pending
  <2>3. Armed(c)
    BY <1>1, <2>1, <2>2 DEF IInv, Remembered
  <2>4. QED
    BY <1>1, <2>1, <2>3, ArmedIsReported DEF IInv
<1>2. QED
  BY Invariance, <1>1, PTL

--------------------------------------------------------------------------------
(* The loop of the older network library (OldNet), edge triggered as well. It   *)
(* takes an edge with nothing to receive for a disconnection. No edge of an     *)
(* open connection is such: what epoll has reported is still there when its     *)
(* turn comes (StillThere), and what is there then is the start of a packet, as  *)
(* the loop takes whole packets from a connection as long as it keeps it        *)
(* (InStep).                                                                    *)

CONSTANTS Hasty, Word, Body, BufferLength, QueueLimit, MaxPackets

VARIABLES at, received, crowded, queue

Old == INSTANCE OldNet

\* The constants of OldNet; Clients may be any finite set.
OldSizes == /\ IsFiniteSet(Clients) /\ Listener \notin Clients
            /\ {Word, Body, BufferLength} \subseteq Nat \ {0}

\* An event of the batch; what a buffer may hold; where packets start.
OldEvent == [fd : Clients \cup {Listener}, input : BOOLEAN]
Text     == Seq(Int \X Int)
Starts   == {k * (Word + Word + Body) : k \in Nat}

\* The first event of the batch, the one that is handled.
First == Head(batch).fd

\* The units of a packet of c that the loop has taken so far.
Begun(c) == IF at = "length" /\ First = c THEN Word
            ELSE IF at = "body" /\ First = c THEN Word + Word + Len(received)
            ELSE 0

\* The loop has lost its place in the packets of c, or is stuck with one.
Astray(c) == at \in {"cut", "astray", "push"} /\ First = c

\* c is not there yet, waits to be accepted, or is held.
Waits(c)  == \E i \in DOMAIN backlog : backlog[i] = c
Served(c) == (peer[c] = "away" \/ Waits(c) \/ held[c]) /\ ~Astray(c)

\* What has the form it is given.
Shapes ==
  /\ at \in {"wait", "handle", "length", "cut", "body", "astray", "push"}
  /\ at = "wait" <=> batch = <<>>
  /\ batch \in Seq(OldEvent) /\ received \in Text
  /\ \A i, j \in DOMAIN batch : batch[i].fd = batch[j].fd => i = j
  /\ at \notin {"wait", "handle"} => First \in Clients
  /\ at \notin {"body", "astray", "push"} => received = <<>>
  /\ backlog \in Seq(Clients)
  /\ \A i, j \in DOMAIN backlog : backlog[i] = backlog[j] => i = j
  /\ sent \in [Clients -> Nat] /\ inbox \in [Clients -> Text]
  /\ held \in [Clients -> BOOLEAN] /\ peer = [c \in Clients |-> peer[c]]
  /\ interest = [fd \in Clients \cup {Listener} |-> interest[fd]]

\* Where a client is, and who is watched and reported.
Places ==
  /\ \A c \in Clients : Waits(c) => peer[c] # "away" /\ ~held[c]
  /\ \A c \in Clients : held[c] => peer[c] # "away"
  /\ \A c \in Clients : interest[c] # {} => held[c]
  /\ \A i \in DOMAIN batch : batch[i].fd # Listener => held[batch[i].fd]

\* What epoll has reported and the loop has not come to is still there.
StillThere ==
  \A i \in DOMAIN batch :
    /\ batch[i].fd = Listener => backlog # <<>>
    /\ batch[i].fd # Listener /\ batch[i].input /\ (i = 1 => at = "handle")
         => inbox[batch[i].fd] # <<>> \/ peer[batch[i].fd] # "open"

\* Whole packets and the part that has been taken come before what is in the inbox.
InStep(c) ==
  \E o \in Starts :
    /\ sent[c] = o + Begun(c) + Len(inbox[c])
    /\ \A i \in DOMAIN inbox[c] : inbox[c][i] = Old!Unit(o + Begun(c) + i)

DropInv == /\ Shapes /\ Places /\ StillThere
           /\ \A c \in Clients : Served(c) => InStep(c)

\* A number is its quotient times the divisor, and a remainder.
LEMMA Division ==
  ASSUME NEW n \in Nat \ {0}, NEW o \in Int
  PROVE  /\ o = n * (o \div n) + (o % n) /\ o \div n \in Int
         /\ o % n \in Int /\ 0 <= o % n /\ o % n < n
  OBVIOUS

\* A multiple leaves none.
LEMMA Multiple ==
  ASSUME NEW n \in Nat \ {0}, NEW k \in Nat
  PROVE  (k * n) % n = 0
<1>1. PICK o \in Nat : o = k * n
  OBVIOUS
<1>2. PICK q \in Int, r \in Int : o = n * q + r /\ r = o % n /\ 0 <= r /\ r < n
  <2>1. PICK q \in Int : q = o \div n
    BY Division
  <2>2. PICK r \in Int : r = o % n /\ 0 <= r /\ r < n
    BY Division
  <2>3. o = n * q + r
    BY <2>1, <2>2, Division
  <2> QED
    BY <2>2, <2>3
<1>3. PICK d \in Int : d = k - q
  OBVIOUS
<1>4. PICK u \in Int, v \in Int, w \in Int : u = n * d /\ v = n * k /\ w = n * q
  OBVIOUS
<1>5. u = v - w
  <2>1. n * d = n * k - n * q
    BY <1>3
  <2> QED
    BY <1>4, <2>1
<1>6. v = w + r
  <2>1. n * k = k * n
    OBVIOUS
  <2> QED
    BY <1>1, <1>2, <1>4, <2>1
<1>7. u = r
  BY <1>5, <1>6
<1>8. ~(d >= 1)
  <2> SUFFICES ASSUME d >= 1 PROVE n * d >= n
    BY <1>2, <1>4, <1>7
  <2> QED
    OBVIOUS
<1>9. ~(d <= -1)
  <2> SUFFICES ASSUME d <= -1 PROVE n * d <= -n
    BY <1>2, <1>4, <1>7
  <2> QED
    OBVIOUS
<1>10. d = 0
  BY <1>8, <1>9
<1>11. n * d = 0
  BY <1>10
<1> QED
  BY <1>1, <1>2, <1>4, <1>7, <1>11

\* Packets start at multiples of their length, with their first unit.
LEMMA StartsFacts ==
  ASSUME OldSizes
  PROVE  /\ 0 \in Starts /\ Starts \subseteq Nat
         /\ \A o \in Starts : o + (Word + Word + Body) \in Starts /\ Old!Unit(o + 1)[2] = 1
<1>1. PICK n \in Nat \ {0} : n = Word + Word + Body
  BY DEF OldSizes
<1>2. 0 * n = 0
  BY <1>1
<1>3. \A k \in Nat : k * n \in Nat /\ (k + 1) * n = k * n + n
  BY <1>1
<1>4. \A k \in Nat : (k * n) % n = 0
  BY Multiple
<1>5. Starts = {k * n : k \in Nat}
  BY <1>1 DEF Starts
<1>6. ASSUME NEW o \in Starts PROVE o + (Word + Word + Body) \in Starts /\ Old!Unit(o + 1)[2] = 1
  <2>1. PICK k \in Nat : o = k * n
    BY <1>5
  <2>2. o \in Nat /\ o + n = (k + 1) * n /\ k + 1 \in Nat
    BY <1>3, <2>1
  <2>3. o + n \in Starts
    BY <1>5, <2>2
  <2>4. o + (Word + Word + Body) = o + n
    BY <1>1, <2>2 DEF OldSizes
  <2>5. o % n = 0 /\ (o + 1) - 1 = o
    BY <1>4, <2>1, <2>2
  <2>6. Old!Unit(o + 1)[2] = (((o + 1) - 1) % n) + 1
    BY <1>1 DEF Old!Unit, Old!Units
  <2> QED
    BY <2>3, <2>4, <2>5, <2>6
<1> QED
  BY <1>2, <1>3, <1>5, <1>6

\* What is neither sent nor received keeps a client in step.
LEMMA StepStays ==
  ASSUME NEW c \in Clients, InStep(c), sent'[c] = sent[c], inbox'[c] = inbox[c],
         Begun(c)' = Begun(c)
  PROVE  InStep(c)'
  BY DEF InStep

\* The next event (Handled): nothing of a packet has been taken.
LEMMA NextEvent ==
  ASSUME DropInv, at # "wait", Old!Handled
  PROVE  /\ at' \in {"wait", "handle"} /\ (at' = "wait" <=> batch' = <<>>)
         /\ batch' \in Seq(OldEvent) /\ received' = <<>> /\ received' \in Text
         /\ \A i, j \in DOMAIN batch' : batch'[i].fd = batch'[j].fd => i = j
         /\ \A i \in DOMAIN batch' : /\ i + 1 \in DOMAIN batch /\ batch'[i] = batch[i + 1]
                                     /\ i + 1 # 1 /\ batch'[i].fd # First
         /\ \A c : Begun(c)' = 0
<1>1. /\ batch' = Tail(batch) /\ received' = <<>>
      /\ at' = IF Len(batch) = 1 THEN "wait" ELSE "handle"
  BY DEF Old!Handled
<1>2. batch \in Seq(OldEvent) /\ batch # <<>>
  BY DEF DropInv, Shapes
<1>3. Tail(batch) \in Seq(OldEvent) /\ Len(Tail(batch)) = Len(batch) - 1 /\ Len(batch) \in Nat \ {0}
  BY <1>2
<1>4. \A i \in DOMAIN batch' : i + 1 \in DOMAIN batch /\ batch'[i] = batch[i + 1] /\ i + 1 # 1
  BY <1>1, <1>2
<1>5. 1 \in DOMAIN batch /\ First = batch[1].fd
  BY <1>2 DEF First
<1>6. \A i, j \in DOMAIN batch : batch[i].fd = batch[j].fd => i = j
  BY DEF DropInv, Shapes
<1>7. \A i \in DOMAIN batch' : batch'[i].fd # First
  BY <1>4, <1>5, <1>6
<1>8. ASSUME NEW i \in DOMAIN batch', NEW j \in DOMAIN batch', batch'[i].fd = batch'[j].fd
      PROVE  i = j
  <2>1. i + 1 = j + 1
    BY <1>4, <1>6, <1>8
  <2>2. i \in Nat /\ j \in Nat
    BY <1>1, <1>3
  <2> QED
    BY <2>1, <2>2
<1>9. at' = "wait" <=> batch' = <<>>
  BY <1>1, <1>3
<1>10. \A c : Begun(c)' = 0
  BY <1>1 DEF Begun
<1>11. received' \in Text
  BY <1>1 DEF Text
<1> QED
  BY <1>1, <1>3, <1>4, <1>7, <1>8, <1>9, <1>10, <1>11

\* What a step leaves alone keeps its form (all but the batch and the buffer).
LEMMA ShapesStay ==
  ASSUME Shapes, backlog' \in Seq(Clients),
         \A i, j \in DOMAIN backlog' : backlog'[i] = backlog'[j] => i = j,
         sent' \in [Clients -> Nat], inbox' \in [Clients -> Text],
         held' \in [Clients -> BOOLEAN], peer' = [c \in Clients |-> peer'[c]],
         interest' = [fd \in Clients \cup {Listener} |-> interest'[fd]],
         \/ UNCHANGED <<at, batch, received>>
         \/ /\ at' \in {"wait", "handle"} /\ (at' = "wait" <=> batch' = <<>>)
            /\ batch' \in Seq(OldEvent) /\ received' = <<>> /\ received' \in Text
            /\ \A i, j \in DOMAIN batch' : batch'[i].fd = batch'[j].fd => i = j
  PROVE  Shapes'
<1>1. CASE UNCHANGED <<at, batch, received>>
  BY <1>1 DEF Shapes, First
<1> QED
  BY <1>1 DEF Shapes

\* A connection is made (connect).
LEMMA OldConnectKeeps ==
  ASSUME DropInv, NEW c \in Clients, Old!Connect(c) PROVE DropInv'
<1>1. /\ peer[c] = "away" /\ peer' = [peer EXCEPT ![c] = "open"]
      /\ backlog' = Append(backlog, c)
      /\ UNCHANGED <<at, batch, received, sent, held, interest, inbox>>
  BY DEF Old!Connect, Old!loop, Old!context
<1>2. /\ backlog \in Seq(Clients) /\ backlog' \in Seq(Clients)
      /\ Len(backlog') = Len(backlog) + 1 /\ backlog'[Len(backlog) + 1] = c
      /\ \A i \in DOMAIN backlog : i \in DOMAIN backlog' /\ backlog'[i] = backlog[i]
      /\ \A i \in DOMAIN backlog' : i \in DOMAIN backlog \/ i = Len(backlog) + 1
  BY <1>1 DEF DropInv, Shapes
<1>3. peer = [d \in Clients |-> peer[d]]
  BY DEF DropInv, Shapes
<1>4. peer'[c] = "open" /\ \A d \in Clients \ {c} : peer'[d] = peer[d]
  BY <1>1, <1>3
<1>5. ~Waits(c) /\ ~held[c]
  BY <1>1 DEF DropInv, Places
<1>6. \A d \in Clients \ {c} : Waits(d)' <=> Waits(d)
  BY <1>2 DEF Waits
<1>7. Shapes'
  <2>1. \A i, j \in DOMAIN backlog' : backlog'[i] = backlog'[j] => i = j
    BY <1>2, <1>5 DEF DropInv, Shapes, Waits
  <2>2. peer' = [d \in Clients |-> peer'[d]]
    BY <1>1, <1>3
  <2> QED
    BY <1>1, <1>2, <2>1, <2>2, ShapesStay DEF DropInv, Shapes
<1>8. Places'
  <2>1. \A i \in DOMAIN batch' : batch'[i].fd # Listener => held'[batch'[i].fd]
    BY <1>1 DEF DropInv, Places
  <2>2. ASSUME NEW d \in Clients
        PROVE  /\ Waits(d)' => peer'[d] # "away" /\ ~held'[d]
               /\ held'[d] => peer'[d] # "away"
               /\ interest'[d] # {} => held'[d]
    BY <1>1, <1>4, <1>5, <1>6 DEF DropInv, Places
  <2> QED
    BY <2>1, <2>2 DEF Places
<1>9. StillThere'
  <2>1. ASSUME NEW i \in DOMAIN batch, batch[i].fd # Listener PROVE batch[i].fd \in Clients \ {c}
    <3>1. batch[i] \in OldEvent
      BY DEF DropInv, Shapes
    <3> QED
      BY <1>5, <2>1, <3>1 DEF DropInv, Places, OldEvent
  <2>2. backlog' # <<>>
    BY <1>2
  <2> QED
    BY <1>1, <1>4, <2>1, <2>2 DEF DropInv, StillThere
<1>10. ASSUME NEW d \in Clients, Served(d)' PROVE InStep(d)'
  <2>1. Served(d)
    BY <1>1, <1>4, <1>6, <1>10 DEF Served, Astray, First
  <2>2. Begun(d)' = Begun(d)
    BY <1>1 DEF Begun, First
  <2> QED
    BY <1>1, <2>1, <2>2, StepStays DEF DropInv
<1> QED
  BY <1>7, <1>8, <1>9, <1>10 DEF DropInv

\* A client closes its end.
LEMMA OldCloseKeeps ==
  ASSUME DropInv, NEW c \in Clients, Old!Close(c) PROVE DropInv'
<1>1. /\ peer[c] = "open" /\ peer' = [peer EXCEPT ![c] = "closed"]
      /\ UNCHANGED <<at, batch, received, sent, backlog, held, interest, inbox>>
  BY DEF Old!Close, Old!loop, Old!context, Old!accepts
<1>2. peer = [d \in Clients |-> peer[d]]
  BY DEF DropInv, Shapes
<1>3. peer'[c] = "closed" /\ \A d \in Clients \ {c} : peer'[d] = peer[d]
  BY <1>1, <1>2
<1>4. \A d : Waits(d)' <=> Waits(d)
  BY <1>1 DEF Waits
<1>5. Shapes'
  <2>1. peer' = [d \in Clients |-> peer'[d]]
    BY <1>1, <1>2
  <2> QED
    BY <1>1, <2>1, ShapesStay DEF DropInv, Shapes
<1>6. Places'
  BY <1>1, <1>3, <1>4 DEF DropInv, Places
<1>7. StillThere'
  <2>1. ASSUME NEW i \in DOMAIN batch, batch[i].fd # Listener PROVE batch[i].fd \in Clients
    <3>1. batch[i] \in OldEvent
      BY DEF DropInv, Shapes
    <3> QED
      BY <2>1, <3>1 DEF OldEvent
  <2> QED
    BY <1>1, <1>3, <2>1 DEF DropInv, StillThere
<1>8. ASSUME NEW d \in Clients, Served(d)' PROVE InStep(d)'
  <2>1. Served(d)
    BY <1>1, <1>3, <1>4, <1>8 DEF Served, Astray, First
  <2>2. Begun(d)' = Begun(d)
    BY <1>1 DEF Begun, First
  <2> QED
    BY <1>1, <2>1, <2>2, StepStays DEF DropInv
<1> QED
  BY <1>5, <1>6, <1>7, <1>8 DEF DropInv

\* A client sends units that follow those it has sent.
LEMMA OldSendKeeps ==
  ASSUME OldSizes, DropInv, NEW c \in Clients, Old!Send(c) PROVE DropInv'
<1>1. PICK n \in 1 .. Old!Units - (sent[c] % Old!Units) :
        /\ inbox' = [inbox EXCEPT ![c] = @ \o [i \in 1 .. n |-> Old!Unit(sent[c] + i)]]
        /\ sent' = [sent EXCEPT ![c] = @ + n]
  BY DEF Old!Send
<1>2. UNCHANGED <<at, batch, received, peer, backlog, held, interest>>
  BY DEF Old!Send, Old!loop, Old!context, Old!accepts
<1>3. /\ n \in Nat /\ sent \in [Clients -> Nat] /\ inbox \in [Clients -> Text]
      /\ sent[c] \in Nat /\ inbox[c] \in Text
  BY <1>1 DEF DropInv, Shapes
<1> DEFINE more == [i \in 1 .. n |-> Old!Unit(sent[c] + i)]
<1>4. more \in Text
  <2>1. \A i \in 1 .. n : Old!Unit(sent[c] + i) \in Int \X Int
    BY <1>3 DEF Old!Unit, Old!Units, OldSizes
  <2> QED
    BY <1>3, <2>1 DEF Text
<1>5. Len(more) = n /\ \A i \in 1 .. n : more[i] = Old!Unit(sent[c] + i)
  BY <1>3
<1> HIDE DEF more
<1>6. /\ inbox[c] \o more \in Text /\ Len(inbox[c] \o more) = Len(inbox[c]) + n
      /\ DOMAIN (inbox[c] \o more) = 1 .. Len(inbox[c]) + n
      /\ \A i \in 1 .. Len(inbox[c]) : (inbox[c] \o more)[i] = inbox[c][i]
      /\ \A i \in Len(inbox[c]) + 1 .. Len(inbox[c]) + n :
           (inbox[c] \o more)[i] = more[i - Len(inbox[c])]
  BY <1>3, <1>4, <1>5 DEF Text
<1>7. /\ inbox'[c] = inbox[c] \o more /\ sent'[c] = sent[c] + n
      /\ \A d \in Clients \ {c} : inbox'[d] = inbox[d] /\ sent'[d] = sent[d]
      /\ inbox' \in [Clients -> Text] /\ sent' \in [Clients -> Nat]
  BY <1>1, <1>3, <1>6 DEF more
<1>8. \A d : (Waits(d)' <=> Waits(d)) /\ Begun(d)' = Begun(d)
  BY <1>2 DEF Waits, Begun, First
<1>9. Shapes'
  BY <1>2, <1>7, ShapesStay DEF DropInv, Shapes
<1>10. Places'
  BY <1>2, <1>8 DEF DropInv, Places
<1>11. StillThere'
  <2>1. ASSUME NEW i \in DOMAIN batch, batch[i].fd # Listener PROVE batch[i].fd \in Clients
    <3>1. batch[i] \in OldEvent
      BY DEF DropInv, Shapes
    <3> QED
      BY <2>1, <3>1 DEF OldEvent
  <2>2. \A d \in Clients : inbox[d] # <<>> => inbox'[d] # <<>>
    BY <1>3, <1>6, <1>7 DEF Text
  <2> QED
    BY <1>2, <2>1, <2>2 DEF DropInv, StillThere
<1>12. ASSUME NEW d \in Clients, Served(d)' PROVE InStep(d)'
  <2>1. InStep(d)
    BY <1>2, <1>8, <1>12 DEF Served, Astray, First, DropInv
  <2>2. CASE d # c
    BY <1>7, <1>8, <2>1, <2>2, StepStays
  <2>3. CASE d = c
    <3>1. PICK o \in Starts :
            /\ sent[c] = o + Begun(c) + Len(inbox[c])
            /\ \A i \in DOMAIN inbox[c] : inbox[c][i] = Old!Unit(o + Begun(c) + i)
      BY <2>1, <2>3 DEF InStep
    <3>2. o \in Nat /\ Begun(c) \in Nat /\ Len(inbox[c]) \in Nat
      BY <1>3, StartsFacts DEF DropInv, Shapes, Begun, Text, OldSizes
    <3>3. sent'[c] = o + Begun(c)' + Len(inbox'[c])
      BY <1>3, <1>6, <1>7, <1>8, <3>1, <3>2
    <3>4. ASSUME NEW i \in DOMAIN inbox'[c] PROVE inbox'[c][i] = Old!Unit(o + Begun(c)' + i)
      <4>1. CASE i <= Len(inbox[c])
        <5>1. i \in 1 .. Len(inbox[c]) /\ i \in DOMAIN inbox[c]
          BY <1>3, <1>6, <1>7, <3>2, <4>1 DEF Text
        <5> QED
          BY <1>6, <1>7, <1>8, <3>1, <5>1
      <4>2. CASE i > Len(inbox[c])
        <5>1. PICK m \in 1 .. n : m = i - Len(inbox[c])
          BY <1>3, <1>6, <1>7, <3>2, <4>2
        <5>2. inbox'[c][i] = more[m] /\ i \in Nat
          BY <1>3, <1>6, <1>7, <3>2, <4>2, <5>1
        <5>3. sent[c] + m = o + Begun(c) + i
          BY <3>1, <3>2, <5>1, <5>2
        <5> QED
          BY <1>5, <1>8, <5>2, <5>3
      <4> QED
        BY <1>6, <1>7, <3>2, <4>1, <4>2
    <3> QED
      BY <2>3, <3>3, <3>4 DEF InStep
  <2> QED
    BY <2>2, <2>3
<1> QED
  BY <1>9, <1>10, <1>11, <1>12 DEF DropInv

\* The loop goes on to the next event, after it has let go of what one is about.
LEMMA OldHandledKeeps ==
  ASSUME OldSizes, DropInv, at # "wait", Old!Handled,
         UNCHANGED <<sent, inbox>>, peer' = [c \in Clients |-> peer'[c]],
         \A c \in Clients : \/ peer'[c] = peer[c]
                            \/ peer[c] \notin {"away", "open"} /\ peer'[c] = "reset",
         backlog' = backlog \/ (First = Listener /\ backlog' \in Seq(Clients)),
         \A i, j \in DOMAIN backlog' : backlog'[i] = backlog'[j] => i = j,
         held' \in [Clients -> BOOLEAN],
         interest' = [fd \in Clients \cup {Listener} |-> interest'[fd]],
         \A c \in Clients : Waits(c)' => peer'[c] # "away" /\ ~held'[c],
         \A c \in Clients : held'[c] => peer'[c] # "away",
         \A c \in Clients : interest'[c] # {} => held'[c],
         \A c \in Clients \ {First} : held[c] => held'[c],
         \A c \in Clients : Served(c)' => Served(c) /\ Begun(c) \in {0, Word + Word + Body}
  PROVE  DropInv'
<1>1. backlog' \in Seq(Clients) /\ Shapes
  BY DEF DropInv, Shapes
<1>2. Shapes'
  BY <1>1, NextEvent, ShapesStay DEF Shapes
<1>3. ASSUME NEW i \in DOMAIN batch'
      PROVE  /\ i + 1 \in DOMAIN batch /\ batch'[i] = batch[i + 1] /\ i + 1 # 1
             /\ batch'[i].fd # First
             /\ batch'[i].fd # Listener => batch'[i].fd \in Clients
  <2>1. batch[i + 1] \in OldEvent
    BY <1>1, NextEvent DEF Shapes
  <2> QED
    BY <2>1, NextEvent DEF OldEvent
<1>4. Places'
  <2>1. ASSUME NEW i \in DOMAIN batch', batch'[i].fd # Listener PROVE held'[batch'[i].fd]
    BY <1>3, <2>1 DEF DropInv, Places
  <2> QED
    BY <2>1 DEF Places
<1>5. StillThere'
  <2>1. ASSUME NEW i \in DOMAIN batch', batch'[i].fd = Listener PROVE backlog' # <<>>
    BY <1>3, <2>1 DEF DropInv, StillThere
  <2>2. ASSUME NEW i \in DOMAIN batch', batch'[i].fd # Listener, batch'[i].input
        PROVE  inbox'[batch'[i].fd] # <<>> \/ peer'[batch'[i].fd] # "open"
    <3>1. PICK j \in DOMAIN batch : j = i + 1 /\ j # 1 /\ batch'[i] = batch[j]
      BY <1>3
    <3>2. inbox[batch'[i].fd] # <<>> \/ peer[batch'[i].fd] # "open"
      BY <2>2, <3>1 DEF DropInv, StillThere
    <3> QED
      BY <1>3, <2>2, <3>2
  <2> QED
    BY <2>1, <2>2 DEF StillThere
<1>6. ASSUME NEW c \in Clients, Served(c)' PROVE InStep(c)'
  <2>1. InStep(c) /\ Begun(c) \in {0, Word + Word + Body} /\ Begun(c)' = 0
    BY <1>6, NextEvent DEF DropInv
  <2>2. CASE Begun(c) = 0
    BY <2>1, <2>2, StepStays
  <2>3. CASE Begun(c) = Word + Word + Body
    <3>1. PICK o \in Starts :
            /\ sent[c] = o + (Word + Word + Body) + Len(inbox[c])
            /\ \A i \in DOMAIN inbox[c] : inbox[c][i] = Old!Unit(o + (Word + Word + Body) + i)
      BY <2>1, <2>3 DEF InStep
    <3>2. PICK p \in Starts : p = o + (Word + Word + Body) /\ p + 0 = p
      <4>1. o \in Nat /\ o + (Word + Word + Body) \in Starts
        BY StartsFacts
      <4>2. PICK p \in Nat : p = o + (Word + Word + Body)
        BY <4>1 DEF OldSizes
      <4> QED
        BY <4>1, <4>2
    <3>3. sent'[c] = p + Begun(c)' + Len(inbox'[c])
      BY <2>1, <3>1, <3>2
    <3>4. \A i \in DOMAIN inbox'[c] : inbox'[c][i] = Old!Unit(p + Begun(c)' + i)
      BY <2>1, <3>1, <3>2
    <3> QED
      BY <3>3, <3>4 DEF InStep
  <2> QED
    BY <2>1, <2>2, <2>3
<1> QED
  BY <1>2, <1>4, <1>5, <1>6 DEF DropInv

\* The event that is handled: whose it is.
LEMMA EventFacts ==
  ASSUME DropInv, at # "wait"
  PROVE  /\ 1 \in DOMAIN batch /\ First = batch[1].fd /\ Head(batch) = batch[1]
         /\ First \in Clients \cup {Listener}
         /\ First # Listener => \E c \in Clients : /\ c = First /\ held[c] /\ ~Waits(c)
                                                   /\ peer[c] # "away"
<1>1. batch \in Seq(OldEvent) /\ batch # <<>>
  BY DEF DropInv, Shapes
<1>2. 1 \in DOMAIN batch /\ First = batch[1].fd /\ Head(batch) = batch[1] /\ batch[1] \in OldEvent
  BY <1>1 DEF First
<1>3. First \in Clients \cup {Listener}
  BY <1>2 DEF OldEvent
<1>4. ASSUME First # Listener
      PROVE  \E c \in Clients : c = First /\ held[c] /\ ~Waits(c) /\ peer[c] # "away"
  <2>1. PICK c \in Clients : c = First
    BY <1>3, <1>4
  <2>2. held[c]
    BY <1>2, <1>4, <2>1 DEF DropInv, Places
  <2> QED
    BY <2>1, <2>2 DEF DropInv, Places
<1>5. First # Listener => \E c \in Clients : c = First /\ held[c] /\ ~Waits(c) /\ peer[c] # "away"
  BY <1>4
<1>6. 1 \in DOMAIN batch /\ First = batch[1].fd /\ Head(batch) = batch[1]
  BY <1>2
<1>7. /\ First \in Clients \cup {Listener}
      /\ First # Listener => \E c \in Clients : c = First /\ held[c] /\ ~Waits(c) /\ peer[c] # "away"
  BY <1>3, <1>5
<1>8. /\ 1 \in DOMAIN batch /\ First = batch[1].fd /\ Head(batch) = batch[1]
      /\ First \in Clients \cup {Listener}
  BY <1>3, <1>6
<1> QED
  BY <1>7, <1>8

\* A connection is accepted (ListenSocketContext::HandleInput).
LEMMA OldAcceptKeeps ==
  ASSUME OldSizes, DropInv, Old!Accept PROVE DropInv'
<1>1. /\ at = "handle" /\ First = Listener /\ backlog' = Tail(backlog) /\ Old!Handled
      /\ held' = [held EXCEPT ![Head(backlog)] = TRUE]
      /\ interest' = [interest EXCEPT ![Head(backlog)] = {"in"}]
      /\ UNCHANGED <<sent, peer, inbox>>
  BY DEF Old!Accept, Old!Current, First, Old!client
<1>2. backlog # <<>>
  BY <1>1, EventFacts DEF DropInv, StillThere
<1>3. PICK c \in Clients : c = Head(backlog) /\ c = backlog[1] /\ 1 \in DOMAIN backlog
  BY <1>2 DEF DropInv, Shapes
<1>4. /\ backlog' \in Seq(Clients)
      /\ \A i \in DOMAIN backlog' : /\ i + 1 \in DOMAIN backlog /\ i + 1 # 1 /\ i \in Int
                                    /\ backlog'[i] = backlog[i + 1]
  BY <1>1, <1>2 DEF DropInv, Shapes
<1>5. \A i, j \in DOMAIN backlog : backlog[i] = backlog[j] => i = j
  BY DEF DropInv, Shapes
<1>6. ASSUME NEW i \in DOMAIN backlog', NEW j \in DOMAIN backlog', backlog'[i] = backlog'[j]
      PROVE  i = j
  <2>1. i + 1 = j + 1
    BY <1>4, <1>5, <1>6
  <2> QED
    BY <1>4, <2>1
<1>7. ~Waits(c)'
  BY <1>3, <1>4, <1>5 DEF Waits
<1>8. \A d : Waits(d)' => Waits(d)
  BY <1>4 DEF Waits
<1>9. Waits(c)
  BY <1>3 DEF Waits
<1>10. /\ held' \in [Clients -> BOOLEAN] /\ held'[c] = TRUE
       /\ \A d \in Clients \ {c} : held'[d] = held[d] /\ interest'[d] = interest[d]
       /\ interest' = [fd \in Clients \cup {Listener} |-> interest'[fd]]
  BY <1>1, <1>3 DEF DropInv, Shapes
<1>11. ASSUME NEW d \in Clients
       PROVE  /\ Waits(d)' => peer'[d] # "away" /\ ~held'[d]
              /\ held'[d] => peer'[d] # "away"
              /\ interest'[d] # {} => held'[d]
              /\ held[d] => held'[d]
              /\ Served(d)' => Served(d)
  BY <1>1, <1>7, <1>8, <1>9, <1>10 DEF DropInv, Places, Served, Astray, First
<1>12. \A d : Begun(d) = 0
  BY <1>1 DEF Begun
<1>13. peer' = [d \in Clients |-> peer'[d]]
  BY <1>1 DEF DropInv, Shapes
<1> QED
  BY <1>1, <1>4, <1>6, <1>10, <1>11, <1>12, <1>13, OldHandledKeeps

\* A connection is dropped (HandleInput returned something negative).
LEMMA OldDeleteKeeps ==
  ASSUME OldSizes, DropInv, at # "wait", First # Listener, Old!Delete(First),
         UNCHANGED <<sent, peer, inbox, backlog>>
  PROVE  DropInv'
<1>1. PICK c \in Clients : c = First /\ held[c] /\ ~Waits(c) /\ peer[c] # "away"
  BY EventFacts
<1>2. /\ held' = [held EXCEPT ![c] = FALSE] /\ interest' = [interest EXCEPT ![c] = {}]
      /\ Old!Handled
  BY <1>1 DEF Old!Delete
<1>3. /\ held' \in [Clients -> BOOLEAN] /\ held'[c] = FALSE /\ interest'[c] = {}
      /\ \A d \in Clients \ {c} : held'[d] = held[d] /\ interest'[d] = interest[d]
      /\ interest' = [fd \in Clients \cup {Listener} |-> interest'[fd]]
  BY <1>2 DEF DropInv, Shapes
<1>4. \A d : Waits(d)' <=> Waits(d)
  BY DEF Waits
<1>5. ASSUME NEW d \in Clients
      PROVE  /\ Waits(d)' => peer'[d] # "away" /\ ~held'[d]
             /\ held'[d] => peer'[d] # "away"
             /\ interest'[d] # {} => held'[d]
             /\ d # First => (held[d] => held'[d])
             /\ Served(d)' => Served(d) /\ d # c
  BY <1>1, <1>3, <1>4 DEF DropInv, Places, Served, Astray, First
<1>6. \A d : d # c => Begun(d) = 0
  BY <1>1 DEF Begun
<1>7. peer' = [d \in Clients |-> peer'[d]]
  BY DEF DropInv, Shapes
<1>8. \A i, j \in DOMAIN backlog' : backlog'[i] = backlog'[j] => i = j
  BY DEF DropInv, Shapes
<1> QED
  BY <1>2, <1>3, <1>5, <1>6, <1>7, <1>8, OldHandledKeeps

\* A packet is complete and queued to be sent back (OnReceived).
LEMMA OldQueuedKeeps ==
  ASSUME OldSizes, DropInv, Old!OnReceived, Old!Handled,
         interest' = [interest EXCEPT ![First] = {"in", "out"}]
  PROVE  DropInv'
<1>1. /\ at = "body" /\ Len(received) = Body /\ Old!Handled
      /\ UNCHANGED <<sent, peer, inbox, backlog, held>>
      /\ interest' = [interest EXCEPT ![First] = {"in", "out"}]
  BY DEF Old!OnReceived, Old!Complete, Old!client, Old!accepts
<1>2. PICK c \in Clients : c = First
  BY <1>1 DEF DropInv, Shapes
<1>3. held[c]
  BY <1>1, <1>2, EventFacts DEF OldSizes
<1>4. /\ \A d \in Clients \ {c} : interest'[d] = interest[d]
      /\ interest' = [fd \in Clients \cup {Listener} |-> interest'[fd]]
  BY <1>1, <1>2 DEF DropInv, Shapes
<1>5. \A d : Waits(d)' <=> Waits(d)
  BY <1>1 DEF Waits
<1>6. ASSUME NEW d \in Clients
      PROVE  /\ Waits(d)' => peer'[d] # "away" /\ ~held'[d]
             /\ held'[d] => peer'[d] # "away"
             /\ interest'[d] # {} => held'[d]
             /\ held[d] => held'[d]
             /\ Served(d)' => Served(d)
  BY <1>1, <1>3, <1>4, <1>5 DEF DropInv, Places, Served, Astray, First
<1>7. \A d : Begun(d) \in {0, Word + Word + Body}
  BY <1>1 DEF Begun, OldSizes
<1>8. /\ peer' = [d \in Clients |-> peer'[d]]
      /\ \A i, j \in DOMAIN backlog' : backlog'[i] = backlog'[j] => i = j
      /\ held' \in [Clients -> BOOLEAN]
  BY <1>1 DEF DropInv, Shapes
<1> QED
  BY <1>1, <1>4, <1>6, <1>7, <1>8, OldHandledKeeps

\* It is, or there is no room in the queue (OnReceived).
LEMMA OldReceivedKeeps ==
  ASSUME OldSizes, DropInv, Old!OnReceived PROVE DropInv'
<1>1. /\ at = "body" /\ UNCHANGED <<sent, peer, inbox, backlog, held>>
      /\ \/ Old!Handled /\ interest' = [interest EXCEPT ![First] = {"in", "out"}]
         \/ at' = "push" /\ UNCHANGED <<batch, received, interest>>
  BY DEF Old!OnReceived, Old!Complete, Old!client, Old!accepts, Old!Current, First
<1>2. CASE Old!Handled /\ interest' = [interest EXCEPT ![First] = {"in", "out"}]
  BY <1>2, OldQueuedKeeps
<1>3. CASE at' = "push" /\ UNCHANGED <<batch, received, interest>>
  <2>1. Shapes' /\ Places' /\ StillThere'
    BY <1>1, <1>3 DEF DropInv, Shapes, Places, StillThere, Waits, First
  <2>2. ASSUME NEW d \in Clients, Served(d)' PROVE InStep(d)'
    <3>1. Served(d) /\ d # First
      BY <1>1, <1>3, <2>2 DEF Served, Astray, Waits, First
    <3>2. Begun(d)' = Begun(d)
      BY <1>1, <1>3, <3>1 DEF Begun, First
    <3> QED
      BY <1>1, <3>1, <3>2, StepStays DEF DropInv
  <2> QED
    BY <2>1, <2>2 DEF DropInv
<1> QED
  BY <1>1, <1>2, <1>3

\* A packet is sent, or there is none (HandleOutput).
LEMMA OldOutputKeeps ==
  ASSUME OldSizes, DropInv, Old!HandleOutput PROVE DropInv'
<1>1. /\ at = "handle" /\ First # Listener /\ Old!Handled
      /\ UNCHANGED <<sent, inbox, backlog, held, interest>>
      /\ \/ peer' = peer
         \/ peer[First] # "open" /\ peer' = [peer EXCEPT ![First] = "reset"]
  BY DEF Old!HandleOutput, Old!client, Old!accepts, Old!Current, First
<1>2. PICK c \in Clients : c = First /\ held[c] /\ peer[c] # "away"
  BY <1>1, EventFacts
<1>3. peer = [d \in Clients |-> peer[d]]
  BY DEF DropInv, Shapes
<1>4. /\ \A d \in Clients : \/ peer'[d] = peer[d]
                            \/ peer[d] \notin {"away", "open"} /\ peer'[d] = "reset"
      /\ peer' = [d \in Clients |-> peer'[d]]
  <2>1. CASE peer' = peer
    <3>1. peer' = [d \in Clients |-> peer'[d]]
      BY <1>3, <2>1
    <3> QED
      BY <2>1, <3>1
  <2>2. CASE peer[c] # "open" /\ peer' = [peer EXCEPT ![c] = "reset"]
    <3>1. peer'[c] = "reset" /\ \A d \in Clients \ {c} : peer'[d] = peer[d]
      BY <1>3, <2>2
    <3>2. peer' = [d \in Clients |-> peer'[d]]
      BY <1>3, <2>2
    <3>3. \A d \in Clients : \/ peer'[d] = peer[d]
                             \/ peer[d] \notin {"away", "open"} /\ peer'[d] = "reset"
      BY <1>2, <2>2, <3>1
    <3> QED
      BY <3>2, <3>3
  <2> QED
    BY <1>1, <1>2, <2>1, <2>2
<1>5. \A d : Waits(d)' <=> Waits(d)
  BY <1>1 DEF Waits
<1>6. ASSUME NEW d \in Clients
      PROVE  /\ Waits(d)' => peer'[d] # "away" /\ ~held'[d]
             /\ held'[d] => peer'[d] # "away"
             /\ interest'[d] # {} => held'[d]
             /\ held[d] => held'[d]
             /\ Served(d)' => Served(d)
  BY <1>1, <1>4, <1>5 DEF DropInv, Places, Served, Astray, First
<1>7. \A d : Begun(d) = 0
  BY <1>1 DEF Begun
<1>8. /\ interest' = [fd \in Clients \cup {Listener} |-> interest'[fd]]
      /\ \A i, j \in DOMAIN backlog' : backlog'[i] = backlog'[j] => i = j
      /\ held' \in [Clients -> BOOLEAN]
  BY <1>1 DEF DropInv, Shapes
<1> QED
  BY <1>1, <1>4, <1>6, <1>7, <1>8, OldHandledKeeps

\* The two pieces of a text.
LEMMA OldPieces ==
  ASSUME NEW T, NEW s \in Seq(T), NEW n \in Nat, n <= Len(s)
  PROVE  /\ SubSeq(s, 1, n) \in Seq(T) /\ Len(SubSeq(s, 1, n)) = n
         /\ SubSeq(s, n + 1, Len(s)) \in Seq(T)
         /\ Len(SubSeq(s, n + 1, Len(s))) = Len(s) - n
         /\ \A i \in DOMAIN SubSeq(s, n + 1, Len(s)) :
              /\ i \in Nat /\ n + i \in DOMAIN s
              /\ SubSeq(s, n + 1, Len(s))[i] = s[n + i]
<1>1. Len(s) \in Nat /\ DOMAIN s = 1 .. Len(s) /\ \A i \in 1 .. Len(s) : s[i] \in T
  OBVIOUS
<1>2. \A m \in 1 .. Len(s) + 1 : \A l \in m - 1 .. Len(s) :
        /\ SubSeq(s, m, l) \in Seq(T) /\ Len(SubSeq(s, m, l)) = l - m + 1
        /\ \A i \in 1 .. l - m + 1 : SubSeq(s, m, l)[i] = s[m + i - 1]
  BY SubSeqProperties
<1>3. n + 1 \in 1 .. Len(s) + 1 /\ Len(s) \in (n + 1) - 1 .. Len(s)
  BY <1>1
<1>4. 1 \in 1 .. Len(s) + 1 /\ n \in 1 - 1 .. Len(s)
  BY <1>1
<1>5. PICK more : more = SubSeq(s, n + 1, Len(s))
  OBVIOUS
<1>6. /\ more \in Seq(T) /\ Len(more) = Len(s) - (n + 1) + 1
      /\ \A i \in 1 .. Len(s) - (n + 1) + 1 : more[i] = s[(n + 1) + i - 1]
  BY <1>2, <1>3, <1>5
<1>7. Len(more) = Len(s) - n /\ DOMAIN more = 1 .. Len(s) - n
  BY <1>1, <1>6
<1>8. ASSUME NEW i \in DOMAIN more PROVE i \in Nat /\ n + i \in DOMAIN s /\ more[i] = s[n + i]
  <2>1. i \in Nat /\ i \in 1 .. Len(s) - (n + 1) + 1 /\ n + i \in 1 .. Len(s)
    BY <1>1, <1>7
  <2>2. (n + 1) + i - 1 = n + i
    BY <2>1
  <2> QED
    BY <1>1, <1>6, <2>1, <2>2
<1>9. SubSeq(s, 1, n) \in Seq(T) /\ Len(SubSeq(s, 1, n)) = n
  <2>1. SubSeq(s, 1, n) \in Seq(T) /\ Len(SubSeq(s, 1, n)) = n - 1 + 1
    BY <1>2, <1>4
  <2> QED
    BY <2>1
<1> QED
  BY <1>5, <1>6, <1>7, <1>8, <1>9

\* The loop takes the first units of what its client has sent.
LEMMA OldTakeKeeps ==
  ASSUME OldSizes, DropInv, at # "wait", First # Listener,
         NEW n \in Nat, n <= Len(inbox[First]),
         inbox' = [inbox EXCEPT ![First] = SubSeq(@, n + 1, Len(@))],
         at' \in {"length", "cut", "body", "astray"}, received' \in Text,
         at' \in {"length", "cut"} => received' = <<>>,
         at' \in {"length", "body"} => /\ at \in {"handle", "length", "body"}
                                      /\ Begun(First)' = Begun(First) + n,
         UNCHANGED <<batch, backlog, peer, sent, held, interest>>
  PROVE  DropInv'
<1>1. PICK c \in Clients : c = First
  BY EventFacts
<1>2. /\ inbox[c] \in Text /\ Len(inbox[c]) \in Nat /\ sent[c] \in Nat /\ n <= Len(inbox[c])
      /\ inbox' = [inbox EXCEPT ![c] = SubSeq(@, n + 1, Len(@))] /\ received \in Text
  BY <1>1 DEF DropInv, Shapes, Text
<1>3. PICK text \in Text : text = SubSeq(inbox[c], n + 1, Len(inbox[c]))
  BY <1>2, OldPieces DEF Text
<1>4. /\ Len(text) = Len(inbox[c]) - n
      /\ \A i \in DOMAIN text : i \in Nat /\ text[i] = inbox[c][n + i] /\ n + i \in DOMAIN inbox[c]
  <2>1. PICK T, all : all = inbox[c] /\ all \in Seq(T) /\ n <= Len(all)
    BY <1>2 DEF Text
  <2>2. /\ Len(text) = Len(all) - n
        /\ \A i \in DOMAIN text : i \in Nat /\ n + i \in DOMAIN all /\ text[i] = all[n + i]
    BY <1>3, <2>1, OldPieces
  <2> QED
    BY <2>1, <2>2
<1>5. /\ inbox'[c] = text /\ inbox' \in [Clients -> Text]
      /\ \A d \in Clients \ {c} : inbox'[d] = inbox[d]
  <2>1. inbox \in [Clients -> Text] /\ inbox' = [inbox EXCEPT ![c] = text]
    BY <1>2, <1>3 DEF DropInv, Shapes
  <2> QED
    BY <2>1
<1>6. First' = c
  BY <1>1 DEF First
<1>7. \A d \in Clients \ {c} : Begun(d)' = 0 /\ Begun(d) = 0
  BY <1>1, <1>6 DEF Begun
<1>8. \A d : Waits(d)' <=> Waits(d)
  BY DEF Waits
<1>9. Shapes'
  BY <1>5, <1>6 DEF DropInv, Shapes
<1>10. Places'
  BY <1>8 DEF DropInv, Places
<1>11. StillThere'
  <2>1. ASSUME NEW i \in DOMAIN batch, batch[i].fd # Listener, i # 1
        PROVE  batch[i].fd \in Clients \ {c}
    <3>1. batch[i] \in OldEvent /\ \A j, k \in DOMAIN batch : batch[j].fd = batch[k].fd => j = k
      BY DEF DropInv, Shapes
    <3>2. batch[i].fd # c
      BY <1>1, <2>1, <3>1, EventFacts
    <3> QED
      BY <2>1, <3>1, <3>2 DEF OldEvent
  <2>2. \A i \in DOMAIN batch : batch[i].fd = Listener => backlog # <<>>
    BY DEF DropInv, StillThere
  <2>3. ASSUME NEW i \in DOMAIN batch, batch[i].fd # Listener, batch[i].input, i # 1
        PROVE  inbox'[batch[i].fd] # <<>> \/ peer[batch[i].fd] # "open"
    <3>1. PICK d \in Clients \ {c} : d = batch[i].fd
      BY <2>1, <2>3
    <3>2. inbox[d] # <<>> \/ peer[d] # "open"
      BY <2>3, <3>1 DEF DropInv, StillThere
    <3> QED
      BY <1>5, <3>1, <3>2
  <2> QED
    BY <2>2, <2>3 DEF StillThere
<1>12. ASSUME NEW d \in Clients, Served(d)' PROVE InStep(d)'
  <2>1. InStep(d)
    BY <1>8, <1>12 DEF Served, Astray, First, DropInv
  <2>2. CASE d # c
    BY <1>5, <1>7, <2>1, <2>2, StepStays
  <2>3. CASE d = c
    <3>1. PICK o \in Starts :
            /\ sent[c] = o + Begun(c) + Len(inbox[c])
            /\ \A i \in DOMAIN inbox[c] : inbox[c][i] = Old!Unit(o + Begun(c) + i)
      BY <2>1, <2>3 DEF InStep
    <3>2. o \in Nat /\ Begun(c) \in Nat
      <4>1. o \in Nat
        BY StartsFacts
      <4>2. Len(received) \in Nat /\ Word \in Nat
        BY <1>2 DEF Text, OldSizes
      <4> QED
        BY <4>1, <4>2 DEF Begun
    <3>3. Begun(c)' = Begun(c) + n
      <4>1. at' \in {"length", "body"}
        BY <1>1, <1>6, <1>12, <2>3 DEF Served, Astray
      <4> QED
        BY <1>1, <1>6, <4>1 DEF Begun
    <3>4. sent'[c] = o + Begun(c)' + Len(inbox'[c])
      <4>1. sent'[c] = sent[c] /\ Len(inbox'[c]) = Len(inbox[c]) - n
        BY <1>4, <1>5
      <4>2. PICK b \in Nat, m \in Nat : b = Begun(c) /\ m = Len(inbox[c])
        BY <1>2, <3>2
      <4>3. sent'[c] = o + b + m /\ Begun(c)' = b + n /\ Len(inbox'[c]) = m - n
        BY <3>1, <3>3, <4>1, <4>2
      <4>4. o + b + m = o + (b + n) + (m - n)
        BY <3>2
      <4> QED
        BY <4>3, <4>4
    <3>5. ASSUME NEW i \in DOMAIN inbox'[c] PROVE inbox'[c][i] = Old!Unit(o + Begun(c)' + i)
      <4>1. inbox'[c][i] = inbox[c][n + i] /\ n + i \in DOMAIN inbox[c] /\ i \in Nat
        BY <1>4, <1>5
      <4>2. o + Begun(c)' + i = o + Begun(c) + (n + i)
        BY <3>2, <3>3, <4>1
      <4> QED
        BY <3>1, <4>1, <4>2
    <3> QED
      BY <2>3, <3>4, <3>5 DEF InStep
  <2> QED
    BY <2>2, <2>3
<1> QED
  BY <1>9, <1>10, <1>11, <1>12 DEF DropInv

\* The code of a packet, or a part of it (ParseHeader).
LEMMA OldHeaderKeeps ==
  ASSUME OldSizes, DropInv, Old!ParseHeader PROVE DropInv'
<1> DEFINE n == IF Len(inbox[First]) < Word THEN Len(inbox[First]) ELSE Word
<1>1. /\ at = "handle" /\ First # Listener /\ UNCHANGED <<sent, peer, backlog>>
      /\ \/ /\ inbox' = [inbox EXCEPT ![First] = SubSeq(@, n + 1, Len(@))]
            /\ at' = IF n = Word THEN "length" ELSE "cut"
            /\ UNCHANGED <<batch, received, held, interest>>
         \/ Old!Delete(First) /\ UNCHANGED inbox
  BY DEF Old!ParseHeader, Old!client, Old!accepts, Old!context, Old!Current, First
<1>2. CASE Old!Delete(First) /\ UNCHANGED inbox
  BY <1>1, <1>2, OldDeleteKeeps
<1>3. CASE /\ inbox' = [inbox EXCEPT ![First] = SubSeq(@, n + 1, Len(@))]
           /\ at' = IF n = Word THEN "length" ELSE "cut"
           /\ UNCHANGED <<batch, received, held, interest>>
  <2>1. inbox[First] \in Text
    BY <1>1, EventFacts DEF DropInv, Shapes
  <2>2. n \in Nat /\ n <= Len(inbox[First])
    BY <2>1 DEF OldSizes, Text
  <2>3. Begun(First) = 0 /\ (n = Word => Begun(First)' = 0 + n)
    BY <1>1, <1>3, <2>2 DEF Begun, First
  <2>4. received' \in Text /\ received' = <<>>
    BY <1>1, <1>3 DEF DropInv, Shapes
  <2>5. /\ at' \in {"length", "cut"}
        /\ at' = "length" => Begun(First)' = Begun(First) + n
    BY <1>3, <2>3
  <2> QED
    BY <1>1, <1>3, <2>2, <2>4, <2>5, OldTakeKeeps
<1> QED
  BY <1>1, <1>2, <1>3

\* Its length (RecvLength).
LEMMA OldLengthKeeps ==
  ASSUME OldSizes, DropInv, Old!RecvLength PROVE DropInv'
<1>1. /\ at \in {"length", "cut"} /\ UNCHANGED <<sent, peer, backlog>>
      /\ \/ /\ Len(inbox[First]) >= Word
            /\ inbox' = [inbox EXCEPT ![First] = SubSeq(@, Word + 1, Len(@))]
            /\ at' = IF at = "length" THEN "body" ELSE "astray"
            /\ UNCHANGED <<batch, received, held, interest>>
         \/ Old!Delete(First) /\ UNCHANGED inbox
  BY DEF Old!RecvLength, Old!client, Old!accepts, Old!context, Old!Current, First
<1>2. First # Listener
  BY <1>1 DEF DropInv, Shapes, OldSizes
<1>3. CASE Old!Delete(First) /\ UNCHANGED inbox
  BY <1>1, <1>2, <1>3, OldDeleteKeeps
<1>4. CASE /\ Len(inbox[First]) >= Word
           /\ inbox' = [inbox EXCEPT ![First] = SubSeq(@, Word + 1, Len(@))]
           /\ at' = IF at = "length" THEN "body" ELSE "astray"
           /\ UNCHANGED <<batch, received, held, interest>>
  <2>1. inbox[First] \in Text
    BY <1>1, <1>2, EventFacts DEF DropInv, Shapes
  <2>2. Word \in Nat /\ Word <= Len(inbox[First])
    BY <1>4, <2>1 DEF OldSizes, Text
  <2>3. received' \in Text /\ received = <<>> /\ received' = <<>>
    BY <1>1, <1>4 DEF DropInv, Shapes
  <2>4. at = "length" => Begun(First) = Word /\ Begun(First)' = Word + Word
    BY <1>1, <1>4, <2>2, <2>3 DEF Begun, First
  <2>5. /\ at' \in {"body", "astray"}
        /\ at' = "body" => at = "length" /\ Begun(First)' = Begun(First) + Word
    BY <1>4, <2>4
  <2> QED
    BY <1>1, <1>2, <1>4, <2>2, <2>3, <2>5, OldTakeKeeps
<1> QED
  BY <1>1, <1>3, <1>4

\* Its body, as far as it has come (RecvBody).
LEMMA OldBodyKeeps ==
  ASSUME OldSizes, DropInv, Old!RecvBody PROVE DropInv'
<1>1. /\ at = "body" /\ Len(received) < BufferLength
      /\ UNCHANGED <<at, batch, sent, peer, backlog, held, interest>>
  BY DEF Old!RecvBody, Old!client, Old!accepts, Old!context
<1>2. PICK c \in Clients : c = First
  BY <1>1 DEF DropInv, Shapes
<1>3. /\ inbox[c] \in Text /\ received \in Text /\ Len(inbox[c]) \in Nat
      /\ Len(received) \in Nat
  BY <1>2 DEF DropInv, Shapes, Text
<1>4. PICK n \in Nat :
        /\ n <= Len(inbox[c])
        /\ received' = received \o SubSeq(inbox[c], 1, n)
        /\ inbox' = [inbox EXCEPT ![c] = SubSeq(inbox[c], n + 1, Len(inbox[c]))]
  <2>1. PICK room \in Nat : room = BufferLength - Len(received)
    BY <1>1, <1>3 DEF OldSizes
  <2>2. PICK n : n = IF Len(inbox[c]) < room THEN Len(inbox[c]) ELSE room
    OBVIOUS
  <2>3. /\ received' = received \o SubSeq(inbox[c], 1, n)
        /\ inbox' = [inbox EXCEPT ![c] = SubSeq(inbox[c], n + 1, Len(inbox[c]))]
    BY <1>2, <2>1, <2>2 DEF Old!RecvBody, Old!Current, First
  <2>4. n \in Nat /\ n <= Len(inbox[c])
    BY <1>3, <2>1, <2>2
  <2> QED
    BY <2>3, <2>4
<1>5. received' \in Text /\ Len(received') = Len(received) + n
  <2>1. PICK T, all : all = inbox[c] /\ all \in Seq(T) /\ n <= Len(all) /\ Text = Seq(T)
    BY <1>3, <1>4 DEF Text
  <2>2. PICK more : more = SubSeq(all, 1, n)
    OBVIOUS
  <2>3. more \in Text /\ Len(more) = n
    BY <2>1, <2>2, OldPieces
  <2>4. received' = received \o more
    BY <1>4, <2>1, <2>2
  <2>5. received \in Seq(T) /\ more \in Seq(T) /\ Text = Seq(T)
    BY <1>3, <2>1, <2>3
  <2>6. received \o more \in Seq(T) /\ Len(received \o more) = Len(received) + Len(more)
    BY <2>5
  <2> QED
    BY <2>3, <2>4, <2>5, <2>6
<1>6. /\ Begun(First) = Word + Word + Len(received)
      /\ Begun(First)' = Word + Word + Len(received')
  BY <1>1 DEF Begun, First
<1>7. Begun(First)' = Begun(First) + n
  BY <1>3, <1>5, <1>6 DEF OldSizes
<1>8. First # Listener
  BY <1>2 DEF OldSizes
<1>9. inbox' = [inbox EXCEPT ![First] = SubSeq(@, n + 1, Len(@))]
  BY <1>2, <1>4
<1>10. at' = "body" /\ at = "body" /\ n <= Len(inbox[First])
  BY <1>1, <1>2, <1>4
<1> QED
  BY <1>1, <1>5, <1>7, <1>8, <1>9, <1>10, OldTakeKeeps

\* epoll_wait reports what is there, each descriptor once.
LEMMA OldWaitKeeps ==
  ASSUME OldSizes, DropInv, Old!EpollWait PROVE DropInv'
<1> DEFINE fds == {fd \in Old!Fds : ready[fd] /\ Old!Reports(fd) # {}}
<1>1. PICK order \in Old!SetToSeqs(fds) :
        batch' = [i \in DOMAIN order |->
                    [fd |-> order[i], input |-> "in" \in Old!Reports(order[i])]]
  BY DEF Old!EpollWait
<1>2. /\ at = "wait" /\ at' = "handle" /\ fds # {}
      /\ UNCHANGED <<received, peer, sent, backlog, held, interest, inbox>>
  BY DEF Old!EpollWait, Old!client, Old!accepts, Old!context
<1>3. ASSUME NEW fd \in fds
      PROVE  /\ fd \in Clients \cup {Listener}
             /\ fd = Listener => backlog # <<>>
             /\ fd # Listener => /\ interest[fd] # {}
                                 /\ "in" \in Old!Reports(fd) =>
                                      inbox[fd] # <<>> \/ peer[fd] # "open"
  BY DEF Old!Fds, Old!Reports, Old!Conditions
<1>4. fds \in SUBSET (Clients \cup {Listener})
  BY <1>3
<1> HIDE DEF fds
<1>5. IsFiniteSet(fds)
  <2>1. IsFiniteSet(Clients \cup {Listener})
    BY FS_Singleton, FS_Union DEF OldSizes
  <2> QED
    BY <1>4, <2>1, FS_Subset
<1>6. order \in SetToSeqs(fds)
  BY DEF SetToSeqs, Old!SetToSeqs, Cardinality, Old!Cardinality
<1>7. PICK n \in Nat :
        /\ n = Cardinality(fds) /\ order \in [1 .. n -> fds] /\ DOMAIN order = 1 .. n
        /\ \A i, j \in DOMAIN order : order[i] = order[j] => i = j
  BY <1>5, <1>6, OrderHasAll
<1>8. n # 0
  BY <1>2, <1>5, <1>7, FS_EmptySet
<1>9. /\ DOMAIN batch' = 1 .. n
      /\ \A i \in 1 .. n : /\ batch'[i].fd = order[i] /\ batch'[i] \in OldEvent
                           /\ batch'[i].input = ("in" \in Old!Reports(order[i]))
                           /\ order[i] \in fds
  BY <1>1, <1>3, <1>7 DEF OldEvent
<1>10. batch' \in Seq(OldEvent) /\ batch' # <<>>
  <2>1. batch' \in [1 .. n -> OldEvent]
    BY <1>1, <1>7, <1>9
  <2> QED
    BY <1>8, <2>1
<1>11. Shapes'
  BY <1>2, <1>7, <1>9, <1>10 DEF DropInv, Shapes
<1>12. \A d : (Waits(d)' <=> Waits(d)) /\ Begun(d)' = 0 /\ Begun(d) = 0
  BY <1>2 DEF Waits, Begun
<1>13. Places'
  <2>1. ASSUME NEW i \in 1 .. n, order[i] # Listener PROVE held[order[i]]
    BY <1>3, <1>9, <2>1 DEF DropInv, Places
  <2>2. \A i \in DOMAIN batch' : batch'[i].fd # Listener => held'[batch'[i].fd]
    BY <1>2, <1>9, <2>1
  <2> QED
    BY <1>2, <1>12, <2>2 DEF DropInv, Places
<1>14. StillThere'
  <2>1. ASSUME NEW i \in DOMAIN batch'
        PROVE  /\ batch'[i].fd = Listener => backlog' # <<>>
               /\ batch'[i].fd # Listener /\ batch'[i].input =>
                    inbox'[batch'[i].fd] # <<>> \/ peer'[batch'[i].fd] # "open"
    BY <1>2, <1>3, <1>9
  <2> QED
    BY <2>1 DEF StillThere
<1>15. ASSUME NEW d \in Clients, Served(d)' PROVE InStep(d)'
  <2>1. InStep(d)
    BY <1>2, <1>12, <1>15 DEF Served, Astray, First, DropInv
  <2> QED
    BY <1>2, <1>12, <2>1, StepStays
<1> QED
  BY <1>11, <1>13, <1>14, <1>15 DEF DropInv

\* At first no client is there.
LEMMA DropInvStarts == ASSUME OldSizes, Old!Init PROVE DropInv
<1>1. /\ at = "wait" /\ batch = <<>> /\ received = <<>> /\ backlog = <<>>
      /\ peer = [c \in Clients |-> "away"] /\ sent = [c \in Clients |-> 0]
      /\ held = [c \in Clients |-> FALSE] /\ inbox = [c \in Clients |-> <<>>]
      /\ interest = [fd \in Clients \cup {Listener} |-> IF fd = Listener THEN {"in"} ELSE {}]
  BY DEF Old!Init, Old!Fds
<1>2. Shapes
  BY <1>1 DEF Shapes, Text
<1>3. Places
  BY <1>1 DEF Places, Waits, OldSizes
<1>4. StillThere
  BY <1>1 DEF StillThere
<1>5. ASSUME NEW c \in Clients PROVE InStep(c)
  <2>1. 0 \in Starts /\ sent[c] = 0 + Begun(c) + Len(inbox[c])
    BY <1>1, StartsFacts DEF Begun
  <2>2. \A i \in DOMAIN inbox[c] : inbox[c][i] = Old!Unit(0 + Begun(c) + i)
    BY <1>1
  <2> QED
    BY <2>1, <2>2 DEF InStep
<1> QED
  BY <1>2, <1>3, <1>4, <1>5 DEF DropInv

\* Every step keeps it.
LEMMA DropInvKept == ASSUME OldSizes, DropInv, [Old!Next]_Old!vars PROVE DropInv'
<1>1. CASE UNCHANGED Old!vars
  BY <1>1 DEF Old!vars, Old!loop, Old!client, Old!accepts, Old!context, DropInv, Shapes,
              Places, StillThere, Served, Astray, InStep, Begun, Waits, First
<1>2. CASE \E c \in Clients : Old!Client(c)
  BY <1>2, OldConnectKeeps, OldSendKeeps, OldCloseKeeps DEF Old!Client
<1>3. CASE Old!Loop
  BY <1>3, OldWaitKeeps, OldAcceptKeeps, OldHeaderKeeps, OldLengthKeeps, OldBodyKeeps,
     OldReceivedKeeps, OldOutputKeeps DEF Old!Loop
<1> QED
  BY <1>1, <1>2, <1>3 DEF Old!Next

\* A connection that is dropped while its client has it open has been cut short.
LEMMA DropIsDue ==
  ASSUME OldSizes, DropInv, [Old!Next]_Old!vars, NEW c \in Clients, held[c], ~held'[c],
         peer[c] = "open"
  PROVE  c = First /\ Old!CutShort(c)
<1>1. Old!ParseHeader \/ Old!RecvLength
  <2>1. held' = held => FALSE
    OBVIOUS
  <2>2. ~Old!Accept
    <3> SUFFICES ASSUME Old!Accept PROVE FALSE
      OBVIOUS
    <3>1. held' = [held EXCEPT ![Head(backlog)] = TRUE]
      BY DEF Old!Accept
    <3> QED
      BY <3>1 DEF DropInv, Shapes
  <2> QED
    BY <2>1, <2>2 DEF Old!Next, Old!vars, Old!context, Old!Client, Old!Connect, Old!Send,
       Old!Close, Old!Loop, Old!EpollWait, Old!RecvBody, Old!OnReceived, Old!HandleOutput
<1>2. inbox[c] \in Text /\ Len(inbox[c]) \in Nat /\ Word \in Nat \ {0}
  BY DEF DropInv, Shapes, Text, OldSizes
<1>3. ASSUME Old!RecvLength PROVE c = First /\ Old!CutShort(c)
  <2>1. /\ at \in {"length", "cut"} /\ ~(Len(inbox[First]) >= Word)
        /\ held' = [held EXCEPT ![First] = FALSE]
    BY <1>3 DEF Old!RecvLength, Old!context, Old!Current, First, Old!Delete
  <2>2. c = First
    BY <2>1 DEF DropInv, Shapes
  <2> QED
    BY <1>2, <2>1, <2>2 DEF Old!CutShort
<1>4. ASSUME Old!ParseHeader PROVE c = First /\ Old!CutShort(c)
  <2>1. PICK n :
          /\ n = IF Len(inbox[First]) < Word THEN Len(inbox[First]) ELSE Word
          /\ at = "handle" /\ First # Listener /\ Head(batch).input
          /\ ~(n = Word /\ Head(inbox[First])[2] = 1)
          /\ held' = [held EXCEPT ![First] = FALSE]
    BY <1>4 DEF Old!ParseHeader, Old!context, Old!Current, First, Old!Delete
  <2>2. c = First
    BY <2>1 DEF DropInv, Shapes
  <2>3. inbox[c] # <<>>
    BY <2>1, <2>2, EventFacts DEF DropInv, StillThere
  <2>4. Served(c)
    BY <2>1 DEF Served, Astray
  <2>5. PICK o \in Starts : \A i \in DOMAIN inbox[c] : inbox[c][i] = Old!Unit(o + Begun(c) + i)
    BY <2>4 DEF DropInv, InStep
  <2>6. Head(inbox[c]) = inbox[c][1] /\ 1 \in DOMAIN inbox[c]
    BY <1>2, <2>3 DEF Text
  <2>7. o \in Nat /\ Begun(c) = 0 /\ o + Begun(c) + 1 = o + 1 /\ Old!Unit(o + 1)[2] = 1
    BY <2>1, StartsFacts DEF Begun
  <2>8. Head(inbox[c])[2] = 1
    BY <2>5, <2>6, <2>7
  <2>9. Len(inbox[c]) < Word
    BY <1>2, <2>1, <2>2, <2>8
  <2> QED
    BY <2>2, <2>3, <2>8, <2>9 DEF Old!CutShort
<1> QED
  BY <1>1, <1>3, <1>4

\* The older library drops a connection only if the client has closed it, or its
\* last bytes are a part of a packet's header, for any number of clients, any sizes
\* and however the stream is cut: a further edge is never reported for bytes that
\* an earlier packet used up (ParseHeader, HandleEvent).
THEOREM DroppedForCause == ASSUME OldSizes PROVE Old!Spec => Old!DroppedOnlyIfClosedOrCut
<1>1. ASSUME DropInv, [Old!Next]_Old!vars
      PROVE  [\A c \in Clients : held[c] /\ ~held'[c] =>
                peer[c] # "open" \/ (Old!Current = c /\ Old!CutShort(c))]_Old!vars
  <2>1. Old!Current = First
    BY DEF Old!Current, First
  <2> QED
    BY <1>1, <2>1, DropIsDue
<1>2. Old!Init => DropInv
  BY DropInvStarts
<1>3. DropInv /\ [Old!Next]_Old!vars => DropInv'
  BY DropInvKept
<1> QED
  BY <1>1, <1>2, <1>3, PTL DEF Old!Spec, Old!DroppedOnlyIfClosedOrCut
================================================================================
