-------------------------------- MODULE OldNet --------------------------------
(***************************************************************************)
(* The older network library, depends/net, as its echo server uses it. One  *)
(* loop thread serves a listening socket and all connections, edge          *)
(* triggered. An edge of the listener accepts one connection; an edge of a   *)
(* connection receives one packet whole, spinning until its rest is there,  *)
(* or sends one. net.v1 differs in HandleInput only: see Framing and        *)
(* Connection.                                                             *)
(*                                                                         *)
(* The clients are those of SyncSendPacket, which send a packet when the one *)
(* before is answered, and others that do not wait. They read what they are *)
(* sent. The n-th packet of a client is the units <<n, 1>>, <<n, 2>>, ...:   *)
(* its code, its length and its body. The stream may be cut between any two. *)
(* Descriptors do not run out.                                              *)
(***************************************************************************)
EXTENDS Integers, Sequences, FiniteSets, SequencesExt

CONSTANTS Clients,
          Hasty,         \* the clients that do not wait for an answer
          Listener,
          Word,          \* the units of the code, and of the length
          Body,          \* the units of a body
          BufferLength,  \* recv_buffer_length_
          QueueLimit,    \* limit_ of packet_queue_
          MaxPackets     \* bounds the packets each client sends

ASSUME OldNetAssumption ==
  /\ Hasty \subseteq Clients /\ Listener \notin Clients
  /\ {Word, Body, BufferLength, QueueLimit, MaxPackets} \subseteq Nat \ {0}
  /\ Body <= BufferLength

Fds == Clients \cup {Listener}
Units == Word + Word + Body

VARIABLES
  server,    \* "up", or "down" after SIGPIPE
  at,        \* where the loop is: wait, handle, length, body, push; at the
             \* length, or the body, of a packet it reads out of step: cut, astray
  batch,     \* events, from the one that is handled on
  received,  \* recv_buffer_: the units of the body so far, and what came after
  peer,      \* each client's end: away, open, closed, reset
  sent,      \* the units it has sent
  answers,   \* the packets it has got back, in order
  backlog,   \* the connections not yet accepted
  crowded,   \* (history) a connection came while another was in the backlog
  held,      \* the server has a context for the connection
  inbox,     \* the units in its receive buffer
  queue,     \* packet_queue_
  interest,  \* the events the context is watched for
  ready      \* it is on epoll's list

loop    == <<at, batch, received>>
client  == <<peer, sent, answers>>
accepts == <<backlog, crowded>>
context == <<held, queue, interest>>
vars    == <<server, loop, client, accepts, context, inbox, ready>>

Init ==
  /\ server = "up" /\ at = "wait" /\ batch = <<>> /\ received = <<>>
  /\ peer = [c \in Clients |-> "away"] /\ sent = [c \in Clients |-> 0]
  /\ answers = [c \in Clients |-> <<>>] /\ backlog = <<>> /\ crowded = FALSE
  /\ held = [c \in Clients |-> FALSE]
  /\ inbox = [c \in Clients |-> <<>>] /\ queue = [c \in Clients |-> <<>>]
  /\ interest = [fd \in Fds |-> IF fd = Listener THEN {"in"} ELSE {}]
  /\ ready = [fd \in Fds |-> FALSE]

--------------------------------------------------------------------------------
(* epoll: everything is edge triggered, so a ready descriptor is reported once. *)

Conditions(fd) ==
  IF fd = Listener THEN IF backlog # <<>> THEN {"in"} ELSE {}
  ELSE {"out"} \cup (IF inbox[fd] # <<>> \/ peer[fd] # "open" THEN {"in"} ELSE {})
Reports(fd) == Conditions(fd) \cap interest[fd]
Wake(fd)    == ready' = [ready EXCEPT ![fd] = interest[fd] # {}]

--------------------------------------------------------------------------------
(* The clients.                                                                *)

Connect(c) ==
  /\ peer[c] = "away"
  /\ peer' = [peer EXCEPT ![c] = "open"]
  /\ crowded' = (crowded \/ backlog # <<>>)
  /\ backlog' = Append(backlog, c)
  /\ Wake(Listener)
  /\ UNCHANGED <<server, loop, sent, answers, context, inbox>>

\* HandleOutput of a client: the rest of a packet or a part of it.
Unit(n) == <<(n - 1) \div Units + 1, ((n - 1) % Units) + 1>>
Send(c) ==
  LET left == Units - (sent[c] % Units)
  IN  /\ peer[c] = "open" /\ sent[c] < MaxPackets * Units
      /\ left < Units \/ c \in Hasty \/ Len(answers[c]) * Units = sent[c]
      /\ \E n \in 1 .. left :
           /\ inbox' = [inbox EXCEPT ![c] = @ \o [i \in 1 .. n |-> Unit(sent[c] + i)]]
           /\ sent' = [sent EXCEPT ![c] = @ + n]
      /\ Wake(c)
      /\ UNCHANGED <<server, loop, peer, answers, accepts, context>>

Close(c) ==
  /\ peer[c] = "open"
  /\ peer' = [peer EXCEPT ![c] = "closed"]
  /\ Wake(c)
  /\ UNCHANGED <<server, loop, sent, answers, accepts, context, inbox>>

Client(c) == Connect(c) \/ Send(c) \/ Close(c)

--------------------------------------------------------------------------------
(* The loop: CommunicateLoop::HandleEvent.                                     *)

EpollWait ==
  /\ at = "wait"
  /\ LET fds == {fd \in Fds : ready[fd] /\ Reports(fd) # {}}
     IN  /\ fds # {}
         /\ \E order \in SetToSeqs(fds) :
              batch' = [i \in DOMAIN order |->
                          [fd |-> order[i], input |-> "in" \in Reports(order[i])]]
  /\ ready' = [fd \in Fds |-> FALSE]
  /\ at' = "handle"
  /\ UNCHANGED <<server, received, client, accepts, context, inbox>>

Current == Head(batch).fd
Handled == /\ batch' = Tail(batch) /\ received' = <<>>
           /\ at' = IF Len(batch) = 1 THEN "wait" ELSE "handle"

\* ListenSocketContext::HandleInput.
Accept ==
  /\ at = "handle" /\ Current = Listener
  /\ LET c == Head(backlog)
     IN  /\ held' = [held EXCEPT ![c] = TRUE]
         /\ interest' = [interest EXCEPT ![c] = {"in"}]
         /\ ready' = [ready EXCEPT ![c] = TRUE]
  /\ backlog' = Tail(backlog)
  /\ Handled
  /\ UNCHANGED <<server, client, crowded, queue, inbox>>

\* HandleInput returned something negative: the context is deleted.
Delete(c) ==
  /\ held' = [held EXCEPT ![c] = FALSE] /\ queue' = [queue EXCEPT ![c] = <<>>]
  /\ interest' = [interest EXCEPT ![c] = {}]
  /\ ready' = [ready EXCEPT ![c] = FALSE]
  /\ Handled

\* ParseHeader: one recv of the code. What has not come of it is whatever was on
\* the stack, which may be right. Without a unit, or with another word than the
\* code, the peer is taken to be gone.
ParseHeader ==
  /\ at = "handle" /\ Current # Listener /\ Head(batch).input
  /\ LET c == Current
         n == IF Len(inbox[c]) < Word THEN Len(inbox[c]) ELSE Word
     IN  \/ /\ n > 0 /\ Head(inbox[c])[2] = 1
            /\ inbox' = [inbox EXCEPT ![c] = SubSeq(@, n + 1, Len(@))]
            /\ at' = IF n = Word THEN "length" ELSE "cut"
            /\ UNCHANGED <<batch, received, context, ready>>
         \/ /\ ~(n = Word /\ Head(inbox[c])[2] = 1)
            /\ Delete(c) /\ UNCHANGED inbox
  /\ UNCHANGED <<server, client, accepts>>

\* Recv of the length: if it does not come within a second it gives up. After a
\* code that was cut the word is the rest of the code and a part of the length,
\* which is more than these clients ever send.
RecvLength ==
  /\ at \in {"length", "cut"}
  /\ LET c == Current
     IN  IF Len(inbox[c]) >= Word
           THEN /\ inbox' = [inbox EXCEPT ![c] = SubSeq(@, Word + 1, Len(@))]
                /\ at' = IF at = "length" THEN "body" ELSE "astray"
                /\ UNCHANGED <<batch, received, context, ready>>
           ELSE Delete(c) /\ UNCHANGED inbox
  /\ UNCHANGED <<server, client, accepts>>

\* The rest of the packet: as much as there is, up to the end of the buffer.
RecvBody ==
  /\ at = "body" /\ inbox[Current] # <<>> /\ Len(received) < BufferLength
  /\ LET text == inbox[Current]
         room == BufferLength - Len(received)
         n    == IF Len(text) < room THEN Len(text) ELSE room
     IN  /\ received' = received \o SubSeq(text, 1, n)
         /\ inbox' = [inbox EXCEPT ![Current] = SubSeq(text, n + 1, Len(text))]
  /\ UNCHANGED <<server, at, batch, client, accepts, context, ready>>

\* Faulty Complete: what came after the body is dropped.
CompleteOrMore == at = "body" /\ Len(received) >= Body

\* The code loops on until there is nothing to receive and the body is exactly
\* there; then OnReceived sends the packet back (AsyncSendPacket, SetEvent).
Complete == at = "body" /\ Len(received) = Body
            /\ (inbox[Current] = <<>> \/ Len(received) = BufferLength)

\* Faulty OnReceived: the packet is queued, and epoll not told.
OnReceivedQuietly ==
  /\ Complete
  /\ queue' = [queue EXCEPT ![Current] = Append(@, received[1][1])]
  /\ Handled
  /\ UNCHANGED <<server, client, accepts, held, interest, inbox, ready>>

\* Push waits for room in the queue, which only this thread could make.
OnReceived ==
  /\ Complete
  /\ IF Len(queue[Current]) < QueueLimit
       THEN /\ queue' = [queue EXCEPT ![Current] = Append(@, received[1][1])]
            /\ interest' = [interest EXCEPT ![Current] = {"in", "out"}]
            /\ ready' = [ready EXCEPT ![Current] = TRUE]
            /\ Handled
       ELSE /\ at' = "push"
            /\ UNCHANGED <<batch, received, queue, interest, ready>>
  /\ UNCHANGED <<server, client, accepts, held, inbox>>

\* One packet; Pop gives up after a millisecond if there is none. Sending to a
\* peer that has gone raises SIGPIPE, unless it is all sent before its reset.
HandleOutput ==
  /\ at = "handle" /\ Current # Listener /\ ~Head(batch).input
  /\ LET c == Current
     IN  IF queue[c] = <<>> THEN UNCHANGED <<server, client, queue>>
         ELSE /\ queue' = [queue EXCEPT ![c] = Tail(@)]
              /\ IF peer[c] = "open"
                   THEN /\ answers' = [answers EXCEPT ![c] = Append(@, Head(queue[c]))]
                        /\ UNCHANGED <<server, peer>>
                   ELSE /\ server' \in {"up", "down"}
                        /\ peer' = [peer EXCEPT ![c] = "reset"]
                        /\ UNCHANGED answers
              /\ UNCHANGED sent
         /\ ready' = [ready EXCEPT ![c] = @ \/ peer'[c] # peer[c]]
  /\ Handled
  /\ UNCHANGED <<accepts, held, interest, inbox>>

Loop == EpollWait \/ Accept \/ ParseHeader \/ RecvLength \/ RecvBody \/ OnReceived
        \/ HandleOutput

\* Once the server is down nothing matters any more.
Next == server = "up" /\ (Loop \/ \E c \in Clients : Client(c))

\* The thread of the loop runs; clients need not do anything.
Spec == Init /\ [][Next]_vars /\ WF_vars(server = "up" /\ Loop)

--------------------------------------------------------------------------------
(* Properties.                                                                 *)

\* What is there of a connection is a part of the code, or of the length.
CutShort(c) ==
  /\ Len(inbox[c]) < Word
  /\ at \in {"length", "cut"} \/ (inbox[c] # <<>> /\ Head(inbox[c])[2] = 1)

\* The server drops a connection only if the client closed it, or its last bytes
\* are a part of a packet's first word, or for a second have been one of the
\* second: never because an edge was reported that an earlier packet had already
\* used up, as ParseHeader takes "nothing there" for a disconnection, and never
\* in the middle of a packet.
DroppedOnlyIfClosedOrCut ==
  [][\A c \in Clients :
       held[c] /\ ~held'[c] => peer[c] # "open" \/ (Current = c /\ CutShort(c))]_vars

\* The loop is held by another client's packet: it is not complete, more than it
\* has come, its code was cut, or there are as many before it as the queue takes.
HeldByOther(c) == at \in {"body", "astray", "push"} /\ Current # c

\* A connection that is left in the backlog since others came with it.
LeftBehind(c) == crowded /\ c \in Range(backlog)

\* A client that waits for each answer, and was not dropped, gets it, unless
\* another holds the loop for ever, its own code was cut and taken for whole,
\* SIGPIPE ends the server, or it is left in the backlog (HandleEvent,
\* HandleInput, ListenSocketContext::HandleInput).
Due(c) == /\ peer[c] = "open" /\ sent[c] = (Len(answers[c]) + 1) * Units
          /\ held[c] \/ c \in Range(backlog)
AnsweredUnlessHeld ==
  \A c \in Clients \ Hasty :
    [](Due(c) => <>(\/ ~Due(c) \/ server = "down" \/ LeftBehind(c)
                    \/ (at = "astray" /\ Current = c) \/ []HeldByOther(c)))

================================================================================
