----------------------------- MODULE Connection ------------------------------
(***************************************************************************)
(* One TCP connection of single_fs/depends/net.v1 between the test client  *)
(* (net.v1/test/client.cpp) and a server whose handler sends every packet  *)
(* back (ListenHandler, net.v1/test/server_handler.cpp).                   *)
(*                                                                         *)
(* Each side has one CommunicateLoop thread that waits in epoll_wait on an *)
(* edge-triggered registration and runs HandleInput or HandleOutput; the   *)
(* client also has an application thread, in AsyncSendPacket or in         *)
(* SyncSendPacket.  The queue between the application and the loop is the  *)
(* BoundedFifo that TaskQueue implements.  A packet is its number: the     *)
(* n-th request carries n, and so does its echo.                           *)
(***************************************************************************)
EXTENDS Naturals, Sequences

CONSTANTS MaxRequests,  \* bound: how many packets the application sends
          Limit,        \* capacity of packet_queue_ (limit_, 10 in the code)
          Window,       \* packets that fit in flight in one direction
          Modes         \* how the application may send: TRUE, by SyncSendPacket;
                        \* FALSE, by AsyncSendPacket

ASSUME ConnectionAssumption ==
  /\ MaxRequests \in Nat
  /\ Limit \in Nat \ {0}
  /\ Window \in Nat \ {0}
  /\ Modes \subseteq BOOLEAN /\ Modes # {}

Sides == {"client", "server"}
Other(s) == IF s = "client" THEN "server" ELSE "client"

VARIABLES
  packets,   \* packet_queue_ of each side's StreamSocketContext
  stream,    \* packets on their way to a side, its socket buffer included
  ready,     \* the socket is on epoll's ready list
  wantOut,   \* EPOLLOUT is in the registered events
  loop,      \* where each CommunicateLoop thread is
  inbox,     \* complete packets in recv_buffer_
  hand,      \* the packet the loop thread is working on, or 0
  synchronous, \* whether the application uses SyncSendPacket, one of Modes
  app,       \* where the client's application thread is
  sent,      \* requests made so far
  replied,   \* replied_
  ret,       \* *ret_buf_, or 0
  needAck,   \* need_ack_
  received,  \* history: the packets Chunking delivered at the client
  returned,  \* history: the packets SyncSendPacket returned
  freed      \* reply packets the application has deleted

appVars == <<app, sent, returned, freed, synchronous>>
syncVars == <<replied, ret, needAck>>
netVars == <<stream, ready, wantOut>>
vars == <<packets, netVars, loop, inbox, hand, appVars, syncVars, received>>

Init ==
  /\ packets = [s \in Sides |-> <<>>]
  /\ stream = [s \in Sides |-> <<>>]
  \* Init of the client registers both events, the acceptor only EPOLLIN.
  /\ wantOut = [s \in Sides |-> s = "client"]
  /\ ready = [s \in Sides |-> s = "client"]
  /\ loop = [s \in Sides |-> "wait"]
  /\ inbox = [s \in Sides |-> <<>>]
  /\ hand = [s \in Sides |-> 0]
  /\ synchronous \in Modes
  /\ app = "idle"
  /\ sent = 0
  /\ replied = FALSE
  /\ ret = 0
  /\ needAck = FALSE
  /\ received = <<>>
  /\ returned = <<>>
  /\ freed = {}
-----------------------------------------------------------------------------
(* epoll, as the loop uses it. *)

Readable(s) == stream[s] # <<>>
Writable(s) == Len(stream[Other(s)]) < Window

\* EPOLL_CTL_MOD with both events: the socket is queued again if it is ready
\* for either of them now.
SetEvent(s) ==
  /\ wantOut' = [wantOut EXCEPT ![s] = TRUE]
  /\ ready' = [ready EXCEPT ![s] = @ \/ Readable(s) \/ Writable(s)]
  /\ UNCHANGED stream

Goto(s, label) == loop' = [loop EXCEPT ![s] = label]
-----------------------------------------------------------------------------
(* The application thread of the client. *)

\* Faulty AppCall: set_sync leaves replied_ as it is.
AppCallKeepsReplied ==
  /\ app = "idle"
  /\ sent < MaxRequests
  /\ sent' = sent + 1
  /\ needAck' = synchronous
  /\ app' = "push"
  /\ UNCHANGED <<packets, netVars, loop, inbox, hand, replied, ret, received, returned, freed, synchronous>>

\* SyncSendPacket up to the push: set_sync.  AsyncSendPacket skips set_sync.
AppCall ==
  /\ app = "idle"
  /\ sent < MaxRequests
  /\ sent' = sent + 1
  /\ IF synchronous
       THEN replied' = FALSE /\ ret' = 0 /\ needAck' = TRUE
       ELSE UNCHANGED syncVars
  /\ app' = "push"
  /\ UNCHANGED <<packets, netVars, loop, inbox, hand, received, returned, freed, synchronous>>

\* packet_queue_->Push(packet), which blocks while the queue is full.
AppPush ==
  /\ app = "push"
  /\ Len(packets["client"]) < Limit
  /\ packets' = [packets EXCEPT !["client"] = Append(@, sent)]
  /\ app' = "modify"
  /\ UNCHANGED <<netVars, loop, inbox, hand, sent, returned, freed, synchronous, syncVars, received>>

AppModify ==
  /\ app = "modify"
  /\ SetEvent("client")
  /\ app' = IF synchronous THEN "spin" ELSE "idle"
  /\ UNCHANGED <<packets, loop, inbox, hand, sent, returned, freed, synchronous, syncVars, received>>

\* while (!replied()) usleep(100): time_out is not looked at.
AppReturn ==
  /\ app = "spin"
  /\ replied
  /\ returned' = Append(returned, ret)
  /\ app' = "use"
  /\ UNCHANGED <<packets, netVars, loop, inbox, hand, sent, freed, synchronous, syncVars, received>>

\* The caller reads the reply and deletes it.
AppDelete ==
  /\ app = "use"
  /\ freed' = freed \union {ret}
  /\ app' = "idle"
  /\ UNCHANGED <<packets, netVars, loop, inbox, hand, sent, returned, synchronous, syncVars, received>>

App == AppCall \/ AppPush \/ AppModify \/ AppReturn \/ AppDelete
-----------------------------------------------------------------------------
(* The loop thread: HandleEvent. *)

\* epoll_wait returns the socket once per edge, with every event it is then
\* ready for; HandleEvent looks at EPOLLIN first and at EPOLLOUT otherwise.
EpollWait(s) ==
  /\ loop[s] = "wait"
  /\ ready[s]
  /\ ready' = [ready EXCEPT ![s] = FALSE]
  /\ Goto(s, IF Readable(s) THEN "recv"
             ELSE IF wantOut[s] /\ Writable(s) THEN "pop" ELSE "wait")
  /\ UNCHANGED <<packets, stream, wantOut, inbox, hand, appVars, syncVars, received>>

\* recv until it fails with EAGAIN.  Emptying a full stream is the edge that
\* tells the other side it can write again.
Recv(s) ==
  /\ loop[s] = "recv"
  /\ IF Readable(s)
       THEN /\ inbox' = [inbox EXCEPT ![s] = stream[s]]
            /\ ready' = [ready EXCEPT ![Other(s)] = @ \/ Len(stream[s]) = Window]
            /\ stream' = [stream EXCEPT ![s] = <<>>]
            /\ Goto(s, "chunk")
       ELSE /\ Goto(s, "wait")
            /\ UNCHANGED <<inbox, ready, stream>>
  /\ UNCHANGED <<packets, wantOut, hand, appVars, syncVars, received>>

\* Faulty Chunk: buffer_offset_ = 0 after a packet, whatever follows it.
ChunkDropsRest(s) ==
  /\ loop[s] = "chunk"
  /\ inbox[s] # <<>>
  /\ hand' = [hand EXCEPT ![s] = Head(inbox[s])]
  /\ inbox' = [inbox EXCEPT ![s] = <<>>]
  /\ received' = IF s = "client" THEN Append(received, Head(inbox[s])) ELSE received
  /\ Goto(s, IF s = "client" THEN "handler" ELSE "echo")
  /\ UNCHANGED <<packets, netVars, appVars, syncVars>>

\* Chunking takes the next packet out of the buffer; at the client it also
\* publishes it to the waiting SyncSendPacket before OnReceived sees it.
Chunk(s) ==
  /\ loop[s] = "chunk"
  /\ inbox[s] # <<>>
  /\ hand' = [hand EXCEPT ![s] = Head(inbox[s])]
  /\ inbox' = [inbox EXCEPT ![s] = Tail(@)]
  /\ IF s = "client"
       THEN /\ received' = Append(received, Head(inbox[s]))
            /\ IF needAck
                 THEN ret' = Head(inbox[s]) /\ replied' = TRUE
                 ELSE UNCHANGED <<ret, replied>>
       ELSE UNCHANGED <<received, ret, replied>>
  /\ Goto(s, IF s = "client" THEN "handler" ELSE "echo")
  /\ UNCHANGED <<packets, netVars, appVars, needAck>>

\* No complete packet left: Chunking returns and recv is called again.
ChunkDone(s) ==
  /\ loop[s] = "chunk"
  /\ inbox[s] = <<>>
  /\ Goto(s, "recv")
  /\ UNCHANGED <<packets, netVars, inbox, hand, appVars, syncVars, received>>

\* The client's OnReceived prints packet->data().
ClientOnReceived ==
  /\ loop["client"] = "handler"
  /\ hand' = [hand EXCEPT !["client"] = 0]
  /\ Goto("client", "chunk")
  /\ UNCHANGED <<packets, netVars, inbox, appVars, syncVars, received>>

\* The server's OnReceived is AsyncSendPacket(packet) on the loop thread:
\* Push, which blocks while the queue is full, then SetEvent.
ServerOnReceived ==
  /\ loop["server"] = "echo"
  /\ Len(packets["server"]) < Limit
  /\ packets' = [packets EXCEPT !["server"] = Append(@, hand["server"])]
  /\ hand' = [hand EXCEPT !["server"] = 0]
  /\ Goto("server", "modify")
  /\ UNCHANGED <<netVars, inbox, appVars, syncVars, received>>

\* Faulty ServerModify: Push without SetEvent.
ServerModifySkipped ==
  /\ loop["server"] = "modify"
  /\ Goto("server", "chunk")
  /\ UNCHANGED <<packets, netVars, inbox, hand, appVars, syncVars, received>>

ServerModify ==
  /\ loop["server"] = "modify"
  /\ SetEvent("server")
  /\ Goto("server", "chunk")
  /\ UNCHANGED <<packets, inbox, hand, appVars, syncVars, received>>

\* Faulty OutputPop: the packet stays in the queue.
OutputFront(s) ==
  /\ loop[s] = "pop"
  /\ IF packets[s] # <<>>
       THEN hand' = [hand EXCEPT ![s] = Head(packets[s])] /\ Goto(s, "send")
       ELSE Goto(s, "wait") /\ UNCHANGED hand
  /\ UNCHANGED <<packets, netVars, inbox, appVars, syncVars, received>>

\* HandleOutput: Pop(1000), and back to epoll_wait when it returns NULL.
OutputPop(s) ==
  /\ loop[s] = "pop"
  /\ IF packets[s] # <<>>
       THEN /\ hand' = [hand EXCEPT ![s] = Head(packets[s])]
            /\ packets' = [packets EXCEPT ![s] = Tail(@)]
            /\ Goto(s, "send")
       ELSE /\ Goto(s, "wait")
            /\ UNCHANGED <<packets, hand>>
  /\ UNCHANGED <<netVars, inbox, appVars, syncVars, received>>

\* Send retries until the socket takes everything; the data's arrival is an
\* edge for the receiver.  Then OnSent, delete packet and the next Pop.
OutputSend(s) ==
  /\ loop[s] = "send"
  /\ Writable(s)
  /\ stream' = [stream EXCEPT ![Other(s)] = Append(@, hand[s])]
  /\ ready' = [ready EXCEPT ![Other(s)] = TRUE]
  /\ hand' = [hand EXCEPT ![s] = 0]
  /\ Goto(s, "pop")
  /\ UNCHANGED <<packets, wantOut, inbox, appVars, syncVars, received>>

HandleOutput(s) == OutputPop(s) \/ OutputSend(s)

Loop(s) ==
  \/ EpollWait(s)
  \/ Recv(s)
  \/ Chunk(s)
  \/ ChunkDone(s)
  \/ s = "client" /\ ClientOnReceived
  \/ s = "server" /\ (ServerOnReceived \/ ServerModify)
  \/ HandleOutput(s)
-----------------------------------------------------------------------------
\* Everything was sent and answered and both loops wait: epoll_wait times out
\* for ever, which is not a deadlock.
Quiet ==
  /\ \A s \in Sides : loop[s] = "wait" /\ ~ready[s]
  /\ app = "idle" /\ sent = MaxRequests
  /\ UNCHANGED vars

Next == App \/ (\E s \in Sides : Loop(s)) \/ Quiet

Spec == Init /\ [][Next]_vars

\* The threads keep running; a blocked Push or Send is polled, so it goes on
\* as soon as it can.
FairSpec == Spec /\ WF_vars(App) /\ \A s \in Sides : WF_vars(Loop(s))
-----------------------------------------------------------------------------
\* What the loop thread of s carries when it is at label.
Carried(s, label) == IF loop[s] = label THEN <<hand[s]>> ELSE <<>>

\* The whole path from the client's queue through the server and back.
InTransit ==
  inbox["client"] \o stream["client"] \o Carried("server", "send")
    \o packets["server"] \o Carried("server", "echo") \o inbox["server"]
    \o stream["server"] \o Carried("client", "send") \o packets["client"]

Pushed == IF app = "push" THEN sent - 1 ELSE sent

\* The path loses, repeats and reorders nothing: the packets the client has
\* received, followed by the ones in every queue, buffer and hand on the way,
\* are the requests it pushed, in that order.
PathIsFifo == received \o InTransit = [n \in 1..Pushed |-> n]

\* The n-th SyncSendPacket returns the echo of the n-th request: a reply is
\* never mistaken for that of an earlier or a later call.
ReplyMatchesCall == \A n \in 1..Len(returned) : returned[n] = n

Modifying(s) == IF s = "client" THEN app = "modify" ELSE loop[s] = "modify"

\* A queued packet has a wakeup coming: no side sleeps in epoll_wait, with no
\* edge to come and no SetEvent on its way, while its packet_queue_ is not
\* empty.
NoStuckPacket ==
  \A s \in Sides :
    packets[s] # <<>> => loop[s] # "wait" \/ ready[s] \/ Modifying(s)

\* The server's loop waits for room in a queue that only it empties; or both
\* loops are in Send with both directions full, and neither receives.
LoopsBlocked ==
  \/ loop["server"] = "echo" /\ Len(packets["server"]) = Limit
  \/ \A s \in Sides : loop[s] = "send" /\ ~Writable(s)

\* Used that way, no loop thread ever waits for itself or for the other one.
SyncNeverBlocked == synchronous => ~LoopsBlocked

\* The packet OnReceived is reading has not been deleted by the caller of
\* SyncSendPacket.
HandlerPacketAlive ==
  loop["client"] = "handler" => hand["client"] \notin freed

\* Every SyncSendPacket returns, under FairSpec.
SyncSendReturns == synchronous /\ app = "push" ~> app = "idle"
=============================================================================
