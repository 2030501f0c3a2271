------------------------------ MODULE EventServer ------------------------------
(***************************************************************************)
(* The web server of http_server.1.0.0. One thread does it all: it waits    *)
(* for epoll, accepts, receives a request, sends the page and goes back to  *)
(* waiting; connections are kept open for further requests. After a page a  *)
(* connection is switched to wait for room to write, and when that is       *)
(* reported, which is at once, back to wait for input, edge triggered both. *)
(*                                                                         *)
(* A request reaches the server in one piece or in two; a browser asks       *)
(* again only after its answer. It may stop reading, close, or reset. The    *)
(* bits of the epoll_event that AddEvent or-s EPOLLIN into are whatever they *)
(* were: EPOLLOUT, EPOLLET and EPOLLONESHOT may be set or not. Running out   *)
(* of descriptors is left out: fd_num_ stops the server earlier.             *)
(***************************************************************************)
EXTENDS Integers, Sequences, FiniteSets, SequencesExt

CONSTANTS Clients,
          Listener,
          MaxEventNum,   \* MAX_EVENT_NUM: the descriptors ever watched
          FirstFdNum,    \* what the uninitialised fd_num_ may be
          JunkBits,      \* what ev.events may happen to hold
          MaxRequests    \* bounds the requests a client sends

ASSUME EventAssumption ==
  /\ IsFiniteSet(Clients)
  /\ MaxEventNum \in Nat /\ FirstFdNum \subseteq Int /\ MaxRequests \in [Clients -> Nat]
  /\ JunkBits \subseteq SUBSET {"out", "et", "oneshot"}
  /\ Listener \notin Clients

Fds == Clients \cup {Listener}

VARIABLES
  server,    \* "up", or "down" after exit(1) or SIGPIPE
  fdNum,     \* fd_num_
  batch,     \* io_event from the one that is handled on: [fd, mask]
  answering, \* the loop is sending the page to the first of them
  peer,      \* each browser's end: away, open, closed or reset
  reads,     \* whether it takes in what it is sent
  sent,      \* the pieces of requests it has sent, two of each
  answers,   \* the pages it has got
  backlog,   \* the connections not yet accepted
  held,      \* the server has a descriptor for the connection
  inbox,     \* the pieces of requests in its receive buffer
  interest,  \* the events each descriptor is watched for; {} if it is not
  ready      \* it is on epoll's list of ready descriptors

browser == <<peer, reads, sent>>
epoll   == <<interest, ready>>
vars == <<server, fdNum, batch, answering, browser, answers, backlog, held,
          inbox, epoll>>

--------------------------------------------------------------------------------
(* epoll.                                                                      *)

\* What is there to report of a descriptor. A browser that stops reading fills
\* the send buffer.
Conditions(fd) ==
  IF fd = Listener THEN IF backlog = <<>> THEN {} ELSE {"in"}
  ELSE (IF inbox[fd] # <<>> \/ peer[fd] # "open" THEN {"in"} ELSE {})
       \cup (IF reads[fd] \/ peer[fd] # "open" THEN {"out"} ELSE {})
       \cup (IF peer[fd] = "reset" THEN {"hup"} ELSE {})
Watched(fd)  == interest[fd] # {} /\ "disarmed" \notin interest[fd]
Reports(fd)  == Conditions(fd) \cap (interest[fd] \cup {"hup"})
Reported(fd) == Watched(fd) /\ ready[fd] /\ Reports(fd) # {}

\* The kernel puts a descriptor on the list when something happens to it.
Wake(fd) == ready' = [ready EXCEPT ![fd] = @ \/ Watched(fd)]

\* AddEvent, on top of the bits that happen to be there.
Added(junk) == junk \cup {"in"}

\* SetEvent: EPOLL_CTL_MOD looks at the descriptor again, so whatever is there
\* by now is an edge.
SetEvent(fd, event) ==
  /\ interest' = [interest EXCEPT ![fd] = {event, "et"}]
  /\ ready' = [ready EXCEPT ![fd] = TRUE]

\* The listener is added as any other, and counted, if there is room.
Init ==
  /\ server = "up"
  /\ batch = <<>> /\ answering = FALSE
  /\ peer = [c \in Clients |-> "away"] /\ reads = [c \in Clients |-> TRUE]
  /\ sent = [c \in Clients |-> 0] /\ answers = [c \in Clients |-> 0]
  /\ backlog = <<>> /\ held = [c \in Clients |-> FALSE]
  /\ inbox = [c \in Clients |-> <<>>]
  /\ ready = [fd \in Fds |-> FALSE]
  /\ \E first \in FirstFdNum, junk \in JunkBits :
       /\ fdNum = IF first < MaxEventNum THEN first + 1 ELSE first
       /\ interest = [fd \in Fds |-> IF fd = Listener /\ first < MaxEventNum
                                        THEN Added(junk) ELSE {}]

--------------------------------------------------------------------------------
(* The browsers.                                                               *)

Connect(c) ==
  /\ peer[c] = "away"
  /\ peer' = [peer EXCEPT ![c] = "open"]
  /\ backlog' = Append(backlog, c)
  /\ Wake(Listener)
  /\ UNCHANGED <<server, fdNum, batch, answering, reads, sent, answers, held,
                 inbox, interest>>

\* The first piece of a request, or the last one, or both at once.
Send(c) ==
  LET pieces == [i \in 1 .. 2 |-> IF (sent[c] + i) % 2 = 1 THEN "head" ELSE "tail"]
  IN  /\ peer[c] = "open" /\ reads[c] /\ sent[c] < 2 * MaxRequests[c]
      /\ (sent[c] % 2 = 1) \/ sent[c] = 2 * answers[c]
      /\ \E n \in 1 .. (2 - (sent[c] % 2)) :
           /\ inbox' = [inbox EXCEPT ![c] = @ \o SubSeq(pieces, 1, n)]
           /\ sent' = [sent EXCEPT ![c] = @ + n]
      /\ Wake(c)
      /\ UNCHANGED <<server, fdNum, batch, answering, peer, reads, answers, backlog,
                     held, interest>>

Leave(c) ==
  /\ peer[c] = "open"
  /\ peer' \in {[peer EXCEPT ![c] = "closed"], [peer EXCEPT ![c] = "reset"]}
  /\ Wake(c)
  /\ UNCHANGED <<server, fdNum, batch, answering, reads, sent, answers, backlog,
                 held, inbox, interest>>

StopReading(c) ==
  /\ peer[c] = "open" /\ reads[c]
  /\ reads' = [reads EXCEPT ![c] = FALSE]
  /\ UNCHANGED <<server, fdNum, batch, answering, peer, sent, answers, backlog,
                 held, inbox, epoll>>

Browser(c) == Connect(c) \/ Send(c) \/ Leave(c) \/ StopReading(c)

--------------------------------------------------------------------------------
(* The loop of Communicate.                                                    *)

\* PollEvent: what each of the ready descriptors shows now, with the first that
\* applies of closed, readable and writable. An edge, and what is not there
\* any more, leaves the list.
Mask(fd) == IF "hup" \in Reports(fd) THEN "IoClosed"
            ELSE IF "in" \in Reports(fd) THEN "IoReadable" ELSE "IoWritable"
PollEvent ==
  /\ batch = <<>>
  /\ LET fds == {fd \in Fds : Reported(fd)}
     IN  /\ fds # {}
         /\ \E order \in SetToSeqs(fds) :
              batch' = [i \in DOMAIN order |-> [fd |-> order[i], mask |-> Mask(order[i])]]
         /\ ready' = [fd \in Fds |-> fd \in fds /\ "et" \notin interest[fd]]
         /\ interest' = [fd \in Fds |->
              IF fd \in fds /\ "oneshot" \in interest[fd]
                THEN interest[fd] \cup {"disarmed"} ELSE interest[fd]]
  /\ UNCHANGED <<server, fdNum, answering, browser, answers, backlog, held, inbox>>

Handles(mask) == batch # <<>> /\ ~answering /\ Head(batch).mask = mask
Handled == batch' = Tail(batch)
Current == Head(batch).fd

\* One accept for each event of the listener. A connection beyond the 255th is
\* not watched, and nobody is told.
Accept ==
  /\ batch # <<>> /\ Current = Listener
  /\ LET c == Head(backlog)
     IN  /\ held' = [held EXCEPT ![c] = TRUE]
         /\ IF fdNum >= MaxEventNum THEN UNCHANGED <<fdNum, epoll>>
            ELSE /\ fdNum' = fdNum + 1
                 /\ \E junk \in JunkBits :
                      /\ interest' = [interest EXCEPT ![c] = Added(junk)]
                      /\ ready' = [ready EXCEPT ![c] = TRUE]
  /\ backlog' = Tail(backlog)
  /\ Handled
  /\ UNCHANGED <<server, answering, browser, answers, inbox>>

\* Faulty ClearEvent: it returns before the close.
ClearNothing(c) == UNCHANGED <<held, epoll>>

ClearEvent(c) ==
  /\ held' = [held EXCEPT ![c] = FALSE]
  /\ interest' = [interest EXCEPT ![c] = {}]
  /\ ready' = [ready EXCEPT ![c] = FALSE]

\* recv takes in all there is. Nothing: ClearEvent, and the deleted content is
\* asked for its descriptor, through what the allocator left of its socket_. A
\* piece of a request is not parsed, or parsed as a request of its own; what
\* cannot be parsed ends the server, and so does what a recv that failed leaves
\* in the buffer.
Readable ==
  /\ Handles("IoReadable") /\ Current # Listener
  /\ LET c == Current
         text == inbox[c]
     IN  /\ inbox' = [inbox EXCEPT ![c] = <<>>]
         /\ \/ /\ text = <<>> /\ peer[c] = "closed"
               /\ ClearEvent(c)
               /\ server' \in {"up", "down"}
               /\ Handled /\ UNCHANGED answering
            \/ /\ text # <<>> /\ Head(text) = "head"
               /\ answering' = TRUE
               /\ UNCHANGED <<server, batch, held, epoll>>
            \/ /\ text # <<"head", "tail">> /\ ~(text = <<>> /\ peer[c] = "closed")
               /\ server' = "down"
               /\ UNCHANGED <<answering, batch, held, epoll>>
  /\ UNCHANGED <<fdNum, browser, answers, backlog>>

\* SendHead, SendFileSize and SendFile wait for a browser that does not read.
\* Sending to one that has gone may raise SIGPIPE, and makes the connection reset.
Answer ==
  /\ answering
  /\ LET c == Current
     IN  IF peer[c] = "open"
           THEN /\ reads[c]
                /\ answers' = [answers EXCEPT ![c] = @ + 1]
                /\ UNCHANGED <<server, peer>>
           ELSE /\ server' \in {"up", "down"}
                /\ peer' \in {peer, [peer EXCEPT ![c] = "reset"]}
                /\ UNCHANGED answers
  /\ SetEvent(Current, "out")
  /\ answering' = FALSE
  /\ Handled
  /\ UNCHANGED <<fdNum, reads, sent, backlog, held, inbox>>

\* Faulty Writable: the connection is left as it is.
WritableKept ==
  /\ Handles("IoWritable")
  /\ Handled
  /\ UNCHANGED <<server, fdNum, answering, browser, answers, backlog, held, inbox, epoll>>

Writable ==
  /\ Handles("IoWritable")
  /\ SetEvent(Current, "in")
  /\ Handled
  /\ UNCHANGED <<server, fdNum, answering, browser, answers, backlog, held, inbox>>

\* Nothing is done about a connection that was reset.
IoClosed ==
  /\ Handles("IoClosed")
  /\ Handled
  /\ UNCHANGED <<server, fdNum, answering, browser, answers, backlog, held, inbox, epoll>>

EventLoop ==
  PollEvent \/ Accept \/ Readable \/ Answer \/ Writable \/ IoClosed

\* What browsers do when the server is down makes no difference any more.
Next == server = "up" /\ (EventLoop \/ \E c \in Clients : Browser(c))
Spec == Init /\ [][Next]_vars /\ WF_vars(server = "up" /\ EventLoop)

--------------------------------------------------------------------------------
(* Properties.                                                                 *)

\* While the loop waits, epoll has what came in on a connection on its list,
\* whenever it came: between the request and the page, while the connection was
\* watched for room only, or while the bits of AddEvent were in force. Only a
\* reset is reported once and forgotten (SetEvent, EventLoop).
NoLostEdge ==
  server = "up" /\ batch = <<>> =>
    \A c \in Clients :
      interest[c] # {} /\ reads[c] /\ peer[c] # "reset" /\ "in" \in Conditions(c) =>
        Reported(c)

\* A browser that does not read holds the loop.
Stalled == answering /\ peer[Current] = "open" /\ ~reads[Current]

\* The server does not hear of a connection: while it waits in the backlog, of a
\* listener that was not added or is reported by its edges or its first event
\* only; once it is accepted, because too many were watched before.
Unheard(c) ==
  IF held[c] THEN interest[c] = {}
  ELSE interest[Listener] \cap {"et", "oneshot"} # {} \/ interest[Listener] = {}

\* Each request of a browser that waits for its page is answered, however it was
\* cut, unless the cut brings the server down (EventLoop).
Due(c) == peer[c] = "open" /\ reads[c] /\ sent[c] = 2 * (answers[c] + 1)
AnsweredUnlessStalled ==
  \A c \in Clients :
    [](Due(c) => <>(~Due(c) \/ server = "down" \/ Unheard(c) \/ []Stalled))

\* The descriptor of a connection that was closed is given back, unless the
\* connection was reset meanwhile (ClearEvent).
ClosedIsReleased ==
  \A c \in Clients :
    [](peer[c] = "closed" /\ held[c] =>
         <>(~held[c] \/ peer[c] = "reset" \/ server = "down" \/ Unheard(c) \/ []Stalled))

================================================================================
