------------------------------ MODULE HttpServer ------------------------------
(***************************************************************************)
(* The web server of http_server.1.1.0.  One thread accepts connections    *)
(* and pushes them into a bounded queue; the workers of HttpWorkFlow take  *)
(* them out, receive one request each, answer it and close.  The output of *)
(* a PHP page goes through a file in the directory Tmp() that is named     *)
(* after the second in which the request is handled.                       *)
(*                                                                         *)
(* The queue is the BoundedFifo of TaskQueue.tla: taskqueue.h has the same *)
(* Push and Pop.  A page stands for its file and for its contents; all PHP *)
(* outputs have the same length, so one written over another replaces it.  *)
(* Connections that are reset, and descriptors that run out, are left out. *)
(***************************************************************************)
EXTENDS Naturals, Sequences

CONSTANTS Clients,     \* each makes one connection
          Workers,     \* the threads of HttpWorkFlow
          Static,      \* the readable files that are not PHP pages, asked for
          Php,         \* the readable PHP pages
          Missing,     \* names that are asked for and do not exist
          Default,     \* default.html
          QueueLimit,  \* limit_ of the task queue, 100 in the code
          MaxSecond,   \* bound: the seconds that time(0) goes through
          None         \* NULL, or a file that is not there

Pages == Static \union Php \union {Default}
Seconds == 0..MaxSecond
File == [file : Clients, text : Pages \union {"empty"}]

ASSUME HttpAssumption ==
  /\ (Static \union {Default}) \intersect Php = {}
  /\ Missing \intersect Pages = {}
  /\ QueueLimit \in Nat \ {0} /\ MaxSecond \in Nat
  /\ None \notin Clients \union Pages /\ None \notin Seconds
  /\ \A f \in File : f # None

VARIABLES
  phase,    \* of each client: idle, open, sent, hungup, answered, closed
  page,     \* the page each client asks for
  backlog,  \* connections the kernel has and nobody has accepted
  trigger,  \* how epoll reports the listener: level, edge, once or not at all
  ready,    \* there is an edge, or the one report, to come
  held,     \* the connection the acceptor is pushing
  queue,    \* taskqueue_
  work,     \* where each worker is
  job,      \* the connection it serves
  out,      \* the file the PHP interpreter it started writes to
  now,      \* time(0)
  stamp,    \* the second in the name of its temporary file
  tmp,      \* the temporary file of each second: who created it, and its text
  uses,     \* history: how many requests took their file's name in each second
  length,   \* whose length each worker has sent as Content-Length
  body      \* what it has sent as the file

clientVars == <<phase, page>>
acceptorVars == <<backlog, trigger, ready, held>>
workerVars == <<work, job, out>>
diskVars == <<tmp, uses>>
answerVars == <<stamp, length, body>>
vars == <<clientVars, acceptorVars, queue, workerVars, now, diskVars, answerVars>>

\* AddEvent tests a counter nobody initialised, fd_num_, and adds nothing if that
\* is 255 or more: nobody looks at what it returns, and the listener is never
\* reported. Otherwise it or-s EPOLLIN and EPOLLOUT into an epoll_event nobody
\* initialised: EPOLLET and EPOLLONESHOT may be set or not.
Triggers == {"level", "edge", "once", "none"}

Init ==
  /\ phase = [c \in Clients |-> "idle"]
  /\ page = [c \in Clients |-> None]
  /\ backlog = <<>> /\ held = None
  /\ trigger \in Triggers /\ ready = (trigger = "once")
  /\ queue = <<>>
  /\ work = [w \in Workers |-> "pop"]
  /\ job = [w \in Workers |-> None]
  /\ out = [w \in Workers |-> None]
  /\ now = 0
  /\ stamp = [w \in Workers |-> None]
  /\ tmp = [s \in Seconds |-> None]
  /\ uses = [s \in Seconds |-> 0]
  /\ length = [w \in Workers |-> None]
  /\ body = [w \in Workers |-> None]
-----------------------------------------------------------------------------
(* The clients, and the clock. *)

Connect(c) ==
  /\ phase[c] = "idle"
  /\ phase' = [phase EXCEPT ![c] = "open"]
  /\ backlog' = Append(backlog, c)
  /\ ready' = (ready \/ trigger = "edge")
  /\ UNCHANGED <<page, trigger, held, queue, workerVars, now, diskVars, answerVars>>

Request(c, p) ==
  /\ phase[c] = "open"
  /\ phase' = [phase EXCEPT ![c] = "sent"]
  /\ page' = [page EXCEPT ![c] = p]
  /\ UNCHANGED <<acceptorVars, queue, workerVars, now, diskVars, answerVars>>

HangUp(c) ==
  /\ phase[c] = "open"
  /\ phase' = [phase EXCEPT ![c] = "hungup"]
  /\ UNCHANGED <<page, acceptorVars, queue, workerVars, now, diskVars, answerVars>>

Client(c) ==
  Connect(c) \/ HangUp(c) \/ \E p \in Static \union Php \union Missing : Request(c, p)

Tick ==
  /\ now < MaxSecond
  /\ now' = now + 1
  /\ UNCHANGED <<clientVars, acceptorVars, queue, workerVars, diskVars, answerVars>>
-----------------------------------------------------------------------------
(* The acceptor. *)

\* EventLoop: one accept for every time epoll_wait reports the listener.
Accept ==
  /\ held = None
  /\ backlog # <<>>
  /\ trigger = "level" \/ ready
  /\ ready' = FALSE
  /\ held' = Head(backlog)
  /\ backlog' = Tail(backlog)
  /\ UNCHANGED <<clientVars, trigger, queue, workerVars, now, diskVars, answerVars>>

\* Faulty Push: a full queue drops the connection.
PushOrDrop ==
  /\ held # None
  /\ queue' = IF Len(queue) < QueueLimit THEN Append(queue, held) ELSE queue
  /\ held' = None
  /\ UNCHANGED <<clientVars, backlog, trigger, ready, workerVars, now, diskVars, answerVars>>

\* TaskQueue::Push, which blocks while the queue is full.
Push ==
  /\ held # None
  /\ Len(queue) < QueueLimit
  /\ queue' = Append(queue, held)
  /\ held' = None
  /\ UNCHANGED <<clientVars, backlog, trigger, ready, workerVars, now, diskVars, answerVars>>
-----------------------------------------------------------------------------
(* A worker: Process and Response. *)

Goto(w, label) == work' = [work EXCEPT ![w] = label]

Pop(w) ==
  /\ work[w] = "pop"
  /\ queue # <<>>
  /\ job' = [job EXCEPT ![w] = Head(queue)]
  /\ queue' = Tail(queue)
  /\ Goto(w, "recv")
  /\ UNCHANGED <<clientVars, acceptorVars, out, now, diskVars, answerVars>>

\* What is served for a name: the file, or default.html.
Served(p) == IF p \in Pages THEN p ELSE Default

\* recv on a blocking socket finds the end of the stream.
RecvEnd(w) ==
  /\ work[w] = "recv"
  /\ phase[job[w]] = "hungup"
  /\ Goto(w, "close")
  /\ UNCHANGED <<clientVars, acceptorVars, queue, job, out, now, diskVars, answerVars>>

\* It finds the request; the temporary file of a PHP page gets the second's name.
RecvRequest(w) ==
  /\ work[w] = "recv"
  /\ phase[job[w]] = "sent"
  /\ IF Served(page[job[w]]) \in Php
       THEN /\ stamp' = [stamp EXCEPT ![w] = now]
            /\ uses' = [uses EXCEPT ![now] = @ + 1]
            /\ Goto(w, "create")
       ELSE UNCHANGED <<stamp, uses>> /\ Goto(w, "size")
  /\ UNCHANGED <<clientVars, acceptorVars, queue, job, out, now, tmp, length, body>>

\* GenerateSendFile: the shell creates or truncates the temporary file ...
CreateFile(w) ==
  LET s == stamp[w]
      file == IF tmp[s] = None THEN job[w] ELSE tmp[s].file
  IN  /\ work[w] = "create"
      /\ tmp' = [tmp EXCEPT ![s] = [file |-> file, text |-> "empty"]]
      /\ out' = [out EXCEPT ![w] = file]
      /\ Goto(w, "php")
      /\ UNCHANGED <<clientVars, acceptorVars, queue, job, now, uses, answerVars>>

\* ... and php writes the page into it; nobody can read it if it was removed.
RunPhp(w) ==
  LET s == stamp[w]
      linked == tmp[s] # None /\ tmp[s].file = out[w]
  IN  /\ work[w] = "php"
      /\ tmp' = IF linked THEN [tmp EXCEPT ![s].text = page[job[w]]] ELSE tmp
      /\ out' = [out EXCEPT ![w] = None]
      /\ Goto(w, "size")
      /\ UNCHANGED <<clientVars, acceptorVars, queue, job, now, uses, answerVars>>

\* Faulty OnDisk: the path is built from time(0) again.
OnDiskNow(w) ==
  IF stamp[w] = None THEN Served(page[job[w]])
  ELSE IF tmp[now] = None THEN None
  ELSE tmp[now].text

\* What the path of the file to send leads to now.
OnDisk(w) ==
  IF stamp[w] = None THEN Served(page[job[w]])
  ELSE IF tmp[stamp[w]] = None THEN None
  ELSE tmp[stamp[w]].text

\* SendHead, then SendFileSize; nothing is sent when stat fails.
SendFileSize(w) ==
  /\ work[w] = "size"
  /\ length' = [length EXCEPT ![w] = OnDisk(w)]
  /\ Goto(w, "file")
  /\ UNCHANGED <<clientVars, acceptorVars, queue, job, out, now, diskVars, stamp, body>>

\* SendFile; nothing is sent when open fails.
SendFile(w) ==
  /\ work[w] = "file"
  /\ body' = [body EXCEPT ![w] = OnDisk(w)]
  /\ Goto(w, IF stamp[w] = None THEN "close" ELSE "remove")
  /\ UNCHANGED <<clientVars, acceptorVars, queue, job, out, now, diskVars, stamp, length>>

\* Faulty SafeRemoveFile: the name is built again from time(0).
RemoveNow(w) ==
  /\ work[w] = "remove"
  /\ tmp' = [tmp EXCEPT ![now] = None]
  /\ Goto(w, "close")
  /\ UNCHANGED <<clientVars, acceptorVars, queue, job, out, now, uses, answerVars>>

SafeRemoveFile(w) ==
  /\ work[w] = "remove"
  /\ tmp' = [tmp EXCEPT ![stamp[w]] = None]
  /\ Goto(w, "close")
  /\ UNCHANGED <<clientVars, acceptorVars, queue, job, out, now, uses, answerVars>>

Close(w) ==
  /\ work[w] = "close"
  /\ phase' = [phase EXCEPT ![job[w]] = IF @ = "sent" THEN "answered" ELSE "closed"]
  /\ page' = [page EXCEPT ![job[w]] = None]
  /\ job' = [job EXCEPT ![w] = None]
  /\ stamp' = [stamp EXCEPT ![w] = None]
  /\ length' = [length EXCEPT ![w] = None]
  /\ body' = [body EXCEPT ![w] = None]
  /\ Goto(w, "pop")
  /\ UNCHANGED <<acceptorVars, queue, out, now, diskVars>>

Worker(w) ==
  \/ Pop(w) \/ RecvEnd(w) \/ RecvRequest(w) \/ CreateFile(w) \/ RunPhp(w)
  \/ SendFileSize(w) \/ SendFile(w) \/ SafeRemoveFile(w) \/ Close(w)

Next ==
  \/ \E c \in Clients : Client(c)
  \/ Tick \/ Accept \/ Push
  \/ \E w \in Workers : Worker(w)

Spec == Init /\ [][Next]_vars

\* The threads of the server keep running; clients and clock need not.
FairSpec ==
  Spec /\ WF_vars(Accept) /\ WF_vars(Push) /\ \A w \in Workers : WF_vars(Worker(w))
-----------------------------------------------------------------------------
\* The type of every variable.
TypeOK ==
  /\ phase \in [Clients -> {"idle", "open", "sent", "hungup", "answered", "closed"}]
  /\ page \in [Clients -> Pages \union Missing \union {None}]
  /\ backlog \in Seq(Clients) /\ trigger \in Triggers /\ ready \in BOOLEAN
  /\ held \in Clients \union {None}
  /\ queue \in Seq(Clients) /\ Len(queue) <= QueueLimit
  /\ work \in [Workers -> {"pop", "recv", "create", "php", "size", "file",
                           "remove", "close"}]
  /\ job \in [Workers -> Clients \union {None}]
  /\ out \in [Workers -> Clients \union {None}]
  /\ now \in Seconds
  /\ stamp \in [Workers -> Seconds \union {None}]
  /\ tmp \in [Seconds -> File \union {None}]
  /\ uses \in [Seconds -> Nat]
  /\ length \in [Workers -> Pages \union {"empty", None}]
  /\ body \in [Workers -> Pages \union {"empty", None}]

\* Each client gets the page it asked for, or default.html, under its own
\* length; a PHP page may come out otherwise only if another PHP request was
\* handled in the same second.
WrongOnlyIfShared ==
  \A w \in Workers :
    work[w] = "close" /\ phase[job[w]] = "sent" =>
      \/ length[w] = Served(page[job[w]]) /\ body[w] = Served(page[job[w]])
      \/ stamp[w] # None /\ uses[stamp[w]] > 1

\* A temporary file has a worker that will remove it, also when two workers
\* write, send and remove the same one in any order.
NoLeftovers ==
  \A s \in Seconds :
    tmp[s] # None =>
      \E w \in Workers : stamp[w] = s /\ work[w] \in {"php", "size", "file", "remove"}

\* A worker waits for a request that has not been sent.
Waits(w) == work[w] = "recv" /\ phase[job[w]] = "open"

\* Every request is answered, under FairSpec, if the listener came out level-
\* triggered and unless silent connections hold every worker for ever.
AnsweredUnlessHeld ==
  \A c \in Clients :
    [](phase[c] = "sent" /\ trigger = "level" =>
         <>(phase[c] = "answered" \/ [](\A w \in Workers : Waits(w))))
=============================================================================
