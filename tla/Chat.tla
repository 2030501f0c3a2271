-------------------------------- MODULE Chat ---------------------------------
(***************************************************************************)
(* The chat server of single_fs/chat.  Two threads share a bounded queue   *)
(* of tasks, one bounded packet queue per connection and the registry of   *)
(* logged-in users:                                                        *)
(*   - the CommunicateLoop thread receives requests and queues a task for  *)
(*     each, sends the queued packets, and destroys closed connections;    *)
(*   - ChatProcess takes the tasks and does the logins and the messages.   *)
(* Both queues are the BoundedFifo that TaskQueue implements.  An EndPoint *)
(* is its connection; a request is a record; the text of a message is left *)
(* out.  Memory is never reused: an EndPoint, once deleted, stays so.      *)
(***************************************************************************)
EXTENDS Naturals, Sequences, FiniteSets

CONSTANTS EndPoints,    \* the connections
          Users,        \* user names; "world" is not one of them
          LoginNames,   \* the names the client of each connection logs in as
          Closers,      \* the connections whose client may close
          MaxRequests,  \* bound: requests made by all clients together
          TaskLimit,    \* limit_ of the task queue
          OutLimit,     \* limit_ of every packet_queue_
          None          \* NULL

ASSUME ChatAssumption ==
  /\ LoginNames \in [EndPoints -> SUBSET Users]
  /\ Closers \subseteq EndPoints
  /\ MaxRequests \in Nat
  /\ TaskLimit \in Nat \ {0} /\ OutLimit \in Nat \ {0}
  /\ "world" \notin Users
  /\ None \notin EndPoints \union Users

Request ==
  [req : {"LOGIN"}, name : Users] \union
  [req : {"SEND_MSG"}, name : Users \union {"world"}]

VARIABLES
  open,      \* the connections whose client has not closed
  inbound,   \* requests sent to the server and not yet received, per connection
  made,      \* requests made so far
  alive,     \* the EndPoints not yet deleted
  tasks,     \* task_queue_
  out,       \* packet_queue_ of each connection: the receivers' names
  userConn,  \* user_connections_
  connUser,  \* connection_users_
  mutex,     \* who holds cthread_mutex_
  loop,      \* where the loop thread is
  conn,      \* the connection the loop thread is handling
  batch,     \* complete requests in its recv_buffer_
  chat,      \* where ChatProcess is
  job,       \* the task ChatProcess is working on
  target,    \* the EndPoint SendToOne looked up
  rest       \* the connections sendToAllUser has still to serve

clientVars == <<open, made>>
loopVars == <<loop, conn, batch>>
chatVars == <<chat, job, target, rest>>
registry == <<userConn, connUser>>
vars == <<clientVars, inbound, alive, tasks, out, registry, mutex, loopVars, chatVars>>

Init ==
  /\ open = EndPoints
  /\ inbound = [e \in EndPoints |-> <<>>]
  /\ made = 0
  /\ alive = EndPoints
  /\ tasks = <<>>
  /\ out = [e \in EndPoints |-> <<>>]
  /\ userConn = [u \in Users |-> None]
  /\ connUser = [e \in EndPoints |-> None]
  /\ mutex = None
  /\ loop = "wait" /\ conn = None /\ batch = <<>>
  /\ chat = "pop" /\ job = None /\ target = None /\ rest = {}
-----------------------------------------------------------------------------
(* The clients. *)

\* Login or SendMessage of a chat client.
ClientSend(e, r) ==
  /\ e \in open
  /\ made < MaxRequests
  /\ r.req = "LOGIN" => r.name \in LoginNames[e]
  /\ made' = made + 1
  /\ inbound' = [inbound EXCEPT ![e] = Append(@, r)]
  /\ UNCHANGED <<open, alive, tasks, out, registry, mutex, loopVars, chatVars>>

ClientClose(e) ==
  /\ e \in open \intersect Closers
  /\ open' = open \ {e}
  /\ UNCHANGED <<made, inbound, alive, tasks, out, registry, mutex, loopVars, chatVars>>

Client(e) == (\E r \in Request : ClientSend(e, r)) \/ ClientClose(e)
-----------------------------------------------------------------------------
(* The CommunicateLoop thread. *)

\* epoll_wait reports EPOLLIN: requests have come, or the client has closed.
LoopInput(e) ==
  /\ loop = "wait"
  /\ e \in alive
  /\ inbound[e] # <<>> \/ e \notin open
  /\ loop' = "recv"
  /\ conn' = e
  /\ UNCHANGED <<clientVars, inbound, alive, tasks, out, registry, mutex, batch, chatVars>>

\* recv: data, the end of the stream (the destructor runs), or EAGAIN.
LoopRecv ==
  /\ loop = "recv"
  /\ batch' = inbound[conn]
  /\ inbound' = [inbound EXCEPT ![conn] = <<>>]
  /\ loop' = IF inbound[conn] # <<>> THEN "chunk"
             ELSE IF conn \notin open THEN "close" ELSE "wait"
  /\ UNCHANGED <<clientVars, alive, tasks, out, registry, mutex, conn, chatVars>>

\* OnReceived queues a task for the next packet; Push blocks on a full queue.
LoopPush ==
  /\ loop = "chunk"
  /\ batch # <<>>
  /\ Len(tasks) < TaskLimit
  /\ tasks' = Append(tasks, [request |-> Head(batch), end_point |-> conn])
  /\ batch' = Tail(batch)
  /\ UNCHANGED <<clientVars, inbound, alive, out, registry, mutex, loop, conn, chatVars>>

LoopBatchDone ==
  /\ loop = "chunk"
  /\ batch = <<>>
  /\ loop' = "recv"
  /\ UNCHANGED <<clientVars, inbound, alive, tasks, out, registry, mutex, conn, batch, chatVars>>

\* Faulty LoopRemoveUser: connection_users_ keeps its entry.
LoopRemoveName ==
  /\ loop = "close"
  /\ mutex = None
  /\ userConn' = IF connUser[conn] # None
                   THEN [userConn EXCEPT ![connUser[conn]] = None] ELSE userConn
  /\ loop' = "free"
  /\ UNCHANGED <<clientVars, inbound, alive, tasks, out, connUser, mutex, conn, batch, chatVars>>

\* OnClose: removeUser(end_point), under the mutex.
LoopRemoveUser ==
  /\ loop = "close"
  /\ mutex = None
  /\ IF connUser[conn] # None
       THEN /\ userConn' = [userConn EXCEPT ![connUser[conn]] = None]
            /\ connUser' = [connUser EXCEPT ![conn] = None]
       ELSE UNCHANGED registry
  /\ loop' = "free"
  /\ UNCHANGED <<clientVars, inbound, alive, tasks, out, mutex, conn, batch, chatVars>>

\* The rest of the destructor: the queue and the EndPoint are deleted.
LoopFree ==
  /\ loop = "free"
  /\ alive' = alive \ {conn}
  /\ out' = [out EXCEPT ![conn] = <<>>]
  /\ loop' = "wait"
  /\ conn' = None
  /\ UNCHANGED <<clientVars, inbound, tasks, registry, mutex, batch, chatVars>>

\* EPOLLOUT: HandleOutput empties the packet queue.
LoopOutput(e) ==
  /\ loop = "wait"
  /\ e \in alive
  /\ out[e] # <<>>
  /\ out' = [out EXCEPT ![e] = <<>>]
  /\ UNCHANGED <<clientVars, inbound, alive, tasks, registry, mutex, loopVars, chatVars>>

Receive ==
  \/ \E e \in EndPoints : LoopInput(e)
  \/ LoopRecv \/ LoopPush \/ LoopBatchDone \/ LoopRemoveUser \/ LoopFree

Loop == Receive \/ \E e \in EndPoints : LoopOutput(e)
-----------------------------------------------------------------------------
(* ChatProcess. *)

\* Where Process goes for a request.
HandlerWithoutLogin(r) == IF r.name = "world" THEN "lock" ELSE "contains"   \* mutant
Handler(r) ==
  CASE r.req = "LOGIN" -> "login"
    [] r.req # "LOGIN" /\ r.name = "world" -> "lock"
    [] OTHER -> "contains"

\* Process: Pop(100) and dispatch on req_.
ChatPop ==
  /\ chat = "pop"
  /\ tasks # <<>>
  /\ job' = Head(tasks)
  /\ tasks' = Tail(tasks)
  /\ chat' = Handler(Head(tasks).request)
  /\ UNCHANGED <<clientVars, inbound, alive, out, registry, mutex, loopVars, target, rest>>

\* Login: addUser, under the mutex.
ChatLogin ==
  /\ chat = "login"
  /\ mutex = None
  /\ userConn' = [userConn EXCEPT ![job.request.name] = job.end_point]
  /\ connUser' = [connUser EXCEPT ![job.end_point] = job.request.name]
  /\ chat' = "pop"
  /\ UNCHANGED <<clientVars, inbound, alive, tasks, out, mutex, loopVars, job, target, rest>>

\* SendMessage: contains() reads the map without the mutex.
ChatContains ==
  /\ chat = "contains"
  /\ chat' = IF userConn[job.request.name] # None THEN "find" ELSE "pop"
  /\ UNCHANGED <<clientVars, inbound, alive, tasks, out, registry, mutex, loopVars, job, target, rest>>

\* Faulty ChatFind: the answer goes to the sender's EndPoint.
ChatFindSender ==
  /\ chat = "find"
  /\ mutex = None
  /\ target' = job.end_point
  /\ chat' = "send"
  /\ UNCHANGED <<clientVars, inbound, alive, tasks, out, registry, mutex, loopVars, job, rest>>

\* SendToOne: getEndPointByUser, under the mutex; NULL sends nothing.
ChatFind ==
  /\ chat = "find"
  /\ mutex = None
  /\ target' = userConn[job.request.name]
  /\ chat' = IF userConn[job.request.name] # None THEN "send" ELSE "pop"
  /\ UNCHANGED <<clientVars, inbound, alive, tasks, out, registry, mutex, loopVars, job, rest>>

\* SendToOne: AsyncSendPacket on the EndPoint found, without the mutex.
ChatSend ==
  /\ chat = "send"
  /\ target \in alive
  /\ Len(out[target]) < OutLimit
  /\ out' = [out EXCEPT ![target] = Append(@, job.request.name)]
  /\ target' = None
  /\ chat' = "pop"
  /\ UNCHANGED <<clientVars, inbound, alive, tasks, registry, mutex, loopVars, job, rest>>

\* sendToAllUser locks the mutex and keeps it until every copy is queued.
ChatLockAll ==
  /\ chat = "lock"
  /\ mutex = None
  /\ mutex' = "chat"
  /\ rest' = {e \in EndPoints : connUser[e] # None}
  /\ chat' = "all"
  /\ UNCHANGED <<clientVars, inbound, alive, tasks, out, registry, loopVars, job, target>>

ChatSendAll ==
  /\ chat = "all"
  /\ \E e \in rest \intersect alive :
       /\ Len(out[e]) < OutLimit
       /\ out' = [out EXCEPT ![e] = Append(@, "world")]
       /\ rest' = rest \ {e}
  /\ UNCHANGED <<clientVars, inbound, alive, tasks, registry, mutex, loopVars, chat, job, target>>

\* Faulty ChatUnlockAll: the mutex is not given back.
ChatUnlockAllKeeps ==
  /\ chat = "all"
  /\ rest = {}
  /\ chat' = "pop"
  /\ UNCHANGED <<clientVars, inbound, alive, tasks, out, registry, mutex, loopVars, job, target, rest>>

ChatUnlockAll ==
  /\ chat = "all"
  /\ rest = {}
  /\ mutex' = None
  /\ chat' = "pop"
  /\ UNCHANGED <<clientVars, inbound, alive, tasks, out, registry, loopVars, job, target, rest>>

ChatProcess ==
  \/ ChatPop \/ ChatLogin \/ ChatContains \/ ChatFind \/ ChatSend
  \/ ChatLockAll \/ ChatSendAll \/ ChatUnlockAll
-----------------------------------------------------------------------------
\* Nothing left to do: both threads poll their empty inputs.
Quiet ==
  /\ loop = "wait" /\ chat = "pop" /\ tasks = <<>>
  /\ made = MaxRequests
  /\ \A e \in alive : inbound[e] = <<>> /\ out[e] = <<>>
  /\ alive \subseteq open
  /\ UNCHANGED vars

Next == (\E e \in EndPoints : Client(e)) \/ Loop \/ ChatProcess \/ Quiet

Spec == Init /\ [][Next]_vars

\* Both threads keep running.  Nothing is assumed about EPOLLOUT events (see
\* NoStuckPacket of Connection), nor about the clients.
FairSpec == Spec /\ WF_vars(Receive) /\ WF_vars(ChatProcess)
-----------------------------------------------------------------------------
\* The two maps of the registry are inverse to each other: a name leads to the
\* connection that holds it, and a connection to a name that leads back to it.
RegistryAgrees ==
  /\ \A u \in Users : userConn[u] # None => connUser[userConn[u]] = u
  /\ \A e \in EndPoints : connUser[e] # None => userConn[connUser[e]] = e

\* addUser of a connection that has another name, or of a name that another
\* connection has.  Neither the server nor client_main refuses it.
SecondLogin ==
  /\ ChatLogin
  /\ \/ userConn[job.request.name] \notin {None, job.end_point}
     \/ connUser[job.end_point] \notin {None, job.request.name}

\* Only a second login makes the two maps disagree: no other step of the two
\* threads does, whatever closes and logs in meanwhile (addUser, removeUser).
AgreesUntilSecondLogin == [][RegistryAgrees /\ ~SecondLogin => RegistryAgrees']_vars

\* A private message is queued only on a connection whose client logged in
\* under the receiver's name.
PrivateStaysPrivate ==
  \A e \in EndPoints : \A n \in 1..Len(out[e]) :
    out[e][n] \in LoginNames[e] \union {"world"}

\* ChatProcess never touches the EndPoint of a released connection.
NoUseAfterRelease ==
  /\ chat = "send" => target \in alive
  /\ chat = "all" => rest \subseteq alive

\* ChatProcess waits for ever for room in a packet queue (or is stopped on
\* an EndPoint that was released).
HeldForEver == [](chat \in {"send", "all"})

\* A login that reached the server takes effect, under FairSpec, unless
\* ChatProcess is held for ever by a packet queue that is not emptied.
LoginTakesEffect ==
  \A e \in EndPoints : \A u \in Users :
    [] ((\E n \in 1..Len(inbound[e]) : inbound[e][n] = [req |-> "LOGIN", name |-> u])
          => <> (connUser[e] = u \/ HeldForEver))

\* communicate_loop.cpp:53: a connection that was closed is released.
ClosedIsReleased == \A e \in EndPoints : e \notin open ~> e \notin alive

\* It is, under FairSpec, unless ChatProcess is held for ever.
ReleasedUnlessHeld ==
  \A e \in EndPoints : [](e \notin open => <>(e \notin alive \/ HeldForEver))
=============================================================================
