------------------------------ MODULE ChatProofs -----------------------------
(***************************************************************************)
(* Proofs about Chat for any number of connections, names and requests and *)
(* any capacities: a private message stays private whatever names clients  *)
(* log in as, and the two maps of the registry stay inverse to each other  *)
(* until a second login under a name, or of a connection.                  *)
(***************************************************************************)
EXTENDS Chat, TLAPS, SequenceTheorems

\* What the client of e may ask for, and the task made of it.
RequestOf(e) == [req : {"LOGIN"}, name : LoginNames[e]] \union
                [req : {"SEND_MSG"}, name : Users \union {"world"}]
Task == {t \in [request : Request, end_point : EndPoints] :
           t.request \in RequestOf(t.end_point)}

\* Where the requests of a client go, a login keeps to the names of that client.
Requests ==
  /\ inbound \in [EndPoints -> Seq(Request)]
  /\ \A e \in EndPoints : inbound[e] \in Seq(RequestOf(e))
  /\ loop \in {"wait", "recv", "chunk", "close", "free"}
  /\ loop # "wait" => conn \in EndPoints
  /\ loop = "chunk" => batch \in Seq(RequestOf(conn))
  /\ tasks \in Seq(Task)

\* ChatProcess is where the request sends it, and SendToOne has found a
\* connection that logged in under the receiver's name.
Process ==
  /\ chat \in {"pop", "login", "contains", "find", "send", "lock", "all"}
  /\ chat # "pop" => job \in Task
  /\ chat = "login" => job.request.req = "LOGIN"
  /\ chat \in {"contains", "find", "send"} => job.request.name \in Users
  /\ chat = "send" => target \in EndPoints /\ job.request.name \in LoginNames[target]
  /\ rest \subseteq EndPoints

\* The registry holds connections by names that are theirs.
Registry ==
  /\ userConn \in [Users -> EndPoints \union {None}]
  /\ connUser \in [EndPoints -> Users \union {None}]
  /\ \A u \in Users : userConn[u] # None => u \in LoginNames[userConn[u]]

\* And so are the messages in the queue of a connection.
Outgoing ==
  /\ out \in [EndPoints -> Seq(Users \union {"world"})]
  /\ \A e \in EndPoints : out[e] \in Seq(LoginNames[e] \union {"world"})

\* The inductive invariant.
IInv == Requests /\ Process /\ Registry /\ Outgoing

-----------------------------------------------------------------------------
LEMMA RequestFacts ==
  ASSUME NEW e \in EndPoints, NEW r \in RequestOf(e)
  PROVE  /\ r.req = "LOGIN" => r.name \in LoginNames[e]
         /\ r.req = "LOGIN" => r.name \in Users
         /\ r.req # "LOGIN" /\ r.name # "world" => r.name \in Users
BY ChatAssumption DEF RequestOf

LEMMA RequestIsOf ==
  ASSUME NEW e \in EndPoints, NEW r \in Request, r.req = "LOGIN" => r.name \in LoginNames[e]
  PROVE  r \in RequestOf(e)
BY DEF RequestOf, Request

LEMMA RequestOfIsRequest ==
  ASSUME NEW e \in EndPoints
  PROVE  RequestOf(e) \subseteq Request
BY ChatAssumption DEF RequestOf, Request

LEMMA TaskIs ==
  ASSUME NEW e \in EndPoints, NEW r \in RequestOf(e)
  PROVE  [request |-> r, end_point |-> e] \in Task
BY RequestOfIsRequest DEF Task

LEMMA TaskFacts ==
  ASSUME NEW t \in Task
  PROVE  t.end_point \in EndPoints /\ t.request \in RequestOf(t.end_point)
BY DEF Task

LEMMA EmptySequence == ASSUME NEW S PROVE <<>> \in Seq(S)
OBVIOUS

LEMMA HandlerFacts ==
  ASSUME NEW t \in Task
  PROVE  /\ Handler(t.request) \in {"login", "contains", "lock"}
         /\ Handler(t.request) = "login" => t.request.req = "LOGIN"
         /\ Handler(t.request) = "contains" => t.request.name \in Users
<1>1. /\ t.request.req = "LOGIN" => t.request.name \in Users
      /\ t.request.req # "LOGIN" /\ t.request.name # "world" => t.request.name \in Users
  BY TaskFacts, RequestFacts
<1>2. CASE t.request.req = "LOGIN"
  BY <1>1, <1>2 DEF Handler
<1>3. CASE t.request.req # "LOGIN" /\ t.request.name = "world"
  BY <1>3 DEF Handler
<1>4. CASE t.request.req # "LOGIN" /\ t.request.name # "world"
  BY <1>1, <1>4 DEF Handler
<1>5. QED
  BY <1>2, <1>3, <1>4

LEMMA InitIInv == Init => IInv
<1>1. SUFFICES ASSUME Init PROVE IInv
  OBVIOUS
<1>2. Requests
  BY <1>1, EmptySequence DEF Init, Requests
<1>3. Process
  BY <1>1 DEF Init, Process
<1>4. Registry
  BY <1>1 DEF Init, Registry
<1>5. Outgoing
  BY <1>1, EmptySequence DEF Init, Outgoing
<1>6. QED
  BY <1>2, <1>3, <1>4, <1>5 DEF IInv
-----------------------------------------------------------------------------
(* The requests, from the clients to the task queue. *)

LEMMA ClientSendRequests ==
  ASSUME Requests, NEW e \in EndPoints, NEW r \in Request, ClientSend(e, r)
  PROVE  Requests'
<1>1. r \in RequestOf(e)
  BY RequestIsOf DEF ClientSend
<1>2. inbound' = [inbound EXCEPT ![e] = Append(inbound[e], r)]
  BY DEF ClientSend
<1>3. /\ Append(inbound[e], r) \in Seq(RequestOf(e))
      /\ Append(inbound[e], r) \in Seq(Request)
  BY <1>1, AppendProperties DEF Requests
<1>4. /\ inbound' \in [EndPoints -> Seq(Request)]
      /\ \A f \in EndPoints : inbound'[f] \in Seq(RequestOf(f))
  BY <1>2, <1>3 DEF Requests
<1>5. UNCHANGED <<tasks, loop, conn, batch>>
  BY DEF ClientSend, loopVars
<1>6. QED
  BY <1>4, <1>5 DEF Requests

LEMMA LoopRecvRequests ==
  ASSUME Requests, LoopRecv
  PROVE  Requests'
<1>1. conn \in EndPoints /\ conn' = conn /\ tasks' = tasks
  BY DEF LoopRecv, Requests
<1>2. batch' \in Seq(RequestOf(conn))
  BY <1>1 DEF LoopRecv, Requests
<1>3. inbound' = [inbound EXCEPT ![conn] = <<>>]
  BY DEF LoopRecv
<1>4. /\ inbound' \in [EndPoints -> Seq(Request)]
      /\ \A f \in EndPoints : inbound'[f] \in Seq(RequestOf(f))
  BY <1>1, <1>3, EmptySequence DEF Requests
<1>5. loop' \in {"chunk", "close", "wait"}
  BY DEF LoopRecv
<1>6. QED
  BY <1>1, <1>2, <1>4, <1>5 DEF Requests

LEMMA LoopPushRequests ==
  ASSUME Requests, LoopPush
  PROVE  Requests'
<1>1. /\ loop = "chunk" /\ loop' = loop
      /\ conn \in EndPoints /\ conn' = conn
      /\ inbound' = inbound
      /\ batch \in Seq(RequestOf(conn)) /\ batch # <<>>
      /\ tasks \in Seq(Task)
  BY DEF LoopPush, Requests
<1>2. /\ Head(batch) \in RequestOf(conn)
      /\ Tail(batch) \in Seq(RequestOf(conn))
  BY <1>1, HeadTailProperties
<1>3. [request |-> Head(batch), end_point |-> conn] \in Task
  BY <1>1, <1>2, TaskIs
<1>4. tasks' \in Seq(Task)
  BY <1>1, <1>3, AppendProperties DEF LoopPush
<1>5. batch' \in Seq(RequestOf(conn))
  BY <1>2 DEF LoopPush
<1>6. QED
  BY <1>1, <1>4, <1>5 DEF Requests

LEMMA ChatPopTask ==
  ASSUME Requests, ChatPop
  PROVE  job' \in Task /\ tasks' \in Seq(Task)
<1>1. tasks \in Seq(Task) /\ tasks # <<>>
  BY DEF Requests, ChatPop
<1>2. Head(tasks) \in Task /\ Tail(tasks) \in Seq(Task)
  BY <1>1, HeadTailProperties
<1>3. QED
  BY <1>2 DEF ChatPop

LEMMA NextRequests ==
  ASSUME Requests, Next
  PROVE  Requests'
<1>1. CASE UNCHANGED <<inbound, loop, conn, batch, tasks>>
  BY <1>1 DEF Requests
<1>2. CASE \E e \in EndPoints : Client(e)
  <2>1. PICK e \in EndPoints : Client(e)
    BY <1>2
  <2>2. CASE \E r \in Request : ClientSend(e, r)
    BY <2>2, ClientSendRequests
  <2>3. CASE ClientClose(e)
    BY <2>3, <1>1 DEF ClientClose, loopVars
  <2>4. QED
    BY <2>1, <2>2, <2>3 DEF Client
<1>3. CASE \E e \in EndPoints : LoopInput(e)
  BY <1>3 DEF LoopInput, Requests
<1>4. CASE LoopRecv
  BY <1>4, LoopRecvRequests
<1>5. CASE LoopPush
  BY <1>5, LoopPushRequests
<1>6. CASE LoopBatchDone
  BY <1>6 DEF LoopBatchDone, Requests
<1>7. CASE LoopRemoveUser
  BY <1>7 DEF LoopRemoveUser, Requests
<1>8. CASE LoopFree
  BY <1>8 DEF LoopFree, Requests
<1>9. CASE \E e \in EndPoints : LoopOutput(e)
  BY <1>9, <1>1 DEF LoopOutput, loopVars
<1>10. CASE ChatPop
  <2>1. tasks' \in Seq(Task)
    BY <1>10, ChatPopTask
  <2>2. UNCHANGED <<inbound, loop, conn, batch>>
    BY <1>10 DEF ChatPop, loopVars
  <2>3. QED
    BY <2>1, <2>2 DEF Requests
<1>11. CASE ChatProcess /\ ~ChatPop
  BY <1>11, <1>1
    DEF ChatProcess, ChatLogin, ChatContains, ChatFind, ChatSend, ChatLockAll,
        ChatSendAll, ChatUnlockAll, loopVars
<1>12. CASE Quiet
  BY <1>12, <1>1 DEF Quiet, vars, loopVars
<1>13. QED
  BY <1>2, <1>3, <1>4, <1>5, <1>6, <1>7, <1>8, <1>9, <1>10, <1>11, <1>12
    DEF Next, Loop, Receive
-----------------------------------------------------------------------------
(* ChatProcess, the registry and the packet queues. *)

LEMMA JobFacts ==
  ASSUME Process, chat # "pop"
  PROVE  /\ job \in Task
         /\ job.end_point \in EndPoints
         /\ chat = "login" => /\ job.request.name \in LoginNames[job.end_point]
                              /\ job.request.name \in Users
<1>1. job \in Task
  BY DEF Process
<1>2. job.end_point \in EndPoints /\ job.request \in RequestOf(job.end_point)
  BY <1>1, TaskFacts
<1>3. chat = "login" => job.request.req = "LOGIN"
  BY DEF Process
<1>4. QED
  BY <1>1, <1>2, <1>3, RequestFacts

LEMMA NextProcess ==
  ASSUME Requests, Process, Registry, Next
  PROVE  Process'
<1>1. CASE UNCHANGED <<chat, job, target, rest>>
  BY <1>1 DEF Process
<1>2. CASE (\E e \in EndPoints : Client(e)) \/ Loop \/ Quiet
  BY <1>2, <1>1
    DEF Client, ClientSend, ClientClose, Loop, Receive, LoopInput, LoopRecv, LoopPush,
        LoopBatchDone, LoopRemoveUser, LoopFree, LoopOutput, Quiet, vars, chatVars
<1>3. CASE ChatPop
  <2>1. Head(tasks) \in Task
    BY <1>3, HeadTailProperties DEF Requests, ChatPop
  <2>2. /\ chat' = Handler(Head(tasks).request)
        /\ job' = Head(tasks)
        /\ UNCHANGED <<target, rest>>
    BY <1>3 DEF ChatPop
  <2>3. /\ chat' \in {"login", "contains", "lock"}
        /\ chat' = "login" => job'.request.req = "LOGIN"
        /\ chat' = "contains" => job'.request.name \in Users
    BY <2>1, <2>2, HandlerFacts
  <2>4. rest' \subseteq EndPoints
    BY <2>2 DEF Process
  <2>5. QED
    BY <2>1, <2>2, <2>3, <2>4 DEF Process
<1>4. CASE ChatLogin
  BY <1>4 DEF ChatLogin, Process
<1>5. CASE ChatContains
  BY <1>5 DEF ChatContains, Process
<1>6. CASE ChatFind
  <2>1. /\ chat = "find" /\ job \in Task
        /\ job.request.name \in Users /\ rest \subseteq EndPoints
    BY <1>6 DEF ChatFind, Process
  <2>2. /\ target' = userConn[job.request.name]
        /\ UNCHANGED <<job, rest>>
        /\ chat' = IF target' # None THEN "send" ELSE "pop"
    BY <1>6 DEF ChatFind
  <2>3. target' # None => target' \in EndPoints /\ job.request.name \in LoginNames[target']
    BY <2>1, <2>2 DEF Registry
  <2>4. QED
    BY <2>1, <2>2, <2>3 DEF Process
<1>7. CASE ChatSend
  BY <1>7 DEF ChatSend, Process
<1>8. CASE ChatLockAll
  BY <1>8 DEF ChatLockAll, Process
<1>9. CASE ChatSendAll
  BY <1>9 DEF ChatSendAll, Process
<1>10. CASE ChatUnlockAll
  BY <1>10 DEF ChatUnlockAll, Process
<1>11. QED
  BY <1>2, <1>3, <1>4, <1>5, <1>6, <1>7, <1>8, <1>9, <1>10 DEF Next, ChatProcess

\* What logging in and removing a user do to the registry.
LEMMA LoginChanges ==
  ASSUME Process, ChatLogin
  PROVE  /\ job.end_point \in EndPoints
         /\ job.request.name \in Users
         /\ job.request.name \in LoginNames[job.end_point]
         /\ userConn' = [userConn EXCEPT ![job.request.name] = job.end_point]
         /\ connUser' = [connUser EXCEPT ![job.end_point] = job.request.name]
BY JobFacts DEF ChatLogin

LEMMA RemoveChanges ==
  ASSUME Requests, Registry, LoopRemoveUser
  PROVE  /\ conn \in EndPoints
         /\ \/ /\ connUser[conn] \in Users
               /\ userConn' = [userConn EXCEPT ![connUser[conn]] = None]
               /\ connUser' = [connUser EXCEPT ![conn] = None]
            \/ UNCHANGED <<userConn, connUser>>
<1>1. conn \in EndPoints
  BY DEF LoopRemoveUser, Requests
<1>2. connUser[conn] # None => connUser[conn] \in Users
  BY <1>1 DEF Registry
<1>3. QED
  BY <1>1, <1>2 DEF LoopRemoveUser, registry

\* Only these two steps change it.
LEMMA RegistrySteps ==
  ASSUME Next
  PROVE  ChatLogin \/ LoopRemoveUser \/ UNCHANGED <<userConn, connUser>>
BY DEF Next, Client, ClientSend, ClientClose, Loop, Receive, LoopInput, LoopRecv, LoopPush,
       LoopBatchDone, LoopFree, LoopOutput, ChatProcess, ChatPop, ChatContains, ChatFind,
       ChatSend, ChatLockAll, ChatSendAll, ChatUnlockAll, Quiet, vars, registry

LEMMA NextRegistry ==
  ASSUME Requests, Process, Registry, Next
  PROVE  Registry'
<1>1. CASE UNCHANGED <<userConn, connUser>>
  BY <1>1 DEF Registry
<1>2. CASE ChatLogin
  <2>1. /\ userConn' \in [Users -> EndPoints \union {None}]
        /\ connUser' \in [EndPoints -> Users \union {None}]
    BY <1>2, LoginChanges DEF Registry
  <2>2. \A u \in Users : userConn'[u] # None => u \in LoginNames[userConn'[u]]
    BY <1>2, LoginChanges DEF Registry
  <2>3. QED
    BY <2>1, <2>2 DEF Registry
<1>3. CASE LoopRemoveUser
  <2>1. CASE UNCHANGED <<userConn, connUser>>
    BY <2>1, <1>1
  <2>2. CASE /\ conn \in EndPoints
             /\ userConn' = [userConn EXCEPT ![connUser[conn]] = None]
             /\ connUser' = [connUser EXCEPT ![conn] = None]
    <3>1. /\ userConn' \in [Users -> EndPoints \union {None}]
          /\ connUser' \in [EndPoints -> Users \union {None}]
      BY <2>2 DEF Registry
    <3>2. \A u \in Users : userConn'[u] # None => u \in LoginNames[userConn'[u]]
      BY <2>2 DEF Registry
    <3>3. QED
      BY <3>1, <3>2 DEF Registry
  <2>3. QED
    BY <1>3, <2>1, <2>2, RemoveChanges
<1>4. QED
  BY <1>1, <1>2, <1>3, RegistrySteps

\* A message is appended to the queue of e under a name of its client.
LEMMA Queued ==
  ASSUME Outgoing, NEW e \in EndPoints, NEW n \in LoginNames[e] \union {"world"},
         out' = [out EXCEPT ![e] = Append(@, n)]
  PROVE  Outgoing'
<1>1. n \in Users \union {"world"}
  BY ChatAssumption
<1>2. /\ Append(out[e], n) \in Seq(Users \union {"world"})
      /\ Append(out[e], n) \in Seq(LoginNames[e] \union {"world"})
  BY <1>1, AppendProperties DEF Outgoing
<1>3. out' = [out EXCEPT ![e] = Append(out[e], n)]
  OBVIOUS
<1>4. /\ out' \in [EndPoints -> Seq(Users \union {"world"})]
      /\ \A f \in EndPoints : out'[f] \in Seq(LoginNames[f] \union {"world"})
  BY <1>2, <1>3 DEF Outgoing
<1>5. QED
  BY <1>4 DEF Outgoing

LEMMA Emptied ==
  ASSUME Outgoing, NEW e \in EndPoints, out' = [out EXCEPT ![e] = <<>>]
  PROVE  Outgoing'
BY EmptySequence DEF Outgoing

LEMMA NextOutgoing ==
  ASSUME Requests, Process, Outgoing, Next
  PROVE  Outgoing'
<1>1. CASE UNCHANGED out
  BY <1>1 DEF Outgoing
<1>2. CASE LoopFree
  BY <1>2, Emptied DEF LoopFree, Requests
<1>3. CASE \E e \in EndPoints : LoopOutput(e)
  BY <1>3, Emptied DEF LoopOutput
<1>4. CASE ChatSend
  <2>1. target \in EndPoints /\ job.request.name \in LoginNames[target]
    BY <1>4 DEF ChatSend, Process
  <2>2. out' = [out EXCEPT ![target] = Append(@, job.request.name)]
    BY <1>4 DEF ChatSend
  <2>3. QED
    BY <2>1, <2>2, Queued
<1>5. CASE ChatSendAll
  <2>1. PICK e \in rest \intersect alive : out' = [out EXCEPT ![e] = Append(@, "world")]
    BY <1>5 DEF ChatSendAll
  <2>2. e \in EndPoints
    BY DEF Process
  <2>3. QED
    BY <2>1, <2>2, Queued
<1>6. QED
  BY <1>1, <1>2, <1>3, <1>4, <1>5
    DEF Next, Client, ClientSend, ClientClose, Loop, Receive, LoopInput, LoopRecv, LoopPush,
        LoopBatchDone, LoopRemoveUser, ChatProcess, ChatPop, ChatLogin, ChatContains,
        ChatFind, ChatLockAll, ChatUnlockAll, Quiet, vars
-----------------------------------------------------------------------------
LEMMA Invariance == Spec => []IInv
<1>1. ASSUME IInv, [Next]_vars PROVE IInv'
  <2>1. CASE Next
    BY <1>1, <2>1, NextRequests, NextProcess, NextRegistry, NextOutgoing DEF IInv
  <2>2. CASE UNCHANGED vars
    <3>1. UNCHANGED <<inbound, tasks, out, userConn, connUser, loop, conn, batch,
                      chat, job, target, rest>>
      BY <2>2 DEF vars, registry, loopVars, chatVars
    <3>2. QED
      BY <1>1, <3>1 DEF IInv, Requests, Process, Registry, Outgoing
  <2>3. QED
    BY <1>1, <2>1, <2>2
<1>2. QED
  BY InitIInv, <1>1, PTL DEF Spec

\* Whatever names the clients log in as, more than one each or the same ones:
\* a private message is queued only on a connection that has the receiver's
\* name among its own (SendToOne, which sends after it has given up the mutex).
THEOREM PrivateMessages == Spec => []PrivateStaysPrivate
<1>1. IInv => PrivateStaysPrivate
  BY ElementOfSeq DEF IInv, Outgoing, PrivateStaysPrivate
<1>2. QED
  BY <1>1, Invariance, PTL

\* The first login under a name, of a connection that had none, or one that
\* says the same again.
LEMMA LoginAgrees ==
  ASSUME Process, Registry, RegistryAgrees, ChatLogin, ~SecondLogin
  PROVE  RegistryAgrees'
<1> DEFINE n == job.request.name
           c == job.end_point
<1>1. /\ c \in EndPoints /\ n \in Users
      /\ userConn' = [userConn EXCEPT ![n] = c]
      /\ connUser' = [connUser EXCEPT ![c] = n]
  BY LoginChanges
<1>2. userConn[n] \in {None, c} /\ connUser[c] \in {None, n}
  BY DEF SecondLogin
<1> HIDE DEF n, c
<1>3. ASSUME NEW u \in Users, userConn'[u] # None
      PROVE  connUser'[userConn'[u]] = u
  <2>1. CASE u = n
    BY <1>1, <2>1 DEF Registry
  <2>2. CASE u # n
    <3>1. /\ userConn'[u] = userConn[u] /\ userConn[u] \in EndPoints
          /\ connUser[userConn[u]] = u
      BY <1>1, <1>3, <2>2 DEF Registry, RegistryAgrees
    <3>2. userConn[u] # c
      BY <1>2, <2>2, <3>1, ChatAssumption
    <3>3. QED
      BY <1>1, <3>1, <3>2 DEF Registry
  <2>3. QED
    BY <2>1, <2>2
<1>4. ASSUME NEW e \in EndPoints, connUser'[e] # None
      PROVE  userConn'[connUser'[e]] = e
  <2>1. CASE e = c
    BY <1>1, <2>1 DEF Registry
  <2>2. CASE e # c
    <3>1. connUser'[e] = connUser[e] /\ connUser[e] \in Users
      BY <1>1, <1>4, <2>2 DEF Registry
    <3>2. userConn[connUser[e]] = e
      BY <1>4, <3>1 DEF RegistryAgrees
    <3>3. connUser[e] # n
      BY <1>2, <2>2, <3>2, ChatAssumption
    <3>4. QED
      BY <1>1, <3>1, <3>2, <3>3 DEF Registry
  <2>3. QED
    BY <2>1, <2>2
<1>5. QED
  BY <1>3, <1>4 DEF RegistryAgrees

LEMMA RemoveAgrees ==
  ASSUME Registry, RegistryAgrees,
         NEW e \in EndPoints, connUser[e] \in Users,
         userConn' = [userConn EXCEPT ![connUser[e]] = None],
         connUser' = [connUser EXCEPT ![e] = None]
  PROVE  RegistryAgrees'
<1> DEFINE n == connUser[e]
<1>1. ASSUME NEW u \in Users, userConn'[u] # None
      PROVE  connUser'[userConn'[u]] = u
  <2>1. u # n /\ userConn'[u] = userConn[u] /\ userConn[u] \in EndPoints
    BY <1>1 DEF Registry
  <2>2. connUser[userConn[u]] = u
    BY <1>1, <2>1 DEF RegistryAgrees
  <2>3. userConn[u] # e
    BY <2>1, <2>2
  <2>4. QED
    BY <2>1, <2>2, <2>3 DEF Registry
<1>2. ASSUME NEW f \in EndPoints, connUser'[f] # None
      PROVE  userConn'[connUser'[f]] = f
  <2>1. f # e /\ connUser'[f] = connUser[f] /\ connUser[f] \in Users
    BY <1>2 DEF Registry
  <2>2. userConn[connUser[f]] = f /\ userConn[n] = e
    BY <1>2, <2>1, ChatAssumption DEF RegistryAgrees
  <2>3. connUser[f] # n
    BY <2>1, <2>2
  <2>4. QED
    BY <2>1, <2>2, <2>3 DEF Registry
<1>3. QED
  BY <1>1, <1>2 DEF RegistryAgrees

\* Whatever names the clients log in as, a step that leaves the registry with two
\* maps that disagree is a second login (addUser, and removeUser of OnClose).
THEOREM OnlySecondLoginDisagrees == Spec => AgreesUntilSecondLogin
<1>1. ASSUME IInv, RegistryAgrees, ~SecondLogin, [Next]_vars PROVE RegistryAgrees'
  <2>1. CASE UNCHANGED <<userConn, connUser>>
    BY <1>1, <2>1 DEF RegistryAgrees
  <2>2. CASE ChatLogin
    BY <1>1, <2>2, LoginAgrees DEF IInv
  <2>3. CASE LoopRemoveUser
    <3>1. Requests /\ Registry
      BY <1>1 DEF IInv
    <3>2. QED
      BY <1>1, <2>1, <2>3, <3>1, RemoveChanges, RemoveAgrees
  <2>4. CASE UNCHANGED vars
    BY <2>1, <2>4 DEF vars, registry
  <2>5. QED
    BY <1>1, <2>1, <2>2, <2>3, <2>4, RegistrySteps
<1>2. IInv /\ [Next]_vars => [RegistryAgrees /\ ~SecondLogin => RegistryAgrees']_vars
  BY <1>1
<1>3. QED
  BY <1>2, Invariance, PTL DEF Spec, AgreesUntilSecondLogin

\* So the maps agree as long as every login that is made is a first one: of a name
\* nobody has, by a connection without a name.
THEOREM RegistryIsConsistent == Spec /\ [][~SecondLogin]_vars => []RegistryAgrees
<1>1. Init => RegistryAgrees
  BY ChatAssumption DEF Init, RegistryAgrees
<1>2. RegistryAgrees /\ UNCHANGED vars => RegistryAgrees'
  BY DEF RegistryAgrees, vars, registry
<1>3. QED
  BY <1>1, <1>2, OnlySecondLoginDisagrees, PTL DEF Spec, AgreesUntilSecondLogin
=============================================================================
