--------------------------- MODULE HttpServerProofs ---------------------------
(***************************************************************************)
(* Proofs about HttpServer for any clients, workers, pages and seconds and *)
(* any queue limit.                                                        *)
(***************************************************************************)
EXTENDS HttpServer, SequenceTheorems, TLAPS

-----------------------------------------------------------------------------
(* Facts about concatenation. *)

\* Appending to the queued part of a history is appending to the history.
LEMMA AppendToConcat ==
  ASSUME NEW S, NEW t \in Seq(S), NEW q \in Seq(S), NEW e \in S
  PROVE  Append(t \o q, e) = t \o Append(q, e)
<1>1. /\ t \o q \in Seq(S)
      /\ <<e>> \in Seq(S)
  BY ConcatProperties
<1>2. /\ Append(t \o q, e) = (t \o q) \o <<e>>
      /\ Append(q, e) = q \o <<e>>
  BY <1>1, AppendIsConcat
<1>3. QED
  BY <1>1, <1>2, ConcatAssociative

\* Moving the head of the second part to the end of the first changes nothing.
LEMMA MoveHead ==
  ASSUME NEW S, NEW t \in Seq(S), NEW q \in Seq(S), q # <<>>
  PROVE  t \o q = Append(t, Head(q)) \o Tail(q)
<1>1. /\ Head(q) \in S
      /\ Tail(q) \in Seq(S)
      /\ <<Head(q)>> \in Seq(S)
  BY HeadTailProperties
<1>2. q = <<Head(q)>> \o Tail(q)
  <2>1. Len(<<Head(q)>> \o Tail(q)) = Len(q)
    BY <1>1, ConcatProperties, HeadTailProperties, LenProperties
  <2>2. ASSUME NEW i \in 1..Len(q)
        PROVE  q[i] = (<<Head(q)>> \o Tail(q))[i]
    BY <1>1, ConcatProperties, HeadTailProperties, LenProperties
  <2>3. QED
    BY <1>1, <2>1, <2>2, ConcatProperties, SeqEqual
<1>3. Append(t, Head(q)) = t \o <<Head(q)>>
  BY <1>1, AppendIsConcat
<1>4. QED
  BY <1>1, <1>2, <1>3, ConcatAssociative, SMTT(30)

\* Removing the head of the first part removes the head of the whole.
LEMMA TailOfConcat ==
  ASSUME NEW S, NEW q \in Seq(S), NEW r \in Seq(S), q # <<>>
  PROVE  /\ q \o r # <<>>
         /\ Head(q \o r) = Head(q)
         /\ Tail(q \o r) = Tail(q) \o r
<1>1. /\ Tail(q) \in Seq(S) /\ Len(Tail(q)) = Len(q) - 1
      /\ q \o r \in Seq(S) /\ Len(q \o r) = Len(q) + Len(r)
      /\ Len(q) \in Nat \ {0} /\ Len(r) \in Nat
  BY HeadTailProperties, ConcatProperties, LenProperties, EmptySeq
<1>2. q \o r # <<>> /\ Head(q \o r) = Head(q)
  BY <1>1, ConcatProperties, HeadTailProperties, LenProperties
<1>3. /\ Tail(q \o r) \in Seq(S) /\ Len(Tail(q \o r)) = Len(q) - 1 + Len(r)
      /\ Tail(q) \o r \in Seq(S) /\ Len(Tail(q) \o r) = Len(q) - 1 + Len(r)
  BY <1>1, <1>2, HeadTailProperties, ConcatProperties
<1>4. ASSUME NEW i \in 1..Len(Tail(q \o r))
      PROVE  Tail(q \o r)[i] = (Tail(q) \o r)[i]
  <2>1. Tail(q \o r)[i] = (q \o r)[i + 1]
    BY <1>1, <1>2, <1>3, HeadTailProperties
  <2>2. CASE i <= Len(q) - 1
    BY <1>1, <1>3, <2>1, <2>2, ConcatProperties, HeadTailProperties
  <2>3. CASE i > Len(q) - 1
    BY <1>1, <1>3, <2>1, <2>3, ConcatProperties
  <2>4. QED
    BY <1>1, <1>3, <2>2, <2>3
<1>5. QED
  BY <1>2, <1>3, <1>4, SeqEqual

-----------------------------------------------------------------------------
(* The invariant. *)

\* The connections in the order in which they will be popped.
Held == IF held = None THEN <<>> ELSE <<held>>
Line == (queue \o Held) \o backlog

\* A connection is in one place: in the line once, or with one worker.
EachOnce ==
  /\ \A i, j \in 1..Len(Line) : Line[i] = Line[j] => i = j
  /\ \A i \in 1..Len(Line) :
       phase[Line[i]] # "idle" /\ \A w \in Workers : job[w] # Line[i]
  /\ \A w \in Workers : job[w] # None => phase[job[w]] # "idle"
  /\ \A v, w \in Workers : v # w /\ job[v] # None => job[v] # job[w]

\* Where a worker is, and what its connection and its request are.
Answering == {"create", "php", "size", "file", "remove"}
Serving ==
  \A w \in Workers :
    /\ work[w] = "pop" <=> job[w] = None
    /\ work[w] \in Answering => phase[job[w]] = "sent"
    /\ work[w] = "close" => phase[job[w]] \in {"sent", "hungup"}
    /\ stamp[w] # None => /\ work[w] \in Answering \union {"close"}
                          /\ phase[job[w]] = "sent"
                          /\ page[job[w]] \in Php
    /\ work[w] \in {"create", "php", "remove"} => stamp[w] # None

\* A second counts the workers whose file is named after it.
Counted ==
  /\ \A w \in Workers : stamp[w] # None => uses[stamp[w]] > 0
  /\ \A v, w \in Workers :
       v # w /\ stamp[v] # None /\ stamp[v] = stamp[w] => uses[stamp[v]] > 1

\* No other request was handled in the second that names the file of w.
Alone(w) == stamp[w] # None /\ uses[stamp[w]] = 1

\* Such a file holds the output of w's own php.
OwnFile ==
  \A w \in Workers : Alone(w) =>
    /\ work[w] = "php" => tmp[stamp[w]] # None /\ tmp[stamp[w]].file = out[w]
    /\ work[w] \in {"size", "file"} =>
         tmp[stamp[w]] # None /\ tmp[stamp[w]].text = page[job[w]]

\* What was sent so far is right, unless the file was shared.
Right(w, sent) ==
  stamp[w] = None \/ Alone(w) => sent = Served(page[job[w]])
SentRight ==
  \A w \in Workers :
    job[w] # None /\ phase[job[w]] = "sent" =>
      /\ work[w] \in {"file", "remove", "close"} => Right(w, length[w])
      /\ work[w] \in {"remove", "close"} => Right(w, body[w])

\* The inductive invariant.
IInv ==
  /\ TypeOK /\ EachOnce /\ Serving /\ Counted /\ NoLeftovers /\ OwnFile /\ SentRight
-----------------------------------------------------------------------------
(* The invariant holds initially and is preserved by every step. *)

\* The places of the workers.
LEMMA StepServing == IInv /\ [Next]_vars => Serving'
<1> SUFFICES ASSUME IInv, [Next]_vars PROVE Serving'
  OBVIOUS
<1> USE HttpAssumption DEF IInv, TypeOK, Serving, Answering, EachOnce, Served, Pages
<1>1. ASSUME NEW c \in Clients, Connect(c)
      PROVE  Serving'
  BY <1>1 DEF Connect, clientVars, acceptorVars, workerVars, diskVars, answerVars, vars
<1>2. ASSUME NEW c \in Clients, NEW p \in Static \union Php \union Missing, Request(c, p)
      PROVE  Serving'
  BY <1>2 DEF Request, clientVars, acceptorVars, workerVars, diskVars, answerVars, vars
<1>3. ASSUME NEW c \in Clients, HangUp(c)
      PROVE  Serving'
  BY <1>3 DEF HangUp, clientVars, acceptorVars, workerVars, diskVars, answerVars, vars
<1>4. ASSUME Tick
      PROVE  Serving'
  BY <1>4 DEF Tick, clientVars, acceptorVars, workerVars, diskVars, answerVars, vars
<1>5. ASSUME Accept
      PROVE  Serving'
  BY <1>5 DEF Accept, clientVars, acceptorVars, workerVars, diskVars, answerVars, vars
<1>6. ASSUME Push
      PROVE  Serving'
  BY <1>6 DEF Push, clientVars, acceptorVars, workerVars, diskVars, answerVars, vars
<1>7. ASSUME NEW w \in Workers, Pop(w)
      PROVE  Serving'
  BY <1>7 DEF Pop, Goto, clientVars, acceptorVars, workerVars, diskVars, answerVars, vars
<1>8. ASSUME NEW w \in Workers, RecvEnd(w)
      PROVE  Serving'
  BY <1>8 DEF RecvEnd, Goto, clientVars, acceptorVars, workerVars, diskVars, answerVars, vars
<1>9. ASSUME NEW w \in Workers, RecvRequest(w)
      PROVE  Serving'
  BY <1>9 DEF RecvRequest, Goto, clientVars, acceptorVars, workerVars, diskVars, answerVars, vars
<1>10. ASSUME NEW w \in Workers, CreateFile(w)
      PROVE  Serving'
  BY <1>10 DEF CreateFile, Goto, clientVars, acceptorVars, workerVars, diskVars, answerVars, vars
<1>11. ASSUME NEW w \in Workers, RunPhp(w)
      PROVE  Serving'
  BY <1>11 DEF RunPhp, Goto, clientVars, acceptorVars, workerVars, diskVars, answerVars, vars
<1>12. ASSUME NEW w \in Workers, SendFileSize(w)
      PROVE  Serving'
  BY <1>12 DEF SendFileSize, Goto, clientVars, acceptorVars, workerVars, diskVars, answerVars, vars
<1>13. ASSUME NEW w \in Workers, SendFile(w)
      PROVE  Serving'
  BY <1>13 DEF SendFile, Goto, clientVars, acceptorVars, workerVars, diskVars, answerVars, vars
<1>14. ASSUME NEW w \in Workers, SafeRemoveFile(w)
      PROVE  Serving'
  BY <1>14 DEF SafeRemoveFile, Goto, clientVars, acceptorVars, workerVars, diskVars, answerVars, vars
<1>15. ASSUME NEW w \in Workers, Close(w)
      PROVE  Serving'
  BY <1>15 DEF Close, Goto, clientVars, acceptorVars, workerVars, diskVars, answerVars, vars
<1>16. CASE UNCHANGED vars
  BY <1>16 DEF clientVars, acceptorVars, workerVars, diskVars, answerVars, vars
<1>17. QED
  BY <1>1, <1>2, <1>3, <1>4, <1>5, <1>6, <1>7, <1>8, <1>9, <1>10, <1>11, <1>12, <1>13, <1>14, <1>15, <1>16 DEF Next, Client, Worker

\* The count of each second.
LEMMA StepCounted == IInv /\ [Next]_vars => Counted'
<1> SUFFICES ASSUME IInv, [Next]_vars PROVE Counted'
  OBVIOUS
<1> USE HttpAssumption DEF IInv, TypeOK, Serving, Answering, Counted
<1>1. ASSUME NEW c \in Clients, Connect(c)
      PROVE  Counted'
  BY <1>1 DEF Connect, clientVars, acceptorVars, workerVars, diskVars, answerVars, vars
<1>2. ASSUME NEW c \in Clients, NEW p \in Static \union Php \union Missing, Request(c, p)
      PROVE  Counted'
  BY <1>2 DEF Request, clientVars, acceptorVars, workerVars, diskVars, answerVars, vars
<1>3. ASSUME NEW c \in Clients, HangUp(c)
      PROVE  Counted'
  BY <1>3 DEF HangUp, clientVars, acceptorVars, workerVars, diskVars, answerVars, vars
<1>4. ASSUME Tick
      PROVE  Counted'
  BY <1>4 DEF Tick, clientVars, acceptorVars, workerVars, diskVars, answerVars, vars
<1>5. ASSUME Accept
      PROVE  Counted'
  BY <1>5 DEF Accept, clientVars, acceptorVars, workerVars, diskVars, answerVars, vars
<1>6. ASSUME Push
      PROVE  Counted'
  BY <1>6 DEF Push, clientVars, acceptorVars, workerVars, diskVars, answerVars, vars
<1>7. ASSUME NEW w \in Workers, Pop(w)
      PROVE  Counted'
  BY <1>7 DEF Pop, Goto, clientVars, acceptorVars, workerVars, diskVars, answerVars, vars
<1>8. ASSUME NEW w \in Workers, RecvEnd(w)
      PROVE  Counted'
  BY <1>8 DEF RecvEnd, Goto, clientVars, acceptorVars, workerVars, diskVars, answerVars, vars
<1>9. ASSUME NEW w \in Workers, RecvRequest(w)
      PROVE  Counted'
  <2> USE <1>9 DEF RecvRequest, Goto, clientVars, acceptorVars, workerVars, diskVars, answerVars, vars
  <2>1. CASE Served(page[job[w]]) \in Php
    <3>1. /\ uses' = [uses EXCEPT ![now] = @ + 1] /\ stamp' = [stamp EXCEPT ![w] = now]
          /\ now \in Seconds /\ uses \in [Seconds -> Nat]
          /\ stamp \in [Workers -> Seconds \union {None}]
      BY <2>1
    <3>2. ASSUME NEW v \in Workers, stamp'[v] # None
          PROVE  uses'[stamp'[v]] > 0
      BY <3>1, <3>2
    <3>3. ASSUME NEW u \in Workers, NEW v \in Workers,
                 u # v, stamp'[u] # None, stamp'[u] = stamp'[v]
          PROVE  uses'[stamp'[u]] > 1
      BY <3>1, <3>3
    <3>4. QED
      BY <3>2, <3>3
  <2>2. CASE Served(page[job[w]]) \notin Php
    BY <2>2
  <2>3. QED
    BY <2>1, <2>2
<1>10. ASSUME NEW w \in Workers, CreateFile(w)
      PROVE  Counted'
  BY <1>10 DEF CreateFile, Goto, clientVars, acceptorVars, workerVars, diskVars, answerVars, vars
<1>11. ASSUME NEW w \in Workers, RunPhp(w)
      PROVE  Counted'
  BY <1>11 DEF RunPhp, Goto, clientVars, acceptorVars, workerVars, diskVars, answerVars, vars
<1>12. ASSUME NEW w \in Workers, SendFileSize(w)
      PROVE  Counted'
  BY <1>12 DEF SendFileSize, Goto, clientVars, acceptorVars, workerVars, diskVars, answerVars, vars
<1>13. ASSUME NEW w \in Workers, SendFile(w)
      PROVE  Counted'
  BY <1>13 DEF SendFile, Goto, clientVars, acceptorVars, workerVars, diskVars, answerVars, vars
<1>14. ASSUME NEW w \in Workers, SafeRemoveFile(w)
      PROVE  Counted'
  BY <1>14 DEF SafeRemoveFile, Goto, clientVars, acceptorVars, workerVars, diskVars, answerVars, vars
<1>15. ASSUME NEW w \in Workers, Close(w)
      PROVE  Counted'
  BY <1>15 DEF Close, Goto, clientVars, acceptorVars, workerVars, diskVars, answerVars, vars
<1>16. CASE UNCHANGED vars
  BY <1>16 DEF clientVars, acceptorVars, workerVars, diskVars, answerVars, vars
<1>17. QED
  BY <1>1, <1>2, <1>3, <1>4, <1>5, <1>6, <1>7, <1>8, <1>9, <1>10, <1>11, <1>12, <1>13, <1>14, <1>15, <1>16 DEF Next, Client, Worker

\* Every temporary file has a worker.
LEMMA StepNoLeftovers == IInv /\ [Next]_vars => NoLeftovers'
<1> SUFFICES ASSUME IInv, [Next]_vars PROVE NoLeftovers'
  OBVIOUS
<1> USE HttpAssumption DEF IInv, TypeOK, Serving, Answering, NoLeftovers
<1>1. ASSUME NEW c \in Clients, Connect(c)
      PROVE  NoLeftovers'
  BY <1>1 DEF Connect, clientVars, acceptorVars, workerVars, diskVars, answerVars, vars
<1>2. ASSUME NEW c \in Clients, NEW p \in Static \union Php \union Missing, Request(c, p)
      PROVE  NoLeftovers'
  BY <1>2 DEF Request, clientVars, acceptorVars, workerVars, diskVars, answerVars, vars
<1>3. ASSUME NEW c \in Clients, HangUp(c)
      PROVE  NoLeftovers'
  BY <1>3 DEF HangUp, clientVars, acceptorVars, workerVars, diskVars, answerVars, vars
<1>4. ASSUME Tick
      PROVE  NoLeftovers'
  BY <1>4 DEF Tick, clientVars, acceptorVars, workerVars, diskVars, answerVars, vars
<1>5. ASSUME Accept
      PROVE  NoLeftovers'
  BY <1>5 DEF Accept, clientVars, acceptorVars, workerVars, diskVars, answerVars, vars
<1>6. ASSUME Push
      PROVE  NoLeftovers'
  BY <1>6 DEF Push, clientVars, acceptorVars, workerVars, diskVars, answerVars, vars
<1>7. ASSUME NEW w \in Workers, Pop(w)
      PROVE  NoLeftovers'
  <2> USE <1>7 DEF Pop, Goto, clientVars, acceptorVars, workerVars, diskVars, answerVars, vars
  <2> SUFFICES ASSUME NEW s \in Seconds, tmp'[s] # None
               PROVE  \E v \in Workers : stamp'[v] = s /\ work'[v] \in {"php", "size", "file", "remove"}
    OBVIOUS
  <2>1. PICK v \in Workers : stamp[v] = s /\ work[v] \in {"php", "size", "file", "remove"}
    OBVIOUS
  <2>2. v # w /\ work'[v] = work[v] /\ stamp'[v] = s
    BY <2>1
  <2>3. QED
    BY <2>1, <2>2
<1>8. ASSUME NEW w \in Workers, RecvEnd(w)
      PROVE  NoLeftovers'
  BY <1>8 DEF RecvEnd, Goto, clientVars, acceptorVars, workerVars, diskVars, answerVars, vars
<1>9. ASSUME NEW w \in Workers, RecvRequest(w)
      PROVE  NoLeftovers'
  BY <1>9 DEF RecvRequest, Goto, clientVars, acceptorVars, workerVars, diskVars, answerVars, vars
<1>10. ASSUME NEW w \in Workers, CreateFile(w)
      PROVE  NoLeftovers'
  BY <1>10 DEF CreateFile, Goto, clientVars, acceptorVars, workerVars, diskVars, answerVars, vars
<1>11. ASSUME NEW w \in Workers, RunPhp(w)
      PROVE  NoLeftovers'
  BY <1>11 DEF RunPhp, Goto, clientVars, acceptorVars, workerVars, diskVars, answerVars, vars
<1>12. ASSUME NEW w \in Workers, SendFileSize(w)
      PROVE  NoLeftovers'
  BY <1>12 DEF SendFileSize, Goto, clientVars, acceptorVars, workerVars, diskVars, answerVars, vars
<1>13. ASSUME NEW w \in Workers, SendFile(w)
      PROVE  NoLeftovers'
  BY <1>13 DEF SendFile, Goto, clientVars, acceptorVars, workerVars, diskVars, answerVars, vars
<1>14. ASSUME NEW w \in Workers, SafeRemoveFile(w)
      PROVE  NoLeftovers'
  BY <1>14 DEF SafeRemoveFile, Goto, clientVars, acceptorVars, workerVars, diskVars, answerVars, vars
<1>15. ASSUME NEW w \in Workers, Close(w)
      PROVE  NoLeftovers'
  BY <1>15, SMTT(30) DEF Close, Goto, clientVars, acceptorVars, workerVars, diskVars, answerVars, vars
<1>16. CASE UNCHANGED vars
  BY <1>16 DEF clientVars, acceptorVars, workerVars, diskVars, answerVars, vars
<1>17. QED
  BY <1>1, <1>2, <1>3, <1>4, <1>5, <1>6, <1>7, <1>8, <1>9, <1>10, <1>11, <1>12, <1>13, <1>14, <1>15, <1>16 DEF Next, Client, Worker

\* A file of one request holds its page.
LEMMA StepOwnFile == IInv /\ [Next]_vars => OwnFile'
<1> SUFFICES ASSUME IInv, [Next]_vars PROVE OwnFile'
  OBVIOUS
<1> USE HttpAssumption DEF IInv, TypeOK, Serving, Answering, EachOnce, Counted, NoLeftovers, OwnFile, Alone, File
<1>1. ASSUME NEW c \in Clients, Connect(c)
      PROVE  OwnFile'
  BY <1>1 DEF Connect, clientVars, acceptorVars, workerVars, diskVars, answerVars, vars
<1>2. ASSUME NEW c \in Clients, NEW p \in Static \union Php \union Missing, Request(c, p)
      PROVE  OwnFile'
  BY <1>2 DEF Request, clientVars, acceptorVars, workerVars, diskVars, answerVars, vars
<1>3. ASSUME NEW c \in Clients, HangUp(c)
      PROVE  OwnFile'
  BY <1>3 DEF HangUp, clientVars, acceptorVars, workerVars, diskVars, answerVars, vars
<1>4. ASSUME Tick
      PROVE  OwnFile'
  BY <1>4 DEF Tick, clientVars, acceptorVars, workerVars, diskVars, answerVars, vars
<1>5. ASSUME Accept
      PROVE  OwnFile'
  BY <1>5 DEF Accept, clientVars, acceptorVars, workerVars, diskVars, answerVars, vars
<1>6. ASSUME Push
      PROVE  OwnFile'
  BY <1>6 DEF Push, clientVars, acceptorVars, workerVars, diskVars, answerVars, vars
<1>7. ASSUME NEW w \in Workers, Pop(w)
      PROVE  OwnFile'
  BY <1>7 DEF Pop, Goto, clientVars, acceptorVars, workerVars, diskVars, answerVars, vars
<1>8. ASSUME NEW w \in Workers, RecvEnd(w)
      PROVE  OwnFile'
  BY <1>8 DEF RecvEnd, Goto, clientVars, acceptorVars, workerVars, diskVars, answerVars, vars
<1>9. ASSUME NEW w \in Workers, RecvRequest(w)
      PROVE  OwnFile'
  <2> USE <1>9 DEF RecvRequest, Goto, clientVars, acceptorVars, workerVars, diskVars, answerVars, vars
  <2>1. CASE Served(page[job[w]]) \in Php
    <3>1. /\ uses' = [uses EXCEPT ![now] = @ + 1] /\ stamp' = [stamp EXCEPT ![w] = now]
          /\ work' = [work EXCEPT ![w] = "create"]
          /\ UNCHANGED <<tmp, out, page, job>>
          /\ now \in Seconds /\ uses \in [Seconds -> Nat]
      BY <2>1
    <3>2. ASSUME NEW v \in Workers, v # w, Alone(v)'
          PROVE  Alone(v) /\ stamp'[v] = stamp[v] /\ work'[v] = work[v]
      BY <3>1, <3>2
    <3>3. work'[w] = "create"
      BY <3>1
    <3>4. QED
      BY <3>1, <3>2, <3>3
  <2>2. CASE Served(page[job[w]]) \notin Php
    BY <2>2
  <2>3. QED
    BY <2>1, <2>2
<1>10. ASSUME NEW w \in Workers, CreateFile(w)
      PROVE  OwnFile'
  BY <1>10 DEF CreateFile, Goto, clientVars, acceptorVars, workerVars, diskVars, answerVars, vars
<1>11. ASSUME NEW w \in Workers, RunPhp(w)
      PROVE  OwnFile'
  <2> USE <1>11 DEF RunPhp, Goto, clientVars, acceptorVars, workerVars, diskVars, answerVars, vars
  <2>1. ASSUME Alone(w)
        PROVE  tmp'[stamp[w]] # None /\ tmp'[stamp[w]].text = page[job[w]]
    <3>1. /\ stamp[w] \in Seconds /\ tmp[stamp[w]] \in File
          /\ tmp[stamp[w]].file = out[w]
      BY <2>1
    <3>2. tmp' = [tmp EXCEPT ![stamp[w]].text = page[job[w]]]
      BY <2>1, <3>1
    <3>3. /\ tmp'[stamp[w]].text = page[job[w]]
          /\ tmp'[stamp[w]] = [tmp[stamp[w]] EXCEPT !.text = page[job[w]]]
      BY <3>1, <3>2
    <3>4. page[job[w]] \in Pages
      BY DEF Pages
    <3>5. tmp'[stamp[w]] \in File
      <4> HIDE <1>11
      <4> HIDE DEF RunPhp, IInv, TypeOK, Serving, EachOnce, Counted, NoLeftovers, OwnFile, Alone
      <4> QED
        BY <3>1, <3>3, <3>4
    <3>6. QED
      BY <3>3, <3>5
  <2>2. ASSUME NEW v \in Workers, v # w, Alone(v)
        PROVE  tmp'[stamp[v]] = tmp[stamp[v]]
    <3>1. stamp[w] # stamp[v] /\ stamp[v] \in Seconds /\ stamp[w] \in Seconds
      BY <2>2
    <3>2. QED
      BY <3>1
  <2>3. /\ \A v \in Workers : Alone(v)' => Alone(v)
        /\ \A v \in Workers \ {w} : work'[v] = work[v] /\ out'[v] = out[v]
        /\ work'[w] = "size"
        /\ UNCHANGED <<stamp, page, job>>
    OBVIOUS
  <2>4. QED
    BY <2>1, <2>2, <2>3
<1>12. ASSUME NEW w \in Workers, SendFileSize(w)
      PROVE  OwnFile'
  BY <1>12 DEF SendFileSize, Goto, clientVars, acceptorVars, workerVars, diskVars, answerVars, vars
<1>13. ASSUME NEW w \in Workers, SendFile(w)
      PROVE  OwnFile'
  BY <1>13 DEF SendFile, Goto, clientVars, acceptorVars, workerVars, diskVars, answerVars, vars
<1>14. ASSUME NEW w \in Workers, SafeRemoveFile(w)
      PROVE  OwnFile'
  BY <1>14 DEF SafeRemoveFile, Goto, clientVars, acceptorVars, workerVars, diskVars, answerVars, vars
<1>15. ASSUME NEW w \in Workers, Close(w)
      PROVE  OwnFile'
  BY <1>15 DEF Close, Goto, clientVars, acceptorVars, workerVars, diskVars, answerVars, vars
<1>16. CASE UNCHANGED vars
  BY <1>16 DEF clientVars, acceptorVars, workerVars, diskVars, answerVars, vars
<1>17. QED
  BY <1>1, <1>2, <1>3, <1>4, <1>5, <1>6, <1>7, <1>8, <1>9, <1>10, <1>11, <1>12, <1>13, <1>14, <1>15, <1>16 DEF Next, Client, Worker

\* What was sent of it is right.
LEMMA StepSentRight == IInv /\ [Next]_vars => SentRight'
<1> SUFFICES ASSUME IInv, [Next]_vars PROVE SentRight'
  OBVIOUS
<1> USE HttpAssumption DEF IInv, TypeOK, Serving, Answering, EachOnce, Counted, OwnFile, SentRight, Right, Alone, OnDisk, Served, Pages
<1>1. ASSUME NEW c \in Clients, Connect(c)
      PROVE  SentRight'
  BY <1>1 DEF Connect, clientVars, acceptorVars, workerVars, diskVars, answerVars, vars
<1>2. ASSUME NEW c \in Clients, NEW p \in Static \union Php \union Missing, Request(c, p)
      PROVE  SentRight'
  BY <1>2 DEF Request, clientVars, acceptorVars, workerVars, diskVars, answerVars, vars
<1>3. ASSUME NEW c \in Clients, HangUp(c)
      PROVE  SentRight'
  BY <1>3 DEF HangUp, clientVars, acceptorVars, workerVars, diskVars, answerVars, vars
<1>4. ASSUME Tick
      PROVE  SentRight'
  BY <1>4 DEF Tick, clientVars, acceptorVars, workerVars, diskVars, answerVars, vars
<1>5. ASSUME Accept
      PROVE  SentRight'
  BY <1>5 DEF Accept, clientVars, acceptorVars, workerVars, diskVars, answerVars, vars
<1>6. ASSUME Push
      PROVE  SentRight'
  BY <1>6 DEF Push, clientVars, acceptorVars, workerVars, diskVars, answerVars, vars
<1>7. ASSUME NEW w \in Workers, Pop(w)
      PROVE  SentRight'
  BY <1>7 DEF Pop, Goto, clientVars, acceptorVars, workerVars, diskVars, answerVars, vars
<1>8. ASSUME NEW w \in Workers, RecvEnd(w)
      PROVE  SentRight'
  BY <1>8 DEF RecvEnd, Goto, clientVars, acceptorVars, workerVars, diskVars, answerVars, vars
<1>9. ASSUME NEW w \in Workers, RecvRequest(w)
      PROVE  SentRight'
  BY <1>9 DEF RecvRequest, Goto, clientVars, acceptorVars, workerVars, diskVars, answerVars, vars
<1>10. ASSUME NEW w \in Workers, CreateFile(w)
      PROVE  SentRight'
  BY <1>10 DEF CreateFile, Goto, clientVars, acceptorVars, workerVars, diskVars, answerVars, vars
<1>11. ASSUME NEW w \in Workers, RunPhp(w)
      PROVE  SentRight'
  BY <1>11 DEF RunPhp, Goto, clientVars, acceptorVars, workerVars, diskVars, answerVars, vars
<1>12. ASSUME NEW w \in Workers, SendFileSize(w)
      PROVE  SentRight'
  BY <1>12 DEF SendFileSize, Goto, clientVars, acceptorVars, workerVars, diskVars, answerVars, vars
<1>13. ASSUME NEW w \in Workers, SendFile(w)
      PROVE  SentRight'
  BY <1>13 DEF SendFile, Goto, clientVars, acceptorVars, workerVars, diskVars, answerVars, vars
<1>14. ASSUME NEW w \in Workers, SafeRemoveFile(w)
      PROVE  SentRight'
  BY <1>14 DEF SafeRemoveFile, Goto, clientVars, acceptorVars, workerVars, diskVars, answerVars, vars
<1>15. ASSUME NEW w \in Workers, Close(w)
      PROVE  SentRight'
  BY <1>15 DEF Close, Goto, clientVars, acceptorVars, workerVars, diskVars, answerVars, vars
<1>16. CASE UNCHANGED vars
  BY <1>16 DEF clientVars, acceptorVars, workerVars, diskVars, answerVars, vars
<1>17. QED
  BY <1>1, <1>2, <1>3, <1>4, <1>5, <1>6, <1>7, <1>8, <1>9, <1>10, <1>11, <1>12, <1>13, <1>14, <1>15, <1>16 DEF Next, Client, Worker

\* Counting keeps the type of the counters, and naming that of the names.
LEMMA OneMore ==
  ASSUME NEW S, NEW f \in [S -> Nat], NEW s \in S
  PROVE  [f EXCEPT ![s] = @ + 1] \in [S -> Nat]
OBVIOUS

LEMMA OneSet ==
  ASSUME NEW S, NEW T, NEW none, NEW f \in [S -> T \union {none}], NEW s, NEW t \in T
  PROVE  [f EXCEPT ![s] = t] \in [S -> T \union {none}]
OBVIOUS

LEMMA OneOf ==
  ASSUME NEW S, NEW T, NEW f \in [S -> T], NEW s, NEW t \in T
  PROVE  [f EXCEPT ![s] = t] \in [S -> T]
OBVIOUS

\* The types.
LEMMA StepTypeOK == IInv /\ [Next]_vars => TypeOK'
<1> SUFFICES ASSUME IInv, [Next]_vars PROVE TypeOK'
  OBVIOUS
<1> USE HttpAssumption DEF IInv, TypeOK, Serving, Answering, OnDisk, Served, Pages, File
<1>1. ASSUME NEW c \in Clients, Connect(c)
      PROVE  TypeOK'
  BY <1>1 DEF Connect, clientVars, acceptorVars, workerVars, diskVars, answerVars, vars
<1>2. ASSUME NEW c \in Clients, NEW p \in Static \union Php \union Missing, Request(c, p)
      PROVE  TypeOK'
  BY <1>2 DEF Request, clientVars, acceptorVars, workerVars, diskVars, answerVars, vars
<1>3. ASSUME NEW c \in Clients, HangUp(c)
      PROVE  TypeOK'
  BY <1>3 DEF HangUp, clientVars, acceptorVars, workerVars, diskVars, answerVars, vars
<1>4. ASSUME Tick
      PROVE  TypeOK'
  BY <1>4 DEF Tick, Seconds, clientVars, acceptorVars, workerVars, diskVars, answerVars, vars
<1>5. ASSUME Accept
      PROVE  TypeOK'
  <2> USE <1>5 DEF Accept, clientVars, acceptorVars, workerVars, diskVars, answerVars, vars
  <2>1. Head(backlog) \in Clients /\ Tail(backlog) \in Seq(Clients)
    BY HeadTailProperties
  <2>2. held' \in Clients \union {None} /\ backlog' \in Seq(Clients)
    BY <2>1
  <2>3. ready' \in BOOLEAN /\ trigger' \in Triggers
    OBVIOUS
  <2>4. QED
    BY <2>2, <2>3
<1>6. ASSUME Push
      PROVE  TypeOK'
  BY <1>6 DEF Push, clientVars, acceptorVars, workerVars, diskVars, answerVars, vars
<1>7. ASSUME NEW w \in Workers, Pop(w)
      PROVE  TypeOK'
  BY <1>7 DEF Pop, Goto, clientVars, acceptorVars, workerVars, diskVars, answerVars, vars
<1>8. ASSUME NEW w \in Workers, RecvEnd(w)
      PROVE  TypeOK'
  BY <1>8 DEF RecvEnd, Goto, clientVars, acceptorVars, workerVars, diskVars, answerVars, vars
<1>9. ASSUME NEW w \in Workers, RecvRequest(w)
      PROVE  TypeOK'
  <2> USE <1>9 DEF RecvRequest, Goto, clientVars, acceptorVars, workerVars, diskVars, answerVars, vars
  <2>1. CASE Served(page[job[w]]) \in Php
    <3>1. /\ now \in Seconds /\ uses \in [Seconds -> Nat]
          /\ stamp \in [Workers -> Seconds \union {None}]
          /\ uses' = [uses EXCEPT ![now] = @ + 1] /\ stamp' = [stamp EXCEPT ![w] = now]
      BY <2>1
    <3>2. uses' \in [Seconds -> Nat]
      BY <3>1, OneMore
    <3>3. stamp' \in [Workers -> Seconds \union {None}]
      BY <3>1, OneSet
    <3>4. work' \in [Workers -> {"pop", "recv", "create", "php", "size", "file",
                                 "remove", "close"}]
      <4>1. work' = [work EXCEPT ![w] = "create"]
        BY <2>1
      <4> DEFINE Places == {"pop", "recv", "create", "php", "size", "file",
                            "remove", "close"}
      <4>2. work \in [Workers -> Places] /\ "create" \in Places
        OBVIOUS
      <4> HIDE DEF Places
      <4>3. [work EXCEPT ![w] = "create"] \in [Workers -> Places]
        BY <4>2, OneOf
      <4>4. QED
        BY <4>1, <4>3 DEF Places
    <3>5. /\ UNCHANGED <<phase, page, backlog, trigger, ready, held, queue, job, out>>
          /\ UNCHANGED <<now, tmp, length, body>>
      BY <2>1
    <3>6. QED
      BY <3>2, <3>3, <3>4, <3>5
  <2>2. CASE Served(page[job[w]]) \notin Php
    BY <2>2
  <2>3. QED
    BY <2>1, <2>2
<1>10. ASSUME NEW w \in Workers, CreateFile(w)
      PROVE  TypeOK'
  BY <1>10 DEF CreateFile, Goto, clientVars, acceptorVars, workerVars, diskVars, answerVars, vars
<1>11. ASSUME NEW w \in Workers, RunPhp(w)
      PROVE  TypeOK'
  BY <1>11 DEF RunPhp, Goto, clientVars, acceptorVars, workerVars, diskVars, answerVars, vars
<1>12. ASSUME NEW w \in Workers, SendFileSize(w)
      PROVE  TypeOK'
  BY <1>12 DEF SendFileSize, Goto, clientVars, acceptorVars, workerVars, diskVars, answerVars, vars
<1>13. ASSUME NEW w \in Workers, SendFile(w)
      PROVE  TypeOK'
  BY <1>13 DEF SendFile, Goto, clientVars, acceptorVars, workerVars, diskVars, answerVars, vars
<1>14. ASSUME NEW w \in Workers, SafeRemoveFile(w)
      PROVE  TypeOK'
  BY <1>14 DEF SafeRemoveFile, Goto, clientVars, acceptorVars, workerVars, diskVars, answerVars, vars
<1>15. ASSUME NEW w \in Workers, Close(w)
      PROVE  TypeOK'
  BY <1>15 DEF Close, Goto, clientVars, acceptorVars, workerVars, diskVars, answerVars, vars
<1>16. CASE UNCHANGED vars
  BY <1>16 DEF clientVars, acceptorVars, workerVars, diskVars, answerVars, vars
<1>17. QED
  BY <1>1, <1>2, <1>3, <1>4, <1>5, <1>6, <1>7, <1>8, <1>9, <1>10, <1>11, <1>12, <1>13, <1>14, <1>15, <1>16 DEF Next, Client, Worker

\* No connection is in two places: only Connect, Pop and Close touch the line
\* or the jobs; Accept and Push move a connection along inside the line.
LEMMA StepEachOnce == IInv /\ [Next]_vars => EachOnce'
<1> SUFFICES ASSUME IInv, [Next]_vars PROVE EachOnce'
  OBVIOUS
<1>1. /\ queue \in Seq(Clients) /\ backlog \in Seq(Clients)
      /\ held \in Clients \union {None} /\ None \notin Clients
      /\ job \in [Workers -> Clients \union {None}]
      /\ phase \in [Clients -> {"idle", "open", "sent", "hungup", "answered", "closed"}]
  BY HttpAssumption DEF IInv, TypeOK
<1>2. EachOnce
  BY DEF IInv
<1>3. /\ Held \in Seq(Clients)
      /\ queue \o Held \in Seq(Clients)
      /\ Line \in Seq(Clients)
  <2>1. Held \in Seq(Clients)
    BY <1>1 DEF Held
  <2>2. QED
    BY <1>1, <2>1, ConcatProperties DEF Line
<1>4. ASSUME Line' = Line, job' = job,
             \A c \in Clients : phase[c] # "idle" => phase'[c] # "idle"
      PROVE  EachOnce'
  BY <1>1, <1>2, <1>3, <1>4, ElementOfSeq DEF EachOnce
<1>5. ASSUME UNCHANGED <<queue, held, backlog>>
      PROVE  Line' = Line
  BY <1>5 DEF Line, Held
<1>6. ASSUME NEW c \in Clients, Connect(c)
      PROVE  EachOnce'
  <2>1. /\ phase[c] = "idle" /\ phase' = [phase EXCEPT ![c] = "open"]
        /\ backlog' = Append(backlog, c)
        /\ UNCHANGED <<queue, held, job>>
    BY <1>6 DEF Connect, workerVars
  <2>2. Line' = Append(Line, c)
    <3>1. queue \o Held \in Seq(Clients) /\ backlog \in Seq(Clients) /\ c \in Clients
      BY <1>1, <1>3
    <3>2. (queue \o Held) \o Append(backlog, c) = Append((queue \o Held) \o backlog, c)
      BY <3>1, AppendToConcat
    <3>3. QED
      BY <2>1, <3>2 DEF Line, Held
  <2>3. /\ Len(Line') = Len(Line) + 1 /\ Line'[Len(Line) + 1] = c
        /\ \A i \in 1..Len(Line) : Line'[i] = Line[i]
        /\ Len(Line) \in Nat
    BY <1>3, <2>2, AppendProperties, LenProperties
  <2>4. \A i \in 1..Len(Line) : Line[i] \in Clients /\ Line[i] # c
    BY <1>2, <1>3, <2>1, ElementOfSeq DEF EachOnce
  <2>5. \A i, j \in 1..Len(Line') : Line'[i] = Line'[j] => i = j
    BY <1>2, <2>3, <2>4 DEF EachOnce
  <2>6. \A w \in Workers : job[w] # c
    BY <1>1, <1>2, <2>1 DEF EachOnce
  <2>7. \A i \in 1..Len(Line') :
          phase'[Line'[i]] # "idle" /\ \A w \in Workers : job'[w] # Line'[i]
    BY <1>1, <1>2, <2>1, <2>3, <2>4, <2>6 DEF EachOnce
  <2>8. \A w \in Workers : job'[w] # None => phase'[job'[w]] # "idle"
    BY <1>1, <1>2, <2>1 DEF EachOnce
  <2>9. QED
    BY <1>2, <2>1, <2>5, <2>7, <2>8 DEF EachOnce
<1>7. ASSUME NEW c \in Clients, NEW p \in Static \union Php \union Missing, Request(c, p)
      PROVE  EachOnce'
  BY <1>1, <1>4, <1>5, <1>7 DEF Request, acceptorVars, workerVars
<1>8. ASSUME NEW c \in Clients, HangUp(c)
      PROVE  EachOnce'
  BY <1>1, <1>4, <1>5, <1>8 DEF HangUp, acceptorVars, workerVars
<1>9. ASSUME Tick
      PROVE  EachOnce'
  BY <1>4, <1>5, <1>9 DEF Tick, clientVars, acceptorVars, workerVars
<1>10. ASSUME Accept
       PROVE  EachOnce'
  <2>1. /\ held = None /\ backlog # <<>>
        /\ held' = Head(backlog) /\ backlog' = Tail(backlog)
        /\ UNCHANGED <<queue, phase, job>>
    BY <1>10 DEF Accept, clientVars, workerVars
  <2>2. /\ Head(backlog) \in Clients /\ Tail(backlog) \in Seq(Clients)
    BY <1>1, <2>1, HeadTailProperties
  <2>3. Line = queue \o backlog
    BY <1>1, <2>1, ConcatEmptySeq DEF Line, Held
  <2>4. Line' = (queue \o <<Head(backlog)>>) \o Tail(backlog)
    BY <1>1, <2>1, <2>2 DEF Line, Held
  <2>5. Line' = Line
    BY <1>1, <2>1, <2>2, <2>3, <2>4, MoveHead, AppendIsConcat
  <2>6. QED
    BY <1>4, <2>1, <2>5
<1>11. ASSUME Push
       PROVE  EachOnce'
  <2>1. /\ held \in Clients /\ held' = None
        /\ queue' = Append(queue, held)
        /\ UNCHANGED <<backlog, phase, job>>
    BY <1>1, <1>11 DEF Push, clientVars, workerVars
  <2>2. Append(queue, held) = queue \o <<held>> /\ queue \o <<held>> \in Seq(Clients)
    BY <1>1, <2>1, AppendIsConcat, ConcatProperties
  <2>3. Line = (queue \o <<held>>) \o backlog
    BY <1>1, <2>1 DEF Line, Held
  <2>4. Line' = Line
    BY <2>1, <2>2, <2>3, ConcatEmptySeq DEF Line, Held
  <2>5. QED
    BY <1>4, <2>1, <2>4
<1>12. ASSUME NEW w \in Workers, Pop(w)
       PROVE  EachOnce'
  <2>1. /\ queue # <<>> /\ queue' = Tail(queue)
        /\ job' = [job EXCEPT ![w] = Head(queue)]
        /\ UNCHANGED <<held, backlog, phase>>
    BY <1>12 DEF Pop, clientVars, acceptorVars
  <2>2. /\ Line # <<>> /\ Head(Line) = Head(queue) /\ Line' = Tail(Line)
    <3>1. /\ queue \o Held # <<>> /\ Head(queue \o Held) = Head(queue)
          /\ Tail(queue \o Held) = Tail(queue) \o Held
      BY <1>1, <1>3, <2>1, TailOfConcat
    <3>2. /\ Line # <<>> /\ Head(Line) = Head(queue \o Held)
          /\ Tail(Line) = Tail(queue \o Held) \o backlog
      <4>1. queue \o Held \in Seq(Clients) /\ backlog \in Seq(Clients)
        BY <1>1, <1>3, ConcatProperties
      <4>2. QED
        BY <3>1, <4>1, TailOfConcat DEF Line
    <3>3. QED
      BY <2>1, <3>1, <3>2 DEF Line, Held
  <2>3. /\ Len(Line) \in Nat \ {0} /\ Len(Line') = Len(Line) - 1
        /\ Head(Line) = Line[1]
        /\ \A i \in 1..(Len(Line) - 1) : Line'[i] = Line[i + 1]
    BY <1>3, <2>2, HeadTailProperties, LenProperties, EmptySeq
  <2>4. Head(queue) = Line[1] /\ Line[1] \in Clients
    BY <1>3, <2>2, <2>3, ElementOfSeq
  <2>5. \A i, j \in 1..Len(Line') : Line'[i] = Line'[j] => i = j
    BY <1>2, <2>3 DEF EachOnce
  <2>6. \A i \in 1..Len(Line') : Line'[i] # Line[1]
    BY <1>2, <2>3 DEF EachOnce
  <2>7. \A i \in 1..Len(Line') : phase[Line'[i]] # "idle" /\ \A v \in Workers : job[v] # Line'[i]
    BY <1>2, <2>3 DEF EachOnce
  <2>8. phase[Line[1]] # "idle" /\ \A v \in Workers : job[v] # Line[1]
    BY <1>2, <2>3 DEF EachOnce
  <2>9. /\ job'[w] = Line[1]
        /\ \A v \in Workers \ {w} : job'[v] = job[v]
        /\ phase' = phase
    <3>1. job' = [job EXCEPT ![w] = Line[1]]
      BY <2>1, <2>4, Zenon
    <3>2. QED
      BY <1>1, <2>1, <3>1
  <2>10. \A v \in Workers : job'[v] # None => phase'[job'[v]] # "idle"
    BY <1>2, <2>8, <2>9 DEF EachOnce
  <2>11. \A u, v \in Workers : u # v /\ job'[u] # None => job'[u] # job'[v]
    BY <1>2, <2>8, <2>9 DEF EachOnce
  <2>12. QED
    BY <2>5, <2>6, <2>7, <2>9, <2>10, <2>11 DEF EachOnce
<1>13. ASSUME NEW w \in Workers, RecvEnd(w)
       PROVE  EachOnce'
  BY <1>4, <1>5, <1>13 DEF RecvEnd, clientVars, acceptorVars
<1>14. ASSUME NEW w \in Workers, RecvRequest(w)
       PROVE  EachOnce'
  BY <1>4, <1>5, <1>14 DEF RecvRequest, clientVars, acceptorVars
<1>15. ASSUME NEW w \in Workers, CreateFile(w)
       PROVE  EachOnce'
  BY <1>4, <1>5, <1>15 DEF CreateFile, clientVars, acceptorVars
<1>16. ASSUME NEW w \in Workers, RunPhp(w)
       PROVE  EachOnce'
  BY <1>4, <1>5, <1>16 DEF RunPhp, clientVars, acceptorVars
<1>17. ASSUME NEW w \in Workers, SendFileSize(w)
       PROVE  EachOnce'
  BY <1>4, <1>5, <1>17 DEF SendFileSize, clientVars, acceptorVars
<1>18. ASSUME NEW w \in Workers, SendFile(w)
       PROVE  EachOnce'
  BY <1>4, <1>5, <1>18 DEF SendFile, clientVars, acceptorVars
<1>19. ASSUME NEW w \in Workers, SafeRemoveFile(w)
       PROVE  EachOnce'
  BY <1>4, <1>5, <1>19 DEF SafeRemoveFile, clientVars, acceptorVars
<1>20. ASSUME NEW w \in Workers, Close(w)
       PROVE  EachOnce'
  <2>1. /\ phase' = [phase EXCEPT ![job[w]] = IF @ = "sent" THEN "answered" ELSE "closed"]
        /\ job' = [job EXCEPT ![w] = None]
        /\ Line' = Line
    BY <1>5, <1>20 DEF Close, acceptorVars
  <2>2. /\ \A c \in Clients : phase[c] # "idle" => phase'[c] # "idle"
        /\ \A i \in 1..Len(Line) : Line[i] \in Clients
    BY <1>1, <1>3, <2>1, ElementOfSeq
  <2>3. job'[w] = None /\ \A v \in Workers \ {w} : job'[v] = job[v]
    BY <1>1, <2>1
  <2>4. \A v \in Workers : job'[v] # None => phase'[job'[v]] # "idle"
    BY <1>1, <1>2, <2>2, <2>3 DEF EachOnce
  <2>5. \A i \in 1..Len(Line) :
          phase'[Line[i]] # "idle" /\ \A v \in Workers : job'[v] # Line[i]
    BY <1>1, <1>2, <2>2, <2>3 DEF EachOnce
  <2>6. \A u, v \in Workers : u # v /\ job'[u] # None => job'[u] # job'[v]
    BY <1>2, <2>3 DEF EachOnce
  <2>7. QED
    BY <1>2, <2>1, <2>4, <2>5, <2>6 DEF EachOnce
<1>21. CASE UNCHANGED vars
  BY <1>4, <1>5, <1>21 DEF vars, clientVars, acceptorVars, workerVars
<1>22. QED
  BY <1>6, <1>7, <1>8, <1>9, <1>10, <1>11, <1>12, <1>13, <1>14, <1>15, <1>16, <1>17,
     <1>18, <1>19, <1>20, <1>21 DEF Next, Client, Worker

\* Nobody is connected and nothing is served when the server starts.
LEMMA InitIInv == Init => IInv
<1> SUFFICES ASSUME Init PROVE IInv
  OBVIOUS
<1>1. TypeOK
  BY HttpAssumption DEF Init, TypeOK, Seconds
<1>2. Line = <<>>
  BY DEF Init, Line, Held
<1>3. Len(Line) = 0
  BY <1>2
<1>4. EachOnce
  BY <1>3 DEF Init, EachOnce
<1>5. Serving /\ Counted /\ NoLeftovers /\ OwnFile /\ SentRight
  BY DEF Init, Serving, Answering, Counted, NoLeftovers, OwnFile, Alone, SentRight
<1>6. QED
  BY <1>1, <1>4, <1>5 DEF IInv
-----------------------------------------------------------------------------
(* The theorems. *)

\* The invariant holds in every state of the server.
THEOREM Invariance == Spec => []IInv
<1>1. IInv /\ [Next]_vars => IInv'
  <2> SUFFICES ASSUME IInv, [Next]_vars PROVE IInv'
    OBVIOUS
  <2>1. TypeOK' /\ EachOnce' /\ Serving' /\ Counted' /\ NoLeftovers' /\ OwnFile' /\ SentRight'
    BY StepTypeOK, StepEachOnce, StepServing, StepCounted, StepNoLeftovers, StepOwnFile,
       StepSentRight
  <2>2. QED
    BY <2>1 DEF IInv
<1>2. QED
  BY <1>1, InitIInv, PTL DEF Spec

\* The variables have their types; the queue never exceeds its limit.
THEOREM TypeCorrect == Spec => []TypeOK
<1>1. IInv => TypeOK
  BY DEF IInv
<1>2. QED
  BY <1>1, Invariance, PTL

\* Whatever the workers that share a temporary file do, and in which order,
\* the last of them to remove it is the last to have it.
THEOREM NothingLeftBehind == Spec => []NoLeftovers
<1>1. IInv => NoLeftovers
  BY DEF IInv
<1>2. QED
  BY <1>1, Invariance, PTL

\* A client gets another page than it asked for, or a length that is not its
\* page's, only if two requests took the name of the same second.
THEOREM WrongNeedsSharing == Spec => []WrongOnlyIfShared
<1>1. IInv => WrongOnlyIfShared
  <2> SUFFICES ASSUME IInv, NEW w \in Workers, work[w] = "close", phase[job[w]] = "sent",
                      ~(stamp[w] # None /\ uses[stamp[w]] > 1)
               PROVE  length[w] = Served(page[job[w]]) /\ body[w] = Served(page[job[w]])
    BY DEF WrongOnlyIfShared
  <2>1. job[w] # None
    BY DEF IInv, Serving
  <2>2. Right(w, length[w]) /\ Right(w, body[w])
    BY <2>1 DEF IInv, SentRight
  <2>3. stamp[w] = None \/ Alone(w)
    <3>1. CASE stamp[w] # None
      <4>1. stamp[w] \in Seconds /\ uses[stamp[w]] \in Nat /\ uses[stamp[w]] > 0
        BY <3>1 DEF IInv, TypeOK, Counted
      <4>2. uses[stamp[w]] = 1
        BY <3>1, <4>1
      <4>3. QED
        BY <3>1, <4>2 DEF Alone
    <3>2. QED
      BY <3>1
  <2>4. QED
    BY <2>2, <2>3 DEF Right
<1>2. QED
  BY <1>1, Invariance, PTL
=============================================================================
