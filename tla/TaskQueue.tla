------------------------------ MODULE TaskQueue ------------------------------
(***************************************************************************)
(* TaskQueue<T> of single_fs/depends/net.v1/task_queue.h: a bounded queue  *)
(* protected by one pthread mutex.  Nobody waits on a condition: a Push    *)
(* that finds the queue full and a Pop that finds it empty release the     *)
(* mutex, sleep and try again; Pop(timeout) counts its sleeps and gives up.*)
(*                                                                         *)
(* A call is a sequence of steps, one for each statement that reads or     *)
(* writes shared state: lock, test of the size, push or front, pop, unlock.*)
(* The elements are pointers, each handed to Push once.                    *)
(***************************************************************************)
EXTENDS Naturals, Sequences

CONSTANTS Producers,     \* threads that call Push
          TimedPoppers,  \* threads that call Pop(timeout)
          Poppers,       \* threads that call Pop()
          Items,         \* the pointers the producers push
          Limit,         \* limit_, the capacity
          Tries,         \* timeout / 10: sleeps before Pop(timeout) gives up
          None           \* no thread, or no item: (T)0

Consumers == TimedPoppers \union Poppers
Threads == Producers \union Consumers

ASSUME ThreadsAssumption ==
  /\ Producers \intersect Consumers = {}
  /\ TimedPoppers \intersect Poppers = {}
  /\ None \notin Threads
ASSUME ItemsAssumption == None \notin Items
ASSUME LimitAssumption == Limit \in Nat \ {0}
ASSUME TriesAssumption == Tries \in Nat \ {0}

VARIABLES
  queue,    \* data_queue_
  mutex,    \* the thread that holds lock_, or None
  pc,       \* the statement each thread is at; "idle" outside a call
  node,     \* Push's argument, or Pop's local tmp
  success,  \* the local flag of the same name
  cost,     \* time_cost / 10 of a Pop(timeout)
  got,      \* the items each consumer's calls have returned
  put,      \* history: the items in the order data_queue_.push saw them
  taken     \* history: the items in the order data_queue_.pop removed them

vars == <<queue, mutex, pc, node, success, cost, got, put, taken>>

InCriticalSection(t) == pc[t] \in {"test", "push", "front", "pop", "unlock"}

\* The items some Push has been given: a producer never pushes one twice.
Handed ==
  {put[n] : n \in 1..Len(put)} \union {node[p] : p \in Producers}

Init ==
  /\ queue = <<>>
  /\ mutex = None
  /\ pc = [t \in Threads |-> "idle"]
  /\ node = [t \in Threads |-> None]
  /\ success = [t \in Threads |-> FALSE]
  /\ cost = [c \in Consumers |-> 0]
  /\ got = [c \in Consumers |-> {}]
  /\ put = <<>>
  /\ taken = <<>>
-----------------------------------------------------------------------------
(* Steps that Push and both forms of Pop share. *)

Goto(t, label) == pc' = [pc EXCEPT ![t] = label]

Available == TRUE   \* mutant: trylock with its result ignored
Unlocked == mutex = None

\* pthread_mutex_lock(&lock_)
Lock(t) ==
  /\ pc[t] = "lock"
  /\ Unlocked
  /\ mutex' = t
  /\ Goto(t, "test")
  /\ UNCHANGED <<queue, node, success, cost, got, put, taken>>
-----------------------------------------------------------------------------
(* void Push(T node) *)

PushCall(p, i) ==
  /\ pc[p] = "idle"
  /\ i \notin Handed
  /\ node' = [node EXCEPT ![p] = i]
  /\ success' = [success EXCEPT ![p] = FALSE]
  /\ Goto(p, "lock")
  /\ UNCHANGED <<queue, mutex, cost, got, put, taken>>

HasRoom == Len(queue) < Limit

\* if (data_queue_.size() < limit_)
PushTest(p) ==
  /\ pc[p] = "test"
  /\ Goto(p, IF HasRoom THEN "push" ELSE "unlock")
  /\ UNCHANGED <<queue, mutex, node, success, cost, got, put, taken>>

WithFirst(i) == <<i>> \o queue   \* mutant: push_front
WithLast(i) == Append(queue, i)

PushAppend(p) ==
  /\ pc[p] = "push"
  /\ queue' = WithLast(node[p])
  /\ put' = Append(put, node[p])
  /\ success' = [success EXCEPT ![p] = TRUE]
  /\ Goto(p, "unlock")
  /\ UNCHANGED <<mutex, node, cost, got, taken>>

\* Faulty PushUnlock: the mutex is kept while sleeping.
PushSleepsLocked(p) ==
  /\ pc[p] = "unlock"
  /\ mutex' = IF success[p] THEN None ELSE mutex
  /\ Goto(p, IF success[p] THEN "idle" ELSE "sleep")
  /\ node' = [node EXCEPT ![p] = IF success[p] THEN None ELSE @]
  /\ UNCHANGED <<queue, success, cost, got, put, taken>>

\* Faulty PushUnlock: no loop around the test.
PushGivesUp(p) ==
  /\ pc[p] = "unlock"
  /\ mutex' = None
  /\ Goto(p, "idle")
  /\ node' = [node EXCEPT ![p] = None]
  /\ UNCHANGED <<queue, success, cost, got, put, taken>>

\* The unlock, and the loop's test: return, or sleep(1) and try again.
PushUnlock(p) ==
  /\ pc[p] = "unlock"
  /\ mutex' = None
  /\ Goto(p, IF success[p] THEN "idle" ELSE "sleep")
  /\ node' = [node EXCEPT ![p] = IF success[p] THEN None ELSE @]
  /\ UNCHANGED <<queue, success, cost, got, put, taken>>

PushSleep(p) ==
  /\ pc[p] = "sleep"
  /\ Goto(p, "lock")
  /\ UNCHANGED <<queue, mutex, node, success, cost, got, put, taken>>

Push(p) ==
  \/ \E i \in Items : PushCall(p, i)
  \/ Lock(p)
  \/ PushTest(p)
  \/ PushAppend(p)
  \/ PushUnlock(p)
  \/ PushSleep(p)
-----------------------------------------------------------------------------
(* T Pop(int timeout) and T Pop() *)

PopCall(c) ==
  /\ pc[c] = "idle"
  /\ success' = [success EXCEPT ![c] = FALSE]
  /\ cost' = [cost EXCEPT ![c] = 0]
  /\ Goto(c, "lock")
  /\ UNCHANGED <<queue, mutex, node, got, put, taken>>

\* if (!Empty())
PopTest(c) ==
  /\ pc[c] = "test"
  /\ Goto(c, IF queue # <<>> THEN "front" ELSE "unlock")
  /\ UNCHANGED <<queue, mutex, node, success, cost, got, put, taken>>

PopFront(c) ==
  /\ pc[c] = "front"
  /\ node' = [node EXCEPT ![c] = Head(queue)]
  /\ Goto(c, "pop")
  /\ UNCHANGED <<queue, mutex, success, cost, got, put, taken>>

WithoutLast == SubSeq(queue, 1, Len(queue) - 1)           \* mutant: pop_back
WithoutFirst == Tail(queue)

PopRemove(c) ==
  /\ pc[c] = "pop"
  /\ queue' = WithoutFirst
  /\ taken' = Append(taken, node[c])
  /\ success' = [success EXCEPT ![c] = TRUE]
  /\ Goto(c, "unlock")
  /\ UNCHANGED <<mutex, node, cost, got, put>>

\* The unlock, then return tmp or sleep.
PopUnlock(c) ==
  /\ pc[c] = "unlock"
  /\ mutex' = None
  /\ Goto(c, IF success[c] THEN "idle" ELSE "sleep")
  /\ got' = [got EXCEPT ![c] = IF success[c] THEN @ \union {node[c]} ELSE @]
  /\ node' = [node EXCEPT ![c] = None]
  /\ UNCHANGED <<queue, success, cost, put, taken>>

\* Faulty TimedSleep: time_cost is not added up.
TimedSleepForgets(c) ==
  /\ pc[c] = "sleep"
  /\ Goto(c, IF cost[c] + 1 >= Tries THEN "idle" ELSE "lock")
  /\ UNCHANGED <<queue, mutex, node, success, cost, got, put, taken>>

\* usleep(10) of Pop(timeout): return (T)0 once the sleeps add up to timeout.
TimedSleep(c) ==
  /\ pc[c] = "sleep"
  /\ cost' = [cost EXCEPT ![c] = @ + 1]
  /\ Goto(c, IF cost[c] + 1 >= Tries THEN "idle" ELSE "lock")
  /\ UNCHANGED <<queue, mutex, node, success, got, put, taken>>

\* usleep(100) of Pop().
PopSleep(c) ==
  /\ pc[c] = "sleep"
  /\ Goto(c, "lock")
  /\ UNCHANGED <<queue, mutex, node, success, cost, got, put, taken>>

Pop(c) ==
  \/ PopCall(c)
  \/ Lock(c)
  \/ PopTest(c)
  \/ PopFront(c)
  \/ PopRemove(c)
  \/ PopUnlock(c)
  \/ c \in TimedPoppers /\ TimedSleep(c)
  \/ c \in Poppers /\ PopSleep(c)
-----------------------------------------------------------------------------
Next ==
  \/ \E p \in Producers : Push(p)
  \/ \E c \in Consumers : Pop(c)

Spec == Init /\ [][Next]_vars

(***************************************************************************)
(* A started thread keeps running (weak fairness), the consumers' loops    *)
(* call Pop again whenever it returns, and a thread waiting for the mutex  *)
(* gets it if it is released again and again (strong fairness: every       *)
(* holder releases it before sleeping, so a sleeping thread never holds it)*)
(* A producer need not call Push.                                          *)
(***************************************************************************)
Fairness ==
  /\ \A t \in Threads : SF_vars(Lock(t))
  /\ \A p \in Producers :
       WF_vars(PushTest(p) \/ PushAppend(p) \/ PushUnlock(p) \/ PushSleep(p))
  /\ \A c \in Consumers : WF_vars(Pop(c))

FairSpec == Spec /\ Fairness
-----------------------------------------------------------------------------
(* Types and the refinement. *)

Labels == {"idle", "lock", "test", "push", "front", "pop", "unlock", "sleep"}

\* The type of every variable.
TypeOK ==
  /\ queue \in Seq(Items)
  /\ mutex \in Threads \union {None}
  /\ pc \in [Threads -> Labels]
  /\ node \in [Threads -> Items \union {None}]
  /\ success \in [Threads -> BOOLEAN]
  /\ cost \in [Consumers -> Nat]
  /\ got \in [Consumers -> SUBSET Items]
  /\ put \in Seq(Items)
  /\ taken \in Seq(Items)

\* lock_ excludes: a thread between lock and unlock is the one holding it.
Exclusion == \A t \in Threads : InCriticalSection(t) <=> mutex = t

\* The size test is still true when push and front/pop act on it: no Push
\* overfills the queue and no Pop reads the front of an empty one.
TestStillHolds ==
  /\ \A p \in Producers : pc[p] = "push" => Len(queue) < Limit
  /\ \A c \in Consumers : pc[c] \in {"front", "pop"} => queue # <<>>
  /\ \A c \in Consumers : pc[c] = "pop" => node[c] = Head(queue)
  /\ Len(queue) <= Limit

\* A Push carries its item until it returns; a Pop that has not removed an
\* item has not set its flag, and one that has carries the item it removed.
CarriesItem ==
  /\ \A p \in Producers : pc[p] # "idle" => node[p] \in Items
  /\ \A c \in Consumers :
       /\ pc[c] \in {"lock", "test", "front", "pop", "sleep"} => ~success[c]
       /\ pc[c] = "unlock" /\ success[c] => node[c] \in Items

\* First in, first out, nothing lost and nothing invented: what was pushed
\* is what was popped followed by what is still queued, in the same order.
Fifo == put = taken \o queue

Abstract == INSTANCE BoundedFifo
  WITH buffer <- queue, accepted <- put, delivered <- taken

\* Every step of the locked implementation is a step of the atomic queue.
ImplementsFifo == Abstract!Spec
-----------------------------------------------------------------------------
(* Liveness, under FairSpec. *)

\* Push returns, however often it found the queue full.
PushReturns == \A p \in Producers : pc[p] = "lock" ~> pc[p] = "idle"

\* Pop(timeout) returns, with an item or with (T)0.
TimedPopReturns == \A c \in TimedPoppers : pc[c] = "lock" ~> pc[c] = "idle"

\* Every item given to Push is eventually returned by some Pop.
Delivered ==
  \A i \in Items :
    (\E p \in Producers : node[p] = i) ~> (\E c \in Consumers : i \in got[c])
=============================================================================
