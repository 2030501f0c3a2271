--------------------------- MODULE TaskQueueProofs ---------------------------
(***************************************************************************)
(* Proofs about TaskQueue for any set of threads, any items, any capacity  *)
(* and any timeout.  The invariant is proved inductive in one theorem per  *)
(* group of conjuncts; the refinement of BoundedFifo uses it at the two    *)
(* steps that touch the queue.                                             *)
(***************************************************************************)
EXTENDS TaskQueue, SequenceTheorems, TLAPS

-----------------------------------------------------------------------------
(* Facts about concatenation. *)

\* Appending to the queued part of a history is appending to the history.
LEMMA AppendToConcat ==
  ASSUME NEW S, NEW t \in Seq(S), NEW q \in Seq(S), NEW e \in S
  PROVE  Append(t \o q, e) = t \o Append(q, e)
<1>1. /\ t \o q \in Seq(S)
      /\ <<e>> \in Seq(S)
  BY ConcatProperties
<1>2. /\ Append(t \o q, e) = (t \o q) \o <<e>>
      /\ Append(q, e) = q \o <<e>>
  BY <1>1, AppendIsConcat
<1>3. QED
  BY <1>1, <1>2, ConcatAssociative

\* Moving the head of the second part to the end of the first changes nothing.
LEMMA MoveHead ==
  ASSUME NEW S, NEW t \in Seq(S), NEW q \in Seq(S), q # <<>>
  PROVE  t \o q = Append(t, Head(q)) \o Tail(q)
<1>1. /\ Head(q) \in S
      /\ Tail(q) \in Seq(S)
      /\ <<Head(q)>> \in Seq(S)
  BY HeadTailProperties
<1>2. q = <<Head(q)>> \o Tail(q)
  <2>1. Len(<<Head(q)>> \o Tail(q)) = Len(q)
    BY <1>1, ConcatProperties, HeadTailProperties, LenProperties
  <2>2. ASSUME NEW i \in 1..Len(q)
        PROVE  q[i] = (<<Head(q)>> \o Tail(q))[i]
    BY <1>1, ConcatProperties, HeadTailProperties, LenProperties
  <2>3. QED
    BY <1>1, <2>1, <2>2, ConcatProperties, SeqEqual
<1>3. Append(t, Head(q)) = t \o <<Head(q)>>
  BY <1>1, AppendIsConcat
<1>4. QED
  BY <1>1, <1>2, <1>3, ConcatAssociative, SMTT(30)

-----------------------------------------------------------------------------
(* The inductive invariant. *)

IInv == TypeOK /\ CarriesItem /\ Exclusion /\ TestStillHolds /\ Fifo

-----------------------------------------------------------------------------
(* The invariant holds initially and is preserved by every step. *)

LEMMA InitIInv == Init => IInv
<1> SUFFICES ASSUME Init PROVE IInv
  OBVIOUS
<1>1. TypeOK
  BY DEF Init, TypeOK, Labels, Threads
<1>2. CarriesItem
  BY DEF Init, CarriesItem, Threads
<1>3. Exclusion
  BY ThreadsAssumption DEF Init, Exclusion, InCriticalSection
<1>4. TestStillHolds
  BY LimitAssumption DEF Init, TestStillHolds, Threads
<1>5. Fifo
  BY ConcatEmptySeq DEF Init, Fifo
<1>6. QED
  BY <1>1, <1>2, <1>3, <1>4, <1>5 DEF IInv

\* Every step keeps the types: the items that reach queue, put and taken are
\* the ones CarriesItem and TestStillHolds vouch for.
LEMMA StepTypeOK == IInv /\ [Next]_vars => TypeOK'
<1> SUFFICES ASSUME IInv, [Next]_vars PROVE TypeOK'
  OBVIOUS
<1> USE DEF IInv, TypeOK, Goto, Labels, Threads
<1>1. ASSUME NEW t \in Threads, Lock(t)
      PROVE  TypeOK'
  BY <1>1 DEF Lock, Unlocked
<1>2. ASSUME NEW p \in Producers, NEW i \in Items, PushCall(p, i)
      PROVE  TypeOK'
  BY <1>2 DEF PushCall
<1>3. ASSUME NEW p \in Producers, PushTest(p)
      PROVE  TypeOK'
  BY <1>3 DEF PushTest, HasRoom
<1>4. ASSUME NEW p \in Producers, PushAppend(p)
      PROVE  TypeOK'
  <2>1. node[p] \in Items
    BY <1>4 DEF PushAppend, WithLast, CarriesItem
  <2>2. queue' \in Seq(Items) /\ put' \in Seq(Items)
    BY <1>4, <2>1, AppendProperties DEF PushAppend, WithLast
  <2>3. QED
    BY <1>4, <2>2 DEF PushAppend, WithLast
<1>5. ASSUME NEW p \in Producers, PushUnlock(p)
      PROVE  TypeOK'
  BY <1>5 DEF PushUnlock
<1>6. ASSUME NEW p \in Producers, PushSleep(p)
      PROVE  TypeOK'
  BY <1>6 DEF PushSleep
<1>7. ASSUME NEW c \in Consumers, PopCall(c)
      PROVE  TypeOK'
  BY <1>7 DEF PopCall
<1>8. ASSUME NEW c \in Consumers, PopTest(c)
      PROVE  TypeOK'
  BY <1>8 DEF PopTest
<1>9. ASSUME NEW c \in Consumers, PopFront(c)
      PROVE  TypeOK'
  <2>1. Head(queue) \in Items
    BY <1>9, HeadTailProperties DEF PopFront, TestStillHolds
  <2>2. QED
    BY <1>9, <2>1 DEF PopFront
<1>10. ASSUME NEW c \in Consumers, PopRemove(c)
       PROVE  TypeOK'
  <2>1. /\ queue # <<>>
        /\ node[c] = Head(queue)
    BY <1>10 DEF PopRemove, WithoutFirst, TestStillHolds
  <2>2. queue' \in Seq(Items) /\ node[c] \in Items
    BY <1>10, <2>1, HeadTailProperties DEF PopRemove, WithoutFirst
  <2>3. taken' \in Seq(Items)
    BY <1>10, <2>2, AppendProperties DEF PopRemove, WithoutFirst
  <2>4. QED
    BY <1>10, <2>2, <2>3 DEF PopRemove, WithoutFirst
<1>11. ASSUME NEW c \in Consumers, PopUnlock(c)
       PROVE  TypeOK'
  <2>1. success[c] => node[c] \in Items
    BY <1>11 DEF PopUnlock, CarriesItem
  <2>2. QED
    BY <1>11, <2>1 DEF PopUnlock
<1>12. ASSUME NEW c \in Consumers, TimedSleep(c)
       PROVE  TypeOK'
  BY <1>12 DEF TimedSleep
<1>13. ASSUME NEW c \in Consumers, PopSleep(c)
       PROVE  TypeOK'
  BY <1>13 DEF PopSleep
<1>14. CASE UNCHANGED vars
  BY <1>14 DEF vars
<1>15. QED
  BY <1>1, <1>2, <1>3, <1>4, <1>5, <1>6, <1>7, <1>8, <1>9, <1>10, <1>11,
     <1>12, <1>13, <1>14 DEF Next, Push, Pop

\* Every step keeps each item with the call that carries it.
LEMMA StepCarriesItem == IInv /\ [Next]_vars => CarriesItem'
<1> SUFFICES ASSUME IInv, [Next]_vars PROVE CarriesItem'
  OBVIOUS
<1> USE ThreadsAssumption, ItemsAssumption
    DEF IInv, TypeOK, CarriesItem, Goto, Threads
<1>1. ASSUME NEW t \in Threads, Lock(t)
      PROVE  CarriesItem'
  BY <1>1 DEF Lock, Unlocked
<1>2. ASSUME NEW p \in Producers, NEW i \in Items, PushCall(p, i)
      PROVE  CarriesItem'
  BY <1>2 DEF PushCall
<1>3. ASSUME NEW p \in Producers,
             PushTest(p) \/ PushAppend(p) \/ PushUnlock(p) \/ PushSleep(p)
      PROVE  CarriesItem'
  BY <1>3 DEF PushTest, HasRoom, PushAppend, PushUnlock, PushSleep
<1>4. ASSUME NEW c \in Consumers, PopCall(c) \/ PopTest(c) \/ PopUnlock(c)
      PROVE  CarriesItem'
  <2>1. CASE PopCall(c)
    BY <2>1 DEF PopCall
  <2>2. CASE PopTest(c)
    BY <2>2 DEF PopTest
  <2>3. CASE PopUnlock(c)
    BY <2>3 DEF PopUnlock
  <2>4. QED
    BY <1>4, <2>1, <2>2, <2>3
<1>5. ASSUME NEW c \in Consumers, PopFront(c)
      PROVE  CarriesItem'
  BY <1>5 DEF PopFront
<1>6. ASSUME NEW c \in Consumers, PopRemove(c)
      PROVE  CarriesItem'
  <2>1. node[c] \in Items
    BY <1>6, HeadTailProperties DEF PopRemove, WithoutFirst, TestStillHolds
  <2>2. QED
    BY <1>6, <2>1 DEF PopRemove, WithoutFirst
<1>7. ASSUME NEW c \in Consumers, TimedSleep(c) \/ PopSleep(c)
      PROVE  CarriesItem'
  BY <1>7 DEF TimedSleep, PopSleep
<1>8. CASE UNCHANGED vars
  BY <1>8 DEF vars
<1>9. QED
  BY <1>1, <1>2, <1>3, <1>4, <1>5, <1>6, <1>7, <1>8 DEF Next, Push, Pop

\* Only the free mutex is taken and only its holder releases it.
LEMMA StepExclusion == IInv /\ [Next]_vars => Exclusion'
<1> SUFFICES ASSUME IInv, [Next]_vars PROVE Exclusion'
  OBVIOUS
<1> USE ThreadsAssumption
    DEF IInv, TypeOK, Exclusion, InCriticalSection, Goto, Threads
<1>1. ASSUME NEW t \in Threads, Lock(t)
      PROVE  Exclusion'
  BY <1>1 DEF Lock, Unlocked
<1>2. ASSUME NEW p \in Producers, NEW i \in Items, PushCall(p, i)
      PROVE  Exclusion'
  BY <1>2 DEF PushCall
<1>3. ASSUME NEW p \in Producers, PushTest(p) \/ PushAppend(p) \/ PushSleep(p)
      PROVE  Exclusion'
  BY <1>3 DEF PushTest, HasRoom, PushAppend, PushSleep
<1>4. ASSUME NEW p \in Producers, PushUnlock(p)
      PROVE  Exclusion'
  BY <1>4 DEF PushUnlock
<1>5. ASSUME NEW c \in Consumers,
             PopCall(c) \/ PopTest(c) \/ PopFront(c) \/ PopRemove(c)
      PROVE  Exclusion'
  BY <1>5 DEF PopCall, PopTest, PopFront, PopRemove
<1>6. ASSUME NEW c \in Consumers, PopUnlock(c)
      PROVE  Exclusion'
  BY <1>6 DEF PopUnlock
<1>7. ASSUME NEW c \in Consumers, TimedSleep(c) \/ PopSleep(c)
      PROVE  Exclusion'
  BY <1>7 DEF TimedSleep, PopSleep
<1>8. CASE UNCHANGED vars
  BY <1>8 DEF vars
<1>9. QED
  BY <1>1, <1>2, <1>3, <1>4, <1>5, <1>6, <1>7, <1>8 DEF Next, Push, Pop

\* A test made under the mutex stays true until the mutex is released, for
\* no other thread is then at a step that changes the queue.
LEMMA StepTestStillHolds == IInv /\ [Next]_vars => TestStillHolds'
<1> SUFFICES ASSUME IInv, [Next]_vars PROVE TestStillHolds'
  OBVIOUS
<1> USE ThreadsAssumption, LimitAssumption
    DEF IInv, TypeOK, TestStillHolds, Goto, Threads
<1>1. ASSUME NEW t \in Threads, Lock(t)
      PROVE  TestStillHolds'
  BY <1>1 DEF Lock, Unlocked
<1>2. ASSUME NEW p \in Producers, NEW i \in Items, PushCall(p, i)
      PROVE  TestStillHolds'
  BY <1>2 DEF PushCall
<1>3. ASSUME NEW p \in Producers, PushTest(p) \/ PushUnlock(p) \/ PushSleep(p)
      PROVE  TestStillHolds'
  BY <1>3 DEF PushTest, HasRoom, PushUnlock, PushSleep
<1>4. ASSUME NEW p \in Producers, PushAppend(p)
      PROVE  TestStillHolds'
  <2>1. \A t \in Threads \ {p} : pc[t] \notin {"push", "front", "pop"}
    BY <1>4 DEF PushAppend, WithLast, Exclusion, InCriticalSection
  <2>2. /\ Len(queue') = Len(queue) + 1
        /\ Len(queue) < Limit
    BY <1>4, AppendProperties DEF PushAppend, WithLast, CarriesItem
  <2>3. Len(queue) \in Nat
    BY LenProperties
  <2>4. Len(queue') <= Limit
    BY <2>2, <2>3
  <2>5. pc' = [pc EXCEPT ![p] = "unlock"] /\ node' = node
    BY <1>4 DEF PushAppend, WithLast
  <2>6. QED
    BY <2>1, <2>4, <2>5
<1>5. ASSUME NEW c \in Consumers, PopCall(c) \/ PopTest(c) \/ PopUnlock(c)
      PROVE  TestStillHolds'
  BY <1>5 DEF PopCall, PopTest, PopUnlock
<1>6. ASSUME NEW c \in Consumers, PopFront(c)
      PROVE  TestStillHolds'
  BY <1>6 DEF PopFront
<1>7. ASSUME NEW c \in Consumers, PopRemove(c)
      PROVE  TestStillHolds'
  <2>1. \A t \in Threads \ {c} : pc[t] \notin {"push", "front", "pop"}
    BY <1>7 DEF PopRemove, WithoutFirst, Exclusion, InCriticalSection
  <2>2. Len(queue') = Len(queue) - 1
    BY <1>7, HeadTailProperties DEF PopRemove, WithoutFirst
  <2>3. Len(queue) \in Nat
    BY LenProperties
  <2>4. Len(queue') <= Limit
    BY <2>2, <2>3
  <2>5. pc' = [pc EXCEPT ![c] = "unlock"] /\ node' = node
    BY <1>7 DEF PopRemove, WithoutFirst
  <2>6. QED
    BY <2>1, <2>4, <2>5
<1>8. ASSUME NEW c \in Consumers, TimedSleep(c) \/ PopSleep(c)
      PROVE  TestStillHolds'
  BY <1>8 DEF TimedSleep, PopSleep
<1>9. CASE UNCHANGED vars
  BY <1>9 DEF vars
<1>10. QED
  BY <1>1, <1>2, <1>3, <1>4, <1>5, <1>6, <1>7, <1>8, <1>9 DEF Next, Push, Pop

\* The two steps that touch the queue keep what was put equal to what was
\* taken followed by what is queued.
LEMMA StepFifo == IInv /\ [Next]_vars => Fifo'
<1> SUFFICES ASSUME IInv, [Next]_vars PROVE Fifo'
  OBVIOUS
<1> USE DEF IInv, TypeOK, Fifo
<1>1. ASSUME NEW p \in Producers, PushAppend(p)
      PROVE  Fifo'
  <2>1. node[p] \in Items
    BY <1>1 DEF PushAppend, WithLast, CarriesItem
  <2>2. Append(taken \o queue, node[p]) = taken \o Append(queue, node[p])
    BY <2>1, AppendToConcat, SMTT(30)
  <2>3. QED
    BY <1>1, <2>2 DEF PushAppend, WithLast
<1>2. ASSUME NEW c \in Consumers, PopRemove(c)
      PROVE  Fifo'
  <2>1. queue # <<>> /\ node[c] = Head(queue)
    BY <1>2 DEF PopRemove, WithoutFirst, TestStillHolds
  <2>2. QED
    BY <1>2, <2>1, MoveHead DEF PopRemove, WithoutFirst
<1>3. ASSUME \/ UNCHANGED vars
             \/ \E p \in Producers : Push(p) /\ ~PushAppend(p)
             \/ \E c \in Consumers : Pop(c) /\ ~PopRemove(c)
      PROVE  Fifo'
  <2>1. UNCHANGED vars => UNCHANGED <<queue, put, taken>>
    BY DEF vars
  <2>2. ASSUME NEW p \in Producers, Push(p), ~PushAppend(p)
        PROVE  UNCHANGED <<queue, put, taken>>
    BY <2>2 DEF Push, Lock, PushCall, PushTest, PushUnlock, PushSleep
  <2>3. ASSUME NEW c \in Consumers, Pop(c), ~PopRemove(c)
        PROVE  UNCHANGED <<queue, put, taken>>
    BY <2>3 DEF Pop, Lock, PopCall, PopTest, PopFront, PopUnlock, TimedSleep,
                PopSleep
  <2>4. QED
    BY <1>3, <2>1, <2>2, <2>3
<1>4. QED
  BY <1>1, <1>2, <1>3 DEF Next

\* The conjunction of the step lemmas, for every reachable state.
THEOREM Invariance == Spec => []IInv
<1>1. IInv /\ [Next]_vars => IInv'
  BY StepTypeOK, StepCarriesItem, StepExclusion, StepTestStillHolds, StepFifo
     DEF IInv
<1>2. QED
  BY InitIInv, <1>1, PTL DEF Spec
-----------------------------------------------------------------------------
(* What the invariant gives the callers. *)

\* The variables of TaskQueue keep their types.
THEOREM TypeCorrect == Spec => []TypeOK
<1>1. IInv => TypeOK
  BY DEF IInv
<1>2. QED
  BY Invariance, <1>1, PTL

\* The mutex excludes: a thread between lock and unlock is the holder.
THEOREM MutualExclusion == Spec => []Exclusion
<1>1. IInv => Exclusion
  BY DEF IInv
<1>2. QED
  BY Invariance, <1>1, PTL

\* No Push overfills the queue and no Pop reads the front of an empty one.
THEOREM NoStaleTest == Spec => []TestStillHolds
<1>1. IInv => TestStillHolds
  BY DEF IInv
<1>2. QED
  BY Invariance, <1>1, PTL

\* Items leave in the order they entered, none lost and none invented.
THEOREM FirstInFirstOut == Spec => []Fifo
<1>1. IInv => Fifo
  BY DEF IInv
<1>2. QED
  BY Invariance, <1>1, PTL

\* Every behaviour of the locked, retrying code is one of the atomic bounded
\* queue: PushAppend is Put, PopRemove is Take and the other steps stutter.
THEOREM Refinement == Spec => ImplementsFifo
<1>1. Init => Abstract!Init
  BY DEF Init, Abstract!Init
<1>2. IInv /\ [Next]_vars => [Abstract!Next]_(Abstract!vars)
  <2> SUFFICES ASSUME IInv, [Next]_vars
               PROVE  [Abstract!Next]_(Abstract!vars)
    OBVIOUS
  <2> USE DEF Abstract!Next, Abstract!vars
  <2>put. ASSUME NEW p \in Producers, PushAppend(p)
          PROVE  Abstract!Next
    <3>1. node[p] \in Items /\ Len(queue) < Limit
      BY <2>put DEF PushAppend, WithLast, IInv, CarriesItem, TestStillHolds
    <3>2. Abstract!Put(node[p])
      BY <2>put, <3>1 DEF PushAppend, WithLast, Abstract!Put
    <3>3. QED
      BY <3>1, <3>2
  <2>take. ASSUME NEW c \in Consumers, PopRemove(c)
           PROVE  Abstract!Next
    BY <2>take DEF PopRemove, WithoutFirst, IInv, TestStillHolds, Abstract!Take
  <2>stutter. ASSUME \/ UNCHANGED vars
                     \/ \E p \in Producers : Push(p) /\ ~PushAppend(p)
                     \/ \E c \in Consumers : Pop(c) /\ ~PopRemove(c)
              PROVE  UNCHANGED Abstract!vars
    <3>1. UNCHANGED vars => UNCHANGED Abstract!vars
      BY DEF vars
    <3>2. ASSUME NEW p \in Producers, Push(p), ~PushAppend(p)
          PROVE  UNCHANGED Abstract!vars
      BY <3>2 DEF Push, Lock, PushCall, PushTest, PushUnlock, PushSleep
    <3>3. ASSUME NEW c \in Consumers, Pop(c), ~PopRemove(c)
          PROVE  UNCHANGED Abstract!vars
      BY <3>3 DEF Pop, Lock, PopCall, PopTest, PopFront, PopUnlock, TimedSleep,
                  PopSleep
    <3>4. QED
      BY <2>stutter, <3>1, <3>2, <3>3
  <2>4. QED
    BY <2>put, <2>take, <2>stutter DEF Next
<1>3. QED
  BY Invariance, <1>1, <1>2, PTL DEF Spec, ImplementsFifo, Abstract!Spec
=============================================================================
