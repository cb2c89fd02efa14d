-------------------------- MODULE SyncQueueProofs --------------------------
(***************************************************************************)
(* The safety of utils/sync_queue.c for any number of producers and        *)
(* consumers, any capacity and any items.                                  *)
(***************************************************************************)
EXTENDS SyncQueue, TLAPS

\* Once the queue is terminated no producer is left, and a consumer that was
\* told so has seen it empty for good.
TermInv ==
  /\ term = 1 => \A p \in Producers : pc[p] = "ended"
  /\ \A c \in Consumers : pc[c] = "ended" => term = 1 /\ queue = <<>>

\* Only a peeker is inside get_top or holds what it returned.
PeekersLook ==
  \A c \in Consumers : calling[c] = "get_top" \/ seen[c] # NoItem => c \in Peekers

\* The inductive invariant.
IInv == TypeOK /\ Bounded /\ NoLostWakeup /\ Fifo /\ TermInv /\ PeekedIsHead /\ PeekersLook

-----------------------------------------------------------------------------
\* Moving the head of a queue to the end of what was delivered leaves the
\* whole sequence as it was.
LEMMA MoveHead ==
  ASSUME NEW S, NEW d \in Seq(S), NEW q \in Seq(S), q # <<>>
  PROVE  Append(d, Head(q)) \o Tail(q) = d \o q
  OBVIOUS

\* A push at the end of the queue is a push at the end of the whole sequence.
LEMMA AppendRight ==
  ASSUME NEW S, NEW d \in Seq(S), NEW q \in Seq(S), NEW x \in S
  PROVE  Append(d \o q, x) = d \o Append(q, x)
  OBVIOUS

-----------------------------------------------------------------------------
\* A push that finds room, and a push that has to wait.
LEMMA PushKeepsIInv ==
  ASSUME IInv, NEW p \in Producers, NEW x \in Items, term = 0,
         pc[p] \in {"run", "off_max_work"}, PushItem(p, x)
  PROVE  IInv'
<1> USE QueueAssumption DEF IInv, Threads
<1>1. CASE Full /\ queue' = queue
  <2>1. /\ pc' = [pc EXCEPT ![p] = "in_max_work"]
        /\ pushing' = [pushing EXCEPT ![p] = x]
        /\ UNCHANGED <<queue, term, calling, seen, accepted, delivered>>
    BY <1>1 DEF PushItem, TypeOK
  <2>2. TypeOK'
    BY <2>1 DEF TypeOK
  <2>3. Bounded' /\ Fifo' /\ PeekedIsHead' /\ PeekersLook'
    BY <2>1 DEF Bounded, Fifo, PeekedIsHead, PeekersLook
  <2>4. NoLostWakeup'
    BY <1>1, <2>1 DEF NoLostWakeup, TypeOK, Full
  <2>5. TermInv'
    BY <2>1 DEF TermInv, TypeOK
  <2> QED BY <2>2, <2>3, <2>4, <2>5
<1>2. CASE ~Full
  <2>1. /\ queue' = Append(queue, x)
        /\ accepted' = Append(accepted, x)
        /\ pushing' = [pushing EXCEPT ![p] = NoItem]
        /\ Broadcast(p, "run", "in_min_work", "off_min_work")
        /\ UNCHANGED <<term, calling, seen, delivered>>
    BY <1>2 DEF PushItem
  <2>2. TypeOK'
    BY <2>1 DEF TypeOK, Broadcast
  <2>3. Bounded'
    BY <1>2, <2>1 DEF Bounded, Full, TypeOK
  <2>4. NoLostWakeup'
    BY <1>2, <2>1 DEF NoLostWakeup, Broadcast, TypeOK
  <2>5. Fifo'
    <3>1. delivered \in Seq(Items) /\ queue \in Seq(Items)
      BY DEF TypeOK
    <3>2. Append(delivered \o queue, x) = delivered \o Append(queue, x)
      BY <3>1
    <3> QED BY <2>1, <3>2 DEF Fifo
  <2>6. TermInv'
    BY <2>1 DEF TermInv, TypeOK, Broadcast
  <2>7. PeekedIsHead' /\ PeekersLook'
    BY <2>1 DEF PeekedIsHead, PeekersLook, TypeOK
  <2> QED BY <2>2, <2>3, <2>4, <2>5, <2>6, <2>7
<1> QED BY <1>1, <1>2 DEF PushItem

-----------------------------------------------------------------------------
\* A consumer that finds the queue empty waits, or is told that it is over.
LEMMA EmptyKeepsIInv ==
  ASSUME IInv, NEW c \in Consumers, pc[c] \in {"run", "off_min_work"},
         EmptyQueue(c), NEW k \in {"pop", "get_top"},
         calling' = [calling EXCEPT ![c] = k], k = "get_top" => c \in Peekers
  PROVE  IInv'
<1> USE QueueAssumption DEF IInv, Threads, EmptyQueue
<1>1. TypeOK'
  BY DEF TypeOK
<1>2. Bounded' /\ Fifo' /\ PeekedIsHead' /\ PeekersLook'
  BY DEF Bounded, Fifo, PeekedIsHead, PeekersLook, TypeOK
<1>3. NoLostWakeup'
  BY DEF NoLostWakeup, TypeOK, Full
<1>4. TermInv'
  BY DEF TermInv, TypeOK
<1> QED BY <1>1, <1>2, <1>3, <1>4

\* A pop.  A consumer that takes the head is the one that has looked at it,
\* for it is alone.
LEMMA TakeKeepsIInv ==
  ASSUME IInv, NEW c \in Consumers, pc[c] \in {"run", "off_min_work"},
         TakeHead(c), calling' = [calling EXCEPT ![c] = "pop"],
         \A d \in Consumers : seen[d] # NoItem => d = c
  PROVE  IInv'
<1> USE QueueAssumption DEF IInv, Threads, TakeHead
<1>0. Head(queue) \in Items /\ Tail(queue) \in Seq(Items)
  BY DEF TypeOK
<1>1. TypeOK'
  <2>1. /\ queue' \in Seq(Items) /\ term' \in {0, 1}
        /\ seen' \in [Consumers -> Items \cup {NoItem}]
        /\ accepted' \in Seq(Items) /\ delivered' \in Seq(Items)
    BY <1>0 DEF TypeOK
  <2>2. /\ pushing' = pushing
        /\ calling' \in [Consumers -> {"pop", "get_top"}]
    BY DEF TypeOK
  <2>3. /\ pc' \in [Threads -> {"run", "in_max_work", "off_max_work",
                               "in_min_work", "off_min_work", "ended"}]
        /\ \A d \in Consumers : pc'[d] \in {"run", "in_min_work", "off_min_work", "ended"}
    BY DEF TypeOK, Broadcast
  <2>4. ASSUME NEW p \in Producers
        PROVE  /\ pc'[p] \in {"run", "in_max_work", "off_max_work", "ended"}
               /\ pushing'[p] # NoItem <=> pc'[p] \in {"in_max_work", "off_max_work"}
    <3>1. p # c /\ p \in Threads
      OBVIOUS
    <3>2. pc'[p] = IF pc[p] = "in_max_work" THEN "off_max_work" ELSE pc[p]
      BY <3>1 DEF Broadcast
    <3> QED BY <2>2, <3>2 DEF TypeOK
  <2> QED BY <2>1, <2>2, <2>3, <2>4 DEF TypeOK
<1>2. Bounded'
  BY DEF Bounded, TypeOK
<1>3. NoLostWakeup'
  BY DEF NoLostWakeup, TypeOK, Broadcast
<1>4. Fifo'
  <2>1. Append(delivered, Head(queue)) \o Tail(queue) = delivered \o queue
    BY MoveHead DEF TypeOK
  <2> QED BY <2>1 DEF Fifo
<1>5. TermInv'
  BY DEF TermInv, TypeOK, Broadcast
<1>6. PeekedIsHead' /\ PeekersLook'
  BY DEF PeekedIsHead, PeekersLook, TypeOK
<1> QED BY <1>1, <1>2, <1>3, <1>4, <1>5, <1>6

\* Looking at the head.
LEMMA LookKeepsIInv ==
  ASSUME IInv, NEW c \in Consumers, pc[c] \in {"run", "off_min_work"},
         LookAtHead(c), calling' = [calling EXCEPT ![c] = "get_top"], c \in Peekers
  PROVE  IInv'
<1> USE QueueAssumption DEF IInv, Threads, LookAtHead
<1>0. Head(queue) \in Items
  BY DEF TypeOK
<1>1. TypeOK'
  BY <1>0 DEF TypeOK
<1>2. Bounded' /\ Fifo'
  BY DEF Bounded, Fifo
<1>3. NoLostWakeup'
  BY DEF NoLostWakeup, TypeOK, Full
<1>4. TermInv'
  BY DEF TermInv, TypeOK
<1>5. PeekedIsHead' /\ PeekersLook'
  BY <1>0 DEF PeekedIsHead, PeekersLook, TypeOK
<1> QED BY <1>1, <1>2, <1>3, <1>4, <1>5

-----------------------------------------------------------------------------
\* No thread has called the queue yet.
LEMMA InitIInv == Init => IInv
  BY QueueAssumption
     DEF Init, IInv, TypeOK, Bounded, NoLostWakeup, Fifo, TermInv, PeekedIsHead,
         PeekersLook, Threads

\* Every step of every thread keeps the invariant.
LEMMA StepIInv == IInv /\ [Next]_vars => IInv'
<1> SUFFICES ASSUME IInv, [Next]_vars PROVE IInv'
  OBVIOUS
<1> USE DEF Threads
<1>1. ASSUME NEW p \in Producers, NEW x \in Items, Push(p, x) PROVE IInv'
  BY <1>1, PushKeepsIInv DEF Push
<1>2. ASSUME NEW p \in Producers, ResumePush(p) PROVE IInv'
  <2>1. pushing[p] \in Items /\ term = 0
    BY <1>2 DEF ResumePush, IInv, TypeOK, TermInv
  <2> QED BY <1>2, <2>1, PushKeepsIInv DEF ResumePush
<1>3. ASSUME NEW c \in Consumers, Pop(c) PROVE IInv'
  <2>1. CASE EmptyQueue(c)
    BY <1>3, <2>1, EmptyKeepsIInv DEF Pop
  <2>2. CASE TakeHead(c)
    <3>1. \A d \in Consumers : seen[d] # NoItem => d = c
      BY QueueAssumption DEF IInv, PeekersLook
    <3> QED BY <1>3, <2>2, <3>1, TakeKeepsIInv DEF Pop
  <2> QED BY <1>3, <2>1, <2>2 DEF Pop
<1>4. ASSUME NEW c \in Consumers, GetTop(c) PROVE IInv'
  BY <1>4, EmptyKeepsIInv, LookKeepsIInv DEF GetTop
<1>5. ASSUME NEW c \in Consumers, ResumeTake(c) PROVE IInv'
  <2>1. /\ calling[c] \in {"pop", "get_top"}
        /\ calling' = [calling EXCEPT ![c] = calling[c]]
        /\ calling[c] = "get_top" => c \in Peekers
    BY <1>5 DEF ResumeTake, IInv, TypeOK, PeekersLook
  <2>2. CASE EmptyQueue(c)
    BY <1>5, <2>1, <2>2, EmptyKeepsIInv DEF ResumeTake
  <2>3. CASE calling[c] = "pop" /\ TakeHead(c)
    <3>1. \A d \in Consumers : seen[d] # NoItem => d = c
      BY QueueAssumption DEF IInv, PeekersLook
    <3> QED BY <1>5, <2>1, <2>3, <3>1, TakeKeepsIInv DEF ResumeTake
  <2>4. CASE calling[c] = "get_top" /\ LookAtHead(c)
    BY <1>5, <2>1, <2>4, LookKeepsIInv DEF ResumeTake
  <2> QED BY <1>5, <2>2, <2>3, <2>4 DEF ResumeTake
<1>6. ASSUME NEW t \in Threads, SpuriousWakeup(t) PROVE IInv'
  <2> USE <1>6, QueueAssumption DEF IInv, SpuriousWakeup
  <2>1. TypeOK'
    BY DEF TypeOK
  <2>2. Bounded' /\ Fifo' /\ PeekedIsHead' /\ PeekersLook'
    BY DEF Bounded, Fifo, PeekedIsHead, PeekersLook
  <2>3. NoLostWakeup' /\ TermInv'
    BY DEF NoLostWakeup, TermInv, TypeOK, Full
  <2> QED BY <2>1, <2>2, <2>3
<1>7. ASSUME Terminate PROVE IInv'
  <2> USE <1>7, QueueAssumption DEF IInv, Terminate
  <2>1. TypeOK'
    BY DEF TypeOK
  <2>2. Bounded' /\ Fifo' /\ PeekedIsHead' /\ PeekersLook'
    BY DEF Bounded, Fifo, PeekedIsHead, PeekersLook
  <2>3. NoLostWakeup' /\ TermInv'
    BY DEF NoLostWakeup, TermInv, TypeOK, Full
  <2> QED BY <2>1, <2>2, <2>3
<1>8. CASE UNCHANGED vars
  BY <1>8 DEF vars, IInv, TypeOK, Bounded, NoLostWakeup, Fifo, TermInv,
              PeekedIsHead, PeekersLook, Full
<1> QED
  BY <1>1, <1>2, <1>3, <1>4, <1>5, <1>6, <1>7, <1>8 DEF Next, Produce, Consume

-----------------------------------------------------------------------------
\* The inductive invariant holds in every reachable state.
THEOREM InductiveInvariant == Spec => []IInv
  BY InitIInv, StepIInv, PTL DEF Spec

\* Type correctness of the queue and of the threads that use it.
THEOREM TypeCorrect == Spec => []TypeOK
<1>1. IInv => TypeOK
  BY DEF IInv
<1> QED BY <1>1, InductiveInvariant, PTL

\* The capacity given to sync_queue_new is never exceeded.
THEOREM CapacityRespected == Spec => []Bounded
<1>1. IInv => Bounded
  BY DEF IInv
<1> QED BY <1>1, InductiveInvariant, PTL

\* No thread stays parked on a condition that has come true.
THEOREM NoWakeupIsLost == Spec => []NoLostWakeup
<1>1. IInv => NoLostWakeup
  BY DEF IInv
<1> QED BY <1>1, InductiveInvariant, PTL

\* Items leave in the order they came, none lost and none delivered twice.
THEOREM FirstInFirstOut == Spec => []Fifo
<1>1. IInv => Fifo
  BY DEF IInv
<1> QED BY <1>1, InductiveInvariant, PTL

\* NULL means terminated and drained, with no push under way.
THEOREM EndIsFinal == Spec => []EndedMeansDrained
<1>1. IInv => EndedMeansDrained
  <2> SUFFICES ASSUME IInv, NEW c \in Consumers, pc[c] = "ended"
               PROVE  /\ term = 1 /\ delivered = accepted
                      /\ \A p \in Producers : pushing[p] = NoItem
    BY DEF EndedMeansDrained
  <2>1. term = 1 /\ queue = <<>>
    BY DEF IInv, TermInv
  <2>2. delivered \o <<>> = delivered
    BY DEF IInv, TypeOK
  <2>3. \A p \in Producers : pushing[p] = NoItem
    BY <2>1 DEF IInv, TermInv, TypeOK
  <2> QED BY <2>1, <2>2, <2>3 DEF IInv, Fifo
<1> QED BY <1>1, InductiveInvariant, PTL

\* The pop that follows a get_top takes what get_top returned.
THEOREM PeekIsStable == Spec => []PeekedIsHead
<1>1. IInv => PeekedIsHead
  BY DEF IInv
<1> QED BY <1>1, InductiveInvariant, PTL

\* The mutex and the two conditions implement the bounded queue of the callers:
\* each step puts one item in, takes one out, closes the queue, or is a stutter.
THEOREM QueueIsBoundedQueue == Spec => BQ!BQSafe
<1>1. Init => BQ!BQInit
  BY DEF Init, BQ!BQInit
<1>2. IInv /\ [Next]_vars => [BQ!BQNext]_BQ!bqVars
  <2> SUFFICES ASSUME IInv, [Next]_vars
               PROVE  BQ!BQNext \/ UNCHANGED <<queue, term>>
    BY DEF BQ!bqVars
  <2>0. Peekers \subseteq Consumers
    BY QueueAssumption
  <2>1. ASSUME NEW p \in Producers, NEW x \in Items, term = 0, PushItem(p, x)
        PROVE  BQ!BQNext \/ UNCHANGED <<queue, term>>
    <3>1. Len(queue) \in Nat /\ max_size \in Nat
      BY QueueAssumption DEF IInv, TypeOK
    <3>2. CASE Full /\ UNCHANGED <<queue, term>>
      BY <3>2
    <3>3. CASE ~Full /\ queue' = Append(queue, x) /\ UNCHANGED term
      <4>1. max_size > 0 => Len(queue) < max_size
        BY <3>1, <3>3 DEF Full
      <4> QED BY <2>1, <3>3, <4>1 DEF BQ!BQNext, BQ!Put
    <3> QED BY <2>1, <3>2, <3>3 DEF PushItem
  <2>2. ASSUME NEW p \in Producers, ResumePush(p)
        PROVE  BQ!BQNext \/ UNCHANGED <<queue, term>>
    <3>1. pushing[p] \in Items /\ term = 0 /\ PushItem(p, pushing[p])
      BY <2>2 DEF ResumePush, IInv, TypeOK, TermInv
    <3> QED BY <2>1, <3>1
  <2>3. ASSUME NEW c \in Consumers, EmptyQueue(c) \/ TakeHead(c) \/ LookAtHead(c)
        PROVE  BQ!BQNext \/ UNCHANGED <<queue, term>>
    BY <2>3 DEF EmptyQueue, TakeHead, LookAtHead, BQ!BQNext, BQ!Take
  <2>4. CASE Terminate
    BY <2>4 DEF Terminate, BQ!BQNext, BQ!Close
  <2>5. CASE \E t \in Threads : SpuriousWakeup(t)
    BY <2>5 DEF SpuriousWakeup
  <2>6. CASE UNCHANGED vars
    BY <2>6 DEF vars
  <2> QED
    BY <2>1, <2>2, <2>3, <2>4, <2>5, <2>6
       DEF Next, Produce, Push, Consume, Pop, GetTop, ResumeTake
<1> QED BY <1>1, <1>2, InductiveInvariant, PTL DEF Spec, BQ!BQSafe
=============================================================================
