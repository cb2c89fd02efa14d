----------------------------- MODULE SyncQueue -----------------------------
(***************************************************************************)
(* The queue that connects two phases (utils/sync_queue.c over             *)
(* utils/queue.c): one mutex, the condition max_work on which a full queue *)
(* parks its producers and the condition min_work on which an empty queue  *)
(* parks its consumers.                                                    *)
(*                                                                         *)
(* A step is what a thread does from taking the mutex to giving it up: to  *)
(* the unlock at the end of the call, or to the pthread_cond_wait inside.  *)
(* A waiting thread leaves the wait set when it is signalled (or for no    *)
(* reason: POSIX allows a spurious wakeup) and then contends for the mutex *)
(* again; Resume is the test of the while loop it makes next.              *)
(***************************************************************************)
EXTENDS Naturals, Sequences, FiniteSets

CONSTANTS
  Producers,  \* the threads that push
  Consumers,  \* the threads that pop
  Peekers,    \* the consumers that look at the head, use it and pop it then
  Items,      \* what is pushed
  NoItem,     \* stands for "has not looked at the head"
  max_size,   \* the capacity given to sync_queue_new; 0 for no bound
  MaxPush     \* bound of the model: how many items are pushed in all

\* The append phase, the only user of sync_queue_get_top, is the only
\* consumer of its queue.
ASSUME QueueAssumption ==
  /\ max_size \in Nat
  /\ MaxPush \in Nat
  /\ Producers \cap Consumers = {}
  /\ Peekers \subseteq Consumers
  /\ Peekers # {} => \A c, d \in Consumers : c = d
  /\ NoItem \notin Items

VARIABLES
  queue,      \* s_queue->queue
  term,       \* s_queue->term
  pc,         \* pc[t]: where thread t is with respect to the queue
  pushing,    \* pushing[p]: the item producer p is waiting to push
  calling,    \* calling[c]: the call consumer c is waiting in
  seen,       \* seen[c]: the head that consumer c has looked at
  accepted,   \* history: the items pushed, in order
  delivered   \* history: the items popped, in order

vars == <<queue, term, pc, pushing, calling, seen, accepted, delivered>>

Threads == Producers \cup Consumers

Init ==
  /\ queue = <<>>
  /\ term = 0
  /\ pc = [t \in Threads |-> "run"]
  /\ pushing = [p \in Producers |-> NoItem]
  /\ calling = [c \in Consumers |-> "pop"]
  /\ seen = [c \in Consumers |-> NoItem]
  /\ accepted = <<>>
  /\ delivered = <<>>

Full == max_size > 0 /\ Len(queue) >= max_size

\* Mutant of Broadcast: nobody is signalled.
BroadcastNobody(t, s, w, woken) == pc' = [pc EXCEPT ![t] = s]

\* Thread t goes on to state s, and the threads in wait state w are signalled.
Broadcast(t, s, w, woken) ==
  pc' = [u \in Threads |-> IF u = t THEN s
                           ELSE IF pc[u] = w THEN woken ELSE pc[u]]

-----------------------------------------------------------------------------
\* sync_queue_push, from the test of the while loop on.
PushItem(p, x) ==
  \/ /\ Full
     /\ pc' = [pc EXCEPT ![p] = "in_max_work"]
     /\ pushing' = [pushing EXCEPT ![p] = x]
     /\ UNCHANGED <<queue, term, calling, seen, accepted, delivered>>
  \/ /\ ~Full
     /\ queue' = Append(queue, x)
     /\ accepted' = Append(accepted, x)
     /\ pushing' = [pushing EXCEPT ![p] = NoItem]
     /\ Broadcast(p, "run", "in_min_work", "off_min_work")
     /\ UNCHANGED <<term, calling, seen, delivered>>

\* A push on a terminated queue returns at once and changes nothing.  Only
\* this first look at term can refuse an item: a producer that had to wait
\* does not look again.  MaxPush bounds the model.
Push(p, x) ==
  /\ pc[p] = "run"
  /\ term = 0
  /\ Len(accepted) + Cardinality({q \in Producers : pushing[q] # NoItem}) < MaxPush
  /\ PushItem(p, x)

\* Mutant of ResumePush: the wait is under an if, and the push is not tested again.
ResumePushUntested(p) ==
  /\ pc[p] = "off_max_work"
  /\ queue' = Append(queue, pushing[p])
  /\ accepted' = Append(accepted, pushing[p])
  /\ pushing' = [pushing EXCEPT ![p] = NoItem]
  /\ Broadcast(p, "run", "in_min_work", "off_min_work")
  /\ UNCHANGED <<term, calling, seen, delivered>>

ResumePush(p) ==
  /\ pc[p] = "off_max_work"
  /\ PushItem(p, pushing[p])

-----------------------------------------------------------------------------
\* Mutant of EmptyQueue: a terminated queue is given up before it is drained.
EmptyQueueTermFirst(c) ==
  /\ queue = <<>> \/ term = 1
  /\ pc' = [pc EXCEPT ![c] = IF term = 1 THEN "ended" ELSE "in_min_work"]
  /\ UNCHANGED <<queue, term, pushing, seen, accepted, delivered>>

\* The common part of sync_queue_pop and sync_queue_get_top: an empty queue
\* parks the caller, unless it is terminated, when the call returns NULL and
\* the caller leaves its loop.
EmptyQueue(c) ==
  /\ queue = <<>>
  /\ pc' = [pc EXCEPT ![c] = IF term = 1 THEN "ended" ELSE "in_min_work"]
  /\ UNCHANGED <<queue, term, pushing, seen, accepted, delivered>>

\* Mutant of TakeHead: the caller keeps using the item it has popped.
TakeHeadKeepSeen(c) ==
  /\ queue # <<>>
  /\ queue' = Tail(queue)
  /\ delivered' = Append(delivered, Head(queue))
  /\ Broadcast(c, "run", "in_max_work", "off_max_work")
  /\ UNCHANGED <<term, pushing, accepted, seen>>

TakeHead(c) ==
  /\ queue # <<>>
  /\ queue' = Tail(queue)
  /\ delivered' = Append(delivered, Head(queue))
  /\ seen' = [seen EXCEPT ![c] = NoItem]
  /\ Broadcast(c, "run", "in_max_work", "off_max_work")
  /\ UNCHANGED <<term, pushing, accepted>>

LookAtHead(c) ==
  /\ queue # <<>>
  /\ seen' = [seen EXCEPT ![c] = Head(queue)]
  /\ pc' = [pc EXCEPT ![c] = "run"]
  /\ UNCHANGED <<queue, term, pushing, accepted, delivered>>

\* sync_queue_pop.
Pop(c) ==
  /\ pc[c] = "run"
  /\ c \in Peekers => seen[c] # NoItem
  /\ calling' = [calling EXCEPT ![c] = "pop"]
  /\ EmptyQueue(c) \/ TakeHead(c)

\* sync_queue_get_top.
GetTop(c) ==
  /\ pc[c] = "run"
  /\ c \in Peekers /\ seen[c] = NoItem
  /\ calling' = [calling EXCEPT ![c] = "get_top"]
  /\ EmptyQueue(c) \/ LookAtHead(c)

ResumeTake(c) ==
  /\ pc[c] = "off_min_work"
  /\ UNCHANGED calling
  /\ \/ EmptyQueue(c)
     \/ calling[c] = "pop" /\ TakeHead(c)
     \/ calling[c] = "get_top" /\ LookAtHead(c)

\* Mutant of Terminate: the waiting consumers are not signalled.
TerminateSilent ==
  /\ term = 0
  /\ \A p \in Producers : pc[p] = "run"
  /\ term' = 1
  /\ pc' = [t \in Threads |-> IF t \in Producers THEN "ended" ELSE pc[t]]
  /\ UNCHANGED <<queue, pushing, calling, seen, accepted, delivered>>

\* sync_queue_term.  The thread that terminates a queue is its only producer,
\* or has joined it (close_container_store), so no push is under way.  It
\* signals min_work and leaves max_work alone.
Terminate ==
  /\ term = 0
  /\ \A p \in Producers : pc[p] = "run"
  /\ term' = 1
  /\ pc' = [t \in Threads |-> IF t \in Producers THEN "ended"
                              ELSE IF pc[t] = "in_min_work" THEN "off_min_work"
                              ELSE pc[t]]
  /\ UNCHANGED <<queue, pushing, calling, seen, accepted, delivered>>

\* A spurious wakeup: pthread_cond_wait may return without a signal.
SpuriousWakeup(t) ==
  /\ \/ /\ pc[t] = "in_max_work"
        /\ pc' = [pc EXCEPT ![t] = "off_max_work"]
     \/ /\ pc[t] = "in_min_work"
        /\ pc' = [pc EXCEPT ![t] = "off_min_work"]
  /\ UNCHANGED <<queue, term, pushing, calling, seen, accepted, delivered>>

-----------------------------------------------------------------------------
Produce(p) == ResumePush(p) \/ \E x \in Items : Push(p, x)
Consume(c) == Pop(c) \/ GetTop(c) \/ ResumeTake(c)

Next ==
  \/ \E p \in Producers : Produce(p)
  \/ \E c \in Consumers : Consume(c)
  \/ \E t \in Threads : SpuriousWakeup(t)
  \/ Terminate

\* A thread that can run is scheduled in the end.  Nothing makes a spurious
\* wakeup happen, so no progress may rest on one.
Fairness ==
  /\ \A p \in Producers : WF_vars(ResumePush(p))
  /\ \A c \in Consumers : WF_vars(Consume(c))
  /\ WF_vars(Terminate)

Spec == Init /\ [][Next]_vars
FairSpec == Spec /\ Fairness
-----------------------------------------------------------------------------
\* Every variable has its type; what a thread waits for fits where it waits.
TypeOK ==
  /\ queue \in Seq(Items)
  /\ term \in {0, 1}
  /\ pc \in [Threads -> {"run", "in_max_work", "off_max_work",
                         "in_min_work", "off_min_work", "ended"}]
  /\ \A p \in Producers : pc[p] \in {"run", "in_max_work", "off_max_work", "ended"}
  /\ \A c \in Consumers : pc[c] \in {"run", "in_min_work", "off_min_work", "ended"}
  /\ pushing \in [Producers -> Items \cup {NoItem}]
  /\ \A p \in Producers : (pushing[p] # NoItem) <=> (pc[p] \in {"in_max_work", "off_max_work"})
  /\ calling \in [Consumers -> {"pop", "get_top"}]
  /\ seen \in [Consumers -> Items \cup {NoItem}]
  /\ accepted \in Seq(Items)
  /\ delivered \in Seq(Items)

\* The queue never holds more than max_size items: the bound on the memory
\* between two phases, which each push must re-establish after its wait.
Bounded == max_size > 0 => Len(queue) <= max_size

\* No wakeup is lost: a thread is parked only while what it waits for is
\* false.  A producer waits on max_work only while the queue is full, a
\* consumer on min_work only while it is empty and not terminated, although
\* sync_queue_term signals one condition and get_top none.
NoLostWakeup ==
  /\ \A p \in Producers : pc[p] = "in_max_work" => Full
  /\ \A c \in Consumers : pc[c] = "in_min_work" => queue = <<>> /\ term = 0

\* Items come out in the order they went in, none lost, none twice.
Fifo == accepted = delivered \o queue

\* A consumer is told that the queue is finished (NULL) only when it is
\* terminated and drained, and then no producer is left inside a push that
\* would add an item nobody takes.
EndedMeansDrained ==
  \A c \in Consumers : pc[c] = "ended" =>
    /\ term = 1
    /\ delivered = accepted
    /\ \A p \in Producers : pushing[p] = NoItem

\* What get_top returned is what the next pop of the same thread takes: the
\* append phase frees the container it has just written and no other.
PeekedIsHead ==
  \A c \in Consumers : seen[c] # NoItem => queue # <<>> /\ Head(queue) = seen[c]

\* Every thread that uses the queue comes to its end: no producer stays in a
\* push and every consumer gets its NULL.
AllEnd == <>[](\A t \in Threads : pc[t] = "ended")

BQ == INSTANCE BoundedQueue

\* SyncQueue implements the bounded queue of its callers.
ImplementsBoundedQueue == BQ!BQSpec
=============================================================================
