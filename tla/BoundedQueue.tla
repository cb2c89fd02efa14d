---------------------------- MODULE BoundedQueue ----------------------------
(***************************************************************************)
(* What a phase of destor expects of the queue between it and the next     *)
(* phase (utils/sync_queue.h): a FIFO of at most max_size items that is    *)
(* closed once by the side that fills it, with no threads and no condition *)
(* variables in sight.  SyncQueue implements this module.                  *)
(***************************************************************************)
EXTENDS Naturals, Sequences

CONSTANTS
  Items,     \* what can be put into the queue
  max_size   \* its capacity; 0 means that it has no bound

VARIABLES
  queue,     \* the items accepted and not yet delivered, oldest first
  term       \* 1 once the queue is closed

bqVars == <<queue, term>>

BQInit == queue = <<>> /\ term = 0

Put(x) ==
  /\ term = 0
  /\ max_size > 0 => Len(queue) < max_size
  /\ queue' = Append(queue, x)
  /\ UNCHANGED term

Take ==
  /\ queue # <<>>
  /\ queue' = Tail(queue)
  /\ UNCHANGED term

Close ==
  /\ term = 0
  /\ term' = 1
  /\ UNCHANGED queue

BQNext == Take \/ Close \/ \E x \in Items : Put(x)

\* What is never done, and that an item does not stay for ever.
BQSafe == BQInit /\ [][BQNext]_bqVars
BQSpec == BQSafe /\ WF_bqVars(Take)
=============================================================================
