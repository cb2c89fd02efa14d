--------------------------- MODULE ContainerStore ---------------------------
(***************************************************************************)
(* The container store (storage/containerstore.c) and the three threads    *)
(* that meet in it during a backup: the filter phase fills a container and *)
(* hands it over (write_container_async), the append phase writes the      *)
(* containers handed over to container.pool (append_thread), and the dedup *)
(* phase reads the metadata of a container named by the fingerprint index  *)
(* (retrieve_container_meta_by_id), from container_buffer or from the pool.*)
(* The main thread opens and closes the store around each backup.          *)
(*                                                                         *)
(* The dedup phase and the filter phase exclude each other by index_lock;  *)
(* the append phase takes no part in that lock.  container_buffer is the   *)
(* queue of module BoundedQueue, so each of its calls is one step here.  A *)
(* container is its id and the set of its fingerprints.                    *)
(***************************************************************************)
EXTENDS Naturals, Sequences, FiniteSets

CONSTANTS
  FP,             \* the fingerprints
  Capacity,       \* how many chunks fill a container
  QueueCap,       \* capacity of container_buffer (25 in the code)
  MaxContainers,  \* bound of the model: how many containers are created
  MaxSessions,    \* bound of the model: how often the store is opened
  Crashes,        \* TRUE if destor may be killed
  NoContainer     \* the NULL of storage_buffer.container_buffer

ASSUME StoreAssumption ==
  /\ Capacity \in Nat \ {0}
  /\ QueueCap \in Nat \ {0}
  /\ MaxContainers \in Nat
  /\ MaxSessions \in Nat \ {0}
  /\ Crashes \in BOOLEAN
  /\ NoContainer \notin [id : Nat, fps : SUBSET FP]

Ids == 0..(MaxContainers - 1)
Containers == [id : Ids, fps : SUBSET FP]

VARIABLES
  count,      \* container_count
  pool,       \* the contents of container.pool, by id
  header,     \* the container_count kept at the head of container.pool
  buf,        \* storage_buffer.container_buffer of the filter phase
  queue,      \* container_buffer, the queue to the append phase
  appender,   \* where append_thread is in its loop
  top,        \* the container append_thread got from sync_queue_get_top
  lock,       \* which phase holds index_lock
  filter,     \* where the filter phase is
  chunk,      \* the fingerprint the filter phase is about to write
  dedup,      \* where the dedup phase is
  wanted,     \* the id the dedup phase retrieves
  index,      \* the ids that the fingerprint index names
  htable,     \* those named by the index as it was last saved
  session,    \* how often the store was opened
  store,      \* "open", "index_saved", "terminated" or "closed"
  torn,       \* history: destor was killed after close_index saved the index
              \* and before close_container_store saved the counter
  handed      \* history: what each container was handed over with

filterVars == <<count, buf, filter, chunk>>
dedupVars == <<dedup, wanted>>
appendVars == <<appender, top>>
diskVars == <<pool, header, htable, torn>>
vars == <<filterVars, dedupVars, appendVars, diskVars, queue, lock, index,
          session, store, handed>>

\* An empty container is never written.
Unwritten == {}
Nothing == [id \in {} |-> {}]

Init ==
  /\ count = 0 /\ header = 0
  /\ pool = [id \in Ids |-> Unwritten]
  /\ buf = NoContainer /\ filter = "idle" /\ chunk \in FP
  /\ queue = <<>>
  /\ appender = "get_top" /\ top = NoContainer
  /\ lock = "none"
  /\ dedup = "idle" /\ wanted = 0
  /\ index = {} /\ htable = {} /\ torn = FALSE
  /\ session = 1 /\ store = "open"
  /\ handed = Nothing

-----------------------------------------------------------------------------
(* The filter phase. *)

\* Mutant of NewContainer: the counter is incremented first.
NewContainerPreIncrement(fp) == [id |-> count + 1, fps |-> {fp}]

\* create_container takes the next id.  MaxContainers bounds the model.
NewContainer(fp) == [id |-> count, fps |-> {fp}]

Overflow(c) == Cardinality(c.fps) >= Capacity

FilterLock ==
  /\ filter = "idle" /\ lock = "none"
  /\ filter' = "locked" /\ lock' = "filter"
  /\ UNCHANGED <<count, buf, chunk, dedupVars, appendVars, diskVars, queue, index,
                 session, store, handed>>

\* A chunk goes into the container at hand, or into a first one.
\* add_chunk_to_container ignores a fingerprint that is already there.
AddChunk(fp) ==
  /\ filter = "locked"
  /\ \/ /\ buf = NoContainer
        /\ count < MaxContainers
        /\ buf' = NewContainer(fp) /\ count' = count + 1
     \/ /\ buf # NoContainer
        /\ ~Overflow(buf)
        /\ buf' = [buf EXCEPT !.fps = @ \cup {fp}]
        /\ UNCHANGED count
  /\ UNCHANGED <<filter, chunk, dedupVars, appendVars, diskVars, queue, lock, index,
                 session, store, handed>>

\* Mutant of SealFull: index_lock is given up around the push.
SealFullUnlocked(fp) ==
  /\ filter = "locked"
  /\ buf # NoContainer
  /\ Overflow(buf)
  /\ count < MaxContainers
  /\ index' = index \cup {buf.id}
  /\ filter' = "hand_over" /\ chunk' = fp
  /\ lock' = "none"
  /\ UNCHANGED <<count, buf, dedupVars, appendVars, diskVars, queue,
                 session, store, handed>>

\* The container is full: index_update names it in the index, before
\* write_container_async hands it over.
SealFull(fp) ==
  /\ filter = "locked"
  /\ buf # NoContainer
  /\ Overflow(buf)
  /\ count < MaxContainers
  /\ index' = index \cup {buf.id}
  /\ filter' = "hand_over" /\ chunk' = fp
  /\ UNCHANGED <<count, buf, dedupVars, appendVars, diskVars, queue, lock,
                 session, store, handed>>

\* sync_queue_push of a container: it waits while container_buffer is full.
HandOver(c) ==
  /\ Len(queue) < QueueCap
  /\ queue' = Append(queue, c)
  /\ handed' = [i \in DOMAIN handed \cup {c.id} |-> IF i = c.id THEN c.fps ELSE handed[i]]

\* The push, still under index_lock; then the next container takes the chunk.
HandOverFull ==
  /\ filter = "hand_over"
  /\ HandOver(buf)
  /\ buf' = NewContainer(chunk) /\ count' = count + 1
  /\ filter' = "locked"
  /\ UNCHANGED <<chunk, dedupVars, appendVars, diskVars, lock, index, session, store>>

FilterUnlock ==
  /\ filter = "locked"
  /\ filter' = "idle" /\ lock' = "none"
  /\ UNCHANGED <<count, buf, chunk, dedupVars, appendVars, diskVars, queue, index,
                 session, store, handed>>

\* rewrite_queue is finished, which it is only after the dedup phase has
\* ended: the last container is indexed and handed over without index_lock.
SealLast ==
  /\ filter = "idle" /\ dedup = "ended"
  /\ IF buf = NoContainer
     THEN filter' = "ended" /\ UNCHANGED index
     ELSE filter' = "hand_over_last" /\ index' = index \cup {buf.id}
  /\ UNCHANGED <<count, buf, chunk, dedupVars, appendVars, diskVars, queue, lock,
                 session, store, handed>>

HandOverLast ==
  /\ filter = "hand_over_last"
  /\ HandOver(buf)
  /\ filter' = "ended"
  /\ UNCHANGED <<count, buf, chunk, dedupVars, appendVars, diskVars, lock, index,
                 session, store>>

Filter == \/ FilterLock \/ FilterUnlock \/ HandOverFull \/ SealLast \/ HandOverLast
          \/ \E fp \in FP : AddChunk(fp) \/ SealFull(fp)

-----------------------------------------------------------------------------
(* The append phase: append_thread. *)

\* Mutant of AppendGetTop: the container is popped before it is written.
AppendPopFirst ==
  /\ appender = "get_top"
  /\ \/ /\ queue # <<>>
        /\ top' = Head(queue) /\ appender' = "write" /\ queue' = Tail(queue)
     \/ /\ queue = <<>> /\ store = "terminated"
        /\ appender' = "ended" /\ UNCHANGED <<top, queue>>
  /\ UNCHANGED <<filterVars, dedupVars, diskVars, lock, index, session, store, handed>>

\* Mutant of AppendGetTop: an empty queue blocks although it is terminated.
AppendNeverEnd ==
  /\ appender = "get_top"
  /\ queue # <<>>
  /\ top' = Head(queue) /\ appender' = "write"
  /\ UNCHANGED <<filterVars, dedupVars, diskVars, queue, lock, index, session, store, handed>>

\* sync_queue_get_top: the container stays in the queue.
AppendGetTop ==
  /\ appender = "get_top"
  /\ \/ /\ queue # <<>>
        /\ top' = Head(queue) /\ appender' = "write"
     \/ /\ queue = <<>> /\ store = "terminated"
        /\ appender' = "ended" /\ UNCHANGED top
  /\ UNCHANGED <<filterVars, dedupVars, diskVars, queue, lock, index, session, store, handed>>

\* write_container, under the mutex of the pool file.
AppendWrite ==
  /\ appender = "write"
  /\ pool' = [pool EXCEPT ![top.id] = top.fps]
  /\ appender' = "pop"
  /\ UNCHANGED <<filterVars, dedupVars, top, header, htable, torn, queue, lock, index, session,
                 store, handed>>

\* sync_queue_pop and free_container.
AppendPop ==
  /\ appender = "pop"
  /\ queue' = Tail(queue)
  /\ appender' = "get_top" /\ top' = NoContainer
  /\ UNCHANGED <<filterVars, dedupVars, diskVars, lock, index, session, store, handed>>

Appender == AppendGetTop \/ AppendWrite \/ AppendPop

-----------------------------------------------------------------------------
(* The dedup phase: retrieve_container_meta_by_id, called under index_lock  *)
(* for an id that the index names (fingerprint_cache_prefetch).             *)

DedupLock(id) ==
  /\ dedup = "idle" /\ lock = "none"
  /\ id \in index
  /\ dedup' = "find" /\ wanted' = id /\ lock' = "dedup"
  /\ UNCHANGED <<filterVars, appendVars, diskVars, queue, index, session, store, handed>>

Buffered(id) == \E i \in DOMAIN queue : queue[i].id = id

\* sync_queue_find copies the metadata while it holds the queue's mutex.
FindInBuffer ==
  /\ dedup = "find"
  /\ \/ /\ Buffered(wanted)
        /\ dedup' = "idle" /\ lock' = "none"
     \/ /\ ~Buffered(wanted)
        /\ dedup' = "read" /\ UNCHANGED lock
  /\ UNCHANGED <<filterVars, wanted, appendVars, diskVars, queue, index, session, store, handed>>

\* The metadata is read from the pool; the code asserts that the id it reads
\* there is the one it asked for.
ReadFromPool ==
  /\ dedup = "read"
  /\ pool[wanted] # Unwritten
  /\ dedup' = "idle" /\ lock' = "none"
  /\ UNCHANGED <<filterVars, wanted, appendVars, diskVars, queue, index, session, store, handed>>

\* The stream has ended.
DedupEnd ==
  /\ dedup = "idle"
  /\ dedup' = "ended"
  /\ UNCHANGED <<filterVars, wanted, appendVars, diskVars, queue, lock, index, session, store, handed>>

Dedup == FindInBuffer \/ ReadFromPool \/ DedupEnd \/ \E id \in index : DedupLock(id)

-----------------------------------------------------------------------------
(* The main thread. *)

\* close_index, which do_backup calls first, saves the index.
CloseIndex ==
  /\ store = "open" /\ filter = "ended"
  /\ htable' = index
  /\ store' = "index_saved"
  /\ UNCHANGED <<filterVars, dedupVars, appendVars, pool, header, torn, queue, lock, index,
                 session, handed>>

\* close_container_store, up to pthread_join.
Terminate ==
  /\ store = "index_saved"
  /\ store' = "terminated"
  /\ UNCHANGED <<filterVars, dedupVars, appendVars, diskVars, queue, lock, index, session, handed>>

\* Mutant of Close: append_thread is not joined.
CloseUnjoined ==
  /\ store = "terminated"
  /\ header' = count
  /\ store' = "closed"
  /\ UNCHANGED <<filterVars, dedupVars, appendVars, pool, htable, torn, queue, lock, index,
                 session, handed>>

\* append_thread has returned: the counter goes to the head of the pool.
Close ==
  /\ store = "terminated" /\ appender = "ended"
  /\ header' = count
  /\ store' = "closed"
  /\ UNCHANGED <<filterVars, dedupVars, appendVars, pool, htable, torn, queue, lock, index,
                 session, handed>>

\* Mutant of Restart: the counter is not read.
RestartFromZero ==
  /\ session < MaxSessions
  /\ session' = session + 1 /\ store' = "open"
  /\ count' = 0 /\ index' = htable
  /\ buf' = NoContainer /\ filter' = "idle"
  /\ queue' = <<>>
  /\ appender' = "get_top" /\ top' = NoContainer
  /\ lock' = "none" /\ dedup' = "idle" /\ wanted' = 0
  /\ UNCHANGED <<chunk, pool, header, htable>>

\* A fresh process: init_index loads the index, init_container_store the counter.
Restart ==
  /\ session < MaxSessions
  /\ session' = session + 1 /\ store' = "open"
  /\ count' = header /\ index' = htable
  /\ buf' = NoContainer /\ filter' = "idle"
  /\ queue' = <<>>
  /\ appender' = "get_top" /\ top' = NoContainer
  /\ lock' = "none" /\ dedup' = "idle" /\ wanted' = 0
  /\ UNCHANGED <<chunk, pool, header, htable>>

Reopen ==
  /\ store = "closed"
  /\ Restart
  /\ UNCHANGED <<torn, handed>>

\* destor is killed and started again.  What was appended to the pool since the
\* counter was saved is overwritten from now on.
CrashAndReopen ==
  /\ Crashes /\ store # "closed"
  /\ Restart
  /\ torn' = (torn \/ store # "open")
  /\ handed' = [id \in {i \in DOMAIN handed : i < header} |-> handed[id]]

Next == Filter \/ Appender \/ Dedup \/ CloseIndex \/ Terminate \/ Close \/ Reopen \/ CrashAndReopen

\* Every thread that can run is scheduled, and a backup comes to its end:
\* the phases do not add chunks or look up containers for ever.
Fairness ==
  /\ WF_vars(Appender)
  /\ WF_vars(HandOverFull) /\ WF_vars(HandOverLast)
  /\ WF_vars(FilterUnlock) /\ SF_vars(SealLast)
  /\ WF_vars(FindInBuffer \/ ReadFromPool) /\ SF_vars(DedupEnd)
  /\ WF_vars(CloseIndex) /\ WF_vars(Terminate) /\ WF_vars(Close)

Spec == Init /\ [][Next]_vars
FairSpec == Spec /\ Fairness
-----------------------------------------------------------------------------
(* Properties. *)

\* Every variable has its type.
TypeOK ==
  /\ count \in 0..MaxContainers /\ header \in 0..MaxContainers
  /\ pool \in [Ids -> SUBSET FP]
  /\ buf \in Containers \cup {NoContainer}
  /\ queue \in Seq(Containers)
  /\ appender \in {"get_top", "write", "pop", "ended"}
  /\ top \in Containers \cup {NoContainer}
  /\ lock \in {"none", "filter", "dedup"}
  /\ filter \in {"idle", "locked", "hand_over", "hand_over_last", "ended"}
  /\ chunk \in FP
  /\ dedup \in {"idle", "find", "read", "ended"}
  /\ wanted \in Nat
  /\ index \subseteq Ids /\ htable \subseteq Ids /\ torn \in BOOLEAN
  /\ session \in 1..MaxSessions
  /\ store \in {"open", "index_saved", "terminated", "closed"}
  /\ DOMAIN handed \subseteq Ids
  /\ \A id \in DOMAIN handed : handed[id] \in SUBSET FP

\* "We must ensure a container is either in the buffer or written to disks"
\* (append_thread), and with what it was handed over with.
BufferedOrWritten ==
  \A id \in DOMAIN handed :
    \/ \E i \in DOMAIN queue : queue[i] = [id |-> id, fps |-> handed[id]]
    \/ pool[id] = handed[id]

\* A lookup between sync_queue_find and the read of the pool, while the append
\* phase moves containers from one to the other, finds the container that the
\* index names: the assertion cm->id == id never stops the backup.  A kill takes
\* that away only between the two saves of do_backup, index and counter.
RetrievalSucceeds ==
  ~torn =>
  /\ dedup \in {"find", "read"} => wanted \in DOMAIN handed
  /\ dedup = "read" => pool[wanted] = handed[wanted]

\* An id is never given to two containers, also across a close and a reopen,
\* although the counter is saved only when the store is closed.
IdsFresh ==
  buf # NoContainer /\ filter # "ended" => buf.id \notin DOMAIN handed

\* Once the store is closed everything handed over is in the pool, below the
\* saved counter, and the saved index names nothing else.  After a kill the latter
\* needs the two saves of do_backup not to be torn apart.
ClosedIsDurable ==
  /\ store = "closed" =>
       \A id \in DOMAIN handed : pool[id] = handed[id] /\ id < header
  /\ store = "closed" /\ ~torn => htable \subseteq DOMAIN handed

\* A container that a clean close has covered is never overwritten, whatever
\* is killed and whenever.
CommittedNeverOverwritten ==
  [][/\ header' >= header
     /\ \A id \in Ids : id < header => pool'[id] = pool[id]]_vars

\* A backup ends with the store closed: the append phase, which index_lock
\* does not cover, always lets a filter phase that waits with the lock go on.
\* (After a torn kill the dedup phase may look for a container that is gone.)
BackupEnds == store = "open" ~> store = "closed" \/ torn

\* What retrieve_container_meta_by_id returns.
Retrieve(id) ==
  IF Buffered(id) THEN queue[CHOOSE i \in DOMAIN queue : queue[i].id = id].fps ELSE pool[id]

CM == INSTANCE ContainerMap WITH
        stored <- [id \in DOMAIN handed |-> Retrieve(id)],
        committed <- header

\* The store is a write-once map whose closed part survives: writing to the
\* pool, popping and reopening change nothing that a retrieval can see, and a
\* kill loses nothing that a close has covered.
ImplementsContainerMap == CM!CMSpec
=============================================================================
