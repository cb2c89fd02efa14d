---------------------------- MODULE IndexThrottle ----------------------------
(***************************************************************************)
(* How many chunks are in flight between the dedup and the filter phase.   *)
(* index_lookup blocks the dedup phase while the index buffer holds        *)
(* wait_threshold chunks; the filter phase takes a segment out of the      *)
(* buffer once all of it has come through dedup_queue, the buffer of the   *)
(* rewrite phase and rewrite_queue, and wakes the dedup phase.  The        *)
(* rewrite phase keeps up to rewrite_algorithm[1] chunks back, so the      *)
(* threshold must leave room for them or everyone waits for everyone.      *)
(*                                                                         *)
(* What the chunks are does not matter here: a queue holds "chunk"s and    *)
(* the "end"s of segments (CHUNK_SEGMENT_END; the other signals travel     *)
(* like it).  A lookup, and the filter phase's work on a segment, are one  *)
(* step each: both hold index_lock.                                        *)
(***************************************************************************)
EXTENDS Integers, Sequences, FiniteSets, SequencesExt

CONSTANTS
  Algorithms,    \* the rewrite algorithms to choose from
  RewriteMax,    \* rewrite_algorithm[1]: chunks in the rewrite buffer
  SegmentMax,    \* the longest segment
  Sizes,         \* the sizes of a segment: {SegmentMax} if they are fixed
  QueueCap,      \* capacity of dedup_queue and rewrite_queue
  StreamMax,     \* bound of the model: chunks in the stream
  Layouts        \* whether the phases agree on where wait_threshold lies

ASSUME ThrottleAssumption ==
  /\ Algorithms \subseteq {"no", "cfl", "cbr", "cap"}
  /\ RewriteMax \in Nat \ {0} /\ SegmentMax \in Nat \ {0}
  /\ Sizes \subseteq 1..SegmentMax
  /\ QueueCap \in Nat \ {0} /\ StreamMax \in Nat
  /\ Layouts \subseteq BOOLEAN

VARIABLES
  algorithm,   \* rewrite_algorithm[0], from the configuration
  shared,      \* whether the phases agree on the layout of index_lock
  read,        \* how many chunks of the stream are in segments
  chunk_num,   \* index_buffer.chunk_num
  dedup,       \* where the dedup phase is
  size,        \* the size of the segment it looks up
  sending,     \* what send_segment still has to push
  dedup_queue,
  hand,        \* what the rewrite phase has popped and not yet put down
  buffer,      \* rewrite_buffer.chunk_queue
  flushing,    \* the rewrite phase is emptying its buffer
  rewrite_queue,
  segment,     \* how many chunks the filter phase has of its segment
  filtered     \* history: chunks taken out of the index buffer

settings == <<algorithm, shared>>
vars == <<settings, read, chunk_num, dedup, size, sending, dedup_queue, hand, buffer, flushing,
          rewrite_queue, segment, filtered>>

Init ==
  /\ algorithm \in Algorithms /\ shared \in Layouts
  /\ read = 0 /\ chunk_num = 0
  /\ dedup = "segment" /\ size = 0 /\ sending = <<>>
  /\ dedup_queue = <<>> /\ hand = <<>> /\ buffer = <<>> /\ flushing = FALSE
  /\ rewrite_queue = <<>> /\ segment = 0 /\ filtered = 0

Chunks(q) == Cardinality({i \in DOMAIN q : q[i] = "chunk"})

\* Mutant of wait_threshold: the rewrite buffer is forgotten.
wait_threshold_no_buffer == IF shared THEN SegmentMax ELSE 0

\* start_dedup_phase sets the threshold in a struct of pthread types; index.c and
\* filter_phase.c declare the same object with GLib types, 8 and 16 bytes
\* long, and read what lies inside the mutex, which is 0.
wait_threshold == IF shared THEN RewriteMax + SegmentMax - 1 ELSE 0

\* Mutant of BufferFull: a segment more is let in.
BufferFullTooLate == wait_threshold > 0 /\ chunk_num >= wait_threshold + SegmentMax

BufferFull == wait_threshold > 0 /\ chunk_num >= wait_threshold

-----------------------------------------------------------------------------
(* The dedup phase. *)

\* A segment is complete; only the last one of the stream may be shorter.
Segmenting(n) ==
  /\ dedup = "segment"
  /\ read + n <= StreamMax
  /\ n \in Sizes \/ read + n = StreamMax
  /\ read' = read + n /\ size' = n
  /\ dedup' = "lookup"
  /\ UNCHANGED <<settings, chunk_num, sending, dedup_queue, hand, buffer, flushing, rewrite_queue,
                 segment, filtered>>

\* index_lookup
IndexLookup ==
  /\ dedup = "lookup"
  /\ \/ /\ BufferFull
        /\ dedup' = "waiting"
        /\ UNCHANGED <<chunk_num, sending>>
     \/ /\ ~BufferFull
        /\ chunk_num' = chunk_num + size
        /\ sending' = Append([i \in 1..size |-> "chunk"], "end")
        /\ dedup' = "send"
  /\ UNCHANGED <<settings, read, size, dedup_queue, hand, buffer, flushing, rewrite_queue, segment,
                 filtered>>

\* pthread_cond_wait may return without a signal.
SpuriousWakeup ==
  /\ dedup = "waiting"
  /\ dedup' = "lookup"
  /\ UNCHANGED <<settings, read, chunk_num, size, sending, dedup_queue, hand, buffer, flushing,
                 rewrite_queue, segment, filtered>>

\* send_segment pushes one chunk.
Send ==
  /\ dedup = "send" /\ Len(dedup_queue) < QueueCap
  /\ dedup_queue' = Append(dedup_queue, Head(sending))
  /\ sending' = Tail(sending)
  /\ dedup' = IF Len(sending) = 1 THEN "segment" ELSE dedup
  /\ UNCHANGED <<settings, read, chunk_num, size, hand, buffer, flushing, rewrite_queue, segment,
                 filtered>>

EndOfStream ==
  /\ dedup = "segment" /\ read = StreamMax
  /\ dedup' = "ended"
  /\ UNCHANGED <<settings, read, chunk_num, size, sending, dedup_queue, hand, buffer, flushing,
                 rewrite_queue, segment, filtered>>

-----------------------------------------------------------------------------
(* The rewrite phase. *)

\* CFL empties its buffer before it puts down the next chunk: when the buffer is
\* full, or when the chunk lies in another container than a last one that lies
\* in any; a signal lies in none.
FlushBefore ==
  IF Chunks(buffer) >= RewriteMax THEN {TRUE}
  ELSE IF buffer # <<>> /\ Last(buffer) = "chunk" THEN BOOLEAN ELSE {FALSE}

RewriteTake ==
  /\ hand = <<>> /\ ~flushing /\ dedup_queue # <<>>
  /\ hand' = <<Head(dedup_queue)>> /\ dedup_queue' = Tail(dedup_queue)
  /\ IF algorithm = "cfl" THEN flushing' \in FlushBefore ELSE UNCHANGED flushing
  /\ UNCHANGED <<settings, read, chunk_num, dedup, size, sending, buffer, rewrite_queue, segment, filtered>>

\* Mutant of RewritePut: a full rewrite_queue loses what is pushed.
RewritePutLossy ==
  /\ hand # <<>> /\ ~flushing
  /\ rewrite_queue' = IF Len(rewrite_queue) < QueueCap THEN rewrite_queue \o hand
                      ELSE rewrite_queue
  /\ hand' = <<>>
  /\ UNCHANGED <<settings, read, chunk_num, dedup, size, sending, dedup_queue, buffer, flushing, segment,
                 filtered>>

\* no_rewrite passes the chunk on; the others put it into their buffer, and CBR
\* and capping start to empty it when it is full.
RewritePut ==
  /\ hand # <<>> /\ ~flushing
  /\ IF algorithm = "no"
     THEN /\ Len(rewrite_queue) < QueueCap
          /\ rewrite_queue' = rewrite_queue \o hand
          /\ UNCHANGED <<buffer, flushing>>
     ELSE /\ buffer' = buffer \o hand
          /\ flushing' = (algorithm \in {"cbr", "cap"} /\ hand = <<"chunk">>
                          /\ Chunks(buffer) + 1 >= RewriteMax)
          /\ UNCHANGED rewrite_queue
  /\ hand' = <<>>
  /\ UNCHANGED <<settings, read, chunk_num, dedup, size, sending, dedup_queue, segment, filtered>>

\* The stream is over: what is left in the buffer goes on.
RewriteRest ==
  /\ dedup = "ended" /\ dedup_queue = <<>> /\ hand = <<>>
  /\ ~flushing /\ buffer # <<>>
  /\ flushing' = TRUE
  /\ UNCHANGED <<settings, read, chunk_num, dedup, size, sending, dedup_queue, hand, buffer,
                 rewrite_queue, segment, filtered>>

\* rewrite_buffer_pop and a push to rewrite_queue.  CFL and capping empty the
\* whole buffer, CBR the signals in front and one chunk, its decision chunk.
RewriteFlush ==
  /\ flushing /\ Len(rewrite_queue) < QueueCap
  /\ rewrite_queue' = Append(rewrite_queue, Head(buffer))
  /\ buffer' = Tail(buffer)
  /\ flushing' = (Len(buffer) > 1
                  /\ (algorithm = "cbr" /\ Head(buffer) = "chunk"
                        => dedup = "ended" /\ dedup_queue = <<>>))
  /\ UNCHANGED <<settings, read, chunk_num, dedup, size, sending, dedup_queue, hand, segment, filtered>>

Rewrite == RewriteTake \/ RewritePut \/ RewriteRest \/ RewriteFlush

-----------------------------------------------------------------------------
(* The filter phase. *)

FilterChunk ==
  /\ rewrite_queue # <<>> /\ Head(rewrite_queue) = "chunk"
  /\ rewrite_queue' = Tail(rewrite_queue)
  /\ segment' = segment + 1
  /\ UNCHANGED <<settings, read, chunk_num, dedup, size, sending, dedup_queue, hand, buffer, flushing,
                 filtered>>

\* The segment is complete and is worked on: index_update_buffer takes it out
\* of the index buffer, and unless that remains full the dedup phase is woken.
FilterSegment ==
  /\ rewrite_queue # <<>> /\ Head(rewrite_queue) = "end"
  /\ rewrite_queue' = Tail(rewrite_queue)
  /\ chunk_num' = chunk_num - segment
  /\ filtered' = filtered + segment
  /\ segment' = 0
  /\ dedup' = IF dedup = "waiting" /\ wait_threshold > 0 /\ chunk_num' < wait_threshold
              THEN "lookup" ELSE dedup
  /\ UNCHANGED <<settings, read, size, sending, dedup_queue, hand, buffer, flushing>>

Filter == FilterChunk \/ FilterSegment

Next ==
  \/ \E n \in 1..SegmentMax : Segmenting(n)
  \/ IndexLookup \/ SpuriousWakeup \/ Send \/ EndOfStream
  \/ Rewrite
  \/ Filter

\* The threads run and the stream comes to its end.  No progress may rest on a
\* spurious wakeup.
Fairness ==
  /\ WF_vars(\E n \in 1..SegmentMax : Segmenting(n))
  /\ WF_vars(IndexLookup) /\ WF_vars(Send) /\ WF_vars(EndOfStream)
  /\ WF_vars(Rewrite) /\ WF_vars(Filter)

Spec == Init /\ [][Next]_vars
FairSpec == Spec /\ Fairness
-----------------------------------------------------------------------------
(* Properties. *)

Items == {"chunk", "end"}

\* Every variable has its type.
TypeOK ==
  /\ algorithm \in Algorithms /\ shared \in Layouts
  /\ read \in 0..StreamMax /\ chunk_num \in 0..StreamMax
  /\ dedup \in {"segment", "lookup", "waiting", "send", "ended"}
  /\ dedup = "send" <=> sending # <<>>
  /\ size \in 0..SegmentMax
  /\ \A q \in {sending, dedup_queue, hand, buffer, rewrite_queue} : q \in Seq(Items)
  /\ Len(dedup_queue) <= QueueCap /\ Len(rewrite_queue) <= QueueCap /\ Len(hand) <= 1
  /\ flushing \in BOOLEAN
  /\ segment \in 0..SegmentMax
  /\ filtered \in 0..StreamMax

\* The index buffer counts the chunks that are in flight, wherever they are.
CountsFlight ==
  chunk_num = Chunks(sending) + Chunks(dedup_queue) + Chunks(hand) + Chunks(buffer)
              + Chunks(rewrite_queue) + segment

\* The rewrite buffer never exceeds its size (the assertion of
\* rewrite_buffer_push), although signals in it are not counted.
RewriteBufferBounded == Chunks(buffer) <= RewriteMax

\* "index buffer is full, waiting" (index_lock): the lookup that reaches the
\* threshold is the last one, so the index buffer is bounded.
IndexBufferBounded == chunk_num < RewriteMax + SegmentMax - 1 + SegmentMax

\* It is where the phases agree on the layout of index_lock, by one segment
\* more than the threshold although the test comes before the segment.
BoundedIfShared == shared => IndexBufferBounded

\* The dedup phase waits only while the buffer is full: the filter phase wakes
\* it whenever its segment made room, although not after every segment.
WaitsOnlyIfFull == dedup = "waiting" => BufferFull

\* The buffers hold what is in flight, each within its size, and a wait is justified.
CountSound == TypeOK /\ CountsFlight /\ RewriteBufferBounded /\ WaitsOnlyIfFull

\* Every chunk of the stream gets through: "ensure the next phase not be
\* blocked" (index_lookup), also by chunks that the rewrite phase keeps back
\* and a segment of which the filter phase has all but its end.
AllFiltered == <>(dedup = "ended" /\ filtered = StreamMax /\ chunk_num = 0)
=============================================================================
