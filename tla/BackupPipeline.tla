--------------------------- MODULE BackupPipeline ---------------------------
(***************************************************************************)
(* Deduplication inside a backup: the dedup phase looks every chunk of a   *)
(* segment up (index_lookup_base), the rewrite phase marks fragments, and  *)
(* the filter phase decides later which chunks are written, fills the      *)
(* containers, keeps the index and writes the recipe.  Between a lookup    *)
(* and the decision the chunk is in flight, and the index buffer           *)
(* (buffered_fingerprints) has to make up for what the index does not know *)
(* yet.                                                                    *)
(*                                                                         *)
(* The index exploits physical locality (DDFS, Sampled Index): it maps the *)
(* key of a fingerprint, its first index_key_size bytes, to a container.   *)
(* Dedup and filter phase exclude each other by index_lock; here one chunk *)
(* is one step of its holder.  The queues in between deliver in order      *)
(* (SyncQueue), containers handed over can be read and do not change       *)
(* (ContainerStore), and how many chunks may be in flight is module        *)
(* IndexThrottle.                                                          *)
(***************************************************************************)
EXTENDS Integers, Sequences, FiniteSets, Functions

CONSTANTS
  FP,            \* the fingerprints
  ZeroKey,       \* a key of zeros, for a sample without fingerprints
  SegmentMax,    \* how many chunks a segment has at most
  MaxSessions,   \* bound of the model: backups
  CacheSize,     \* index_cache_size: containers in the fingerprint cache
  Configs        \* what destor may be configured and used with, see Config

\* exact is index_category[0] (every fingerprint goes to the index), rewriting
\* the rewrite phase (selective is CFL or CBR, or HAR alone), capacity how many
\* chunks fill a container.  key maps a fingerprint to its key, here another
\* fingerprint that has it, or zeros.  fps and length bound the model: the chunks
\* of a stream.
Keys == FP \cup {ZeroKey}
Config == [exact : BOOLEAN, rewriting : {"no", "selective", "capping"},
           capacity : Nat \ {0}, key : [FP -> Keys], fps : SUBSET FP, length : Nat]
FullKey == [f \in FP |-> f]

ASSUME PipelineAssumption ==
  /\ SegmentMax \in Nat \ {0} /\ MaxSessions \in Nat \ {0} /\ CacheSize \in Nat \ {0}
  /\ ZeroKey \notin FP
  /\ \A c \in Configs : c \in Config /\ (c.exact => c.key = FullKey)

TEMPORARY_ID == -1

\* A chunk in flight: fp and id, the flags CHUNK_DUPLICATE, CHUNK_REWRITE_DENIED
\* and the mark of the rewrite phase.  since is history: how many containers
\* held the chunk when it was looked up.
Chunk == [fp : FP, id : Nat \cup {TEMPORARY_ID}, dup : BOOLEAN, denied : BOOLEAN,
          mark : {"none", "out_of_order", "sparse"}, since : Nat]

VARIABLES
  stream,      \* history: the fingerprints of this backup, in order
  lock,        \* who holds index_lock
  dedup,       \* where the dedup phase is
  todo,        \* the chunks of the segment still to be looked up
  seg,         \* those looked up
  flight,      \* the segments in dedup_queue, rewrite phase and rewrite_queue
  buffered,    \* index_buffer.buffered_fingerprints: the ids queued per fp
  cache,       \* the fingerprint cache, most recent first
  kv,          \* the key-value store: the latest id of a key
  filter,      \* where the filter phase is
  cur,         \* the segment it works on
  pos,         \* and the chunk of it
  unique,      \* recently_unique_chunks
  rewritten,   \* recently_rewritten_chunks
  buf,         \* storage_buffer.container_buffer
  count,       \* container_count
  containers,  \* the containers handed over, by id
  recipe,      \* the chunk pointers of this backup's recipe
  archive,     \* the chunk pointers of earlier backups' recipes
  session,     \* the number of this backup
  config       \* destor.config, the same for all backups

dedupVars == <<stream, dedup, todo, seg>>
indexVars == <<buffered, kv>>
filterVars == <<filter, cur, pos, unique, rewritten>>
storeVars == <<buf, count, containers>>
recipeVars == <<recipe, archive, session, config>>
vars == <<dedupVars, lock, flight, indexVars, cache, filterVars, storeVars, recipeVars>>

NoContainer == [id |-> TEMPORARY_ID, fps |-> {}]
Empty == [x \in {} |-> TEMPORARY_ID]

Init ==
  /\ stream = <<>> /\ lock = "none" /\ dedup = "segment" /\ todo = <<>> /\ seg = <<>>
  /\ flight = <<>>
  /\ buffered = [f \in FP |-> <<>>] /\ cache = <<>> /\ kv = [k \in Keys |-> TEMPORARY_ID]
  /\ filter = "reassemble" /\ cur = <<>> /\ pos = 1 /\ unique = Empty /\ rewritten = Empty
  /\ buf = NoContainer /\ count = 0 /\ containers = [id \in {} |-> {}]
  /\ recipe = <<>> /\ archive = {} /\ session = 1
  /\ config \in Configs

\* How many containers hold f.
Copies(f) == Cardinality({id \in DOMAIN containers : f \in containers[id]})
             + (IF f \in buf.fps THEN 1 ELSE 0)

-----------------------------------------------------------------------------
(* The dedup phase. *)

\* A segment is complete; index_lock is taken to look it up.  How the stream
\* is cut is left open.
BeginSegment(fps) ==
  /\ dedup = "segment" /\ lock = "none"
  /\ Len(stream) + Len(fps) <= config.length /\ Range(fps) \subseteq config.fps
  /\ stream' = stream \o fps
  /\ todo' = fps /\ seg' = <<>>
  /\ dedup' = "lookup" /\ lock' = "dedup"
  /\ UNCHANGED <<flight, indexVars, cache, filterVars, storeVars, recipeVars>>

\* lru_cache_lookup takes the most recent container that holds f.
CachedAt(f) == {i \in DOMAIN cache : f \in containers[cache[i]]}
Hit(f) == CHOOSE i \in CachedAt(f) : \A j \in CachedAt(f) : i <= j
Promote(i) == <<cache[i]>> \o SubSeq(cache, 1, i - 1) \o SubSeq(cache, i + 1, Len(cache))

\* lru_cache_insert puts a container first and drops the last one.
Insert(id) ==
  <<id>> \o (IF Len(cache) = CacheSize THEN SubSeq(cache, 1, CacheSize - 1) ELSE cache)

\* The chunk at hand has been looked up with this outcome: it goes to the tail
\* of its queue in the index buffer.  index_lock is given up after the last one.
LookedUp(id, dup, denied) ==
  LET f == Head(todo) IN
  /\ seg' = Append(seg, [fp |-> f, id |-> id, dup |-> dup, denied |-> denied,
                         mark |-> "none", since |-> Copies(f)])
  /\ buffered' = [buffered EXCEPT ![f] = Append(@, id)]
  /\ todo' = Tail(todo)
  /\ IF Len(todo) = 1 THEN dedup' = "send" /\ lock' = "none"
                      ELSE UNCHANGED <<dedup, lock>>
  /\ UNCHANGED <<stream, flight, kv, filterVars, storeVars, recipeVars>>

LookingUp == dedup = "lookup"

\* The container the filter phase is filling holds the chunk.
InStorageBuffer ==
  /\ LookingUp /\ Head(todo) \in buf.fps
  /\ LookedUp(buf.id, TRUE, TRUE)
  /\ UNCHANGED cache

\* An earlier copy is in flight: the chunk takes the id of that one, which is
\* TEMPORARY_ID while the copy waits to be written.
InIndexBuffer ==
  /\ LookingUp /\ Head(todo) \notin buf.fps
  /\ buffered[Head(todo)] # <<>>
  /\ LookedUp(Head(buffered[Head(todo)]), TRUE, FALSE)
  /\ UNCHANGED cache

NotBuffered == Head(todo) \notin buf.fps /\ buffered[Head(todo)] = <<>>

InCache ==
  /\ LookingUp /\ NotBuffered
  /\ CachedAt(Head(todo)) # {}
  /\ LookedUp(cache[Hit(Head(todo))], TRUE, FALSE)
  /\ cache' = Promote(Hit(Head(todo)))

\* kvstore_lookup
Indexed(f) == kv[config.key[f]]

\* The index names a container, whose metadata is prefetched into the cache.  It
\* may be that of another fingerprint with the same key: "A key collision occurs".
InIndex ==
  LET f == Head(todo) IN
  /\ LookingUp /\ NotBuffered
  /\ CachedAt(f) = {} /\ Indexed(f) # TEMPORARY_ID
  /\ cache' = Insert(Indexed(f))
  /\ IF f \in containers[Indexed(f)] THEN LookedUp(Indexed(f), TRUE, FALSE)
                                     ELSE LookedUp(TEMPORARY_ID, FALSE, FALSE)

\* Mutant of Unknown: the lookup forgets what is in flight.
UnknownInFlight ==
  /\ LookingUp /\ Head(todo) \notin buf.fps
  /\ CachedAt(Head(todo)) = {} /\ Indexed(Head(todo)) = TEMPORARY_ID
  /\ LookedUp(TEMPORARY_ID, FALSE, FALSE)
  /\ UNCHANGED cache

\* Nobody knows the chunk: it is unique.
Unknown ==
  /\ LookingUp /\ NotBuffered
  /\ CachedAt(Head(todo)) = {} /\ Indexed(Head(todo)) = TEMPORARY_ID
  /\ LookedUp(TEMPORARY_ID, FALSE, FALSE)
  /\ UNCHANGED cache

LookupChunk == InStorageBuffer \/ InIndexBuffer \/ InCache \/ InIndex \/ Unknown

\* send_segment.
SendSegment ==
  /\ dedup = "send"
  /\ flight' = Append(flight, seg)
  /\ dedup' = "segment" /\ seg' = <<>>
  /\ UNCHANGED <<stream, todo, lock, indexVars, cache, filterVars, storeVars, recipeVars>>

EndOfStream ==
  /\ dedup = "segment"
  /\ dedup' = "ended"
  /\ UNCHANGED <<stream, todo, seg, lock, flight, indexVars, cache, filterVars, storeVars,
                 recipeVars>>

-----------------------------------------------------------------------------
(* The rewrite phase. *)

\* What the rewrite phase may mark: HAR the duplicates in sparse containers,
\* CFL and CBR duplicates whose container is known, capping any chunk whose
\* container is not in the top list, which those without one never are.
Markable(c) ==
  IF config.rewriting = "no" THEN {"none"}
  ELSE IF c.dup /\ c.id # TEMPORARY_ID THEN {"none", "out_of_order", "sparse"}
  ELSE IF config.rewriting = "capping" THEN {"none", "out_of_order"} ELSE {"none"}

-----------------------------------------------------------------------------
(* The filter phase. *)

\* Mutant of CheckBuffer: only fragments are looked up in the index buffer.
CheckBufferFragments(c) ==
  LET recent == Head(buffered[c.fp]) IN
  IF c.mark # "none" /\ recent > c.id
  THEN [c EXCEPT !.id = recent, !.denied = @ \/ c.id # TEMPORARY_ID]
  ELSE c

\* index_check_buffer, for one chunk: a duplicate of a chunk that was in flight
\* learns its id, and a fragment that was rewritten meanwhile is not again.
CheckBuffer(c) ==
  LET recent == Head(buffered[c.fp]) IN
  IF /\ (c.dup /\ c.id = TEMPORARY_ID) \/ c.mark # "none"
     /\ recent > c.id
  THEN [c EXCEPT !.id = recent, !.denied = @ \/ c.id # TEMPORARY_ID]
  ELSE c

\* The segment arrives with its marks; index_lock is taken.
FilterTake ==
  /\ filter = "reassemble" /\ lock = "none"
  /\ flight # <<>>
  /\ \E marks \in [DOMAIN Head(flight) -> {"none", "out_of_order", "sparse"}] :
       /\ \A i \in DOMAIN marks : marks[i] \in Markable(Head(flight)[i])
       /\ cur' = [i \in DOMAIN marks |-> CheckBuffer([Head(flight)[i] EXCEPT !.mark = marks[i]])]
  /\ flight' = Tail(flight)
  /\ pos' = 1 /\ unique' = Empty /\ rewritten' = Empty
  /\ filter' = "chunks" /\ lock' = "filter"
  /\ UNCHANGED <<dedupVars, indexVars, cache, storeVars, recipeVars>>

\* Mutant of Resolve: copies rewritten within the segment are not remembered.
ResolveUniqueOnly(c) ==
  IF c.dup /\ c.id = TEMPORARY_ID THEN [c EXCEPT !.id = unique[c.fp]] ELSE c

\* What the segment itself tells of a chunk: the copy before it was unique and
\* has its id now, or was rewritten, and then this one is not.
Resolve(c) ==
  LET d == IF c.dup /\ c.id = TEMPORARY_ID THEN [c EXCEPT !.id = unique[c.fp]] ELSE c
  IN IF c.fp \in DOMAIN rewritten
     THEN [d EXCEPT !.id = rewritten[c.fp], !.denied = TRUE]
     ELSE d

\* The cfl-switch and the cache-aware filter may keep an out-of-order chunk
\* where it is; what they compute from the restore simulation is left open.
Written(c) == ~c.dup \/ (~c.denied /\ c.mark # "none")
Kept(c) == c.dup /\ (c.denied \/ c.mark # "sparse")

Step(c) ==
  /\ cur' = [cur EXCEPT ![pos] = c]
  /\ pos' = pos + 1
  /\ UNCHANGED <<filter, dedupVars, lock, flight, buffered, cache, recipeVars>>

KeepChunk ==
  /\ filter = "chunks" /\ pos <= Len(cur)
  /\ Kept(Resolve(cur[pos]))
  /\ Step(Resolve(cur[pos]))
  /\ UNCHANGED <<unique, rewritten, storeVars, kv>>

\* The keys of the fingerprints sampled; without any, zeros.
Sampled(fps) == IF fps = {} THEN {ZeroKey} ELSE {config.key[f] : f \in fps}

\* sampling: an exact index takes every fingerprint of the container, another one
\* may find none to take (index_sampling_random).
Features(c) == IF config.exact THEN {Sampled(c.fps)} ELSE {Sampled(s) : s \in SUBSET c.fps}

\* index_update, just before the container is handed over.
IndexUpdate(c) ==
  \E features \in Features(c) :
    kv' = [k \in Keys |-> IF k \in features THEN c.id ELSE kv[k]]

\* write_container_async
HandOver(c) ==
  containers' = [id \in DOMAIN containers \cup {c.id} |->
                   IF id = c.id THEN c.fps ELSE containers[id]]

Remember(table, f, id) == [g \in DOMAIN table \cup {f} |-> IF g = f THEN id ELSE table[g]]

\* Mutant of Added: the chunk learns the id of the container before.
AddedToPrevious(c, id) ==
  /\ Step([c EXCEPT !.id = IF id > 0 THEN id - 1 ELSE id])
  /\ IF c.dup THEN rewritten' = Remember(rewritten, c.fp, id) /\ UNCHANGED unique
              ELSE unique' = Remember(unique, c.fp, id) /\ UNCHANGED rewritten

\* The chunk at hand, c, was put into container id.
Added(c, id) ==
  /\ Step([c EXCEPT !.id = id])
  /\ IF c.dup THEN rewritten' = Remember(rewritten, c.fp, id) /\ UNCHANGED unique
              ELSE unique' = Remember(unique, c.fp, id) /\ UNCHANGED rewritten

\* add_chunk_to_container, which refuses a chunk it holds.
WriteIntoBuffer ==
  LET c == Resolve(cur[pos]) IN
  /\ filter = "chunks" /\ pos <= Len(cur)
  /\ Written(c)
  /\ buf # NoContainer /\ Cardinality(buf.fps) < config.capacity
  /\ IF c.fp \in buf.fps
     THEN Step([c EXCEPT !.id = buf.id]) /\ UNCHANGED <<unique, rewritten, buf>>
     ELSE Added(c, buf.id) /\ buf' = [buf EXCEPT !.fps = @ \cup {c.fp}]
  /\ UNCHANGED <<count, containers, kv>>

\* create_container: the first one, or the next after a full one.
WriteIntoNew ==
  LET c == Resolve(cur[pos]) IN
  /\ filter = "chunks" /\ pos <= Len(cur)
  /\ Written(c)
  /\ \/ buf = NoContainer /\ UNCHANGED <<containers, kv>>
     \/ /\ buf # NoContainer /\ Cardinality(buf.fps) >= config.capacity
        /\ IndexUpdate(buf) /\ HandOver(buf)
  /\ buf' = [id |-> count, fps |-> {c.fp}] /\ count' = count + 1
  /\ Added(c, count)

FilterChunk == KeepChunk \/ WriteIntoBuffer \/ WriteIntoNew

\* Mutant of UpdateBuffer: the copies still in flight keep the id they have.
UpdateBufferPopOnly(f) ==
  LET here == {i \in DOMAIN cur : cur[i].fp = f} IN
  SubSeq(buffered[f], Cardinality(here) + 1, Len(buffered[f]))

\* index_update_buffer, for one fingerprint: the queue loses the copies of this
\* segment, and the copies still in flight get the id of the last of them.
UpdateBuffer(f) ==
  LET here == {i \in DOMAIN cur : cur[i].fp = f}
      rest == SubSeq(buffered[f], Cardinality(here) + 1, Len(buffered[f]))
  IN IF here = {} THEN buffered[f]
     ELSE [i \in DOMAIN rest |->
             cur[CHOOSE last \in here : \A j \in here : j <= last].id]

Pointer(c) == [fp |-> c.fp, id |-> c.id]

\* Mutant of FilterRelease: index_lock is not given up.
FilterReleaseLocked ==
  /\ filter = "chunks" /\ pos > Len(cur)
  /\ buffered' = [f \in FP |-> UpdateBuffer(f)]
  /\ recipe' = recipe \o [i \in DOMAIN cur |-> Pointer(cur[i])]
  /\ cur' = <<>> /\ pos' = 1 /\ unique' = Empty /\ rewritten' = Empty
  /\ filter' = "reassemble" /\ UNCHANGED lock
  /\ UNCHANGED <<dedupVars, flight, kv, cache, storeVars, archive, session, config>>

\* The segment is through: buffer and recipe are updated, index_lock given up.
FilterRelease ==
  /\ filter = "chunks" /\ pos > Len(cur)
  /\ buffered' = [f \in FP |-> UpdateBuffer(f)]
  /\ recipe' = recipe \o [i \in DOMAIN cur |-> Pointer(cur[i])]
  /\ cur' = <<>> /\ pos' = 1 /\ unique' = Empty /\ rewritten' = Empty
  /\ filter' = "reassemble" /\ lock' = "none"
  /\ UNCHANGED <<dedupVars, flight, kv, cache, storeVars, archive, session, config>>

\* Mutant of FilterEnd: the last container is not indexed.
FilterEndUnindexed ==
  /\ filter = "reassemble" /\ dedup = "ended" /\ flight = <<>>
  /\ IF buf = NoContainer THEN UNCHANGED <<buf, containers, kv>>
     ELSE HandOver(buf) /\ UNCHANGED kv /\ buf' = NoContainer
  /\ filter' = "ended"
  /\ UNCHANGED <<cur, pos, unique, rewritten, dedupVars, lock, flight, buffered, cache, count,
                 recipeVars>>

\* rewrite_queue is finished: the last container is indexed and handed over.
\* (The pointer to it stays, but nobody looks at it again.)
FilterEnd ==
  /\ filter = "reassemble" /\ dedup = "ended" /\ flight = <<>>
  /\ IF buf = NoContainer THEN UNCHANGED <<buf, containers, kv>>
     ELSE IndexUpdate(buf) /\ HandOver(buf) /\ buf' = NoContainer
  /\ filter' = "ended"
  /\ UNCHANGED <<cur, pos, unique, rewritten, dedupVars, lock, flight, buffered, cache, count,
                 recipeVars>>

-----------------------------------------------------------------------------
\* The backup is closed and another one is made: index, containers and recipes
\* are on disk, the rest starts afresh.
NextSession ==
  /\ filter = "ended" /\ session < MaxSessions
  /\ session' = session + 1
  /\ archive' = archive \cup {recipe[i] : i \in DOMAIN recipe}
  /\ recipe' = <<>>
  /\ stream' = <<>> /\ dedup' = "segment" /\ todo' = <<>> /\ seg' = <<>>
  /\ buffered' = [f \in FP |-> <<>>] /\ cache' = <<>>
  /\ filter' = "reassemble"
  /\ UNCHANGED <<lock, flight, kv, cur, pos, unique, rewritten, storeVars, config>>

Segments == UNION {[1..n -> FP] : n \in 1..SegmentMax}

Dedup == (\E fps \in Segments : BeginSegment(fps)) \/ LookupChunk \/ SendSegment \/ EndOfStream
Filter == FilterTake \/ FilterChunk \/ FilterRelease \/ FilterEnd

Next == Dedup \/ Filter \/ NextSession

\* The threads run; a stream is finite.
Fairness ==
  /\ WF_vars(LookupChunk) /\ WF_vars(SendSegment) /\ WF_vars(EndOfStream)
  /\ WF_vars(Filter) /\ WF_vars(NextSession)

Spec == Init /\ [][Next]_vars
FairSpec == Spec /\ Fairness
-----------------------------------------------------------------------------
(* Properties. *)

\* Every variable has its type.
TypeOK ==
  /\ stream \in Seq(FP) /\ todo \in Seq(FP)
  /\ lock \in {"none", "dedup", "filter"}
  /\ lock = "dedup" <=> dedup = "lookup"
  /\ lock = "filter" <=> filter = "chunks"
  /\ dedup \in {"segment", "lookup", "send", "ended"}
  /\ seg \in Seq(Chunk) /\ cur \in Seq(Chunk)
  /\ \A i \in DOMAIN flight : flight[i] \in Seq(Chunk)
  /\ DOMAIN buffered = FP /\ \A f \in FP : buffered[f] \in Seq(Nat \cup {TEMPORARY_ID})
  /\ cache \in Seq(Nat) /\ Len(cache) <= CacheSize
  /\ kv \in [Keys -> Nat \cup {TEMPORARY_ID}]
  /\ filter \in {"reassemble", "chunks", "ended"}
  /\ pos \in 1..(Len(cur) + 1)
  /\ DOMAIN unique \subseteq FP /\ DOMAIN rewritten \subseteq FP
  /\ buf.id \in Nat \cup {TEMPORARY_ID} /\ buf.fps \subseteq FP
  /\ count \in Nat
  /\ DOMAIN containers \subseteq 0..(count - 1)
  /\ \A id \in DOMAIN containers : containers[id] \subseteq FP
  /\ recipe \in Seq([fp : FP, id : Nat]) /\ archive \subseteq [fp : FP, id : Nat]
  /\ session \in 1..MaxSessions /\ config \in Configs

SegFps(s) == [i \in DOMAIN s |-> s[i].fp]

\* The segments between lookup and decision, oldest first: the one the filter
\* phase works on, those in flight and the one being looked up.
Row(k) == IF k = 0 THEN cur ELSE IF k \in DOMAIN flight THEN flight[k] ELSE seg
Occurs(s, f) == {i \in DOMAIN s : s[i].fp = f}
Places(f) == UNION {{<<k, i>> : i \in Occurs(Row(k), f)} : k \in 0..(Len(flight) + 1)}
InFlight(f) == Cardinality(Places(f))

\* The index buffer knows exactly the chunks in flight, copy by copy, so
\* assert(bq) in index_check_buffer never fails and no queue is left behind.
BufferCountsFlight == \A f \in FP : Len(buffered[f]) = InFlight(f)

\* Where a container holds f.
Holds(id, f) ==
  \/ id \in DOMAIN containers /\ f \in containers[id]
  \/ id = buf.id /\ f \in buf.fps

\* The ids in a queue agree, and an id that is known names a container with
\* the chunk.  While the first copy waits to be written, the container at hand
\* does not hold the chunk: lookup_fingerprint_in_container cannot overtake it.
BufferCoherent ==
  \A f \in FP : buffered[f] # <<>> =>
    LET first == Head(buffered[f]) IN
    /\ first = TEMPORARY_ID /\ filter # "chunks" => f \notin buf.fps
    /\ \A i \in DOMAIN buffered[f] :
         buffered[f][i] # TEMPORARY_ID => Holds(buffered[f][i], f)

\* Both: the index buffer is what the filter phase takes it for.
BufferSound == BufferCountsFlight /\ BufferCoherent

\* The assertions of the filter phase hold: a duplicate without an id finds the
\* unique copy before it in its segment (assert(ruc)); with an exact index and no
\* rewriting add_chunk_to_container never refuses a chunk; and whatever has been
\* through has an id (assert(c->id != TEMPORARY_ID)).
AssertionsHold ==
  filter = "chunks" =>
    /\ pos <= Len(cur) /\ cur[pos].dup /\ cur[pos].id = TEMPORARY_ID
         => cur[pos].fp \in DOMAIN unique
    /\ config.exact /\ config.rewriting = "no" /\ pos <= Len(cur) /\ Written(Resolve(cur[pos]))
         => cur[pos].fp \notin buf.fps
    /\ \A i \in 1..(pos - 1) : cur[i].id # TEMPORARY_ID

\* The assertions hold, and the phases, the lock and the buffers are what their types say.
StateSound == TypeOK /\ AssertionsHold

\* Every chunk pointer of every recipe, of this backup and of earlier ones, names
\* a container that holds the chunk; when the backup is over, one handed over.
RecipeRestorable ==
  /\ \A i \in DOMAIN recipe : Holds(recipe[i].id, recipe[i].fp)
  /\ \A p \in archive : p.id \in DOMAIN containers /\ p.fp \in containers[p.id]

\* The index never names a container that was not handed over, so a prefetch
\* cannot fail; and the container holds a fingerprint with that key, unless the
\* key is the one of a sample without fingerprints.  With full keys that is the
\* fingerprint itself: then the lookup after a prefetch cannot miss.
IndexSound ==
  \A k \in Keys : kv[k] # TEMPORARY_ID =>
    /\ kv[k] \in DOMAIN containers
    /\ k = ZeroKey \/ \E f \in containers[kv[k]] : config.key[f] = k

\* After a backup an exact index knows everything stored.
IndexComplete ==
  config.exact /\ filter = "ended" =>
    \A id \in DOMAIN containers : \A f \in containers[id] : Indexed(f) # TEMPORARY_ID

\* Between backups index and containers agree, though the one is updated
\* before the other and by container, not by chunk.
IndexAgrees == IndexSound /\ IndexComplete

\* A chunk is written only if no other copy of it was written since it was
\* looked up: "if we find an early copy of the chunk in earlier segments has
\* been rewritten, the rewrite request for it will be denied" (filter_thread).
NoRepeatedWrite ==
  [][\A f \in FP : Copies(f)' > Copies(f) =>
       cur[pos].fp = f /\ Copies(f) = cur[pos].since]_vars

\* What does hold of repeated writes: one segment rewrites a chunk at most once
\* ("to avoid repeat rewriting", recently_rewritten_chunks), after it wrote the
\* chunk as unique only with capping, which marks a duplicate that has no id yet
\* (once the container of the unique copy is sealed the chunk is stored twice);
\* and a unique chunk is written only if no copy was written since it was looked up.
OneRewritePerSegment ==
  [][\A f \in FP : Copies(f)' > Copies(f) =>
       /\ f \notin DOMAIN rewritten
       /\ f \in DOMAIN unique => config.rewriting = "capping" /\ cur[pos].dup
       /\ ~cur[pos].dup => Copies(f) = cur[pos].since]_vars

\* Each backup ends, with all of its stream in the recipe.
BackupCompletes ==
  \A s \in 1..MaxSessions :
    session = s ~> session = s /\ filter = "ended" /\ Len(recipe) = Len(stream)

DA == INSTANCE DedupArchive WITH
        storeOnce <- config.exact /\ config.rewriting = "no",
        MaxRead <- SegmentMax,
        input <- stream,
        recorded <- SegFps(recipe),
        copies <- [f \in FP |-> Copies(f)]

\* The pipeline is a deduplicating archive: recipes repeat the stream, name only
\* what is stored, and with an exact index and no rewriting ("DDFS") nothing
\* is stored twice although chunks are looked up long before they are written.
ImplementsDedupArchive == DA!DASpec
=============================================================================
