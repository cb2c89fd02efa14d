# destor in TLA+

destor is a deduplicating backup program: a backup runs as a pipeline of
threads (read, chunk, hash, dedup, rewrite, filter, append) connected by
blocking queues; restore and deletion are separate jobs. This directory holds
TLA+ modules of the parts where threads, stale information or crashes make the
program hard to test, TLC configurations that check them on small instances,
and TLAPS proofs for every value of the constants. `PROJECT.json` maps each
definition to the lines of `src/` it models, and lists the runs, the mutants
that each property was tried against, the hazards and the theorems.

All source paths below are relative to `src/src/`.

## The system

| Component | State | Operations | What makes it correct |
| --- | --- | --- | --- |
| Reading, chunking, hashing, traces `read_phase.c`, `chunk_phase.c`, `hash_phase.c`, `trace_phase.c` | the place in the tree and the file, the left buffer, lines of a trace | read a block, cut a chunk, hash it, write and read a trace | the stream is the files, whatever the blocks; the buffer is never passed |
| Chunking algorithms `chunking/*.c` | none | how long the next chunk is | a chunk has at least one byte and no more than there are, and keeps to the sizes configured |
| Phase queues `utils/sync_queue.c`, `utils/queue.c` | items, `term`, one mutex, `min_work`, `max_work` | push, pop, get_top, find, term | a bounded FIFO; no lost wakeup; NULL only when terminated and drained |
| Container store `storage/containerstore.c` | `container_count`, `storage_buffer.container_buffer`, the queue `container_buffer`, `container.pool` | create, add, write_async, append_thread, retrieve, retrieve_meta, init, close | a container handed over can always be retrieved, ids are never reused |
| Dedup phase and fingerprint lookup `dedup_phase.c`, `index/index.c`, `index/fingerprint_cache.c` | index buffer (`buffered_fingerprints`, `chunk_num`), fingerprint cache, `index_lock` | index_lookup, index_check_buffer, index_update, index_update_buffer, send_segment | a duplicate gets the id of a container with the chunk, whatever is in flight; bounded |
| Segmenting, sampling `index/segmenting_method.c`, `index/sampling_method.c` | the open segment | segment a chunk, sample a segment or container | every chunk is in one segment, of the size configured; a sample has at least one key |
| Rewrite phase `rewrite_phase.c`, `cfl_`, `cbr_`, `cap_rewrite.c` | rewrite buffer | push, pop, mark out-of-order chunks | keeps order and every chunk; bounded; marks only what may be rewritten |
| Filter phase `filter_phase.c` | the segment, recently unique and rewritten chunks | decide, write, seal, update index and recipe | every recipe pointer names a container with the chunk; a chunk is not written twice without need |
| HAR `har_rewrite.c` | sparse containers, utilisation of this backup's | init, monitor, check, close | what is sparse is decided from the backup before |
| Key-value store `index/kvstore_htable.c` | ids per key | lookup, update, delete, load, save | names only containers that exist |
| Recipe store `recipe/recipestore.c` | `.meta`, `.recipe`, `.records`, backup count | create, open, append, read, prefetch, close | reads back what was appended; a segment id leads to its segment |
| Deletion `do_delete.c`, `cma.c` | deletion manifest | update, trunc, delete index entries | never frees a container a live backup uses |
| Restore `do_restore.c`, `optimal_restore.c`, `assembly_restore.c` | cache or assembly area | LRU, Belady, forward assembly | the restored stream is the one backed up |
| Similarity `index/similarity_detection.c` | champions | top, all, latest | what a champion holds is found before the cache drops it |

How they interact during a backup: `do_backup.c` opens recipe, index and
container store, starts the phases, joins them, and closes index, container
store and recipe in that order. The dedup phase fills a segment, takes
`index_lock`, waits while the index buffer is full, looks every chunk up, gives
the lock up and pushes the segment. The rewrite phase holds chunks back to see
which containers they share. The filter phase collects a segment, takes
`index_lock`, decides on every chunk, hands full containers to the append phase
(still holding the lock, so it may wait there for room), updates the index
before each hand-over, pops the segment from the index buffer, and signals the
dedup phase. The append phase takes no part in `index_lock`; it looks at the
head of `container_buffer`, writes it, and pops it only then, because a lookup
of the dedup phase searches the buffer first and the pool next.

The hard behaviours are therefore: waits and wakeups on three condition
variables; an answer of the index that is acted on much later, after other
segments wrote the same chunk; a container that moves from buffer to disk while
it is searched for; two threads that can each wait for the other through the
index buffer and the rewrite buffer; segments prefetched from recipes that are
still being written, into a cache too small for them; files cut into blocks and
put together again in a buffer before they are cut into chunks; and a counter of
container ids that is on disk only after a clean close. `PROJECT.json` lists
them at their lines.

## The modules

| Module | Models | Uses / implements |
| --- | --- | --- |
| `Chunking` | the chunking algorithms as operators, and what `start_chunk_phase` accepts | |
| `ChunkedFiles` | the stream a backup should see (abstract) | extends `Chunking` |
| `FrontEnd` | read, chunk and hash phase, the traces, segmenting | queues in order as `BoundedQueue`; implements `ChunkedFiles` |
| `BoundedQueue` | what a phase expects of its queue (abstract) | |
| `SyncQueue` | `sync_queue.c` with mutex, wait sets and spurious wakeups | implements `BoundedQueue` |
| `ContainerMap` | a write-once map of containers (abstract) | |
| `ContainerStore` | `containerstore.c` and the three threads in it; close, reopen, kill | uses a queue as `BoundedQueue` says; implements `ContainerMap` |
| `DedupArchive` | what a user expects of a deduplicating backup (abstract) | |
| `BackupPipeline` | dedup, rewrite and filter phase on chunks; index, cache, recipe; several backups | queues in order as `BoundedQueue`, containers as `ContainerMap`; implements `DedupArchive` |
| `LogicalLocality` | deduplication with an index of segments: sampling, similarity detection, the cache of segments, segment ids, the index update of the filter phase; several backups | segments as `FrontEnd` gives them, containers as `ContainerMap` |
| `IndexThrottle` | how many chunks are in flight between dedup and filter phase, and who waits for whom | |
| `GarbageCollection` | `cma.c`, `do_delete.c`, the key-value store: which containers a sequence of backups, deletions and restores keeps | backups end as `BackupPipeline` says, containers as `ContainerMap` |
| `FileCopy` | what a user expects of a restore (abstract) | |
| `Restore` | `do_restore.c`, `optimal_restore.c`, `assembly_restore.c`, `lru_cache.c`: the three threads of a restore job | queues in order as `BoundedQueue`, containers as `ContainerMap`, recipes as `DedupArchive`; implements `FileCopy` |
| `MC...` | values for TLC | extend the module they are named after |
| `SyncQueueProofs`, `ContainerStoreProofs`, `GarbageCollectionProofs`, `FrontEndProofs`, `IndexThrottleProofs`, `BackupPipelineProofs`, `LogicalLocalityProofs`, `RestoreProofs` | theorems | extend the module they are named after; `FrontEndProofs` has those about `Chunking` too |

The composition is by promise: `SyncQueue` is shown to implement
`BoundedQueue`, so `ContainerStore` takes a queue operation as one step;
`ContainerStore` is shown to implement `ContainerMap`, so `BackupPipeline` takes
a container handed over as readable and immutable. `BackupPipeline` leaves the
number of chunks in flight open and `IndexThrottle` leaves open what they are.
`FrontEnd` ends where `BackupPipeline` and `LogicalLocality` begin: with segments,
which these take in any shape that `FrontEnd` shows they have.

### Chunking and FrontEnd

`Chunking` gives for each algorithm how many of the bytes at hand make the next
chunk. A byte stands for the masks that a rolling fingerprint ending in it matches
(`Matched`): which fingerprints match is arithmetic that no property depends on,
while the order of the tests, their bounds and what happens without a match are
as in the code. Masks need not be nested. AE compares numbers of eight bytes,
here of one. Sizes are scaled down throughout, so that `fastcdc_init`'s assertion
of an average between 2^7 and 2^16 bytes is left out of `Accepted`.

In `FrontEnd`, `OpenFile`, `ReadBlock`, `CloseFile` and `EntryGone` are
`read_file` and `find_one_file` on a tree given as the list of its entries with
their depths; an entry that is gone was listed and then fails `stat`.
`ChunkFileStart`, `ChunkFirst`, `ChunkFill`, `ChunkCut` and `ChunkFileEnd` are
`chunk_thread` between its queue operations, on `leftbuf` as an array, with
`leftoff` and `leftlen`. `TraceWrite` is `make_trace`, `TraceFileStart`,
`TraceChunk` and `TraceEnds` are `read_trace_thread`, which only starts when the
trace is complete. A fingerprint is the content, as SHA-1 without collisions, and
a trace writes it in hexadecimal digits and reads it back. `Segment` is the
three segmenting functions with their static segment.

### LogicalLocality

A step is `index_lookup` for a segment (`DedupSegment`), or the filter phase on
one (`FilterSegment`): both hold `index_lock` throughout. `EndOfStream` sends the
last segment, which may be empty. `kv` maps keys to lists of segment ids, `cache`
holds segments by recipe and number, `recipes` the segments of each backup, the
one being written included. An id packs backup, offset and size; offsets count
chunk pointers and segment flags as in the file, with `PointerSize` bytes each.
`Looked` is one chunk of the segment: container at hand, index buffer, cache,
and for an exact or mixed index the key-value store with a prefetch.
`SelectTop` is `top_segment_select`: segments by hit features, each prefetched
with those after it, its features taken from the others. `Features` is the sample
that the filter phase puts into the index, with the recently unique chunks of
an exact one. `aborted` tells that an assertion failed: of `prefetch_segments`
(`Prefetch`), of `top_segment_select` (`Doubled`), or of `filter_thread`
(`FilterChunk`, and `Written`, where an exact index would let a chunk into the
container that holds it). `config.prefetch` is `index_segment_prefech`, 0 unless it
is configured or the index is one of those that set it: then a lookup opens the
recipe and reads nothing. `opened_bv`, which keeps the recipe last read open, is
left out: reading a recipe has no other effect.

### SyncQueue

One step is what a thread does between taking the mutex and giving it up, at the
unlock or inside `pthread_cond_wait`. `pc[t]` is where the thread is:
`in_max_work`/`in_min_work` in a wait set, `off_...` signalled and about to test
its `while` again. `PushItem` is the loop of `sync_queue_push` from that test;
`Push` also looks at `term`, `ResumePush` does not, as in the code. `GetTop`
and `Pop` share the test of an empty queue. A push on a terminated queue changes
nothing and is left out. `accepted` and `delivered` are history variables. The
threads in `Peekers` use the queue as `append_thread` does. `Terminate` is
called with no push under way: in `close_container_store` the caller has joined
the filter phase, everywhere else the caller is the only producer.

### ContainerStore

`filter`, `dedup`, `appender` and `store` are where the filter phase, the dedup
phase, the append phase and the main thread are. `buf` is
`storage_buffer.container_buffer`, `pool` the containers on disk by id, `header`
the counter at the head of the pool, `htable` the saved index. The filter phase
locks, adds chunks, seals a full container (`SealFull`: `index_update`, then
`HandOverFull`: the push that may wait) and at the end seals the last one
without the lock. `handed` is history: what was handed over. A kill forgets
everything but `pool`, `header` and `htable`, and from `handed` what lies at or
above the saved counter, which no promise covers (`README.md:149` of destor
disclaims crash consistency); what was committed by a clean close stays promised.
`torn` is history: a kill came after `close_index` saved the index and before
`close_container_store` saved the counter (`do_backup.c:89-90`). Only then can
the index name containers that the next backup overwrites, and so
`RetrievalSucceeds` and the last part of `ClosedIsDurable` except it.
The content of a container is the set of its fingerprints, `Capacity` of which
fill it.

### BackupPipeline

`LookupChunk` is `index_lookup_base` for one chunk under `index_lock`, with one
disjunct for each place that may answer: the container at hand, the index
buffer, the fingerprint cache, the key-value store, nobody. The key-value store
is a function of keys, the first `index_key_size` bytes of a fingerprint:
`config.key` maps fingerprints to other fingerprints that have the same key, or to
`ZeroKey`, the key of zeros that an empty random sample goes to (`Sampled`). Only
an exact index is sure to have full keys (`FullKey`), so `InIndex` may prefetch a
container without the chunk, and then finds nothing. `BeginSegment` cuts
the stream in any way up to `SegmentMax`. `FilterTake` is the arrival of a
segment with the marks of the rewrite phase, chosen freely among those the
configured algorithm could set (`Markable`), and `index_check_buffer`.
`KeepChunk`, `WriteIntoBuffer` and `WriteIntoNew` are the loop of
`filter_thread` for one chunk, `Resolve` what `recently_unique_chunks` and
`recently_rewritten_chunks` tell of it. `FilterRelease` is
`index_update_buffer`, the recipe and the unlock; `FilterEnd` the end of the
stream. `NextSession` is a clean close and the next backup. `since` in a chunk is
history: how often the chunk was stored when it was looked up.

The model takes one chunk per step of the holder of the lock, where only the
holder changes anything, so the phases interleave at the granularity of the
code. Which fragments CFL's restore simulation, capping's top list or HAR's
sparse list choose is open, so what holds here holds for each of them.

### IndexThrottle

Queues hold `"chunk"` and `"end"`; the phases move them one by one. `hand` is
what the rewrite phase has popped, `buffer` its rewrite buffer, `segment` what
the filter phase has of its segment. `wait_threshold` is
`rewrite_algorithm[1] + segment size - 1` where the phases agree on the layout of
`index_lock` and 0 as compiled (see Findings); both are checked.

### GarbageCollection

`main` is the job that runs, or the stage a deletion has come to: `Truncate` is
`trunc_manifest` and `init_index`, `DeleteEntries` the loop of `do_delete` over
containers (physical locality) or over the segments of the expired recipe
(logical locality), `SaveIndex` the `close_index` and `Record` the file of
reclaimed ids. The stages are steps because destor may be killed between them
(`Kill`), and `kvstore_htable_delete` asserts that what it deletes is at the end
of its list (`Abort`, where the assertion fails). `Segment` is what a segment
leaves behind when it has gone through the pipeline: a container, a piece of the
recipe, index entries for any sample of its fingerprints (`Index`), which may be empty
and then goes to `DummyKey`, the key of zeros or ones. `key` says which fingerprints
share a key, and which have that of the dummy, and `similarity` whether segments are
looked up by their samples (then the dummy key is `Asked` for as well). Which
duplicates the lookup finds is free within `known`: what a prefetch of any id in
the saved index can return, and what this backup has stored. `End` closes the
backup, writes the manifest and starts the deletion of the job that has expired;
`Retentions` are the values of `backup_retention_time`, which may change from
one job to the next. `htable`, `manifest`, `containers`, `recipe`, `marked` and
`reclaimed` are on disk, the rest is memory and lost in `Exit`.

`Doomed` is what a deletion asks for: containers or segments under the keys of their
own fingerprints, not under the dummy key. `Record` replaces the list of ids that the
job has from an earlier deletion, and a kill may leave any part of it.

`deleted`, `fifo`, `killed`, `unsampled` (an id has gone to the dummy key) and
`overwritten` (a list of ids was replaced) are history. `fifo` becomes false when a deletion
passes over a job, which happens when the retention time is lowered. With
physical locality neither that nor a kill can harm, as each container is looked
for in the index on its own. With logical locality the segments of just one
job are taken out of the index: a job that was passed over, or whose deletion
was killed after the manifest was truncated, stays in it, and leads later
backups to containers that have been given out. `do_delete.c` says so for the
order of deletions; the properties name both conditions (`InOrder` in the
proofs).

### Restore

`ReadRecipe` is one push of `read_recipe_thread`: a file's beginning, a pointer
or its end. `RestoreNext` is a pop of the restore thread and what it does with
the item: `LruRestore`, `OptRestore` or `AsmRestore`. What it is going to push
is in `out` and leaves one by one (`PushChunk`), as the queue may be full;
`WriteChunk` is `write_restore_data`. For the optimal cache `table` is
`access_record_table` with its queues of sequence numbers, `buffered` and
`sequence_number` the counters of the window. `sorted_records_of_cached_containers`
is sorted anew before each use and holds the records of the cached containers,
so it is no variable: `Kickable` gives the containers its tail would give, in
any order where the comparison leaves it open. For forward assembly `area` is
the assembly area with the `CHUNK_READY` flags and `size` its counter. The fp of
a restored chunk stands for its data: it is taken from the container that the
cache or the area supplies, and lost if that container does not have it.
`source` is history: the files as they were backed up.

## The runs

| Run | Question | Instance |
| --- | --- | --- |
| `queue_phases` | does the queue keep its promise with several threads, and is the container popped the one that was written? | 2 producers, 1 consumer that looks before it pops, 2 places, 6 pushes of 2 items |
| `frontend_stream` | is the stream the files, whatever the blocks, the queues and the trace; are chunks and segments as configured? | every file of up to 4 bytes, some of 7, trees with empty files and vanished entries; blocks of 1 to 4, chunks of 1 to 4, all algorithms and segmenting methods, queues of 1 |
| `store_backup` | are containers always found, closes durable, committed containers kept, and does a backup end? | 2 fingerprints, 2 per container, queue of 1, 4 containers, 3 sessions, kill at any step |
| `pipeline_backups` | is every recipe right, every chunk stored once by an exact index, at most one rewrite of a chunk in a segment, while answers are stale or of another chunk? | segments up to 2, 2 backups, cache of 1; exact: 3 fingerprints, 4 chunks, 2 per container; fragments: 2 fingerprints, 3 chunks, sampled index; 5 copies of 1 chunk; a key for 2 fingerprints; all keys zeros |
| `pipeline_repeat` | is a chunk rewritten again after an earlier copy was? (it is) | 2 fingerprints, 3 chunks, 2 backups |
| `locality_presets` | does an index of segments lead to them, keep recipes right, store once when exact and prefetching, and use what it selected? | 2 fingerprints, 3 in two of the 7 configurations; segments up to 2, 3 chunks, 2 backups |
| `locality_large` | does a segment id hold any file? (it does not) | a file of 4 chunks where ids have 2 bits for the size |
| `throttle_progress` | does the stream get through each rewrite algorithm, and is what is in flight bounded? | rewrite buffer 3, segments of 3, queues of 2, 10 chunks |
| `throttle_unread` | is the index buffer bounded as compiled? (it is not) | the same, capping |
| `gc_jobs` | does a deletion free what nobody uses, nothing else, and leave nothing that leads there? | 2 fingerprints, with full keys or both with the dummy key, 3 segments, 3 jobs, both localities, with similarity detection or not, 2 ids per key, retention 0, 1 or never, kills |
| `gc_deleted` | is a deleted backup refused by restore? (it is not) | 1 fingerprint, 2 segments, 2 jobs, no kills |
| `restore_caches` | does each restore cache give back what was backed up, and is the optimal one optimal? | every backup of up to 2 files and 4 chunks in 3 containers, one of them large, one chunk in two; 2 cached containers, queues of 1, windows of 2 and 5 records |

Why the bounds suffice. In the queue run both producers wait at once and contend
for one place, the consumer waits on its own condition, and items outnumber the
places three times over; each queue of destor has one consumer, and the proofs
are for any number. Files of up to seven bytes are several times the smallest
block and chunk, so a chunk spans blocks and a block holds several chunks, with
every content of four bytes over three classes. In the store run a queue of one
makes the filter phase wait with the lock held, three containers give one in the
pool, one in the queue and one at hand, and later sessions meet ids and index of
earlier ones, torn or not. Four chunks in segments of at most two give a segment
in each phase, two copies in a segment, and copies in three segments at once; a
cache of one evicts in the first prefetch but one; a second backup finds
duplicates in the index. With logical locality, two segments of three
fingerprints per backup are enough for two champions, a prefetch that evicts
another, a prefetch from the recipe at hand and from the one before, a key
shared by fingerprints, and a list of ids that overflows; `SizeRange` = 4 and
`OffRange` = 32 hold every id of `locality_presets` and stand for 2^16 and 2^32. Ten
chunks exceed the threshold of five by more than a segment, and the rewrite
buffer fills three times. Three jobs of one segment each, or fewer with more,
give a container used by two jobs of which the first is deleted, a job passed
over, and a deletion killed before another; a list of two ids overflows at the
third. Four accesses to three containers with two cached are the least for which
the victim matters; a window of two is filled again and again, one of five holds
all records; and the assembly area takes two chunks, and exceeds its size with
the large one. `MaxPush`, `MaxContainers`, `MaxSessions`, `StreamMax`,
`SegmentsMax`, `MaxJobs`, `MaxFiles`, `MaxChunks`, the `fps`, `segment` and
`length` of a configuration and the `Sources` only bound the model.

Deadlock is not checked by TLC in these runs since every one of them ends (all
pushes made, last session closed, stream at its end). That nobody waits for ever
is what `AllEnd`, `BackupEnds`, `BackupCompletes`, `AllFiltered`,
`AllDelivered` and `RestoresFiles` say (`LogicalLocality` is checked for safety
only).

Fairness. Threads that can run are scheduled (weak fairness on each thread's own
steps; in `FrontEnd` of the read, chunk, hash, trace and dedup threads each).
Nothing is assumed of spurious wakeups, of a producer that may push more,
or of more chunks arriving. In `ContainerStore` the stream's end is assumed with
strong fairness (`SealLast`, `DedupEnd`): both are enabled again and again
between chunks, and a finite input reaches them. A mutex or condition variable
need not be fair to a thread for these properties: what each property needs is
that a thread is not passed over for ever, which holds when the others run out
of work. `Restore` only assumes that some thread goes on while one can: each step
brings its finite job nearer to its end.

## What is proved

`tlapm` checks the eight proof modules completely; the theorems hold for every value
of the constants that satisfies the `ASSUME` of the module.

*`SyncQueueProofs`* (from `QueueAssumption`: disjoint producers and consumers,
and a thread that peeks is the only consumer). The inductive invariant is
`TypeOK /\ Bounded /\ NoLostWakeup /\ Fifo /\ TermInv /\ PeekedIsHead /\
PeekersLook`. `NoLostWakeup` is inductive only with the type correctness of
`pc`; `EndedMeansDrained` is not: it needs `TermInv`, that a terminated queue
has no producer inside a push, because `ResumePush` does not look at `term`.
`PeekedIsHead` needs that the thread which looked is the only one to pop.
`QueueIsBoundedQueue` is the refinement: each step of the mutex and the conditions
puts one item in, takes one out, closes the queue or stutters; it needs that what
a producer pushes is an item, and `TermInv`. Theorems: `TypeCorrect`,
`CapacityRespected`, `NoWakeupIsLost`, `FirstInFirstOut`, `EndIsFinal`,
`PeekIsStable`, `QueueIsBoundedQueue`.

*`ContainerStoreProofs`* (from `StoreAssumption`). The inductive invariant
`IInv` adds to `TypeOK` and `BufferedOrWritten` how the counter runs ahead of
what was handed over (`IdsInv`), that the queue holds containers as they were
handed over with `append_thread` at its head (`QueueInv`), and that the pool
holds all below the saved counter (`HeaderInv`). Theorems, with or without
kills: `TypeCorrect`, `NothingIsLost`, `NoIdIsReused`, `CommittedIsSafe`.
`RetrievalIsSafe` and `CloseIsDurable` add `RInv`: `index_lock` excludes the
dedup phase while the index names a container that is not handed over yet;
unless `torn`, what is killed leaves no index that names what was never written.
`StoreIsContainerMap` is the refinement: what a lookup retrieves is what was
handed over, so each step of the three threads hands one container over, forgets
what a kill may lose, or changes nothing a user sees.

*`GarbageCollectionProofs`* (from `GCAssumption`). The inductive invariant `IInv`
has `TypeInv` and six parts. `JobInv`: where the jobs are when a deletion is
under way. `ManifestInv`: an entry of the manifest is a live job that used the
container, and no live job used it later; this is why the time of the last use
can stand for a count of references, and `ManifestExact` alone is not inductive.
`InvalidInv` and `LeakInv`: a container is in the manifest, being reclaimed or
given out, unless a list was overwritten, and what is being reclaimed has left the
manifest. `IndexInv`: what is found under a key has a fingerprint of that key, or was
indexed under the dummy key for want of one (`unsampled`); so the deletion, which goes
from containers to the keys of their fingerprints, finds every other entry, shared keys
or not; and with logical locality the later jobs come first, which the assertion of
`kvstore_htable_delete` rests on. `SafeInv`: what lookups ask the index for, the
manifest, and what this backup may still find avoid what was given out, and a logical
index names no job but live ones and the one being deleted. Theorems: `TypeCorrect`,
`ManifestIsExact`, `ReclaimedIsUnused`, `NothingIsLeaked`,
`DeletesAreAtTheEnd`.

*`FrontEndProofs`* (from `ChunkingAssumption` and `FrontEndAssumption`). For any
bytes, masks and sizes, every algorithm cuts at least one byte and no more than
there are (`ChunkingProgresses`) and, AE apart and with sizes in order, no more than
`chunk_max_size` (`ChunkingBounded`). Both come down to the first and the last
element of an interval of cut points (`Earliest`, `Latest`) and the bounds of the
scan. `BufferInv` says that between two
FILE_ENDs in `read_queue` there are blocks of at most the block size after a
FILE_START, that `chunk_thread` is inside or outside a file accordingly, and that
`leftbuf` is filled from `leftoff` to at most its end, at `leftoff` 0 whenever a
file begins. That offset and length together keep inside the buffer
(`LeftBufferIsSafe`) rests on the move to the front before each copy, on `leftlen`
being less than `chunk_max_size` then, and on `ChunkingProgresses`: a cut never
takes more than is left. `FilesAlternate` is the assertion at the head of
`chunk_thread`.

`FrontInv` goes on from there. `FlowOrder` carries the order of files through what
`chunk_thread` holds, `chunk_queue`, what `sha1_thread` holds and `hash_queue` to the
last line of the trace: each leads from where the one behind it ends to where the
next begins, inside a file or outside. `TraceInv` says the same of the lines, so
that `read_trace_thread`, which knows only the last line it has read, finds what it
asserts (`AlwaysStateSound`). `EndInv` says that NULL is the last in each queue and
comes only when all before is done; hence only the last segment, returned with it, may
be short. `Unclosed` is the bound of each segmenting method on the segment under
construction, whose last chunk or successor then makes it as configured
(`AlwaysSizesAsConfigured`); for content-defined segments it says that no chunk after
`index_segment_min` of them was an anchor. Theorem: `SpecFront`. TLC has checked
`FrontInv` on the trees of `frontend_stream`, but for the set of all lines in
`TraceInv`, which it cannot enumerate.

`FrontEndIsChunkedFiles` is the refinement of `ChunkedFiles`: for every tree, block
size, queue size and method of segmenting, with a trace or without, the dedup thread is
delivered the files in order, each cut as if it had been read at once (AE apart, which
`ChunkedFiles` lets cut anywhere). It assumes of the configurations that FastCDC has its
minimum not above its maximum; `start_chunk_phase` does not look, and with such a
minimum the chunks would end where the buffer happens to. The invariant is `Chain`. A
`Place` in the stream of the files says how many of them have begun, whether the last is
open, how many of its bytes have passed and, inside a trace, whether its name is still to
come. An element in any of its forms (`Block`, `Unhashed`, `Hashed`, `Written`, and
`Mark` for the others) leads from one place to another, and whatever is on its way, from
the head of the last queue back through trace, queues, hands and `leftbuf` to the entry
at which the read thread is, leads from the place that has been delivered
(`ReachedIn`) to the one where reading goes on (`Reading`). Each phase moves its own link
of the chain: `ReadMoves` needs that a gone entry hides just the entries up to the next
of a directory above (`GoneSkips`), `CutMoves` that what a scan finds in the buffer it
would also find in the whole rest of the file (`CutEarly`: either the buffer reaches to the
end of the file, or it holds `chunk_max_size` bytes and no scan looks further),
`WriteMoves` and `ReaderMoves` that the lines of the trace tell the element again
(`HashReadBack`: two digits make the byte). A step of the dedup thread then appends to
what is delivered an element that is legal where the stream has come to
(`DedupMoves`), which is a step of `ChunkedFiles` (`DeliveryIsStep`); all others stutter.
TLC has checked `Chain` on the trees of `frontend_stream`, with the places computed
instead of chosen.

*`BackupPipelineProofs`* (from `PipelineAssumption`). A chunk is looked up long
before it is written, and what is proved is that nothing in between makes the
answer wrong. None of the properties is inductive: each is about one of index
buffer, segments in flight, containers and recipes, and each step relates two
of them. `IInv` adds how they correspond. The rows are the segments in flight
from the filter phase (row 0) back to the dedup phase. `Counted`: the index
buffer has one id per copy of a fingerprint in these rows. `UniqueFirst`: a copy that
was not found anywhere comes before all others. `UniqueFresh`: as long as it waits
no container gets the chunk, and the head of its list in the index buffer is
still `TEMPORARY_ID`; this is what lets `index_check_buffer` tell by the head
alone. `Promised`: such a head always has a unique copy behind it, so a
duplicate that comes without an id finds the copy in its own segment
(`Resolved`), or has been given the id by `index_update_buffer` when that copy was
released. `Remembered`: `unique` and `rewritten` name containers with the chunk.
`IdsHold`, `IndexKnows` and `Recorded`: so do all other ids that are kept
anywhere. Each step is reduced to what it does to the rows (`Kinds`), and each
part of the invariant is preserved kind by kind. Theorems:
`PipelineInvariant`, `PhasesSound`, `IndexBufferSound`, `RecipesRestorable`,
`IndexAgreement`, `RewritesOnce`. None assumes full keys: what a key leads to is only
used when the prefetched container is found to hold the chunk. `RewritesOnce` is about
copies that are rewritten; it leaves out that with capping a duplicate that was marked
before it had an id is written after its unique copy, if the container of that copy was
sealed in between.

`BackupPipelineProofs` also has the refinement of `DedupArchive`. For it `InOrder` says
that there are offsets such that recipe, rows and what is still to be looked up are the
stream, piece by piece (`StreamInOrder`); so what is recorded is what was read. That an exact
index without rewriting stores nothing twice needs `Plain`, that a chunk was
unique only if no container had it when it was looked up, and `UniqueFresh`, that
none has had it since. `PipelineIsArchive` takes the steps one by one: a segment
read, a chunk stored, a segment recorded, the next backup, or nothing that shows.

*`IndexThrottleProofs`* (from `ThrottleAssumption`). The argument is about the
pipe: all that is between `index_lookup` and the filter phase, in order, which
is `rewrite_queue`, the rewrite buffer, what the rewrite phase has in hand,
`dedup_queue` and what `send_segment` still has to push. Every step but three
leaves it as it is: a lookup appends a segment, the filter phase takes the head.
`CountIsSound` (`CountsFlight` and what goes with it) needs that the pipe ends
with the end of a segment and that no segment in it is longer than `SegmentMax`
(`Whole`, `Fits`); that the rewrite buffer keeps its size needs that whoever puts
a chunk down has emptied a full buffer before (`BufferInv`). `BoundedIfLayoutsAgree`
is the bound of the index buffer where `wait_threshold` is read as it is set.

*`RestoreProofs`* (from `RestoreAssumption`). All that is read of a recipe is one
sequence of marks and pointers (`All`), and a restore is a way of handing it on:
queue, area, the restore thread's hands, queue, output. `Matches` says that each of
these holds the pieces that come next after those before it, `ReaderInv` that the
read thread is where the first of them ends, and `EndInv` that who has terminated
its queue has nothing left. From these `RestoreCopies` (what is written is the next
piece of the backup: the safety of `FileCopy`) and `RestoredWhole` follow. The
algorithms differ in what they need to keep the stream. Forward assembly needs
`AreaInv`: a mark is ready when it comes, the first chunk of the area is always
filled by the container that is read, so at least one leaves; and a chunk has a
least size, so the area that is full in bytes is bounded in chunks. The optimal cache
counts accesses: the records are made when the backup is made, one for each change of
container, and are used up when the restore comes to the same changes, so
`WindowInv` relates three counts made at different times: the records read into the window,
those used up, and the changes in the first `Popped` items of the recipe. It holds
because both are made from one recipe (`Accesses`), and it is why
`optimal_cache_window_slides` finds the container it asserts (`AlwaysInStep`): the
last container is at the front of the cache and everything cached is known to the
window. Each step is then shown for one place to take what the place before it gives
away.

That the optimal cache is optimal (`AlwaysOptimalReads`) compares a run with all that
other replacements could have done. `FewestReads` is a recursive function; `FewestIs`
shows that there is one and that its table satisfies `Costs`: so many reads are needed
from record p on with these containers cached. `Exchange`, by induction from the last
record back, says what caches are worth: one more container saves at most one
read and costs none (`Growing`), and a cache with a in place of b needs at most one read
more, and none if each access to b has one to a before it (`Swapping`). The four
claims need each other: when the next record misses, the victims of the two caches may
differ. `KickedLast` is what `lru_cache_kicks` with `find_kicked_container` comes to:
every access to the victim has one to whatever stays before it. So an access never changes
the sum of the reads made and those still needed (`OptAccessReads`), which is the
invariant (`OptInv`); at the end nothing more is needed. It takes a window that holds
all records, which `OptimalReads` asks for, and nothing of the sizes of the cache or the
backup, nor of the limit of eleven containers among which the least recently used
is looked for, as these are not accessed any more. TLC has checked `OptInv` on
`restore_caches`.

Theorems: `RestoreInvariant`, `AlwaysInStep`, `AlwaysAreaBounded`, `RestoreCopies`,
`RestoredWhole`, `AlwaysOptimalReads`.

Folds and recursive functions over sequences (`SizeOfAll`, `FlattenSeq`) are
`CHOOSE` of a function that satisfies an equation. `RestoreProofs` shows that there is
such a function and what it is like, by induction in the form of `Inductive`: a set of
numbers that has 0 and with each its successor has all. It follows from the least
element of a set of numbers (`LeastNumber`) and needs no operator as a parameter.

*`LogicalLocalityProofs`* (from `LogicalAssumption`). A lookup handles a segment in one
step, and so does the filter phase: the steps are folds, over the champions, the
segments prefetched, the chunks of the segment. The folded operators have names
(`Step`), so that one lemma says of all that there are values from element to element
(`Values`), and what a step does to one chunk is then carried over the segment by
induction: `PrefetchAll`, `LookupAll`, `FilterAll`.

`IInv` has no condition. Beyond the types (`Shape`) it says of the segments in flight
what `BackupPipelineProofs` says of its rows: `UniqueFirst`, `UniqueFresh`, `Counted`,
`Promised`, and that any id in flight or in the index buffer names a container with the
chunk (`IdsHold`). Nothing of this depends on the index leading anywhere: whatever is
prefetched is a segment of some recipe, so `RecipeRestorable` makes its ids good
(`FromCacheIs`), and a stale or overflowing id costs deduplication or stops the
program, never a chunk. Theorems: `Invariance`, `TypeCorrect`, `RecipesRestore`.

`JInv` is what holds if segment ids have room (`IdsFit`: sizes below `SizeRange`, and
twice the offset that a stream of the configured length can reach below `OffRange`).
Nothing in the code keeps them so, and `locality_large` shows an assertion fail without it;
all configurations of `locality_presets` satisfy it. `Sized` derives from
the length of the stream how much recipe is still to come from what is in flight, so
that an id, when it is made, is exact; `AllLeading` then says that each id leads to a
segment with a chunk of the key, and stays true since the recipes only grow at the end
(`LeadsKept`) and no two segments of a recipe begin at one place (`OneAt`). This gives
`IdsLead`, for no id of the key-value store leads nowhere, and with `NoDoubles` (no list
has an id twice, as each id is made at a place further on) and `UniqueFresh`
`StateIsSound`, with prefetching or without. `Known` (an exact index has every chunk
stored), `FreshExact` (what is unique in flight is in no container) and `Once` give
`ChunksOnce`, the latter two for an index that prefetches (`Finds`): a chunk not found
by a prefetch has no id at all, as every id of its key leads to a segment that holds it
and a list of ids is never emptied. Where nothing is prefetched both are false (see
Findings), and so is `ChampionsServe`, which has the same premise. `Served` gives `ServedByChampions`: a prefetch moves what is cached back by at
most `prefetch` places (`MovedBack`), so the champions are all still cached
when the lookup begins, and as far as the lookup leaves the index alone it only promotes.
TLC has checked `JInv` on the configurations of `locality_presets`.

Only model-checked: liveness, which is out of the prover's reach. These are `AllEnd`,
`BackupEnds`, `BackupCompletes`, `AllFiltered`, `RestoresFiles`, `AllDelivered`, and the
fairness that `ImplementsBoundedQueue` asks of a queue beyond its safety part, which
`QueueIsBoundedQueue` proves. Every other invariant, action property and refinement that
the passing runs check is stated by a theorem.

## Findings

- `wait_threshold` is never read. `dedup_phase.c:19-26` defines `index_lock`
  with pthread types; `index.c:221-228` and `filter_phase.c:22-27` declare it
  with GLib's shorter ones, and so read `wait_threshold` inside the mutex, where
  it is 0: no lookup ever waits, and the index buffer grows with the stream
  (`throttle_unread`). With a common declaration the bound holds
  (`BoundedIfShared`). The bound is then `RewriteMax + 2 SegmentMax - 2`, as
  the test comes before a whole segment. With the threshold in force the
  pipeline would stop when the segment size divides `rewrite_algorithm[1] - 1`:
  the rewrite phase keeps back that many chunks and with them the end of the
  segment the dedup phase waits for. The default (1024 and 1024) is not such a
  case, and `throttle_progress` is checked with one that is not.
- A rewrite is not always denied (`filter_phase.c:79-83` says it is): of three
  copies in flight, the first rewritten, the second not a fragment, the third
  one; the second gives its old id back to the third through
  `index_update_buffer`, which hides the rewrite of the first
  (`pipeline_repeat`). No data is lost: `RecipeRestorable` holds.
- A deleted backup is restored. `do_delete.c` sets `bv->deleted`, and
  `init_restore_jcr` refuses such a backup (`jcr.c:80-83`), but
  `open_backup_version` opens the `.meta` file for reading
  (`recipestore.c:174`) and nothing on the way writes the flag back
  (`gc_deleted`). As reclaimed ids are only listed, the data may still be there.
- A segment id does not hold a large segment. `make_segment_id` packs by addition
  (`recipestore.c:308-314`); a file-defined segment has no limit, and from 65536
  chunks on (256 MB in chunks of 4 KB) its size carries into the offset. A later
  backup of a similar file seeks beside the segment and stops at an assertion of
  `prefetch_segments` (`locality_large`, with two bits for the size).

Not runs of their own, but seen while modelling:

- An index entry may outlive its job. A segment without fingerprints (an empty file
  with Extreme Binning, say) is indexed under a key of ones or zeros
  (`sampling_method.c:67-72`, 198-204, 230-237), `delete_an_entry` is called for the
  fingerprints of a segment only (`do_delete.c:61`), so its id stays, and the next empty
  sample finds it (`similarity_detection.c:60-62`) with the segments after it, whose
  containers have been given out: in FIFO order and without a kill. `ReclaimedUnused`
  without its second premise fails so in `gc_jobs` with logical locality and `Kills` FALSE.
- A second deletion of a job loses ids. With `backup_retention_time` raised from one job
  to the next, a job is deleted again; `delete_<job>.id` is opened with "w"
  (`do_delete.c:97`) and gets the few ids, or none, that the second time finds.
  `NothingLeaks` without `~overwritten` fails in `gc_jobs`.
- An exact index of logical locality that is set up by its parts (`index_specific` NO)
  keeps the default of prefetching no segment (`destor.c:115`; only BLC, Sparse and SiLo
  set it, `index.c:48-49`, 73, 88-89). An id in the index then brings nothing into the
  cache, and a chunk is stored again that the index knows. `StoredOnce` without
  `config.prefetch > 0` fails in `locality_presets` for `NoPrefetch`. Extreme Binning
  set by name is refused by the switch of `init_index`, so that preset stands for
  its parts.
- With capping a chunk may be stored twice by one segment: `cap_rewrite.c:67-70` marks a
  duplicate that has no id yet, and when the container of its unique copy is sealed
  before it comes, `add_chunk_to_container` does not see that copy. Recipes are not
  harmed.
- AE keeps no maximal chunk size (so `SizesAsConfigured` excepts it): `ae_chunk_data` tests `chunk_max_size` only where
  the word at hand is larger than the extreme, after a `continue` for the others
  (`ae_chunking.c:46-51`). A file of zeros is cut into chunks as large as the
  buffer, up to `chunk_max_size` and a block, though `destor.config:33` calls it
  the maximal size and `chunk_phase.c:85` compares a chunk with `chunk_max_size`
  zero bytes. `MaximalChunkSize` without the exceptions of `ChunkSizeBounded` fails
  in `frontend_stream`. Where AE cuts depends on how much is in the buffer, so
  `ChunkedFiles` lets it cut anywhere.
- `start_chunk_phase` accepts FastCDC with `chunk_min_size` above
  `chunk_max_size`, and then the minimum wins, and where a chunk ends depends on
  what is in the buffer.
- `find_one_file` returns when `stat` fails, so the entries after it in the same
  directory are silently left out of the backup, though the warning says that the
  one file is ignored (`read_phase.c:81-83`). `ChunkedFiles` takes what such a walk still
  reaches (`Visible`) for what a backup should deliver, so `ImplementsChunkedFiles` and
  `AllDelivered` say that everything else arrives, and do not count this loss.
- With `wait_threshold` in force and S dividing R - 1 the pipeline would stop, see the
  first finding; no build reaches this while the threshold is misread.

## Not modelled

The arithmetic of rolling fingerprints and of SHA-1, configuration, statistics,
vendored code, and traces in the FSL format. In the front end: a file that `stat`
finds and `fopen` does not (it ends the program), file names with a newline, which
a trace cannot hold, and the zero-chunk counter. Payloads and sizes in bytes
behind the front end: a container is full after `Capacity` chunks. Chunk signals
other than the end of a segment: they pass through the phases like it
(`LogicalLocality` keeps the marks of files, as they count when a segment is
sampled). Rewriting with logical locality: the filter phase treats it as
`BackupPipeline` says, and only the index update differs. HAR without another rewrite
algorithm (`config.rewriting` "selective" stands for it as well): the assertion of
`filter_phase.c:196-197` is stated for no rewriting at all. A kill inside a save: the
dump of the key-value store (`kvstore_htable.c:102-153` truncates the file and writes it
in pieces) and the manifest are saved in one step each. Simulated restores,
which read no data; the directories a restore makes; the segment marks of a
recipe file, which a restore skips. The layout of index and recipe files on disk:
what they hold is modelled.

`no_rewrite` calls `har_check` on a chunk after pushing it
(`rewrite_phase.c:117-121`). No mark comes late: the filter phase starts on a
segment when it has popped its end, which is pushed after `har_check` of all
before it. What is left is that the guard of `har_check` reads the flags of a
segment marker that the filter phase may have freed, which these models, without
memory, do not tell.

## Plan

Capping, CFL and CBR as operators: which chunks they choose among those that
`BackupPipeline` lets them mark.
