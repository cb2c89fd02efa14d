------------------------------ MODULE Restore ------------------------------
(***************************************************************************)
(* A restore job (do_restore): read_recipe_thread turns the recipe into    *)
(* file marks and chunk pointers, a restore thread reads containers and    *)
(* makes chunks of the pointers, and write_restore_data writes the files.  *)
(* The threads are connected by two queues, which deliver in order         *)
(* (SyncQueue).                                                            *)
(*                                                                         *)
(* The restore thread keeps containers in a cache that drops the least     *)
(* recently used (lru_restore_thread) or the one that is needed last as    *)
(* far as a window of the backup's access records tells                    *)
(* (optimal_restore_thread), or it assembles a stretch of the stream from  *)
(* one container after the other (assembly_restore_thread).                *)
(*                                                                         *)
(* A pointer names a container with its chunk (BackupPipeline), and a      *)
(* container that is read has the contents it was written with             *)
(* (ContainerStore).                                                       *)
(***************************************************************************)
EXTENDS Integers, Sequences, FiniteSets, SequencesExt

CONSTANTS
  Contents,       \* Contents[id]: the fingerprints in container id
  Size,           \* Size[f]: the size of the chunk with fingerprint f
  NoFp,           \* a file mark has no fingerprint
  CONTAINER_SIZE,
  Configs,        \* the restore caches and window sizes to choose from
  CacheSize,      \* restore_cache[1]
  QueueSize,      \* the size of both queues, 100
  MaxFiles,       \* bound of the model: files of the backup
  MaxChunks       \* bound of the model: chunks of the backup

FP == DOMAIN Size
Ids == DOMAIN Contents

ASSUME RestoreAssumption ==
  /\ Ids \subseteq Nat
  /\ Contents \in [Ids -> SUBSET FP]
  /\ Size \in [FP -> Nat \ {0}]
  /\ NoFp \notin FP
  /\ Configs \subseteq [cache : {"lru", "opt", "asm"}, window : Nat \ {0}]
  /\ {CacheSize, QueueSize, CONTAINER_SIZE} \subseteq Nat \ {0}
  /\ MaxFiles \in Nat /\ MaxChunks \in Nat

TEMPORARY_ID == -1

Pointer == UNION {{[kind |-> "chunk", fp |-> f, id |-> i] : f \in Contents[i]} : i \in Ids}
Mark(kind) == [kind |-> kind, fp |-> NoFp, id |-> TEMPORARY_ID]

VARIABLES
  config,                \* from the configuration
  source,                \* history: the files that were backed up
  recipe,                \* those files, each a sequence of chunk pointers
  records,               \* the .records file: the containers in the order of access
  file, next,            \* where read_recipe_thread is
  restore_recipe_queue,  \* marks and pointers
  restore_chunk_queue,   \* marks and chunks
  terminated,            \* the queues terminated
  cache,                 \* the ids of the containers in the cache, most recent first
  reads,                 \* jcr.read_container_num
  table,                 \* access_record_table: the sequence numbers of accesses to an id,
                         \* of which a seqno_queue has the smallest first
  sequence_number,       \* current_sequence_number: how many records were read
  buffered,              \* buffered_access_record_num
  last_id,               \* last_id of optimal_cache_hits
  area,                  \* the assembly area
  size,                  \* assembly_area.size
  out,                   \* what the restore thread is about to push
  written,               \* what has been written
  status                 \* of the job: "aborted" if an assertion fails

backup == <<config, source, recipe, records>>
reader == <<file, next>>
optVars == <<table, sequence_number, buffered, last_id>>
areaVars == <<area, size>>
vars == <<backup, reader, restore_recipe_queue, restore_chunk_queue, terminated, cache, reads,
          optVars, areaVars, out, written, status>>

-----------------------------------------------------------------------------
(* The backup. *)

\* What is read of file f at place j: its beginning, its pointers, its end.
Item(f, j) ==
  IF j = 0 THEN Mark("start")
  ELSE IF j > Len(f) THEN Mark("end") ELSE f[j]

\* What is read of all files, one after the other.
Items(r) == FlattenSeq([i \in DOMAIN r |-> [j \in 1..Len(r[i]) + 2 |-> Item(r[i], j - 1)]])

IsMark(c) == c.kind # "chunk"
Chunks(items) == {q \in DOMAIN items : ~IsMark(items[q])}

\* An access is a chunk that is in another container than the chunk before it.
Accesses(items) ==
  {q \in Chunks(items) :
     \A p \in Chunks(items) : p < q /\ items[p].id = items[q].id =>
       \E m \in Chunks(items) : p < m /\ m < q}

\* Their containers in order, and an end mark.
Listed(items, accesses) ==
  LET Nth(n) == CHOOSE q \in accesses : Cardinality({p \in accesses : p <= q}) = n
  IN [n \in 1..Cardinality(accesses) |-> items[Nth(n)].id] \o <<TEMPORARY_ID>>

\* Mutant of Records: every chunk is an access.
RecordsOfChunks(r) == Listed(Items(r), Chunks(Items(r)))

\* What append_n_chunk_pointers and update_backup_version leave in the .records
\* file.
Records(r) == Listed(Items(r), Accesses(Items(r)))

\* The files of a backup, as they are to be restored.
Source(r) == [q \in DOMAIN Items(r) |-> [kind |-> Items(r)[q].kind, fp |-> Items(r)[q].fp]]

Files == UNION {[1..n -> Pointer] : n \in 0..MaxChunks}
Recipes == {r \in UNION {[1..n -> Files] : n \in 1..MaxFiles} : Len(FlattenSeq(r)) <= MaxChunks}

-----------------------------------------------------------------------------
(* The optimal cache's window. *)

SeqnosOf(t, id) == IF id \in DOMAIN t THEN t[id] ELSE {}

Nothing == [id \in {} |-> {}]

\* optimal_cache_window_fill: how many records are read, and where they go.
FillSize(s, b) == Min({config.window - b, Len(records) - s})
FillTable(t, s, k) ==
  [id \in DOMAIN t \cup {records[p] : p \in s+1..s+k} |->
     SeqnosOf(t, id) \cup {p \in s+1..s+k : records[p] = id}]

Init ==
  /\ config \in Configs
  /\ recipe \in Recipes /\ records = Records(recipe) /\ source = Source(recipe)
  /\ file = 1 /\ next = 0
  /\ restore_recipe_queue = <<>> /\ restore_chunk_queue = <<>> /\ terminated = {}
  /\ cache = <<>> /\ reads = 0
  /\ IF config.cache = "opt"
     THEN LET k == FillSize(0, 0) IN
          table = FillTable(Nothing, 0, k) /\ sequence_number = k /\ buffered = k
     ELSE table = Nothing /\ sequence_number = 0 /\ buffered = 0
  /\ last_id = TEMPORARY_ID
  /\ area = <<>> /\ size = 0 /\ out = <<>> /\ written = <<>> /\ status = "running"

-----------------------------------------------------------------------------
(* read_recipe_thread *)

ReadRecipe ==
  /\ status = "running" /\ file <= Len(recipe)
  /\ Len(restore_recipe_queue) < QueueSize
  /\ restore_recipe_queue' = Append(restore_recipe_queue, Item(recipe[file], next))
  /\ IF next <= Len(recipe[file]) THEN next' = next + 1 /\ UNCHANGED file
                                  ELSE next' = 0 /\ file' = file + 1
  /\ UNCHANGED <<backup, restore_chunk_queue, terminated, cache, reads, optVars, areaVars, out,
                 written, status>>

ReadRecipeEnd ==
  /\ status = "running" /\ file > Len(recipe)
  /\ "recipe" \notin terminated
  /\ terminated' = terminated \cup {"recipe"}
  /\ UNCHANGED <<backup, reader, restore_recipe_queue, restore_chunk_queue, cache, reads, optVars,
                 areaVars, out, written, status>>

-----------------------------------------------------------------------------
(* The restore thread. *)

\* c is popped from restore_recipe_queue.
Pops(c) ==
  /\ status = "running" /\ out = <<>>
  /\ restore_recipe_queue # <<>> /\ c = Head(restore_recipe_queue)
  /\ restore_recipe_queue' = Tail(restore_recipe_queue)
  /\ UNCHANGED <<backup, reader, restore_chunk_queue, terminated, written>>

\* What get_chunk_in_container makes of a pointer, fp standing for the data (the
\* fp field of the chunk it returns is not set properly, and not used); a mark
\* stays what it is.
Restored(c, id) ==
  [kind |-> c.kind,
   fp |-> IF c.kind = "chunk" /\ c.fp \in Contents[id] THEN c.fp ELSE NoFp]

PassMark(c) ==
  /\ IsMark(c) /\ out' = <<Restored(c, c.id)>>
  /\ UNCHANGED <<cache, reads, optVars, areaVars, status>>

\* lru_cache_lookup and lru_cache_hits move what they find to the front.
Promoted(i) == <<cache[i]>> \o SubSeq(cache, 1, i - 1) \o SubSeq(cache, i + 1, Len(cache))

\* lru_cache_insert
Inserted(c, id) == <<id>> \o SubSeq(c, 1, IF Len(c) = CacheSize THEN CacheSize - 1 ELSE Len(c))

\* lru_restore_thread: any container of the cache with the fingerprint will do.
LruRestore(c) ==
  LET hits == {i \in DOMAIN cache : c.fp \in Contents[cache[i]]} IN
  /\ config.cache = "lru" /\ ~IsMark(c)
  /\ IF hits # {} THEN cache' = Promoted(Min(hits)) /\ UNCHANGED reads
                  ELSE cache' = Inserted(cache, c.id) /\ reads' = reads + 1
  /\ out' = <<Restored(c, cache'[1])>>
  /\ UNCHANGED <<optVars, areaVars, status>>

-----------------------------------------------------------------------------
(* optimal_restore_thread *)

\* Mutant of Kickable: any container may go, so the least recently used does.
KickableAll(t) == {ToSet(cache)}

\* The containers among which the least recently used is dropped: those that the
\* window has no more access to, eleven at most, or the one accessed last.
Kickable(t) ==
  LET cached == ToSet(cache)
      unused == {id \in cached : t[id] = {}}
  IN IF unused # {} THEN kSubset(Min({11, Cardinality(unused)}), unused)
     ELSE {{id \in cached : \A other \in cached : Min(t[other]) <= Min(t[id])}}

\* lru_cache_kicks takes the one of them that was used least recently.
KickedAt(kickable) == Max({i \in DOMAIN cache : cache[i] \in kickable})

\* optimal_cache_insert, with table t: a record without accesses goes with its
\* container.
OptInsert(id, t) ==
  /\ reads' = reads + 1
  /\ IF Len(cache) < CacheSize
     THEN cache' = Inserted(cache, id) /\ table' = t
     ELSE \E kickable \in Kickable(t) :
            LET at == KickedAt(kickable)
                kicked == cache[at]
            IN /\ cache' = Inserted(RemoveAt(cache, at), id)
               /\ table' = [x \in DOMAIN t \ {y \in {kicked} : t[y] = {}} |-> t[x]]

\* optimal_cache_hits and optimal_cache_insert, once the window has slid.
OptAccess(id, t) ==
  IF \E i \in DOMAIN cache : cache[i] = id
  THEN /\ cache' = Promoted(Min({i \in DOMAIN cache : cache[i] = id}))
       /\ table' = t /\ UNCHANGED reads
  ELSE OptInsert(id, t)

\* optimal_cache_window_slides, when another container is accessed: the window is
\* filled again when half of it has been used, and the access leaves it.
OptRestore(c) ==
  LET k == IF 2 * buffered <= config.window THEN FillSize(sequence_number, buffered) ELSE 0
      t == FillTable(table, sequence_number, k)
  IN
  /\ config.cache = "opt" /\ ~IsMark(c)
  /\ last_id' = c.id
  /\ IF c.id = last_id
     THEN /\ OptAccess(c.id, table) /\ out' = <<Restored(c, cache'[1])>>
          /\ UNCHANGED <<sequence_number, buffered, status>>
     ELSE IF c.id \in DOMAIN t
     THEN /\ OptAccess(c.id, [t EXCEPT ![c.id] = IF @ = {} THEN @ ELSE @ \ {Min(@)}])
          /\ out' = <<Restored(c, cache'[1])>>
          /\ sequence_number' = sequence_number + k /\ buffered' = buffered + k - 1
          /\ UNCHANGED status
     ELSE status' = "aborted" /\ UNCHANGED <<cache, reads, table, sequence_number, buffered, out>>
  /\ UNCHANGED areaVars

-----------------------------------------------------------------------------
(* assembly_restore_thread *)

SizeOf(item) == IF IsMark(item) THEN 0 ELSE Size[item.fp]
SizeOfAll(s) ==
  LET total[i \in 0..Len(s)] == IF i = 0 THEN 0 ELSE total[i - 1] + SizeOf(s[i])
  IN total[Len(s)]
AreaSize == (CacheSize - 1) * CONTAINER_SIZE

\* Mutant of AreaFull: area_size may be reached.
AreaFullBeyond(s) == s > AreaSize

AreaFull(s) == s >= AreaSize

\* Mutant of Issued: whatever is ready is issued.
IssuedReady(a) == SelectSeq(a, LAMBDA c : c.ready)

\* The area is issued up to the first chunk that is not ready.
Issued(a) == SubSeq(a, 1, Max({m \in 0..Len(a) : \A i \in 1..m : a[i].ready}))

\* assemble_area: the container of the first chunk is read, its chunks are made
\* ready all over the area, and what is complete at the front is issued.  The
\* chunk at the front is never ready beforehand.
Assemble(a, s) ==
  LET chunks == Chunks(a)
      id == a[Min(chunks)].id
      Filled(c) == IF chunks # {} /\ c.id = id THEN [c EXCEPT !.ready = TRUE] ELSE c
  IN \E filled \in {[i \in DOMAIN a |-> Filled(a[i])]} :
       LET issued == Issued(filled) IN
       /\ area' = SubSeq(filled, Len(issued) + 1, Len(a))
       /\ size' = s - SizeOfAll(issued)
       /\ reads' = reads + (IF chunks = {} THEN 0 ELSE 1)
       /\ out' = [i \in DOMAIN issued |-> Restored(issued[i], issued[i].id)]

\* assembly_area_push; the area is assembled when it is full.
AsmRestore(c) ==
  LET a == Append(area, [kind |-> c.kind, fp |-> c.fp, id |-> c.id, ready |-> IsMark(c)])
      s == size + SizeOf(c)
  IN
  /\ config.cache = "asm"
  /\ IF ~IsMark(c) /\ AreaFull(s)
     THEN Assemble(a, s)
     ELSE area' = a /\ size' = s /\ UNCHANGED <<reads, out>>
  /\ UNCHANGED <<cache, optVars, status>>

\* After the last pointer the area is emptied.
AsmDrain ==
  /\ status = "running" /\ out = <<>>
  /\ config.cache = "asm"
  /\ restore_recipe_queue = <<>> /\ "recipe" \in terminated /\ area # <<>>
  /\ Assemble(area, size)
  /\ UNCHANGED <<backup, reader, restore_recipe_queue, restore_chunk_queue, terminated, cache,
                 optVars, written, status>>

-----------------------------------------------------------------------------
RestoreNext ==
  \E c \in ToSet(restore_recipe_queue) :
    /\ Pops(c)
    /\ \/ config.cache # "asm" /\ PassMark(c)
       \/ LruRestore(c) \/ OptRestore(c) \/ AsmRestore(c)

PushChunk ==
  /\ status = "running" /\ out # <<>>
  /\ Len(restore_chunk_queue) < QueueSize
  /\ restore_chunk_queue' = Append(restore_chunk_queue, Head(out)) /\ out' = Tail(out)
  /\ UNCHANGED <<backup, reader, restore_recipe_queue, terminated, cache, reads, optVars, areaVars,
                 written, status>>

RestoreEnd ==
  /\ status = "running" /\ out = <<>> /\ area = <<>>
  /\ restore_recipe_queue = <<>> /\ "recipe" \in terminated /\ "chunk" \notin terminated
  /\ terminated' = terminated \cup {"chunk"}
  /\ UNCHANGED <<backup, reader, restore_recipe_queue, restore_chunk_queue, cache, reads, optVars,
                 areaVars, out, written, status>>

-----------------------------------------------------------------------------
(* write_restore_data *)

WriteChunk ==
  /\ status = "running" /\ restore_chunk_queue # <<>>
  /\ written' = Append(written, Head(restore_chunk_queue))
  /\ restore_chunk_queue' = Tail(restore_chunk_queue)
  /\ UNCHANGED <<backup, reader, restore_recipe_queue, terminated, cache, reads, optVars, areaVars,
                 out, status>>

WriteEnd ==
  /\ status = "running" /\ restore_chunk_queue = <<>> /\ "chunk" \in terminated
  /\ status' = "done"
  /\ UNCHANGED <<backup, reader, restore_recipe_queue, restore_chunk_queue, terminated, cache,
                 reads, optVars, areaVars, out, written>>

RecipeThread == ReadRecipe \/ ReadRecipeEnd
RestoreThread == RestoreNext \/ AsmDrain \/ PushChunk \/ RestoreEnd
WriteThread == WriteChunk \/ WriteEnd

Next == RecipeThread \/ RestoreThread \/ WriteThread

\* Every step of every thread gets a finite job forward, so any of them may be
\* the next as long as one is.
Spec == Init /\ [][Next]_vars /\ WF_vars(Next)
-----------------------------------------------------------------------------
(* Properties. *)

TypeOK ==
  /\ config \in Configs /\ status \in {"running", "done", "aborted"}
  /\ file \in 1..Len(recipe) + 1 /\ next \in Nat
  /\ file <= Len(recipe) => next <= Len(recipe[file]) + 1
  /\ Len(restore_recipe_queue) <= QueueSize /\ Len(restore_chunk_queue) <= QueueSize
  /\ terminated \subseteq {"recipe", "chunk"}
  /\ cache \in Seq(Ids) /\ Len(cache) <= CacheSize /\ reads \in 0..Cardinality(Chunks(source))
  /\ IsInjective(cache)
  /\ DOMAIN table \subseteq Ids \cup {TEMPORARY_ID}
  /\ sequence_number \in 0..Len(records) /\ buffered \in 0..config.window
  /\ last_id \in Ids \cup {TEMPORARY_ID}
  /\ size = SizeOfAll(area)

\* The access records keep in step with the recipe: what is buffered are just the
\* accesses to come as far as they were read, each with its container, and no
\* access is without a record (the assertion of optimal_cache_window_slides).
AccessesInStep ==
  config.cache = "opt" =>
    /\ status # "aborted"
    /\ UNION {table[id] : id \in DOMAIN table} = sequence_number - buffered + 1..sequence_number
    /\ ToSet(cache) \subseteq DOMAIN table

\* So they do, and the queues, the cache and the area are what their types say.
InStep == TypeOK /\ AccessesInStep

\* The fewest reads any replacement of containers can do with: of all victims
\* the best, at each access that misses.
FewestReads ==
  LET cost[p \in 1..Len(records)] ==
        [c \in SUBSET Ids |->
           IF p = Len(records) THEN 0
           ELSE IF records[p] \in c THEN cost[p + 1][c]
           ELSE 1 + Min({cost[p + 1][d \cup {records[p]}] :
                           d \in IF Cardinality(c) < CacheSize THEN {c} ELSE {c \ {v} : v \in c}})]
  IN cost[1][{}]

\* The optimal cache is optimal if its window holds all records.
OptimalReads ==
  status = "done" /\ config.cache = "opt" /\ config.window >= Len(records) => reads = FewestReads

\* The assembly area holds a bounded number of chunks, however their containers
\* alternate, although its size may exceed area_size.
AreaBounded ==
  LET chunks == Cardinality(Chunks(area)) IN
  chunks = 0 \/ \E f \in FP : chunks * Size[f] < AreaSize

\* The backup is restored, in order and to its end, by each of the algorithms.
Copying == INSTANCE FileCopy
RestoresFiles == Copying!FCSpec
=============================================================================
