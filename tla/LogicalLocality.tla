-------------------------- MODULE LogicalLocality --------------------------
(***************************************************************************)
(* Deduplication with an index that exploits logical locality (Extreme     *)
(* Binning, Sparse Indexing, SiLo, Block Locality Caching): the key-value  *)
(* store maps features of a segment to ids of segments, an id says where   *)
(* in which recipe the segment is, and a lookup prefetches segments from   *)
(* recipes into the fingerprint cache (index.c, similarity_detection.c,    *)
(* sampling_method.c, fingerprint_cache.c, recipestore.c, filter_phase.c). *)
(*                                                                         *)
(* index_lookup and the handling of a segment by the filter phase both     *)
(* happen under index_lock: each is one step.  Nothing is rewritten; that, *)
(* and what one chunk after the other makes of the index buffer, is module *)
(* BackupPipeline, for an index of containers.                             *)
(***************************************************************************)
EXTENDS Naturals, Integers, FiniteSets, SequencesExt, Functions

CONSTANTS
  FP,           \* the fingerprints, numbers other than that of a file mark
  Configs,      \* how destor may be configured and used, see Config
  MaxSessions,  \* bound of the model: backups
  SizeRange,    \* how many sizes a segment id can tell (2^16)
  OffRange      \* how many offsets (2^32)

\* exact is index_category[0], selection and top are index_segment_selection_method,
\* prefetch is index_segment_prefech, which stays 0 (destor.c) unless it is configured
\* or index_specific sets it; sampling and ratio are index_sampling_method,
\* values index_value_length, cache index_cache_size.  Fingerprints that agree after
\* division by keys have the same key (index_key_size).  files says that a segment
\* is a file, with its marks; capacity is how many chunks fill a container.  fps,
\* segment and length bound the model: the fingerprints that a stream may have, the
\* chunks of a segment and those of a stream.
Config == [exact : BOOLEAN, selection : {"base", "top", "mix"}, top : Nat \ {0},
           prefetch : Nat, sampling : {"min", "optmin", "random", "uniform"},
           ratio : Nat, values : Nat \ {0}, cache : Nat \ {0}, keys : Nat \ {0},
           files : BOOLEAN, capacity : Nat \ {0}, fps : SUBSET FP, segment : Nat \ {0},
           length : Nat]

ASSUME LogicalAssumption ==
  /\ FP \subseteq Nat \ {0} /\ IsFiniteSet(FP)
  /\ MaxSessions \in Nat \ {0} /\ SizeRange \in Nat \ {0} /\ OffRange \in Nat \ {0}
  /\ \A c \in Configs : c \in Config /\ (c.exact => c.keys = 1)

TEMPORARY_ID == -1

VARIABLES
  config,
  recipes,     \* the recipes, by backup: segments of chunk pointers
  read,        \* how many chunks of this backup's stream were read; one more
               \* than there may be when its end was read
  flight,      \* the segments looked up and not yet filtered
  buffered,    \* index_buffer.buffered_fingerprints
  cache,       \* the fingerprint cache: the recipe and number of segments, latest first
  kv,          \* the key-value store: ids of segments, latest first
  containers,  \* their fingerprints, by id; the last may be container_buffer
  open,        \* whether it is
  champions,   \* history: the segments selected for the segment last looked up
  aborted      \* an assertion failed

vars == <<config, recipes, read, flight, buffered, cache, kv, containers, open, champions,
          aborted>>

\* The mark of a file (FILE_START, FILE_END) has a fingerprint of zeros.
Mark == 0
IsChunk(f) == f # Mark

Backup == Len(recipes) - 1
Key(f) == f \div config.keys
Keys == {f \div k : f \in FP \cup {Mark}, k \in {c.keys : c \in Configs}}
\* memset(feature, 0xff): above every fingerprint.
Highest == -1

Init ==
  /\ config \in Configs
  /\ recipes = << <<>> >> /\ read = 0 /\ flight = <<>>
  /\ buffered = [f \in FP |-> <<>>] /\ cache = <<>>
  /\ kv = [k \in Keys \cup {Highest} |-> <<>>]
  /\ containers = <<>> /\ open = FALSE
  /\ champions = {} /\ aborted = FALSE

-----------------------------------------------------------------------------
(* Segment ids.                                                            *)

\* A chunk pointer takes several bytes, so that an offset one off is inside one.
PointerSize == 2

\* Where segment k of backup b begins: before it are the chunk pointers and two
\* flags of each earlier segment.
Offset(b, k) ==
  PointerSize * FoldLeft(LAMBDA n, s : n + Len(s) + 2, 0, SubSeq(recipes[b+1], 1, k-1))

make_segment_id(bid, off, size) == (bid * OffRange + off) * SizeRange + size
id_to_off(id) == (id \div SizeRange) % OffRange
id_to_bnum(id) == (id \div SizeRange) \div OffRange

SegmentId(b, k) == make_segment_id(b, Offset(b, k), Len(recipes[b+1][k]))

\* The segments at an offset: none, if no SEGMENT_START is there.
SegmentsAt(b, off) ==
  IF b + 1 \in DOMAIN recipes
  THEN {k \in DOMAIN recipes[b+1] : Offset(b, k) = off}
  ELSE {}
Readable(id) == SegmentsAt(id_to_bnum(id), id_to_off(id)) # {}

-----------------------------------------------------------------------------
(* Sampling, of the fingerprints fps of a segment with its marks.          *)

Kept(chunks, f) == IF IsChunk(f) THEN Append(chunks, f) ELSE chunks
ChunksOf(fps) == FoldLeft(Kept, <<>>, fps)

\* ratio chunks have one feature, rounded; fewer than that have one as well.
FeatureNum(fps) ==
  LET n == IF ChunksOf(fps) = <<>> THEN Len(fps) ELSE Len(ChunksOf(fps))
      r == config.ratio
  IN IF r = 0 \/ n <= r THEN 1
     ELSE IF (n % r) * 2 > r THEN n \div r + 1 ELSE n \div r

\* The positions of the FeatureNum smallest fingerprints, the first of equal ones.
Smallest(fps) ==
  LET chunks == ChunksOf(fps)
      Before(i, j) == chunks[i] < chunks[j] \/ (chunks[i] = chunks[j] /\ i < j)
  IN {i \in DOMAIN chunks : Cardinality({j \in DOMAIN chunks : Before(j, i)}) < FeatureNum(fps)}

OrHighest(features) == IF features = {} THEN {Highest} ELSE features
OrZero(features) == IF features = {} THEN {Key(Mark)} ELSE features

index_sampling_min(fps) == OrHighest({Key(ChunksOf(fps)[i]) : i \in Smallest(fps)})

\* Not the smallest ones but those eight before them, or the first; here two before.
Off == 2
index_sampling_optimized_min(fps) ==
  OrHighest({Key(ChunksOf(fps)[IF i > Off THEN i - Off ELSE 1]) : i \in Smallest(fps)})

index_sampling_random(fps) ==
  OrZero({Key(f) : f \in {g \in Range(ChunksOf(fps)) : g % config.ratio = 0}})

\* The marks of files are counted, and may be chosen.
index_sampling_uniform(fps) ==
  OrZero({Key(fps[i]) : i \in {j \in DOMAIN fps : (j - 1) % config.ratio = 0}})

sampling(fps) ==
  CASE config.sampling = "min" -> index_sampling_min(fps)
    [] config.sampling = "optmin" -> index_sampling_optimized_min(fps)
    [] config.sampling = "random" -> index_sampling_random(fps)
    [] config.sampling = "uniform" -> index_sampling_uniform(fps)

-----------------------------------------------------------------------------
(* The fingerprint cache.  A lookup works on l.cache; l.aborted is set when *)
(* there is no segment where an id says.                                    *)

Pointers(s) == recipes[s[1]+1][s[2]]
HoldsFp(s, f) == \E i \in DOMAIN Pointers(s) : Pointers(s)[i].fp = f

\* g_hash_table_replace: of several pointers of a chunk the last one is found.
IdIn(s, f) == Pointers(s)[SelectLastInSeq(Pointers(s), LAMBDA p : p.fp = f)].id

Promoted(lru, i) == <<lru[i]>> \o RemoveAt(lru, i)

\* lru_cache_hits on the id of the segment, or else lru_cache_insert.
Used(lru, s) ==
  LET i == SelectInSeq(lru, LAMBDA t : SegmentId(t[1], t[2]) = SegmentId(s[1], s[2]))
  IN IF i # 0 THEN Promoted(lru, i)
     ELSE <<s>> \o (IF Len(lru) = config.cache THEN Front(lru) ELSE lru)

\* Mutant: the segment asked for is inserted first, and those after it may evict it.
PrefetchHeadFirst(l, id) ==
  LET cached == SelectInSeq(l.cache, LAMBDA t : SegmentId(t[1], t[2]) = id)
      b == id_to_bnum(id)
      k == CHOOSE k \in SegmentsAt(b, id_to_off(id)) : TRUE
      last == IF k + config.prefetch - 1 < Len(recipes[b+1])
              THEN k + config.prefetch - 1 ELSE Len(recipes[b+1])
  IN IF cached # 0 THEN [l EXCEPT !.cache = Promoted(@, cached)]
     ELSE IF config.prefetch = 0 /\ b <= Backup THEN l
     ELSE IF ~Readable(id) THEN [l EXCEPT !.aborted = TRUE]
     ELSE [l EXCEPT !.cache = FoldLeft(Used, @, [i \in 1..last-k+1 |-> <<b, k-1+i>>])]

\* fingerprint_cache_prefetch: the segment and those after it in the recipe, the
\* last of them first, so that the segment asked for is the most recent.  Where none
\* is to be prefetched the recipe is opened all the same.
Prefetch(l, id) ==
  LET cached == SelectInSeq(l.cache, LAMBDA t : SegmentId(t[1], t[2]) = id)
      b == id_to_bnum(id)
      k == CHOOSE k \in SegmentsAt(b, id_to_off(id)) : TRUE
      last == IF k + config.prefetch - 1 < Len(recipes[b+1])
              THEN k + config.prefetch - 1 ELSE Len(recipes[b+1])
  IN IF cached # 0 THEN [l EXCEPT !.cache = Promoted(@, cached)]
     ELSE IF config.prefetch = 0 /\ b <= Backup THEN l
     ELSE IF ~Readable(id) THEN [l EXCEPT !.aborted = TRUE]
     ELSE [l EXCEPT !.cache = FoldLeft(Used, @, [i \in 1..last-k+1 |-> <<b, last+1-i>>])]

-----------------------------------------------------------------------------
(* Similarity detection.                                                   *)

\* An id is twice in the list of a feature, which then is a feature of that segment
\* before it is added.
Doubled(features) ==
  \E x \in features : \E i, j \in DOMAIN kv[x] : i # j /\ kv[x][i] = kv[x][j]

\* The segments that share features with this one, and which.
Similar(features) ==
  LET ids == UNION {Range(kv[x]) : x \in features}
  IN [id \in ids |-> {x \in features : id \in Range(kv[x])}]

\* The most features, and of equal ones the latest.
Best(similar) ==
  CHOOSE id \in DOMAIN similar : \A other \in DOMAIN similar \ {id} :
    \/ Cardinality(similar[id]) > Cardinality(similar[other])
    \/ Cardinality(similar[id]) = Cardinality(similar[other]) /\ id > other

\* One champion after the other: what it has in common no longer counts.
SelectTop(sel, _n) ==
  IF DOMAIN sel.similar = {} THEN sel
  ELSE LET best == Best(sel.similar) IN
       [similar |-> [id \in DOMAIN sel.similar \ {best} |->
                       sel.similar[id] \ sel.similar[best]],
        top |-> Append(sel.top, best)]

top_segment_select(features) ==
  FoldLeft(SelectTop, [similar |-> Similar(features), top |-> <<>>],
           [i \in 1..config.top |-> i]).top

-----------------------------------------------------------------------------
(* The dedup phase.                                                        *)

Current == IF open THEN Len(containers) - 1 ELSE TEMPORARY_ID
InStorageBuffer(f) == open /\ f \in containers[Len(containers)]

\* index_lookup_base asks the key-value store for every chunk that is not cached,
\* index_lookup_similarity_detection only with an exact index or mixed selection.
AsksIndex == config.selection \in {"base", "mix"} \/ config.exact

Chunk(f, id, dup) == [fp |-> f, id |-> id, dup |-> dup]

InCache(l, f) == SelectInSeq(l.cache, LAMBDA s : HoldsFp(s, f))

\* The chunk is known as id; it goes to the index buffer.
Looked(l, f, id, dup) ==
  [l EXCEPT !.segment = Append(@, Chunk(f, id, dup)), !.buffered[f] = Append(@, id)]

\* A hit promotes the segment.
FromCache(l, f) ==
  LET i == InCache(l, f)
  IN Looked([l EXCEPT !.cache = Promoted(@, i)], f, IdIn(l.cache[i], f), TRUE)

LookupChunk(l, f) ==
  CASE f = Mark -> [l EXCEPT !.segment = Append(@, Chunk(f, TEMPORARY_ID, FALSE))]
    [] f # Mark /\ InStorageBuffer(f) -> Looked(l, f, Current, TRUE)
    [] f # Mark /\ ~InStorageBuffer(f) /\ l.buffered[f] # <<>> ->
         Looked(l, f, Head(l.buffered[f]), TRUE)
    [] OTHER ->
         IF InCache(l, f) # 0 THEN FromCache(l, f)
         ELSE IF AsksIndex /\ kv[Key(f)] # <<>>
         THEN LET p == Prefetch(l, Head(kv[Key(f)]))
              IN IF InCache(p, f) # 0 THEN FromCache(p, f)
                 ELSE Looked(p, f, TEMPORARY_ID, FALSE)
         ELSE Looked(l, f, TEMPORARY_ID, FALSE)

\* What a segment takes of config.length: an empty file counts as well.
Weight(fps) == IF ChunksOf(fps) = <<>> THEN 1 ELSE Len(ChunksOf(fps))

\* index_lookup of a segment, and send_segment.  A segment without a chunk is not
\* looked up.
DedupSegment(fps) ==
  LET start == [cache |-> cache, buffered |-> buffered, segment |-> <<>>, aborted |-> FALSE]
      similarity == config.selection # "base" /\ ChunksOf(fps) # <<>>
      top == IF similarity THEN top_segment_select(sampling(fps)) ELSE <<>>
      l == FoldLeft(LookupChunk, FoldLeft(Prefetch, start, top), fps)
  IN /\ ~aborted
     /\ read + Weight(fps) <= config.length
     /\ aborted' = (l.aborted \/ (similarity /\ Doubled(sampling(fps))))
     /\ cache' = l.cache /\ buffered' = l.buffered
     /\ flight' = Append(flight, l.segment)
     /\ champions' = {s \in (0..Backup) \X (1..config.length+1) :
                        s[2] \in DOMAIN recipes[s[1]+1] /\ SegmentId(s[1], s[2]) \in Range(top)}
     /\ read' = read + Weight(fps)
     /\ UNCHANGED <<config, recipes, kv, containers, open>>

\* What is left at the end of the stream is sent, also when it is nothing: a stream
\* of files that are segments always ends with an empty one.
EndOfStream ==
  /\ ~aborted /\ read <= config.length
  /\ read' = config.length + 1
  /\ flight' = Append(flight, <<>>)
  /\ champions' = {}
  /\ UNCHANGED <<config, recipes, buffered, cache, kv, containers, open, aborted>>

-----------------------------------------------------------------------------
(* The filter phase.                                                       *)

\* index_check_buffer: what was in flight when the chunk was looked up has an id.
CheckBuffer(c) ==
  IF IsChunk(c.fp) /\ c.dup /\ c.id = TEMPORARY_ID
  THEN [c EXCEPT !.id = Head(buffered[c.fp])] ELSE c

\* Mutant: a chunk that begins a container gets the id of the one before.
WrittenStaleId(w, c) ==
  LET new == ~w.open \/ Cardinality(Last(w.containers)) >= config.capacity
      boxes == IF new THEN Append(w.containers, {c.fp})
               ELSE [w.containers EXCEPT ![Len(w.containers)] = @ \cup {c.fp}]
      id == Len(w.containers) - 1
  IN [w EXCEPT !.containers = boxes, !.open = TRUE,
               !.segment = Append(@, [c EXCEPT !.id = id]),
               !.unique = [x \in DOMAIN @ \cup {c.fp} |-> IF x = c.fp THEN id ELSE @[x]]]

\* create_container, when there is none or it is full; add_chunk_to_container, which
\* refuses a chunk it holds: an assertion says that this needs a near-exact index.
Written(w, c) ==
  LET new == ~w.open \/ Cardinality(Last(w.containers)) >= config.capacity
      held == ~new /\ c.fp \in Last(w.containers)
      boxes == IF new THEN Append(w.containers, {c.fp})
               ELSE [w.containers EXCEPT ![Len(w.containers)] = @ \cup {c.fp}]
      id == Len(boxes) - 1
  IN [w EXCEPT !.containers = boxes, !.open = TRUE,
               !.aborted = @ \/ (held /\ config.exact),
               !.segment = Append(@, [c EXCEPT !.id = id]),
               !.unique = IF held THEN @ ELSE [x \in DOMAIN @ \cup {c.fp} |->
                                                 IF x = c.fp THEN id ELSE @[x]]]

\* A copy of a chunk that is unique in this segment takes its id.
FilterChunk(w, c) ==
  CASE ~IsChunk(c.fp) -> w
    [] IsChunk(c.fp) /\ ~c.dup -> Written(w, c)
    [] OTHER ->
         IF c.id # TEMPORARY_ID THEN [w EXCEPT !.segment = Append(@, c)]
         ELSE IF c.fp \in DOMAIN w.unique
         THEN [w EXCEPT !.segment = Append(@, [c EXCEPT !.id = w.unique[c.fp]])]
         ELSE [w EXCEPT !.aborted = TRUE]

\* index_update_buffer, for one fingerprint.
UpdateBuffer(segment, f) ==
  LET here == {i \in DOMAIN segment : segment[i].fp = f}
      rest == SubSeq(buffered[f], Cardinality(here) + 1, Len(buffered[f]))
  IN IF here = {} THEN buffered[f]
     ELSE [i \in DOMAIN rest |-> segment[CHOOSE j \in here : \A k \in here : k <= j].id]

\* Mutant: the list grows.
kv_update_unbounded(ids, id) == <<id>> \o ids

\* kv_update: the latest id first, and the oldest is dropped.
kv_update(ids, id) ==
  <<id>> \o SubSeq(ids, 1, IF Len(ids) < config.values THEN Len(ids) ELSE config.values - 1)

\* Mutants: the offset is asked for when the flag is written; the chunks that were
\* unique are forgotten.
append_segment_flag_late(n) ==
  make_segment_id(Backup, Offset(Backup, Len(Last(recipes)) + 1) + PointerSize, n)
FeaturesSampled(s, unique) == sampling([i \in DOMAIN s |-> s[i].fp])

\* append_segment_flag of CHUNK_SEGMENT_START: the id of a segment of n chunks that
\* is appended to the recipe, at its end.
append_segment_flag(n) ==
  make_segment_id(Backup, Offset(Backup, Len(Last(recipes)) + 1), n)

\* An exact index gets the chunks that were unique besides the sample.
Features(s, unique) ==
  sampling([i \in DOMAIN s |-> s[i].fp]) \cup (IF config.exact THEN unique ELSE {})

FilterSegment ==
  LET s == Head(flight)
      start == [containers |-> containers, open |-> open, segment |-> <<>>,
                unique |-> [x \in {} |-> 0], aborted |-> FALSE]
      w == FoldLeft(FilterChunk, start, [i \in DOMAIN s |-> CheckBuffer(s[i])])
      pointers == [i \in DOMAIN w.segment |-> [fp |-> w.segment[i].fp, id |-> w.segment[i].id]]
      sid == append_segment_flag(Cardinality({i \in DOMAIN s : IsChunk(s[i].fp)}))
      features == Features(s, DOMAIN w.unique)
  IN /\ ~aborted /\ flight # <<>>
     /\ flight' = Tail(flight)
     /\ containers' = w.containers /\ open' = w.open
     /\ aborted' = w.aborted
     /\ buffered' = [f \in FP |-> UpdateBuffer(w.segment, f)]
     /\ recipes' = [recipes EXCEPT ![Len(recipes)] = Append(@, pointers)]
     /\ kv' = [x \in DOMAIN kv |-> IF x \in features THEN kv_update(kv[x], sid) ELSE kv[x]]
     /\ UNCHANGED <<config, read, cache, champions>>

-----------------------------------------------------------------------------

\* The backup is over; the next one is another process.
NextSession ==
  /\ ~aborted /\ flight = <<>> /\ Len(recipes) < MaxSessions
  /\ read > IF config.files THEN config.length ELSE 0
  /\ recipes' = Append(recipes, <<>>)
  /\ read' = 0 /\ cache' = <<>> /\ open' = FALSE /\ champions' = {}
  /\ UNCHANGED <<config, flight, buffered, kv, containers, aborted>>

Segments == {IF config.files THEN <<Mark>> \o fps \o <<Mark>> ELSE fps :
               fps \in SeqOf(config.fps, config.segment)}

Next ==
  \/ \E fps \in Segments : fps # <<>> /\ DedupSegment(fps)
  \/ EndOfStream
  \/ FilterSegment
  \/ NextSession

Spec == Init /\ [][Next]_vars

-----------------------------------------------------------------------------
(* Properties.                                                             *)

\* The types of the variables.
TypeOK ==
  /\ config \in Configs /\ read \in 0..config.length+1
  /\ \A f \in FP : buffered[f] \in Seq(TEMPORARY_ID..Len(containers)-1)
  /\ Len(cache) <= config.cache
  /\ \A s \in Range(cache) : s[1] \in 0..Backup /\ s[2] \in DOMAIN recipes[s[1]+1]
  /\ \A x \in DOMAIN kv : Len(kv[x]) <= config.values
  /\ \A id \in DOMAIN containers : Cardinality(containers[id]) <= config.capacity

\* The assertions of prefetch_segments (a segment begins where its id says), of
\* top_segment_select (a feature has an id once) and of filter_thread (a copy of a
\* unique chunk comes after it, and with an exact index no container gets a chunk that
\* it holds) hold.
AssertionsHold == ~aborted

\* The assertions hold, the caches, containers and lists of ids keep their sizes, and
\* what is cached is a segment of a recipe.
StateSound == TypeOK /\ AssertionsHold

\* Every chunk pointer of every recipe names a container that holds the chunk,
\* although its id may come from a segment of another backup, from the cache or
\* from a copy in flight.
RecipeRestorable ==
  \A b \in DOMAIN recipes : \A k \in DOMAIN recipes[b] : \A i \in DOMAIN recipes[b][k] :
    LET p == recipes[b][k][i]
    IN p.id + 1 \in DOMAIN containers /\ p.fp \in containers[p.id + 1]

\* An exact index that prefetches finds every chunk that was ever stored: no container
\* gets a second copy, not of a chunk in flight either.  Without a prefetch the id that
\* the key-value store has says which segment holds the chunk, and nobody reads it.
StoredOnce ==
  config.exact /\ config.prefetch > 0 => \A f \in FP : Cardinality({id \in DOMAIN containers : f \in containers[id]}) <= 1

\* An id in the key-value store leads to the segment it was made for: one with a
\* chunk of this key, unless the key stands for a segment without samples.
LeadsToSegments ==
  \A x \in DOMAIN kv : \A id \in Range(kv[x]) :
    /\ Readable(id)
    /\ \A k \in SegmentsAt(id_to_bnum(id), id_to_off(id)) :
         \/ x \in {Highest, Key(Mark)}
         \/ \E i \in DOMAIN recipes[id_to_bnum(id)+1][k] :
              Key(recipes[id_to_bnum(id)+1][k][i].fp) = x

\* "(top-k * prefetching_num) cannot be larger than the segment cache size": then, or
\* when one segment is selected, and if segments are prefetched at all, a chunk that a
\* selected segment holds is found to be a duplicate, whatever was prefetched with that
\* segment and after it.
ChampionsServe ==
  (/\ ~AsksIndex /\ flight # <<>> /\ config.prefetch > 0
   /\ config.top = 1 \/ config.top * config.prefetch <= config.cache)
  => \A i \in DOMAIN Last(flight) :
       (\E s \in champions : HoldsFp(s, Last(flight)[i].fp)) => Last(flight)[i].dup

=============================================================================
