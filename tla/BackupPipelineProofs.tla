------------------------ MODULE BackupPipelineProofs ------------------------
(***************************************************************************)
(* BackupPipeline is proved for any number of fingerprints, containers,    *)
(* segments and backups, and any configuration.  A chunk is looked up long *)
(* before it is written; the inductive invariant says what the index, the  *)
(* index buffer and the chunks in flight know of each other meanwhile:     *)
(*                                                                         *)
(*  - the index buffer holds one id per copy in flight (Counted), and it   *)
(*    says "not written yet" only if a unique copy is in flight (Promised);*)
(*  - that copy comes first (UniqueFirst), and while it waits no container *)
(*    gets the chunk (UniqueFresh), as every other copy is behind it;      *)
(*  - so a segment that arrives resolves itself (Resolved, Remembered) and *)
(*    every id, wherever it is kept, names a container with the chunk      *)
(*    (IdsHold, Recorded, IndexKnows).                                     *)
(*                                                                         *)
(* BackupPipeline implements DedupArchive.  To the invariant the last part *)
(* adds what concerns the whole stream: recipe, segments in flight and     *)
(* what is still to be looked up are the stream, piece by piece (InOrder), *)
(* and with an exact index and no rewriting only chunks that no container  *)
(* had when they were looked up are written (Plain), which by then is      *)
(* still so.                                                               *)
(***************************************************************************)
EXTENDS BackupPipeline, FiniteSetTheorems, SequenceTheorems, WellFoundedInduction, TLAPS

\* A container id, or none yet.
Id == Nat \cup {TEMPORARY_ID}

\* The types, and what they tell of each other.  There is something to look up
\* only while the dedup phase looks it up.
DedupShape ==
  /\ stream \in Seq(FP) /\ todo \in Seq(FP) /\ seg \in Seq(Chunk)
  /\ dedup \in {"segment", "lookup", "send", "ended"}
  /\ dedup = "lookup" <=> todo # <<>>
  /\ dedup \in {"segment", "ended"} => seg = <<>>

\* The filter phase has a segment only while it works on it, and ends last.
FilterShape ==
  /\ filter \in {"reassemble", "chunks", "ended"}
  /\ cur \in Seq(Chunk) /\ pos \in 1..(Len(cur) + 1)
  /\ filter # "chunks" => cur = <<>>
  /\ filter = "ended" => dedup = "ended" /\ flight = <<>> /\ buf = NoContainer

\* index_lock is held by the phase that works on the index, so by one of them.
LockShape ==
  /\ lock \in {"none", "dedup", "filter"}
  /\ lock = "dedup" <=> dedup = "lookup"
  /\ lock = "filter" <=> filter = "chunks"

\* What is between the phases.
FlightShape ==
  /\ flight \in Seq(Seq(Chunk))
  /\ buffered \in [FP -> Seq(Id)]

\* Containers are numbered as they are opened; the last one may be open still.
StoreShape ==
  /\ count \in Nat
  /\ buf \in [id : Id, fps : SUBSET FP]
  /\ buf # NoContainer => count > 0 /\ buf.id = count - 1
  /\ DOMAIN containers = 0..(IF buf = NoContainer THEN count - 1 ELSE count - 2)
  /\ \A id \in DOMAIN containers : containers[id] \subseteq FP

\* The index and the fingerprint cache.
IndexShape ==
  /\ cache \in Seq(Nat) /\ Len(cache) <= CacheSize
  /\ kv \in [Keys -> Id]

\* The recipes, and what never changes.
RecipeShape ==
  /\ recipe \in Seq([fp : FP, id : Nat]) /\ archive \subseteq [fp : FP, id : Nat]
  /\ session \in 1..MaxSessions /\ config \in Configs

\* The index: it and the fingerprint cache name containers that were handed over.
IndexKnows ==
  /\ IndexSound
  /\ \A i \in DOMAIN cache : cache[i] \in DOMAIN containers
  /\ config.exact => \A id \in DOMAIN containers : \A f \in containers[id] : Indexed(f) # TEMPORARY_ID

\* Where a chunk in flight is, and whether it is still to be filtered there.
Place(k, i) == k \in 0..(Len(flight) + 1) /\ i \in DOMAIN Row(k)
Waits(k, i) == Place(k, i) /\ (k = 0 => i >= pos)

\* The index buffer has an id for every copy in flight.
Counted == \A f \in FP : IsFiniteSet(Places(f)) /\ Cardinality(Places(f)) = Len(buffered[f])

\* A unique chunk is the first of its copies in flight.
UniqueFirst ==
  \A k, l \in 0..(Len(flight) + 1) : \A i \in DOMAIN Row(k), j \in DOMAIN Row(l) :
    ~Row(k)[i].dup /\ Row(l)[j].fp = Row(k)[i].fp => k < l \/ (k = l /\ i <= j)

\* While it waits nobody writes the chunk, and the index buffer says so.
UniqueFresh ==
  \A k \in 0..(Len(flight) + 1) : \A i \in DOMAIN Row(k) :
    Waits(k, i) /\ ~Row(k)[i].dup =>
      /\ Row(k)[i].fp \notin buf.fps
      /\ Row(k)[i].since = Copies(Row(k)[i].fp)
      /\ Head(buffered[Row(k)[i].fp]) = TEMPORARY_ID

\* The ids in flight and in the index buffer name containers with the chunk.
IdsHold ==
  /\ \A k \in 0..(Len(flight) + 1) : \A i \in DOMAIN Row(k) :
       Row(k)[i].id # TEMPORARY_ID => Holds(Row(k)[i].id, Row(k)[i].fp)
  /\ \A f \in FP : \A i \in DOMAIN buffered[f] :
       buffered[f][i] # TEMPORARY_ID => Holds(buffered[f][i], f)

\* "Not written yet" is said of a chunk only if a unique copy is in flight.
Promised ==
  \A f \in FP : buffered[f] # <<>> /\ Head(buffered[f]) = TEMPORARY_ID =>
    \E k \in 0..(Len(flight) + 1) : \E i \in DOMAIN Row(k) : Row(k)[i].fp = f /\ ~Row(k)[i].dup

\* A duplicate without an id comes after the unique copy in its own segment,
\* and what has been through has an id.
Resolved ==
  /\ \A i \in pos..Len(cur) : cur[i].dup /\ cur[i].id = TEMPORARY_ID =>
       \E j \in 1..(i - 1) : cur[j].fp = cur[i].fp /\ ~cur[j].dup
  /\ \A j \in 1..(pos - 1) :
       cur[j].id # TEMPORARY_ID /\ (~cur[j].dup => cur[j].fp \in DOMAIN unique)

\* recently_unique_chunks and recently_rewritten_chunks tell the truth, and the
\* latter only of chunks that have been through.
Remembered ==
  /\ DOMAIN unique \subseteq FP /\ DOMAIN rewritten \subseteq FP
  /\ \A f \in DOMAIN unique : unique[f] \in Nat /\ Holds(unique[f], f)
  /\ \A f \in DOMAIN rewritten : rewritten[f] \in Nat /\ Holds(rewritten[f], f)
  /\ \A f \in DOMAIN rewritten : \E j \in 1..(pos - 1) : cur[j].fp = f

\* The recipe of this backup, and those of earlier ones, name containers with
\* their chunks.
Recorded ==
  /\ \A i \in DOMAIN recipe : Holds(recipe[i].id, recipe[i].fp)
  /\ \A p \in archive : p.id \in DOMAIN containers /\ p.fp \in containers[p.id]

\* All of the types.
Shape ==
  /\ DedupShape /\ FilterShape /\ LockShape /\ FlightShape
  /\ StoreShape /\ IndexShape /\ RecipeShape

\* The inductive invariant.
IInv ==
  /\ Shape /\ IndexKnows
  /\ Counted /\ UniqueFirst /\ UniqueFresh /\ IdsHold /\ Promised
  /\ Resolved /\ Remembered /\ Recorded

-----------------------------------------------------------------------------
(* Sets of numbers and sequences.                                          *)

\* A set of natural numbers that is not empty has a least element.
LEMMA Least ==
  ASSUME NEW S \in SUBSET Nat, S # {}
  PROVE  \E x \in S : \A y \in S : x <= y
<1>1. PICK x \in S : \A y \in S : ~ (<<y, x>> \in OpToRel(<, Nat))
  BY WFMin, NatLessThanWellFounded, Zenon
<1>2. \A y \in S : ~(y < x)
  BY <1>1, Zenon DEF OpToRel
<1> QED BY <1>2

\* A bounded one has a greatest, its distance to the bound being the least.
LEMMA Greatest ==
  ASSUME NEW n \in Nat, NEW S \in SUBSET (1..n), S # {}
  PROVE  \E x \in S : \A y \in S : y <= x
<1> DEFINE T == {n - s : s \in S}
<1>1. T \in SUBSET Nat /\ T # {}
  OBVIOUS
<1>2. PICK t \in T : \A u \in T : t <= u
  BY <1>1, Least
<1>3. PICK s \in S : t = n - s
  BY <1>2
<1>4. \A y \in S : n - s <= n - y
  BY <1>2, <1>3
<1> QED BY <1>4

\* Another name for the concatenation of sequences, not to be expanded.
Cat(s, t) == s \o t

\* What is in a concatenation.
LEMMA CatSeq ==
  ASSUME NEW S, NEW s \in Seq(S), NEW t \in Seq(S)
  PROVE  /\ Cat(s, t) \in Seq(S) /\ Len(Cat(s, t)) = Len(s) + Len(t)
         /\ \A i \in 1..Len(s) : Cat(s, t)[i] = s[i]
         /\ \A i \in 1..Len(t) : Cat(s, t)[Len(s) + i] = t[i]
         /\ \A i \in 1..(Len(s) + Len(t)) :
              \/ i \in 1..Len(s) /\ Cat(s, t)[i] = s[i]
              \/ i - Len(s) \in 1..Len(t) /\ Cat(s, t)[i] = t[i - Len(s)]
<1>1. Len(s) \in Nat /\ Len(t) \in Nat
  OBVIOUS
<1>2. Cat(s, t) \in Seq(S) /\ Len(Cat(s, t)) = Len(s) + Len(t)
  BY ConcatProperties DEF Cat
<1>3. \A i \in 1..(Len(s) + Len(t)) :
        Cat(s, t)[i] = IF i <= Len(s) THEN s[i] ELSE t[i - Len(s)]
  BY ConcatProperties DEF Cat
<1>4. ASSUME NEW i \in 1..Len(t) PROVE Cat(s, t)[Len(s) + i] = t[i]
  <2>1. Len(s) + i \in 1..(Len(s) + Len(t)) /\ ~(Len(s) + i <= Len(s)) /\ (Len(s) + i) - Len(s) = i
    BY <1>1
  <2> QED BY <1>3, <2>1
<1> QED BY <1>1, <1>2, <1>3, <1>4

\* x is an element of s.
From(x, s) == \E k \in 1..Len(s) : x = s[k]

\* Whatever is in a concatenation comes from one of its parts.
LEMMA CatFrom ==
  ASSUME NEW S, NEW s \in Seq(S), NEW t \in Seq(S)
  PROVE  \A i \in 1..Len(Cat(s, t)) : From(Cat(s, t)[i], s) \/ From(Cat(s, t)[i], t)
<1> SUFFICES ASSUME NEW i \in 1..Len(Cat(s, t))
             PROVE  From(Cat(s, t)[i], s) \/ From(Cat(s, t)[i], t)
  OBVIOUS
<1>1. i \in 1..(Len(s) + Len(t))
  BY CatSeq, Zenon
<1>2. \/ i \in 1..Len(s) /\ Cat(s, t)[i] = s[i]
      \/ i - Len(s) \in 1..Len(t) /\ Cat(s, t)[i] = t[i - Len(s)]
  BY <1>1, CatSeq, Zenon
<1> QED BY <1>2, Zenon DEF From

\* Likewise a piece of a sequence.
Part(s, m, n) == SubSeq(s, m, n)

\* The bounds m and n cut a piece out of a sequence.
Cuts(s, m, n) == 1 <= m /\ m <= n + 1 /\ n <= Len(s)

\* What is in a piece p of a sequence of numbers.
LEMMA PieceFrom ==
  ASSUME NEW s \in Seq(Nat), NEW m \in Nat, NEW n \in Nat, Cuts(s, m, n), NEW p, p = Part(s, m, n)
  PROVE  /\ p \in Seq(Nat) /\ Len(p) = n + 1 - m
         /\ \A x \in 1..Len(p) : From(p[x], s)
<1>1. Len(s) \in Nat /\ 1 <= m /\ m <= n + 1 /\ n <= Len(s)
  BY DEF Cuts
<1>2. \A i \in m..n : s[i] \in Nat
  <2>1. \A i \in m..n : i \in 1..Len(s)
    BY <1>1
  <2> QED BY <2>1
<1>3. /\ p \in Seq(Nat)
      /\ Len(p) = IF m <= n THEN n - m + 1 ELSE 0
      /\ \A i \in 1..(n - m + 1) : p[i] = s[m + i - 1]
  BY <1>2, SubSeqProperties DEF Part
<1>4. Len(p) = n + 1 - m /\ Len(p) = n - m + 1
  <2>1. n - m + 1 = n + 1 - m /\ (~(m <= n) => n + 1 - m = 0)
    BY <1>1
  <2> QED BY <1>3, <2>1
<1>5. ASSUME NEW x \in 1..Len(p) PROVE From(p[x], s)
  <2>1. x \in 1..(n - m + 1)
    BY <1>4
  <2>2. m + x - 1 \in 1..Len(s)
    BY <1>1, <2>1
  <2>3. p[x] = s[m + x - 1]
    BY <1>3, <2>1
  <2> QED BY <2>2, <2>3 DEF From
<1> QED BY <1>3, <1>4, <1>5

\* What a segment offered to the dedup phase is: a sequence that is not empty.
LEMMA SegmentIsSeq ==
  ASSUME NEW fps \in Segments
  PROVE  fps \in Seq(FP) /\ fps # <<>> /\ Len(fps) \in 1..SegmentMax
<1>1. PICK n \in 1..SegmentMax : fps \in [1..n -> FP]
  BY DEF Segments
<1>2. SegmentMax \in Nat
  BY PipelineAssumption
<1>3. n \in Nat /\ n > 0
  BY <1>1, <1>2
<1>4. fps \in Seq(FP)
  BY <1>1, <1>3, SeqDef
<1>5. Len(fps) = n
  BY <1>1, <1>3, <1>4
<1> QED BY <1>1, <1>3, <1>4, <1>5

-----------------------------------------------------------------------------
(* The dedup phase: what a lookup finds.                                   *)

\* What is known of a chunk that was looked up with this outcome.
Outcome(id, dup, denied) ==
  /\ id \in Id /\ dup \in BOOLEAN /\ denied \in BOOLEAN
  /\ LookedUp(id, dup, denied)
  /\ ~dup => id = TEMPORARY_ID /\ NotBuffered
  /\ id # TEMPORARY_ID => Holds(id, Head(todo))
  /\ id = TEMPORARY_ID /\ buffered[Head(todo)] = <<>> => ~dup
  /\ Head(todo) \notin buf.fps /\ buffered[Head(todo)] # <<>> => id = Head(buffered[Head(todo)])
  /\ ~dup /\ config.exact => \A c \in DOMAIN containers : Head(todo) \notin containers[c]
  /\ cache' \in Seq(Nat) /\ Len(cache') <= CacheSize
  /\ \A i \in DOMAIN cache' : cache'[i] \in DOMAIN containers

\* The container found in the fingerprint cache is one that holds the chunk.
LEMMA HitFound ==
  ASSUME IndexShape, NEW f, CachedAt(f) # {}
  PROVE  Hit(f) \in DOMAIN cache /\ f \in containers[cache[Hit(f)]]
<1>1. CachedAt(f) \in SUBSET Nat
  BY DEF CachedAt, IndexShape
<1>2. PICK x \in CachedAt(f) : \A y \in CachedAt(f) : x <= y
  BY <1>1, Least
<1>3. Hit(f) \in CachedAt(f)
  BY <1>2 DEF Hit
<1> QED BY <1>3 DEF CachedAt

\* Moving a container to the front keeps the cache a sequence of what it was.
LEMMA Promoted ==
  ASSUME IndexShape, NEW i \in DOMAIN cache
  PROVE  /\ Promote(i) \in Seq(Nat) /\ Len(Promote(i)) = Len(cache)
         /\ \A j \in DOMAIN Promote(i) : \E k \in DOMAIN cache : Promote(i)[j] = cache[k]
<1> DEFINE a == <<cache[i]>>
           b == Part(cache, 1, i - 1)
           c == Part(cache, i + 1, Len(cache))
           d == Cat(a, b)
           e == Cat(d, c)
<1>1. cache \in Seq(Nat) /\ DOMAIN cache = 1..Len(cache) /\ Len(cache) \in Nat /\ i \in 1..Len(cache)
  BY DEF IndexShape
<1>2. a \in Seq(Nat) /\ Len(a) = 1 /\ a[1] = cache[i]
  BY <1>1
<1>3. /\ b \in Seq(Nat) /\ Len(b) = i - 1
      /\ \A j \in 1..Len(b) : \E k \in 1..Len(cache) : b[j] = cache[k]
  <2>1. PICK n \in Nat : n = i - 1
    BY <1>1
  <2>2. 1 \in Nat /\ Cuts(cache, 1, n) /\ n + 1 - 1 = i - 1
    BY <1>1, <2>1 DEF Cuts
  <2>3. b = Part(cache, 1, n)
    BY <2>1
  <2> HIDE DEF b
  <2>4. b \in Seq(Nat) /\ Len(b) = n + 1 - 1 /\ \A x \in 1..Len(b) : From(b[x], cache)
    BY <1>1, <2>2, <2>3, PieceFrom, Zenon
  <2> QED BY <2>2, <2>4 DEF From
<1>4. /\ c \in Seq(Nat) /\ Len(c) = Len(cache) - i
      /\ \A j \in 1..Len(c) : \E k \in 1..Len(cache) : c[j] = cache[k]
  <2>1. PICK m \in Nat : m = i + 1
    BY <1>1
  <2>2. Cuts(cache, m, Len(cache)) /\ Len(cache) + 1 - m = Len(cache) - i
    <3>1. Len(cache) \in Nat /\ i \in 1..Len(cache)
      BY <1>1
    <3> QED BY <2>1, <3>1 DEF Cuts
  <2>3. c = Part(cache, m, Len(cache))
    BY <2>1
  <2> HIDE DEF c
  <2>4. c \in Seq(Nat) /\ Len(c) = Len(cache) + 1 - m /\ \A x \in 1..Len(c) : From(c[x], cache)
    BY <1>1, <2>2, <2>3, PieceFrom, Zenon
  <2> QED BY <2>2, <2>4 DEF From
<1>5. Promote(i) = e
  BY DEF Promote, Cat, Part
<1> HIDE DEF a, b, c
<1>6. d \in Seq(Nat) /\ Len(d) = Len(a) + Len(b)
  BY <1>2, <1>3, CatSeq, Zenon
<1>7. e \in Seq(Nat) /\ Len(e) = Len(d) + Len(c)
  BY <1>4, <1>6, CatSeq, Zenon
<1>8. ASSUME NEW j \in 1..Len(d) PROVE \E k \in 1..Len(cache) : d[j] = cache[k]
  <2>1. \A x \in 1..Len(d) : From(d[x], a) \/ From(d[x], b)
    <3>1. a \in Seq(Nat) /\ b \in Seq(Nat)
      BY <1>2, <1>3
    <3> QED BY <3>1, CatFrom, Zenon
  <2>2. \A k \in 1..Len(a) : a[k] = cache[i]
    BY <1>2
  <2> HIDE DEF d
  <2>3. CASE From(d[j], a)
    BY <1>1, <2>2, <2>3 DEF From
  <2>4. CASE From(d[j], b)
    BY <1>3, <2>4 DEF From
  <2> QED BY <2>1, <2>3, <2>4
<1>9. ASSUME NEW j \in 1..Len(e) PROVE \E k \in 1..Len(cache) : e[j] = cache[k]
  <2>1. \A x \in 1..Len(e) : From(e[x], d) \/ From(e[x], c)
    <3>1. d \in Seq(Nat) /\ c \in Seq(Nat)
      BY <1>4, <1>6
    <3> HIDE DEF d
    <3> QED BY <3>1, CatFrom, Zenon
  <2> HIDE DEF e, d
  <2>2. CASE From(e[j], d)
    <3>1. PICK k \in 1..Len(d) : e[j] = d[k]
      BY <2>2 DEF From
    <3>2. \E l \in 1..Len(cache) : d[k] = cache[l]
      BY <1>8
    <3> QED BY <3>1, <3>2
  <2>3. CASE From(e[j], c)
    BY <1>4, <2>3 DEF From
  <2> QED BY <2>1, <2>2, <2>3
<1> HIDE DEF d, e
<1>10. Len(e) = Len(cache) /\ DOMAIN e = 1..Len(e)
  <2>1. Len(e) = (1 + (i - 1)) + (Len(cache) - i)
    BY <1>2, <1>3, <1>4, <1>6, <1>7, Zenon
  <2>2. (1 + (i - 1)) + (Len(cache) - i) = Len(cache)
    BY <1>1
  <2>3. DOMAIN e = 1..Len(e)
    BY <1>7
  <2> QED BY <2>1, <2>2, <2>3, Zenon
<1> QED BY <1>1, <1>5, <1>7, <1>9, <1>10, Zenon

\* A container put first leaves the cache within its size.
LEMMA Inserted ==
  ASSUME IndexShape, NEW id \in Nat
  PROVE  /\ Insert(id) \in Seq(Nat) /\ Len(Insert(id)) <= CacheSize
         /\ \A j \in DOMAIN Insert(id) :
              Insert(id)[j] = id \/ \E k \in DOMAIN cache : Insert(id)[j] = cache[k]
<1> DEFINE a == <<id>>
           rest == IF Len(cache) = CacheSize THEN SubSeq(cache, 1, CacheSize - 1) ELSE cache
           new == Cat(a, rest)
<1>1. CacheSize \in Nat /\ CacheSize > 0
  BY PipelineAssumption
<1>2. /\ cache \in Seq(Nat) /\ DOMAIN cache = 1..Len(cache)
      /\ Len(cache) \in Nat /\ Len(cache) <= CacheSize
  BY DEF IndexShape
<1>3. /\ rest \in Seq(Nat) /\ Len(rest) < CacheSize
      /\ \A j \in 1..Len(rest) : \E k \in DOMAIN cache : rest[j] = cache[k]
  <2>1. CASE Len(cache) = CacheSize
    <3>1. PICK n \in Nat : n = CacheSize - 1
      BY <1>1
    <3>2. 1 \in Nat /\ Cuts(cache, 1, n) /\ n + 1 - 1 < CacheSize
      BY <1>1, <2>1, <3>1 DEF Cuts
    <3>3. rest = Part(cache, 1, n)
      BY <2>1, <3>1 DEF Part
    <3> HIDE DEF rest
    <3>4. rest \in Seq(Nat) /\ Len(rest) = n + 1 - 1 /\ \A x \in 1..Len(rest) : From(rest[x], cache)
      BY <1>2, <3>2, <3>3, PieceFrom, Zenon
    <3> QED BY <1>2, <3>2, <3>4 DEF From
  <2>2. CASE Len(cache) # CacheSize
    <3>1. rest = cache
      BY <2>2
    <3> HIDE DEF rest
    <3>2. Len(cache) < CacheSize
      <4>1. Len(cache) \in Nat /\ Len(cache) <= CacheSize
        BY <1>2
      <4> QED BY <1>1, <2>2, <4>1
    <3> QED BY <1>2, <3>1, <3>2
  <2> QED BY <2>1, <2>2
<1>4. a \in Seq(Nat) /\ Len(a) = 1 /\ a[1] = id
  OBVIOUS
<1>5. Insert(id) = new
  BY DEF Insert, Cat
<1> HIDE DEF a, rest
<1>6. new \in Seq(Nat) /\ Len(new) = Len(a) + Len(rest)
  BY <1>3, <1>4, CatSeq, Zenon
<1>7. ASSUME NEW j \in 1..Len(new)
      PROVE  new[j] = id \/ \E k \in DOMAIN cache : new[j] = cache[k]
  <2>1. \A x \in 1..Len(new) : From(new[x], a) \/ From(new[x], rest)
    <3>1. a \in Seq(Nat) /\ rest \in Seq(Nat)
      BY <1>3, <1>4
    <3> QED BY <3>1, CatFrom, Zenon
  <2>2. \A k \in 1..Len(a) : a[k] = id
    BY <1>4
  <2> HIDE DEF new
  <2> QED BY <1>3, <2>1, <2>2 DEF From
<1> HIDE DEF new
<1>8. DOMAIN new = 1..Len(new) /\ Len(new) <= CacheSize
  BY <1>1, <1>3, <1>4, <1>6
<1> QED BY <1>5, <1>6, <1>7, <1>8, Zenon

\* What the key of a fingerprint is.
LEMMA KeyFacts ==
  ASSUME RecipeShape, NEW f \in FP
  PROVE  config.key[f] \in Keys /\ (config.exact => config.key[f] = f)
<1>1. config \in Config /\ (config.exact => config.key = FullKey)
  BY PipelineAssumption DEF RecipeShape
<1>2. config.key \in [FP -> Keys]
  BY <1>1 DEF Config
<1> QED BY <1>1, <1>2 DEF FullKey

\* Every way a lookup can end comes to such an outcome.
LEMMA LookupOutcome ==
  ASSUME IInv, LookupChunk
  PROVE  \E id \in Id, dup \in BOOLEAN, denied \in BOOLEAN : Outcome(id, dup, denied)
<1> DEFINE f == Head(todo)
<1>1. f \in FP /\ dedup = "lookup"
  <2>1. dedup = "lookup"
    BY DEF LookupChunk, InStorageBuffer, InIndexBuffer, InCache, InIndex, Unknown, LookingUp
  <2> QED BY <2>1 DEF IInv, Shape, DedupShape
<1>2. cache \in Seq(Nat) /\ Len(cache) <= CacheSize
      /\ \A i \in DOMAIN cache : cache[i] \in DOMAIN containers
  BY DEF IInv, Shape, IndexShape, IndexKnows
<1> HIDE DEF f
<1>3. CASE InStorageBuffer
  <2>1. f \in buf.fps /\ LookedUp(buf.id, TRUE, TRUE) /\ cache' = cache
    BY <1>3 DEF InStorageBuffer, f
  <2>2. buf # NoContainer
    BY <2>1 DEF NoContainer
  <2>3. buf.id \in Nat /\ buf.id \in Id /\ buf.id # TEMPORARY_ID
    BY <2>2 DEF IInv, Shape, StoreShape, Id, TEMPORARY_ID
  <2>4. Holds(buf.id, f)
    BY <2>1 DEF Holds
  <2>5. Outcome(buf.id, TRUE, TRUE)
    BY <1>2, <2>1, <2>3, <2>4 DEF Outcome, f
  <2> QED BY <2>3, <2>5
<1>4. CASE InIndexBuffer
  <2>1. f \notin buf.fps /\ buffered[f] # <<>> /\ cache' = cache
        /\ LookedUp(Head(buffered[f]), TRUE, FALSE)
    BY <1>4 DEF InIndexBuffer, f
  <2>2. buffered[f] \in Seq(Id)
    BY <1>1 DEF IInv, Shape, FlightShape
  <2>3. Head(buffered[f]) \in Id /\ 1 \in DOMAIN buffered[f] /\ Head(buffered[f]) = buffered[f][1]
    BY <2>1, <2>2
  <2>4. Head(buffered[f]) # TEMPORARY_ID => Holds(Head(buffered[f]), f)
    BY <1>1, <2>3 DEF IInv, IdsHold
  <2>5. Outcome(Head(buffered[f]), TRUE, FALSE)
    BY <1>2, <2>1, <2>3, <2>4 DEF Outcome, f
  <2> QED BY <2>3, <2>5
<1>5. CASE InCache
  <2>1. NotBuffered /\ CachedAt(f) # {} /\ cache' = Promote(Hit(f))
        /\ LookedUp(cache[Hit(f)], TRUE, FALSE)
    BY <1>5 DEF InCache, f
  <2>2. IndexShape
    BY DEF IInv, Shape
  <2>3. Hit(f) \in DOMAIN cache /\ f \in containers[cache[Hit(f)]]
    BY <2>1, <2>2, HitFound
  <2>4. /\ cache[Hit(f)] \in DOMAIN containers /\ cache[Hit(f)] \in Id
        /\ cache[Hit(f)] # TEMPORARY_ID
    BY <1>2, <2>3 DEF Id, TEMPORARY_ID
  <2>5. Holds(cache[Hit(f)], f)
    BY <2>3, <2>4 DEF Holds
  <2>6. /\ cache' \in Seq(Nat) /\ Len(cache') = Len(cache)
        /\ \A j \in DOMAIN cache' : \E k \in DOMAIN cache : cache'[j] = cache[k]
    BY <2>1, <2>2, <2>3, Promoted, Zenon
  <2>7. /\ cache' \in Seq(Nat) /\ Len(cache') <= CacheSize
        /\ \A i \in DOMAIN cache' : cache'[i] \in DOMAIN containers
    BY <1>2, <2>6
  <2>8. Outcome(cache[Hit(f)], TRUE, FALSE)
    BY <2>1, <2>4, <2>5, <2>7 DEF Outcome, NotBuffered, f
  <2> QED BY <2>4, <2>8
<1>6. CASE InIndex
  <2> DEFINE id == Indexed(f)
  <2>1. /\ NotBuffered /\ CachedAt(f) = {} /\ id # TEMPORARY_ID /\ cache' = Insert(id)
        /\ IF f \in containers[id] THEN LookedUp(id, TRUE, FALSE)
                                   ELSE LookedUp(TEMPORARY_ID, FALSE, FALSE)
    BY <1>6 DEF InIndex, f
  <2>2. config.key[f] \in Keys /\ (config.exact => config.key[f] = f)
    BY <1>1, KeyFacts DEF IInv, Shape
  <2>3. IndexShape /\ id \in Nat /\ id \in Id
    BY <2>1, <2>2 DEF IInv, Shape, IndexShape, Id, Indexed
  <2>4. /\ id \in DOMAIN containers
        /\ config.key[f] = ZeroKey \/ \E g \in containers[id] : config.key[g] = config.key[f]
    BY <2>1, <2>2 DEF IInv, IndexKnows, IndexSound, Indexed
  <2> HIDE DEF id
  <2>5. /\ cache' \in Seq(Nat) /\ Len(cache') <= CacheSize
        /\ \A j \in DOMAIN cache' : cache'[j] = id \/ \E k \in DOMAIN cache : cache'[j] = cache[k]
    BY <2>1, <2>3, Inserted, Zenon
  <2>6. \A i \in DOMAIN cache' : cache'[i] \in DOMAIN containers
    BY <1>2, <2>4, <2>5
  <2>7. CASE f \in containers[id]
    <3>1. Holds(id, f)
      BY <2>4, <2>7 DEF Holds
    <3>2. Outcome(id, TRUE, FALSE)
      BY <2>1, <2>3, <2>4, <2>5, <2>6, <2>7, <3>1 DEF Outcome, NotBuffered, f
    <3> QED BY <2>3, <3>2
  <2>8. CASE f \notin containers[id]
    <3>1. ASSUME config.exact PROVE FALSE
      <4>1. f # ZeroKey /\ config.key[f] = f
        BY <1>1, <2>2, <3>1, PipelineAssumption
      <4>2. PICK g \in containers[id] : config.key[g] = f
        BY <2>4, <4>1
      <4>3. g \in FP
        BY <2>4, <4>2 DEF IInv, Shape, StoreShape
      <4> QED BY <2>8, <3>1, <4>2, <4>3, KeyFacts DEF IInv, Shape
    <3>2. Outcome(TEMPORARY_ID, FALSE, FALSE)
      BY <2>1, <2>5, <2>6, <2>8, <3>1 DEF Outcome, NotBuffered, Id, f
    <3> QED BY <3>2 DEF Id
  <2> QED BY <2>7, <2>8
<1>7. CASE Unknown
  <2>1. /\ NotBuffered /\ Indexed(f) = TEMPORARY_ID /\ cache' = cache
        /\ LookedUp(TEMPORARY_ID, FALSE, FALSE)
    BY <1>7 DEF Unknown, f
  <2>2. config.exact => \A c \in DOMAIN containers : f \notin containers[c]
    BY <2>1 DEF IInv, IndexKnows
  <2>3. Outcome(TEMPORARY_ID, FALSE, FALSE)
    BY <1>2, <2>1, <2>2 DEF Outcome, NotBuffered, Id, f
  <2> QED BY <2>3 DEF Id
<1> QED BY <1>3, <1>4, <1>5, <1>6, <1>7 DEF LookupChunk

-----------------------------------------------------------------------------
(* The chunks in flight, by place.                                         *)

\* Every row is a sequence of chunks.
LEMMA RowType ==
  ASSUME IInv, NEW k \in 0..(Len(flight) + 1)
  PROVE  Row(k) \in Seq(Chunk)
BY DEF Row, IInv, Shape, DedupShape, FilterShape, FlightShape

\* What a place of f is.
LEMMA PlaceOf ==
  ASSUME NEW f, NEW p
  PROVE  p \in Places(f) <=> \E k \in 0..(Len(flight) + 1) : \E i \in DOMAIN Row(k) :
                               p = <<k, i>> /\ Row(k)[i].fp = f
BY DEF Places, Occurs

\* A chunk in flight is known to the index buffer.
LEMMA InFlightBuffered ==
  ASSUME IInv, NEW k \in 0..(Len(flight) + 1), NEW i \in DOMAIN Row(k)
  PROVE  /\ Row(k)[i].fp \in FP /\ Row(k)[i] \in Chunk
         /\ buffered[Row(k)[i].fp] \in Seq(Id) /\ buffered[Row(k)[i].fp] # <<>>
         /\ Head(buffered[Row(k)[i].fp]) \in Id
<1> DEFINE f == Row(k)[i].fp
<1>1. Row(k)[i] \in Chunk
  BY RowType
<1>2. f \in FP
  BY <1>1 DEF Chunk
<1>3. <<k, i>> \in Places(f)
  BY PlaceOf
<1>4. buffered[f] \in Seq(Id)
  BY <1>2 DEF IInv, Shape, FlightShape
<1> HIDE DEF f
<1>5. Cardinality(Places(f)) # 0
  BY <1>2, <1>3, FS_EmptySet DEF IInv, Counted
<1>6. buffered[f] # <<>>
  BY <1>2, <1>4, <1>5 DEF IInv, Counted
<1> QED BY <1>1, <1>2, <1>4, <1>6 DEF f

\* And what the index buffer does not know is not in flight.
LEMMA NotBufferedNotInFlight ==
  ASSUME IInv, NEW f \in FP, buffered[f] = <<>>
  PROVE  \A k \in 0..(Len(flight) + 1) : \A i \in DOMAIN Row(k) : Row(k)[i].fp # f
BY InFlightBuffered

\* How many containers hold a chunk is a number.
LEMMA CopiesType ==
  ASSUME StoreShape, NEW f
  PROVE  /\ IsFiniteSet({id \in DOMAIN containers : f \in containers[id]})
         /\ Cardinality({id \in DOMAIN containers : f \in containers[id]}) \in Nat
         /\ Copies(f) \in Nat
<1> DEFINE n == IF buf = NoContainer THEN count - 1 ELSE count - 2
           S == {id \in DOMAIN containers : f \in containers[id]}
<1>1. n \in Int /\ DOMAIN containers = 0..n
  BY DEF StoreShape
<1> HIDE DEF n
<1>2. IsFiniteSet(0..n)
  BY <1>1, FS_Interval
<1>3. S \in SUBSET (0..n)
  BY <1>1
<1>4. IsFiniteSet(S)
  BY <1>2, <1>3, FS_Subset
<1>5. Cardinality(S) \in Nat
  BY <1>4, FS_CardinalityType
<1> HIDE DEF S
<1>6. Cardinality(S) + (IF f \in buf.fps THEN 1 ELSE 0) \in Nat
  BY <1>5
<1> QED BY <1>4, <1>5, <1>6 DEF S, Copies

\* What a lookup changes of the sequences.
LEMMA LookupShape ==
  ASSUME IInv, dedup = "lookup",
         NEW id \in Id, NEW dup \in BOOLEAN, NEW denied \in BOOLEAN, LookedUp(id, dup, denied)
  PROVE  /\ Head(todo) \in FP /\ todo' = Tail(todo) /\ todo' \in Seq(FP)
         /\ seg' \in Seq(Chunk) /\ Len(seg') = Len(seg) + 1
         /\ \A i \in 1..Len(seg) : seg'[i] = seg[i]
         /\ seg'[Len(seg) + 1] = [fp |-> Head(todo), id |-> id, dup |-> dup, denied |-> denied,
                                  mark |-> "none", since |-> Copies(Head(todo))]
         /\ buffered' \in [FP -> Seq(Id)]
         /\ \A f \in FP : f # Head(todo) => buffered'[f] = buffered[f]
         /\ buffered'[Head(todo)] = Append(buffered[Head(todo)], id)
         /\ DedupShape' /\ LockShape'
<1> DEFINE f == Head(todo)
           c == [fp |-> f, id |-> id, dup |-> dup, denied |-> denied,
                 mark |-> "none", since |-> Copies(f)]
<1>1. todo \in Seq(FP) /\ todo # <<>> /\ f \in FP /\ Tail(todo) \in Seq(FP)
  BY DEF IInv, Shape, DedupShape
<1>2. Copies(f) \in Nat
  BY CopiesType DEF IInv, Shape
<1>3. c \in Chunk
  BY <1>1, <1>2 DEF Chunk, Id
<1>4. seg \in Seq(Chunk) /\ seg' = Append(seg, c) /\ todo' = Tail(todo)
  BY DEF LookedUp, IInv, Shape, DedupShape
<1> HIDE DEF c
<1>5. seg' \in Seq(Chunk) /\ Len(seg') = Len(seg) + 1
      /\ (\A i \in 1..Len(seg) : seg'[i] = seg[i]) /\ seg'[Len(seg) + 1] = c
  BY <1>3, <1>4
<1> HIDE DEF f
<1>6. buffered \in [FP -> Seq(Id)] /\ buffered' = [buffered EXCEPT ![f] = Append(@, id)]
  BY DEF LookedUp, IInv, Shape, FlightShape, f
<1>7. /\ buffered' \in [FP -> Seq(Id)]
      /\ \A g \in FP : g # f => buffered'[g] = buffered[g]
      /\ buffered'[f] = Append(buffered[f], id)
  <2>1. Append(buffered[f], id) \in Seq(Id)
    BY <1>1, <1>6
  <2> QED BY <1>1, <1>6, <2>1
<1>8. DedupShape' /\ LockShape'
  <2>1. /\ IF Len(todo) = 1 THEN dedup' = "send" /\ lock' = "none"
                            ELSE UNCHANGED <<dedup, lock>>
        /\ stream' = stream /\ filter' = filter
    BY DEF LookedUp, filterVars
  <2>2. lock = "dedup" /\ filter # "chunks"
    BY DEF IInv, Shape, LockShape
  <2>3. Len(todo) = 1 <=> Tail(todo) = <<>>
    <3>1. Len(Tail(todo)) = Len(todo) - 1
      BY <1>1
    <3>2. Tail(todo) = <<>> <=> Len(Tail(todo)) = 0
      BY <1>1, EmptySeq
    <3> QED BY <1>1, <3>1, <3>2
  <2>4. LockShape'
    BY <2>1, <2>2 DEF LockShape, IInv, Shape
  <2>5. DedupShape'
    BY <1>1, <1>4, <1>5, <2>1, <2>3 DEF DedupShape, IInv, Shape
  <2> QED BY <2>4, <2>5
<1> QED BY <1>1, <1>4, <1>5, <1>7, <1>8 DEF f, c

-----------------------------------------------------------------------------
(* The filter phase: what becomes of a chunk.                              *)

\* Two chunks that are copies of each other as far as the pipeline can tell them.
SameChunk(c, d) == c.fp = d.fp /\ c.dup = d.dup /\ c.since = d.since

\* index_check_buffer changes the id only, to the one it finds at the head of the
\* queue, and leaves a duplicate without an id only if there is none there.
LEMMA CheckBufferFacts ==
  ASSUME NEW c \in Chunk, buffered[c.fp] \in Seq(Id), buffered[c.fp] # <<>>
  PROVE  /\ CheckBuffer(c) \in Chunk /\ SameChunk(CheckBuffer(c), c)
         /\ CheckBuffer(c).mark = c.mark
         /\ CheckBuffer(c).id = c.id \/ CheckBuffer(c).id = Head(buffered[c.fp])
         /\ c.dup /\ CheckBuffer(c).id = TEMPORARY_ID => Head(buffered[c.fp]) = TEMPORARY_ID
<1> DEFINE recent == Head(buffered[c.fp])
           deny == c.denied \/ c.id # TEMPORARY_ID
           d == [c EXCEPT !.id = recent, !.denied = deny]
<1>1. recent \in Id
  OBVIOUS
<1>2. deny \in BOOLEAN
  BY DEF Chunk
<1>3. CheckBuffer(c) = IF ((c.dup /\ c.id = TEMPORARY_ID) \/ c.mark # "none") /\ recent > c.id
                       THEN d ELSE c
  BY DEF CheckBuffer
<1> HIDE DEF recent, deny
<1>4. d \in Chunk /\ d.fp = c.fp /\ d.dup = c.dup /\ d.since = c.since /\ d.mark = c.mark /\ d.id = recent
  BY <1>1, <1>2 DEF Chunk, Id
<1> HIDE DEF d
<1>5. CASE ((c.dup /\ c.id = TEMPORARY_ID) \/ c.mark # "none") /\ recent > c.id
  <2>1. recent # TEMPORARY_ID
    BY <1>1, <1>5 DEF Chunk, Id, TEMPORARY_ID
  <2>2. CheckBuffer(c) = d
    BY <1>3, <1>5
  <2> QED BY <1>4, <2>1, <2>2 DEF SameChunk, recent
<1>6. CASE ~(((c.dup /\ c.id = TEMPORARY_ID) \/ c.mark # "none") /\ recent > c.id)
  <2>1. CheckBuffer(c) = c
    BY <1>3, <1>6
  <2>2. c.dup /\ c.id = TEMPORARY_ID => recent = TEMPORARY_ID
    BY <1>1, <1>6 DEF Chunk, Id, TEMPORARY_ID
  <2> QED BY <2>1, <2>2 DEF SameChunk, recent
<1> QED BY <1>5, <1>6

\* The filter phase takes the oldest segment in flight, whose chunks stay what they are.
LEMMA TakeFacts ==
  ASSUME IInv, FilterTake
  PROVE  /\ flight # <<>> /\ filter = "reassemble" /\ cur = <<>> /\ lock = "none"
         /\ flight' = Tail(flight) /\ flight' \in Seq(Seq(Chunk))
         /\ cur' \in Seq(Chunk) /\ DOMAIN cur' = DOMAIN Row(1)
         /\ \A i \in DOMAIN cur' :
              /\ SameChunk(cur'[i], Row(1)[i])
              /\ cur'[i].id = Row(1)[i].id \/ cur'[i].id = Head(buffered[cur'[i].fp])
              /\ cur'[i].dup /\ cur'[i].id = TEMPORARY_ID => Head(buffered[cur'[i].fp]) = TEMPORARY_ID
              /\ cur'[i].mark \in Markable(Row(1)[i])
<1>1. flight # <<>> /\ filter = "reassemble" /\ lock = "none" /\ flight' = Tail(flight)
  BY DEF FilterTake
<1>2. cur = <<>>
  BY <1>1 DEF IInv, Shape, FilterShape
<1>3. /\ flight \in Seq(Seq(Chunk)) /\ 1 \in DOMAIN flight /\ Row(1) = Head(flight)
      /\ Tail(flight) \in Seq(Seq(Chunk)) /\ 1 \in 0..(Len(flight) + 1)
  BY <1>1 DEF IInv, Shape, FlightShape, Row
<1>4. Row(1) \in Seq(Chunk)
  BY <1>3, RowType
<1>5. PICK marks \in [DOMAIN Row(1) -> {"none", "out_of_order", "sparse"}] :
        /\ \A i \in DOMAIN marks : marks[i] \in Markable(Row(1)[i])
        /\ cur' = [i \in DOMAIN marks |-> CheckBuffer([Row(1)[i] EXCEPT !.mark = marks[i]])]
  BY <1>3 DEF FilterTake
<1>6. ASSUME NEW i \in DOMAIN Row(1)
      PROVE  /\ cur'[i] \in Chunk /\ SameChunk(cur'[i], Row(1)[i])
             /\ cur'[i].id = Row(1)[i].id \/ cur'[i].id = Head(buffered[cur'[i].fp])
             /\ cur'[i].dup /\ cur'[i].id = TEMPORARY_ID => Head(buffered[cur'[i].fp]) = TEMPORARY_ID
             /\ cur'[i].mark \in Markable(Row(1)[i])
  <2> DEFINE r == Row(1)[i]
             m == marks[i]
             c == [r EXCEPT !.mark = m]
  <2>1. /\ r \in Chunk /\ buffered[r.fp] \in Seq(Id) /\ buffered[r.fp] # <<>>
    BY <1>3, InFlightBuffered
  <2>2. m \in {"none", "out_of_order", "sparse"} /\ m \in Markable(r)
    BY <1>5
  <2>3. cur'[i] = CheckBuffer(c)
    BY <1>5
  <2> HIDE DEF r, m
  <2>4. c \in Chunk /\ c.fp = r.fp /\ c.dup = r.dup /\ c.since = r.since /\ c.id = r.id /\ c.mark = m
    BY <2>1, <2>2 DEF Chunk
  <2> HIDE DEF c
  <2>5. /\ CheckBuffer(c) \in Chunk /\ SameChunk(CheckBuffer(c), c)
        /\ CheckBuffer(c).mark = c.mark
        /\ CheckBuffer(c).id = c.id \/ CheckBuffer(c).id = Head(buffered[c.fp])
        /\ c.dup /\ CheckBuffer(c).id = TEMPORARY_ID => Head(buffered[c.fp]) = TEMPORARY_ID
    BY <2>1, <2>4, CheckBufferFacts
  <2> QED BY <2>2, <2>3, <2>4, <2>5 DEF SameChunk, r
<1>7. cur' \in Seq(Chunk) /\ DOMAIN cur' = DOMAIN Row(1)
  <2>1. DOMAIN cur' = DOMAIN Row(1)
    BY <1>5
  <2>2. cur' = [i \in DOMAIN Row(1) |-> cur'[i]]
    BY <1>5
  <2>3. DOMAIN Row(1) = 1..Len(Row(1)) /\ Len(Row(1)) \in Nat
    BY <1>4
  <2>4. cur' \in [1..Len(Row(1)) -> Chunk]
    BY <1>6, <2>2, <2>3
  <2> QED BY <2>1, <2>3, <2>4, SeqDef
<1> QED BY <1>1, <1>2, <1>3, <1>6, <1>7

\* A chunk that leaves the filter phase has an id; a duplicate gets one that is known.
Settled(c) ==
  /\ c \in Chunk /\ SameChunk(c, cur[pos])
  /\ c.dup => c.id \in Nat /\ Holds(c.id, c.fp)
  /\ c.dup /\ c.fp \in DOMAIN rewritten => c.denied

\* The segment itself resolves what the index buffer did not.
LEMMA ResolveFacts ==
  ASSUME IInv, filter = "chunks", pos <= Len(cur)
  PROVE  Settled(Resolve(cur[pos])) /\ Resolve(cur[pos]).mark = cur[pos].mark
<1> DEFINE c == cur[pos]
           d == IF c.dup /\ c.id = TEMPORARY_ID THEN [c EXCEPT !.id = unique[c.fp]] ELSE c
           e == [d EXCEPT !.id = rewritten[c.fp], !.denied = TRUE]
<1>1. cur \in Seq(Chunk) /\ pos \in DOMAIN cur /\ pos \in pos..Len(cur) /\ c \in Chunk
  BY DEF IInv, Shape, FilterShape
<1>2. Resolve(c) = IF c.fp \in DOMAIN rewritten THEN e ELSE d
  BY DEF Resolve
<1>3. c.id # TEMPORARY_ID => c.id \in Nat /\ Holds(c.id, c.fp)
  <2>1. 0 \in 0..(Len(flight) + 1) /\ Row(0) = cur
    BY DEF Row, IInv, Shape, FlightShape
  <2>2. c.id # TEMPORARY_ID => Holds(c.id, c.fp)
    BY <1>1, <2>1 DEF IInv, IdsHold
  <2> QED BY <1>1, <2>2 DEF Chunk
<1>4. c.dup /\ c.id = TEMPORARY_ID => unique[c.fp] \in Nat /\ Holds(unique[c.fp], c.fp)
  <2> SUFFICES ASSUME c.dup, c.id = TEMPORARY_ID
               PROVE  unique[c.fp] \in Nat /\ Holds(unique[c.fp], c.fp)
    OBVIOUS
  <2>1. PICK j \in 1..(pos - 1) : cur[j].fp = c.fp /\ ~cur[j].dup
    BY <1>1 DEF IInv, Resolved
  <2>2. c.fp \in DOMAIN unique
    BY <2>1 DEF IInv, Resolved
  <2> QED BY <2>2 DEF IInv, Remembered
<1>5. c.fp \in DOMAIN rewritten => rewritten[c.fp] \in Nat /\ Holds(rewritten[c.fp], c.fp)
  BY DEF IInv, Remembered
<1>6. /\ c.fp \in FP /\ c.dup \in BOOLEAN /\ c.since \in Nat
  BY <1>1 DEF Chunk
<1> HIDE DEF c
<1>7. /\ d \in Chunk /\ SameChunk(d, c) /\ d.mark = c.mark
      /\ d.dup => d.id \in Nat /\ Holds(d.id, d.fp)
  <2>1. CASE c.dup /\ c.id = TEMPORARY_ID
    <3> DEFINE u == unique[c.fp]
    <3>1. u \in Nat /\ Holds(u, c.fp) /\ d = [c EXCEPT !.id = u]
      BY <1>4, <2>1
    <3> HIDE DEF u
    <3>2. d \in Chunk /\ d.id = u /\ d.fp = c.fp /\ d.dup = c.dup /\ d.since = c.since /\ d.mark = c.mark
      BY <1>1, <3>1 DEF Chunk
    <3> QED BY <3>1, <3>2 DEF SameChunk
  <2>2. CASE ~(c.dup /\ c.id = TEMPORARY_ID)
    <3>1. d = c
      BY <2>2
    <3> QED BY <1>1, <1>3, <2>2, <3>1 DEF SameChunk
  <2> QED BY <2>1, <2>2
<1> HIDE DEF d
<1>8. ASSUME c.fp \in DOMAIN rewritten
      PROVE  /\ e \in Chunk /\ SameChunk(e, c) /\ e.mark = c.mark
             /\ e.id \in Nat /\ Holds(e.id, e.fp) /\ e.denied
  <2> DEFINE u == rewritten[c.fp]
  <2>1. u \in Nat /\ Holds(u, c.fp) /\ e = [d EXCEPT !.id = u, !.denied = TRUE]
    BY <1>5, <1>8
  <2> HIDE DEF u, e
  <2>2. /\ e \in Chunk /\ e.id = u /\ e.fp = d.fp /\ e.dup = d.dup /\ e.since = d.since
        /\ e.mark = d.mark /\ e.denied
    BY <1>7, <2>1 DEF Chunk
  <2> QED BY <1>7, <2>1, <2>2 DEF SameChunk
<1>9. Resolve(c).fp = c.fp
  BY <1>2, <1>7, <1>8 DEF SameChunk
<1>10. CASE c.fp \in DOMAIN rewritten
  BY <1>2, <1>8, <1>10 DEF Settled, c
<1>11. CASE c.fp \notin DOMAIN rewritten
  BY <1>2, <1>7, <1>9, <1>11 DEF Settled, c
<1> QED BY <1>10, <1>11 DEF c

-----------------------------------------------------------------------------
(* The containers.                                                         *)

\* The copies of f in the containers handed over.
Stored(f) == {id \in DOMAIN containers : f \in containers[id]}

\* Handing the container at hand over keeps what is stored, and indexes it.
LEMMA HandOverFacts ==
  ASSUME IInv, buf # NoContainer, IndexUpdate(buf), HandOver(buf), config' = config, cache' = cache
  PROVE  /\ count > 0 /\ DOMAIN containers' = 0..(count - 1)
         /\ \A id \in DOMAIN containers' : containers'[id] \subseteq FP
         /\ \A id \in Nat, f \in FP : Holds(id, f) => id \in DOMAIN containers' /\ f \in containers'[id]
         /\ \A p : p.id \in DOMAIN containers /\ p.fp \in containers[p.id]
                     => p.id \in DOMAIN containers' /\ p.fp \in containers'[p.id]
         /\ \A f : Cardinality(Stored(f)') = Copies(f)
         /\ IndexShape' /\ IndexKnows'
<1>1. /\ count \in Nat /\ count > 0 /\ buf.id = count - 1 /\ DOMAIN containers = 0..(count - 2)
      /\ buf \in [id : Id, fps : SUBSET FP] /\ \A id \in DOMAIN containers : containers[id] \subseteq FP
  BY DEF IInv, Shape, StoreShape
<1>2. DOMAIN containers' = 0..(count - 1)
  BY <1>1 DEF HandOver
<1>3. /\ buf.id \notin DOMAIN containers /\ containers'[buf.id] = buf.fps
      /\ buf.id \in DOMAIN containers' /\ buf.id \in Nat
  BY <1>1 DEF HandOver
<1>4. \A id \in DOMAIN containers : id \in DOMAIN containers' /\ containers'[id] = containers[id]
  BY <1>1, <1>3 DEF HandOver
<1>5. \A id \in DOMAIN containers' : id \in DOMAIN containers \/ id = buf.id
  BY <1>1, <1>2
<1>6. \A id \in DOMAIN containers' : containers'[id] \subseteq FP
  BY <1>1, <1>3, <1>4, <1>5
<1>7. \A id \in Nat, f \in FP : Holds(id, f) => id \in DOMAIN containers' /\ f \in containers'[id]
  BY <1>3, <1>4 DEF Holds
<1>8. \A p : p.id \in DOMAIN containers /\ p.fp \in containers[p.id]
                => p.id \in DOMAIN containers' /\ p.fp \in containers'[p.id]
  BY <1>4
<1>9. ASSUME NEW f PROVE Cardinality(Stored(f)') = Copies(f)
  <2>1. IsFiniteSet(Stored(f)) /\ Cardinality(Stored(f)) \in Nat
    BY CopiesType DEF IInv, Shape, Stored
  <2>2. CASE f \in buf.fps
    <3>1. Stored(f)' = Stored(f) \cup {buf.id} /\ buf.id \notin Stored(f)
      BY <1>3, <1>4, <1>5, <2>2 DEF Stored
    <3>2. Cardinality(Stored(f)') = Cardinality(Stored(f)) + 1
      BY <2>1, <3>1, FS_AddElement
    <3> QED BY <2>2, <3>2 DEF Copies, Stored
  <2>3. CASE f \notin buf.fps
    <3>1. Stored(f)' = Stored(f)
      BY <1>3, <1>4, <1>5, <2>3 DEF Stored
    <3>2. Copies(f) = Cardinality(Stored(f)) + 0
      BY <2>3 DEF Copies, Stored
    <3> QED BY <2>1, <3>1, <3>2
  <2> QED BY <2>2, <2>3
<1>10. PICK features \in Features(buf) : kv' = [k \in Keys |-> IF k \in features THEN buf.id ELSE kv[k]]
  BY DEF IndexUpdate
<1>11. PICK sample \in SUBSET buf.fps : features = Sampled(sample) /\ (config.exact => sample = buf.fps)
  <2>1. CASE config.exact
    BY <1>10, <2>1 DEF Features
  <2>2. CASE ~config.exact
    BY <1>10, <2>2 DEF Features
  <2> QED BY <2>1, <2>2
<1>12. IndexShape'
  BY <1>3, <1>10 DEF IndexShape, IInv, Shape, Id
<1>13. ASSUME NEW k \in Keys, kv'[k] # TEMPORARY_ID
       PROVE  /\ kv'[k] \in DOMAIN containers'
              /\ k = ZeroKey \/ \E f \in containers'[kv'[k]] : config.key[f] = k
  <2>1. CASE k \in features
    <3>1. kv'[k] = buf.id
      BY <1>10, <2>1
    <3>2. k = ZeroKey \/ \E f \in buf.fps : config.key[f] = k
      BY <1>11, <2>1 DEF Sampled
    <3> QED BY <1>3, <3>1, <3>2
  <2>2. CASE k \notin features
    <3>1. kv'[k] = kv[k]
      BY <1>10, <2>2
    <3>2. kv[k] \in DOMAIN containers /\ (k = ZeroKey \/ \E f \in containers[kv[k]] : config.key[f] = k)
      BY <1>13, <3>1 DEF IInv, IndexKnows, IndexSound
    <3> QED BY <1>4, <3>1, <3>2
  <2> QED BY <2>1, <2>2
<1>14. ASSUME config.exact, NEW id \in DOMAIN containers', NEW f \in containers'[id]
       PROVE  kv'[config.key[f]] # TEMPORARY_ID
  <2>1. f \in FP /\ config.key[f] \in Keys
    BY <1>6, <1>14, KeyFacts DEF IInv, Shape
  <2>2. CASE config.key[f] \in features
    <3>1. kv'[config.key[f]] = buf.id
      BY <1>10, <2>1, <2>2
    <3> QED BY <1>3, <3>1 DEF TEMPORARY_ID
  <2>3. CASE config.key[f] \notin features
    <3>1. f \notin buf.fps
      BY <1>11, <1>14, <2>3 DEF Sampled
    <3>2. id \in DOMAIN containers /\ f \in containers[id]
      BY <1>3, <1>4, <1>5, <1>14, <3>1
    <3>3. kv'[config.key[f]] = kv[config.key[f]]
      BY <1>10, <2>1, <2>3
    <3> QED BY <1>14, <3>2, <3>3 DEF IInv, IndexKnows, Indexed
  <2> QED BY <2>2, <2>3
<1>15. IndexKnows'
  <2>1. IndexSound'
    BY <1>13 DEF IndexSound
  <2>2. \A i \in DOMAIN cache' : cache'[i] \in DOMAIN containers'
    BY <1>4 DEF IInv, IndexKnows
  <2> QED BY <1>14, <2>1, <2>2 DEF IndexKnows, Indexed
<1> QED BY <1>1, <1>2, <1>6, <1>7, <1>8, <1>9, <1>12, <1>15

\* Where a container holds f after the step.
HoldsNext(id, f) ==
  \/ id \in DOMAIN containers' /\ f \in containers'[id]
  \/ id = buf'.id /\ f \in buf'.fps

\* Chunk c has been put into container id.
PutInto(c, id) ==
  /\ id \in Nat /\ Added(c, id) /\ HoldsNext(id, c.fp)
  /\ buf' \in [id : Id, fps : SUBSET FP] /\ buf'.fps \subseteq buf.fps \cup {c.fp}
  /\ \A f \in FP : Copies(f)' = Copies(f) + (IF f = c.fp THEN 1 ELSE 0)

\* What no step of the filter phase takes away, and the shape it leaves the store in.
StoreKept ==
  /\ StoreShape' /\ IndexShape' /\ IndexKnows'
  /\ \A id \in Nat, f \in FP : Holds(id, f) => HoldsNext(id, f)
  /\ \A p : p.id \in DOMAIN containers /\ p.fp \in containers[p.id]
              => p.id \in DOMAIN containers' /\ p.fp \in containers'[p.id]

\* A step that leaves the store and the index alone keeps them.
LEMMA UnchangedKept ==
  ASSUME IInv, UNCHANGED storeVars, UNCHANGED <<kv, config>>, cache' = cache
  PROVE  StoreKept /\ \A f \in FP : Copies(f)' = Copies(f)
<1>1. buf' = buf /\ count' = count /\ containers' = containers /\ kv' = kv /\ config' = config
  BY DEF storeVars
<1>2. StoreShape' /\ IndexShape'
  BY <1>1 DEF StoreShape, IndexShape, IInv, Shape
<1>3. IndexKnows'
  BY <1>1 DEF IndexKnows, IndexSound, Indexed, IInv
<1>4. \A id \in Nat, f \in FP : Holds(id, f) => HoldsNext(id, f)
  BY <1>1 DEF Holds, HoldsNext
<1>5. \A f \in FP : Copies(f)' = Copies(f)
  BY <1>1 DEF Copies
<1> QED BY <1>1, <1>2, <1>3, <1>4, <1>5 DEF StoreKept

\* Adding a chunk to the container at hand.
LEMMA WriteIntoBufferFacts ==
  ASSUME IInv, WriteIntoBuffer
  PROVE  LET c == Resolve(cur[pos]) IN
         /\ filter = "chunks" /\ pos <= Len(cur) /\ Written(c) /\ StoreKept
         /\ \/ /\ c.fp \in buf.fps /\ Step([c EXCEPT !.id = buf.id]) /\ UNCHANGED <<unique, rewritten>>
               /\ buf.id \in Nat /\ buf' = buf /\ HoldsNext(buf.id, c.fp)
               /\ \A f \in FP : Copies(f)' = Copies(f)
            \/ PutInto(c, buf.id)
<1> DEFINE c == Resolve(cur[pos])
<1>1. /\ filter = "chunks" /\ pos <= Len(cur) /\ Written(c) /\ buf # NoContainer
      /\ IF c.fp \in buf.fps
         THEN Step([c EXCEPT !.id = buf.id]) /\ UNCHANGED <<unique, rewritten, buf>>
         ELSE Added(c, buf.id) /\ buf' = [buf EXCEPT !.fps = @ \cup {c.fp}]
      /\ count' = count /\ containers' = containers /\ kv' = kv
  BY DEF WriteIntoBuffer
<1>2. c.fp \in FP
  <2>1. c \in Chunk
    BY <1>1, ResolveFacts DEF Settled
  <2> QED BY <2>1 DEF Chunk
<1>3. /\ buf.id \in Nat /\ buf \in [id : Id, fps : SUBSET FP] /\ buf.id = count - 1
      /\ count \in Nat /\ count > 0 /\ DOMAIN containers = 0..(count - 2)
      /\ \A id \in DOMAIN containers : containers[id] \subseteq FP
  BY <1>1 DEF IInv, Shape, StoreShape
<1>4. cache' = cache /\ config' = config
  BY <1>1 DEF Step, Added, recipeVars
<1> HIDE DEF c
<1>5. CASE c.fp \in buf.fps
  <2>1. buf' = buf /\ UNCHANGED storeVars
    BY <1>1, <1>5 DEF storeVars
  <2>2. StoreKept /\ \A f \in FP : Copies(f)' = Copies(f)
    BY <1>1, <1>4, <2>1, UnchangedKept
  <2>3. HoldsNext(buf.id, c.fp)
    BY <1>5, <2>1 DEF Holds, HoldsNext
  <2> QED BY <1>1, <1>3, <1>5, <2>1, <2>2, <2>3 DEF c
<1>6. CASE c.fp \notin buf.fps
  <2>1. Added(c, buf.id) /\ buf' = [buf EXCEPT !.fps = @ \cup {c.fp}]
    BY <1>1, <1>6
  <2>2. /\ buf' \in [id : Id, fps : SUBSET FP] /\ buf'.id = buf.id
        /\ buf'.fps = buf.fps \cup {c.fp}
    BY <1>2, <1>3, <2>1
  <2>3. buf' # NoContainer
    BY <1>3, <2>2 DEF NoContainer, TEMPORARY_ID
  <2>4. StoreShape'
    BY <1>1, <1>3, <2>2, <2>3 DEF StoreShape, NoContainer
  <2>5. IndexShape' /\ IndexKnows'
    BY <1>1, <1>4 DEF IndexShape, IndexKnows, IndexSound, Indexed, IInv, Shape
  <2>6. \A id \in Nat, f \in FP : Holds(id, f) => HoldsNext(id, f)
    BY <1>1, <2>2 DEF Holds, HoldsNext
  <2>7. HoldsNext(buf.id, c.fp)
    BY <1>1, <2>2 DEF Holds, HoldsNext
  <2>8. ASSUME NEW f \in FP
        PROVE  Copies(f)' = Copies(f) + (IF f = c.fp THEN 1 ELSE 0)
    <3>1. Cardinality(Stored(f)) \in Nat /\ Stored(f)' = Stored(f)
      BY <1>1, CopiesType DEF IInv, Shape, Stored
    <3>2. Copies(f) = Cardinality(Stored(f)) + (IF f \in buf.fps THEN 1 ELSE 0)
      BY DEF Copies, Stored
    <3>3. Copies(f)' = Cardinality(Stored(f)') + (IF f \in buf'.fps THEN 1 ELSE 0)
      BY DEF Copies, Stored
    <3> QED BY <1>6, <2>2, <3>1, <3>2, <3>3
  <2>9. PutInto(c, buf.id)
    BY <1>3, <2>1, <2>2, <2>7, <2>8 DEF PutInto
  <2> QED BY <1>1, <2>4, <2>5, <2>6, <2>9 DEF StoreKept, c
<1> QED BY <1>5, <1>6

\* Opening a new container for it, and handing the full one over.
LEMMA WriteIntoNewFacts ==
  ASSUME IInv, WriteIntoNew
  PROVE  LET c == Resolve(cur[pos]) IN
         /\ filter = "chunks" /\ pos <= Len(cur) /\ Written(c) /\ StoreKept
         /\ PutInto(c, count)
<1> DEFINE c == Resolve(cur[pos])
<1>1. /\ filter = "chunks" /\ pos <= Len(cur) /\ Written(c)
      /\ \/ buf = NoContainer /\ UNCHANGED <<containers, kv>>
         \/ buf # NoContainer /\ IndexUpdate(buf) /\ HandOver(buf)
      /\ buf' = [id |-> count, fps |-> {c.fp}] /\ count' = count + 1 /\ Added(c, count)
  BY DEF WriteIntoNew
<1>2. c.fp \in FP
  <2>1. c \in Chunk
    BY <1>1, ResolveFacts DEF Settled
  <2> QED BY <2>1 DEF Chunk
<1>3. cache' = cache /\ config' = config
  BY <1>1 DEF Step, Added, recipeVars
<1> HIDE DEF c
<1>4. /\ count \in Nat /\ count' \in Nat /\ count' > 0 /\ count' - 1 = count /\ count' - 2 = count - 1
      /\ buf'.id = count /\ buf'.fps = {c.fp} /\ buf' \in [id : Id, fps : SUBSET FP]
      /\ buf' # NoContainer
  BY <1>1, <1>2 DEF IInv, Shape, StoreShape, Id, NoContainer, TEMPORARY_ID
<1>5. /\ DOMAIN containers' = 0..(count - 1)
      /\ \A id \in DOMAIN containers' : containers'[id] \subseteq FP
      /\ \A id \in Nat, f \in FP : Holds(id, f) => id \in DOMAIN containers' /\ f \in containers'[id]
      /\ \A p : p.id \in DOMAIN containers /\ p.fp \in containers[p.id]
                  => p.id \in DOMAIN containers' /\ p.fp \in containers'[p.id]
      /\ \A f : Cardinality(Stored(f)') = Copies(f)
      /\ IndexShape' /\ IndexKnows'
  <2>1. CASE buf = NoContainer /\ UNCHANGED <<containers, kv>>
    <3>1. DOMAIN containers = 0..(count - 1) /\ \A id \in DOMAIN containers : containers[id] \subseteq FP
      BY <2>1 DEF IInv, Shape, StoreShape
    <3>2. buf.fps = {} /\ containers' = containers /\ kv' = kv
      BY <2>1 DEF NoContainer
    <3>3. \A id \in Nat, f \in FP : Holds(id, f) => id \in DOMAIN containers /\ f \in containers[id]
      BY <3>2 DEF Holds, HoldsNext
    <3>4. ASSUME NEW f PROVE Cardinality(Stored(f)') = Copies(f)
      <4>1. Cardinality(Stored(f)) \in Nat /\ Stored(f)' = Stored(f)
        BY <3>2, CopiesType DEF IInv, Shape, Stored
      <4>2. Copies(f) = Cardinality(Stored(f)) + 0
        BY <3>2 DEF Copies, Stored
      <4> QED BY <4>1, <4>2
    <3>5. IndexShape' /\ IndexKnows'
      BY <1>3, <3>2 DEF IndexShape, IndexKnows, IndexSound, Indexed, IInv, Shape
    <3> QED BY <3>1, <3>2, <3>3, <3>4, <3>5
  <2>2. CASE buf # NoContainer /\ IndexUpdate(buf) /\ HandOver(buf)
    BY <1>3, <2>2, HandOverFacts
  <2> QED BY <1>1, <2>1, <2>2
<1>6. StoreShape'
  BY <1>4, <1>5 DEF StoreShape
<1>7. \A id \in Nat, f \in FP : Holds(id, f) => HoldsNext(id, f)
  BY <1>5 DEF Holds, HoldsNext
<1>8. HoldsNext(count, c.fp)
  BY <1>4 DEF Holds, HoldsNext
<1>9. ASSUME NEW f \in FP
      PROVE  Copies(f)' = Copies(f) + (IF f = c.fp THEN 1 ELSE 0)
  <2>1. Copies(f)' = Cardinality(Stored(f)') + (IF f \in buf'.fps THEN 1 ELSE 0)
    BY DEF Copies, Stored
  <2> QED BY <1>4, <1>5, <2>1
<1>10. PutInto(c, count)
  <2>1. buf'.fps \subseteq buf.fps \cup {c.fp}
    BY <1>4
  <2> QED BY <1>1, <1>4, <1>8, <1>9, <2>1 DEF PutInto
<1> QED BY <1>1, <1>5, <1>6, <1>7, <1>10 DEF StoreKept, c

\* What a step of the filter phase makes of the chunk at hand.
ChunkDone(c) ==
  /\ c \in Chunk /\ SameChunk(c, cur[pos]) /\ c.mark = cur[pos].mark /\ c.id \in Nat /\ Step(c)
  /\ HoldsNext(c.id, c.fp) /\ StoreKept
  /\ buf'.fps \subseteq buf.fps \cup {c.fp}
  /\ \/ /\ c.dup /\ UNCHANGED <<unique, rewritten>>
        /\ buf'.fps \subseteq buf.fps /\ \A f \in FP : Copies(f)' = Copies(f)
     \/ /\ c.fp \notin DOMAIN rewritten /\ (c.dup => c.mark # "none")
        /\ IF c.dup THEN rewritten' = Remember(rewritten, c.fp, c.id) /\ UNCHANGED unique
                    ELSE unique' = Remember(unique, c.fp, c.id) /\ UNCHANGED rewritten
        /\ \A f \in FP : Copies(f)' = Copies(f) + (IF f = c.fp THEN 1 ELSE 0)

\* A unique chunk at hand is nowhere yet: not before it in the segment and not
\* in the container at hand.
LEMMA UniqueAtHand ==
  ASSUME IInv, filter = "chunks", pos <= Len(cur), ~cur[pos].dup
  PROVE  /\ cur[pos].fp \notin buf.fps /\ cur[pos].since = Copies(cur[pos].fp)
         /\ cur[pos].fp \notin DOMAIN rewritten
<1>1. 0 \in 0..(Len(flight) + 1) /\ Row(0) = cur
  BY DEF Row, IInv, Shape, FlightShape
<1>2. pos \in DOMAIN cur /\ pos \in Nat /\ cur \in Seq(Chunk)
  BY DEF IInv, Shape, FilterShape
<1>3. Waits(0, pos)
  BY <1>1, <1>2 DEF Waits, Place
<1>4. cur[pos].fp \notin buf.fps /\ cur[pos].since = Copies(cur[pos].fp)
  BY <1>1, <1>2, <1>3 DEF IInv, UniqueFresh
<1>5. ASSUME cur[pos].fp \in DOMAIN rewritten PROVE FALSE
  <2>1. PICK j \in 1..(pos - 1) : cur[j].fp = cur[pos].fp
    BY <1>5 DEF IInv, Remembered
  <2>2. j \in DOMAIN cur /\ j < pos
    BY <1>2
  <2>3. 0 < 0 \/ (0 = 0 /\ pos <= j)
    BY <1>1, <1>2, <2>1, <2>2 DEF IInv, UniqueFirst
  <2> QED BY <1>2, <2>2, <2>3
<1> QED BY <1>4, <1>5

\* Each way of filtering a chunk comes to that.
LEMMA FilterChunkFacts ==
  ASSUME IInv, FilterChunk
  PROVE  filter = "chunks" /\ pos <= Len(cur) /\ \E c \in Chunk : ChunkDone(c)
<1> DEFINE r == Resolve(cur[pos])
<1>1. filter = "chunks" /\ pos <= Len(cur)
  BY DEF FilterChunk, KeepChunk, WriteIntoBuffer, WriteIntoNew
<1>2. Settled(r) /\ r.mark = cur[pos].mark
  BY <1>1, ResolveFacts
<1>3. r \in Chunk /\ SameChunk(r, cur[pos]) /\ (r.dup => r.id \in Nat /\ Holds(r.id, r.fp))
      /\ (r.dup /\ r.fp \in DOMAIN rewritten => r.denied) /\ r.fp \in FP
      /\ r.mark = cur[pos].mark
  BY <1>2 DEF Settled, Chunk
<1>4. ~r.dup => r.fp \notin buf.fps /\ r.fp \notin DOMAIN rewritten
  BY <1>1, <1>3, UniqueAtHand DEF SameChunk
<1>6. Written(r) => r.fp \notin DOMAIN rewritten /\ (r.dup => r.mark # "none")
  BY <1>3, <1>4 DEF Written
<1>7. CASE KeepChunk
  <2>1. r.dup /\ Step(r) /\ UNCHANGED <<unique, rewritten, storeVars, kv>>
    BY <1>7 DEF KeepChunk, Kept
  <2>2. cache' = cache /\ config' = config /\ buf' = buf /\ containers' = containers
    BY <2>1 DEF Step, recipeVars, storeVars
  <2>3. StoreKept /\ \A f \in FP : Copies(f)' = Copies(f)
    BY <2>1, <2>2, UnchangedKept
  <2>4. HoldsNext(r.id, r.fp)
    BY <1>3, <2>1, <2>2 DEF Holds, HoldsNext
  <2>5. ChunkDone(r)
    BY <1>3, <2>1, <2>2, <2>3, <2>4 DEF ChunkDone
  <2> QED BY <1>1, <1>3, <2>5
<1>8. ASSUME NEW id \in Nat, PutInto(r, id), StoreKept, Written(r)
      PROVE  \E c \in Chunk : ChunkDone(c)
  <2> DEFINE c == [r EXCEPT !.id = id]
  <2>1. /\ Added(r, id) /\ HoldsNext(id, r.fp) /\ buf'.fps \subseteq buf.fps \cup {r.fp}
        /\ \A f \in FP : Copies(f)' = Copies(f) + (IF f = r.fp THEN 1 ELSE 0)
    BY <1>8 DEF PutInto
  <2>2. /\ Step(c)
        /\ IF r.dup THEN rewritten' = Remember(rewritten, r.fp, id) /\ UNCHANGED unique
                    ELSE unique' = Remember(unique, r.fp, id) /\ UNCHANGED rewritten
    BY <2>1 DEF Added
  <2> HIDE DEF r
  <2>3. /\ c \in Chunk /\ c.fp = r.fp /\ c.dup = r.dup /\ c.since = r.since /\ c.id = id
        /\ c.mark = r.mark
    BY <1>3 DEF Chunk
  <2> HIDE DEF c
  <2>4. ChunkDone(c)
    BY <1>3, <1>6, <1>8, <2>1, <2>2, <2>3 DEF ChunkDone, SameChunk
  <2> QED BY <2>3, <2>4
<1>9. CASE WriteIntoBuffer
  <2>1. /\ Written(r) /\ StoreKept
        /\ \/ /\ r.fp \in buf.fps /\ Step([r EXCEPT !.id = buf.id]) /\ UNCHANGED <<unique, rewritten>>
              /\ buf.id \in Nat /\ buf' = buf /\ HoldsNext(buf.id, r.fp)
              /\ \A f \in FP : Copies(f)' = Copies(f)
           \/ PutInto(r, buf.id)
    BY <1>9, WriteIntoBufferFacts
  <2>2. CASE PutInto(r, buf.id)
    <3>1. buf.id \in Nat
      BY <2>2 DEF PutInto
    <3> QED BY <1>1, <1>8, <2>1, <2>2, <3>1
  <2>3. CASE /\ r.fp \in buf.fps /\ Step([r EXCEPT !.id = buf.id]) /\ UNCHANGED <<unique, rewritten>>
             /\ buf.id \in Nat /\ buf' = buf /\ HoldsNext(buf.id, r.fp)
             /\ \A f \in FP : Copies(f)' = Copies(f)
    <3> DEFINE c == [r EXCEPT !.id = buf.id]
    <3>1. r.dup /\ Step(c)
      BY <1>4, <2>3
    <3> HIDE DEF r
    <3>2. /\ c \in Chunk /\ c.fp = r.fp /\ c.dup = r.dup /\ c.since = r.since /\ c.id = buf.id
          /\ c.mark = r.mark
      BY <1>3, <2>3 DEF Chunk
    <3> HIDE DEF c
    <3>3. ChunkDone(c)
      BY <1>3, <2>1, <2>3, <3>1, <3>2 DEF ChunkDone, SameChunk
    <3> QED BY <1>1, <3>2, <3>3
  <2> QED BY <2>1, <2>2, <2>3
<1>10. CASE WriteIntoNew
  <2>1. Written(r) /\ StoreKept /\ PutInto(r, count)
    BY <1>10, WriteIntoNewFacts
  <2>2. count \in Nat
    BY DEF IInv, Shape, StoreShape
  <2> QED BY <1>1, <1>8, <2>1, <2>2
<1> QED BY <1>7, <1>9, <1>10 DEF FilterChunk

-----------------------------------------------------------------------------
(* How the rows move.                                                      *)

\* A lookup lengthens the last row.
LEMMA RowsLookup ==
  ASSUME IInv, UNCHANGED <<flight, cur>>
  PROVE  /\ Len(flight) \in Nat /\ Len(flight)' = Len(flight)
         /\ \A k \in 0..Len(flight) : Row(k)' = Row(k)
         /\ \A n \in Nat : n = Len(flight) + 1 => Row(n) = seg /\ Row(n)' = seg'
BY DEF Row, IInv, Shape, FlightShape

\* Sending the segment makes it the last in flight.
LEMMA RowsSend ==
  ASSUME IInv, SendSegment
  PROVE  /\ Len(flight) \in Nat /\ Len(flight)' = Len(flight) + 1
         /\ flight' \in Seq(Seq(Chunk))
         /\ \A k \in 0..(Len(flight) + 1) : Row(k)' = Row(k)
         /\ \A k \in Nat : k = Len(flight) + 2 => Row(k)' = <<>>
<1>1. flight' = Append(flight, seg) /\ cur' = cur /\ seg' = <<>>
  BY DEF SendSegment, filterVars
<1>2. flight \in Seq(Seq(Chunk)) /\ seg \in Seq(Chunk)
  BY DEF IInv, Shape, FlightShape, DedupShape
<1>3. /\ flight' \in Seq(Seq(Chunk)) /\ Len(flight') = Len(flight) + 1
      /\ DOMAIN flight' = 1..(Len(flight) + 1) /\ DOMAIN flight = 1..Len(flight) /\ Len(flight) \in Nat
      /\ \A k \in 1..Len(flight) : flight'[k] = flight[k]
      /\ flight'[Len(flight) + 1] = seg
  BY <1>1, <1>2
<1> QED BY <1>1, <1>3 DEF Row

\* The filter phase takes the first one.
LEMMA RowsTake ==
  ASSUME IInv, FilterTake
  PROVE  /\ Len(flight) \in Nat \ {0} /\ Len(flight)' = Len(flight) - 1
         /\ Row(0) = <<>> /\ Row(0)' = cur' /\ DOMAIN cur' = DOMAIN Row(1)
         /\ \A k \in 1..Len(flight) : Row(k)' = Row(k + 1)
<1>1. /\ flight # <<>> /\ cur = <<>> /\ flight' = Tail(flight) /\ seg' = seg
      /\ DOMAIN cur' = DOMAIN Row(1)
  BY TakeFacts DEF FilterTake, dedupVars
<1>2. flight \in Seq(Seq(Chunk))
  BY DEF IInv, Shape, FlightShape
<1>3. /\ Len(flight) \in Nat \ {0} /\ Len(flight') = Len(flight) - 1
      /\ DOMAIN flight' = 1..(Len(flight) - 1) /\ DOMAIN flight = 1..Len(flight)
      /\ \A k \in 1..(Len(flight) - 1) : flight'[k] = flight[k + 1]
  BY <1>1, <1>2
<1>4. ASSUME NEW k \in 1..Len(flight) PROVE Row(k)' = Row(k + 1)
  <2>1. Row(k)' = IF k \in DOMAIN flight' THEN flight'[k] ELSE seg
    BY <1>1 DEF Row
  <2>2. Row(k + 1) = IF k + 1 \in DOMAIN flight THEN flight[k + 1] ELSE seg
    BY <1>3 DEF Row
  <2>3. k \in DOMAIN flight' <=> k + 1 \in DOMAIN flight
    BY <1>3
  <2> QED BY <1>3, <2>1, <2>2, <2>3
<1> QED BY <1>1, <1>3, <1>4 DEF Row

\* A step of the filter phase on its segment changes that row only.
LEMMA RowsFilter ==
  ASSUME IInv, UNCHANGED <<flight, seg>>
  PROVE  /\ Len(flight) \in Nat /\ Len(flight)' = Len(flight)
         /\ Row(0) = cur /\ Row(0)' = cur'
         /\ \A k \in 1..(Len(flight) + 1) : Row(k)' = Row(k)
BY DEF Row, IInv, Shape, FlightShape

\* Between backups nothing is in flight.
LEMMA RowsIdle ==
  ASSUME IInv, flight = <<>>, seg = <<>>, cur = <<>>, UNCHANGED <<flight, seg, cur>>
  PROVE  /\ Len(flight) = 0 /\ Len(flight)' = 0
         /\ \A k \in 0..1 : Row(k) = <<>> /\ Row(k)' = <<>>
BY DEF Row

-----------------------------------------------------------------------------
(* The kinds of steps.                                                     *)

\* Nothing in flight changes: a segment begins, the stream or the backup ends.
Still ==
  /\ UNCHANGED <<flight, seg, cur, pos, unique, rewritten, buffered, recipeVars>>
  /\ StoreKept
  /\ buf'.fps \subseteq buf.fps /\ \A f \in FP : Copies(f)' = Copies(f)

\* A chunk is filtered.
Filtering == filter = "chunks" /\ pos <= Len(cur) /\ \E c \in Chunk : ChunkDone(c)

\* A chunk is looked up.
Looking ==
  /\ dedup = "lookup"
  /\ \E id \in Id, dup \in BOOLEAN, denied \in BOOLEAN : Outcome(id, dup, denied)

\* The end of a backup hands the last container over.
LEMMA FilterEndStill ==
  ASSUME IInv, FilterEnd
  PROVE  Still
<1>1. UNCHANGED <<flight, seg, cur, pos, unique, rewritten, buffered, recipeVars, cache, count>>
  BY DEF FilterEnd, dedupVars
<1>2. config' = config
  BY <1>1 DEF recipeVars
<1>3. CASE buf = NoContainer
  <2>1. UNCHANGED <<buf, containers, kv>>
    BY <1>3 DEF FilterEnd
  <2>2. UNCHANGED storeVars
    BY <1>1, <2>1 DEF storeVars
  <2>3. StoreKept /\ \A f \in FP : Copies(f)' = Copies(f)
    BY <1>1, <1>2, <2>1, <2>2, UnchangedKept
  <2> QED BY <1>1, <2>1, <2>3 DEF Still
<1>4. CASE buf # NoContainer
  <2>1. IndexUpdate(buf) /\ HandOver(buf) /\ buf' = NoContainer
    BY <1>4 DEF FilterEnd
  <2>2. /\ count > 0 /\ DOMAIN containers' = 0..(count - 1)
        /\ \A id \in DOMAIN containers' : containers'[id] \subseteq FP
        /\ \A id \in Nat, f \in FP : Holds(id, f) => id \in DOMAIN containers' /\ f \in containers'[id]
        /\ \A p : p.id \in DOMAIN containers /\ p.fp \in containers[p.id]
                    => p.id \in DOMAIN containers' /\ p.fp \in containers'[p.id]
        /\ \A f : Cardinality(Stored(f)') = Copies(f)
        /\ IndexShape' /\ IndexKnows'
    BY <1>1, <1>2, <1>4, <2>1, HandOverFacts
  <2>3. count' \in Nat /\ count' = count
    BY <1>1 DEF IInv, Shape, StoreShape
  <2>4. buf' \in [id : Id, fps : SUBSET FP] /\ buf'.fps = {}
    BY <2>1 DEF NoContainer, Id
  <2>5. StoreShape'
    BY <2>1, <2>2, <2>3, <2>4 DEF StoreShape
  <2>6. \A id \in Nat, f \in FP : Holds(id, f) => HoldsNext(id, f)
    BY <2>2 DEF HoldsNext
  <2>7. StoreKept
    BY <2>2, <2>5, <2>6 DEF StoreKept
  <2>8. ASSUME NEW f \in FP PROVE Copies(f)' = Copies(f)
    <3>1. Copies(f)' = Cardinality(Stored(f)') + (IF f \in buf'.fps THEN 1 ELSE 0)
      BY DEF Copies, Stored
    <3>2. Copies(f) \in Nat
      BY CopiesType DEF IInv, Shape
    <3> QED BY <2>2, <2>4, <3>1, <3>2
  <2> QED BY <1>1, <2>4, <2>7, <2>8 DEF Still
<1> QED BY <1>3, <1>4

\* Every step is of one of seven kinds.
LEMMA Kinds ==
  ASSUME IInv, [Next]_vars
  PROVE  \/ Still /\ (UNCHANGED <<stream, todo>> \/ \E fps \in Segments : BeginSegment(fps))
         \/ Looking \/ SendSegment \/ FilterTake \/ Filtering
         \/ FilterRelease \/ NextSession
<1>1. ASSUME NEW fps \in Segments, BeginSegment(fps)
      PROVE  Still
  <2>1. seg = <<>> /\ seg' = <<>>
    BY <1>1 DEF BeginSegment, IInv, Shape, DedupShape
  <2>2. UNCHANGED <<flight, cur, pos, unique, rewritten, buffered, recipeVars, storeVars, kv, config, buf>>
        /\ cache' = cache
    BY <1>1 DEF BeginSegment, filterVars, indexVars, recipeVars, storeVars
  <2>3. StoreKept /\ \A f \in FP : Copies(f)' = Copies(f)
    BY <2>2, UnchangedKept
  <2> QED BY <2>1, <2>2, <2>3 DEF Still
<1>2. CASE LookupChunk
  <2>1. dedup = "lookup"
    BY <1>2 DEF LookupChunk, InStorageBuffer, InIndexBuffer, InCache, InIndex, Unknown, LookingUp
  <2> QED BY <1>2, <2>1, LookupOutcome DEF Looking
<1>3. ASSUME EndOfStream PROVE Still /\ UNCHANGED <<stream, todo>>
  <2>1. UNCHANGED <<flight, seg, cur, pos, unique, rewritten, buffered, recipeVars, storeVars, kv, config, buf>>
        /\ cache' = cache
    BY <1>3 DEF EndOfStream, filterVars, indexVars, recipeVars, storeVars
  <2>2. StoreKept /\ \A f \in FP : Copies(f)' = Copies(f)
    BY <2>1, UnchangedKept
  <2> QED BY <1>3, <2>1, <2>2 DEF Still, EndOfStream
<1>4. CASE FilterChunk
  BY <1>4, FilterChunkFacts DEF Filtering
<1>5. ASSUME FilterEnd PROVE Still /\ UNCHANGED <<stream, todo>>
  BY <1>5, FilterEndStill DEF FilterEnd, dedupVars
<1>6. ASSUME UNCHANGED vars PROVE Still /\ UNCHANGED <<stream, todo>>
  <2>1. UNCHANGED <<flight, seg, cur, pos, unique, rewritten, buffered, recipeVars, storeVars, kv, config, buf>>
        /\ cache' = cache
    BY <1>6 DEF vars, dedupVars, filterVars, indexVars, recipeVars, storeVars
  <2>2. StoreKept /\ \A f \in FP : Copies(f)' = Copies(f)
    BY <2>1, UnchangedKept
  <2> QED BY <1>6, <2>1, <2>2 DEF Still, vars, dedupVars
<1> QED BY <1>1, <1>2, <1>3, <1>4, <1>5, <1>6 DEF Next, Dedup, Filter

\* Every step keeps the store.
LEMMA AlwaysKept ==
  ASSUME IInv, [Next]_vars
  PROVE  StoreKept
<1>1. CASE Still
  BY <1>1 DEF Still
<1>2. CASE Looking
  <2>1. PICK id \in Id, dup \in BOOLEAN, denied \in BOOLEAN : Outcome(id, dup, denied)
    BY <1>2 DEF Looking
  <2>2. /\ UNCHANGED <<storeVars, kv, recipeVars>>
        /\ cache' \in Seq(Nat) /\ Len(cache') <= CacheSize
        /\ \A i \in DOMAIN cache' : cache'[i] \in DOMAIN containers
    BY <2>1 DEF Outcome, LookedUp
  <2>3. buf' = buf /\ count' = count /\ containers' = containers /\ kv' = kv /\ config' = config
    BY <2>2 DEF storeVars, recipeVars
  <2>4. StoreShape' /\ IndexShape'
    BY <2>2, <2>3 DEF StoreShape, IndexShape, IInv, Shape
  <2>5. IndexKnows'
    BY <2>2, <2>3 DEF IndexKnows, IndexSound, Indexed, IInv
  <2>6. \A c \in Nat, f \in FP : Holds(c, f) => HoldsNext(c, f)
    BY <2>3 DEF Holds, HoldsNext
  <2> QED BY <2>3, <2>4, <2>5, <2>6 DEF StoreKept
<1>3. CASE SendSegment \/ FilterTake \/ FilterRelease
  <2>1. UNCHANGED <<storeVars, kv, config, cache>>
    BY <1>3 DEF SendSegment, FilterTake, FilterRelease, indexVars, recipeVars
  <2> QED BY <2>1, UnchangedKept
<1>4. CASE Filtering
  BY <1>4 DEF Filtering, ChunkDone
<1>5. CASE NextSession
  <2>1. buf' = buf /\ count' = count /\ containers' = containers /\ kv' = kv /\ config' = config
        /\ cache' = <<>>
    BY <1>5 DEF NextSession, storeVars
  <2>2. CacheSize \in Nat
    BY PipelineAssumption
  <2>3. StoreShape' /\ IndexShape'
    BY <2>1, <2>2 DEF StoreShape, IndexShape, IInv, Shape
  <2>4. IndexKnows'
    BY <2>1 DEF IndexKnows, IndexSound, Indexed, IInv
  <2>5. \A c \in Nat, f \in FP : Holds(c, f) => HoldsNext(c, f)
    BY <2>1 DEF Holds, HoldsNext
  <2> QED BY <2>1, <2>3, <2>4, <2>5 DEF StoreKept
<1> QED BY <1>1, <1>2, <1>3, <1>4, <1>5, Kinds

-----------------------------------------------------------------------------
(* The segment leaves the filter phase.                                    *)

\* The copies of f in the segment are places of f, as many as there are.
LEMMA RowCount ==
  ASSUME IInv, NEW f \in FP, NEW k \in 0..(Len(flight) + 1)
  PROVE  LET here == {<<k, i>> : i \in Occurs(Row(k), f)} IN
         /\ here \subseteq Places(f)
         /\ IsFiniteSet(here) /\ IsFiniteSet(Occurs(Row(k), f))
         /\ Cardinality(here) = Cardinality(Occurs(Row(k), f))
         /\ Cardinality(Occurs(Row(k), f)) \in Nat
         /\ Cardinality(Occurs(Row(k), f)) <= Len(buffered[f])
<1> DEFINE S == Occurs(Row(k), f)
           here == {<<k, i>> : i \in S}
           g == [i \in S |-> <<k, i>>]
<1>1. here \subseteq Places(f)
  BY DEF Places
<1>2. IsFiniteSet(Places(f)) /\ Cardinality(Places(f)) = Len(buffered[f])
  BY DEF IInv, Counted
<1>3. IsFiniteSet(here) /\ Cardinality(here) <= Len(buffered[f])
  BY <1>1, <1>2, FS_Subset
<1>4. Row(k) \in Seq(Chunk)
  BY RowType
<1>5. S \in SUBSET (1..Len(Row(k))) /\ Len(Row(k)) \in Nat
  BY <1>4 DEF Occurs
<1> HIDE DEF S
<1>6. IsFiniteSet(S)
  <2> DEFINE n == Len(Row(k))
  <2>1. S \in SUBSET (1..n) /\ n \in Int
    BY <1>5
  <2> HIDE DEF n
  <2>2. IsFiniteSet(1..n)
    BY <2>1, FS_Interval
  <2> QED BY <2>1, <2>2, FS_Subset
<1>7. g \in Bijection(S, here)
  BY DEF Bijection, Injection, Surjection, IsInjective
<1>8. ExistsBijection(S, here)
  BY <1>7 DEF ExistsBijection
<1>9. Cardinality(here) = Cardinality(S) /\ Cardinality(S) \in Nat
  BY <1>6, <1>8, FS_Bijection, FS_CardinalityType
<1> QED BY <1>1, <1>3, <1>6, <1>9 DEF S

\* What is through has an id and is where the id says; the queues of the index
\* buffer lose its copies, and what is left in them gets an id as well.
LEMMA ReleaseFacts ==
  ASSUME IInv, FilterRelease
  PROVE  /\ filter = "chunks" /\ cur' = <<>> /\ pos' = 1 /\ UNCHANGED <<flight, seg>>
         /\ \A i \in DOMAIN cur : cur[i] \in Chunk /\ cur[i].id \in Nat /\ Holds(cur[i].id, cur[i].fp)
         /\ DOMAIN buffered' = FP
         /\ \A f \in FP : Occurs(cur, f) = {} => buffered'[f] = buffered[f]
         /\ \A f \in FP : Occurs(cur, f) # {} =>
              /\ buffered'[f] \in Seq(Nat)
              /\ Len(buffered'[f]) = Len(buffered[f]) - Cardinality(Occurs(cur, f))
              /\ \A i \in DOMAIN buffered'[f] : Holds(buffered'[f][i], f)
<1>1. /\ filter = "chunks" /\ pos > Len(cur) /\ cur' = <<>> /\ pos' = 1 /\ UNCHANGED <<flight, seg>>
      /\ buffered' = [f \in FP |-> UpdateBuffer(f)]
  BY DEF FilterRelease, dedupVars
<1>2. cur \in Seq(Chunk) /\ pos = Len(cur) + 1 /\ Row(0) = cur /\ 0 \in 0..(Len(flight) + 1)
      /\ \A i \in DOMAIN cur : i \in 1..(pos - 1)
  BY <1>1 DEF IInv, Shape, FilterShape, FlightShape, Row
<1>3. ASSUME NEW i \in DOMAIN cur
      PROVE  cur[i] \in Chunk /\ cur[i].id \in Nat /\ Holds(cur[i].id, cur[i].fp)
  <2>1. cur[i].id # TEMPORARY_ID
    BY <1>2 DEF IInv, Resolved
  <2>2. Holds(cur[i].id, cur[i].fp)
    BY <1>2, <2>1 DEF IInv, IdsHold
  <2>3. cur[i] \in Chunk
    BY <1>2
  <2> QED BY <2>1, <2>2, <2>3 DEF Chunk
<1>4. ASSUME NEW f \in FP, Occurs(cur, f) # {}
      PROVE  /\ buffered'[f] \in Seq(Nat)
             /\ Len(buffered'[f]) = Len(buffered[f]) - Cardinality(Occurs(cur, f))
             /\ \A i \in DOMAIN buffered'[f] : Holds(buffered'[f][i], f)
  <2> DEFINE here == Occurs(cur, f)
             n == Cardinality(here)
             rest == SubSeq(buffered[f], n + 1, Len(buffered[f]))
             last == CHOOSE l \in here : \A j \in here : j <= l
             id == cur[last].id
  <2>1. buffered'[f] = [i \in DOMAIN rest |-> id]
    BY <1>1, <1>4 DEF UpdateBuffer, Occurs
  <2>2. here \in SUBSET (1..Len(cur)) /\ here # {} /\ Len(cur) \in Nat
    BY <1>2, <1>4 DEF Occurs
  <2>3. n \in Nat /\ n <= Len(buffered[f])
    BY <1>2, RowCount
  <2>4. buffered[f] \in Seq(Id)
    BY DEF IInv, Shape, FlightShape
  <2> HIDE DEF here, n
  <2>5. PICK l \in here : \A j \in here : j <= l
    BY <2>2, Greatest
  <2>6. last \in here
    BY <2>5
  <2> HIDE DEF last
  <2>7. id \in Nat /\ Holds(id, f)
    <3>1. last \in DOMAIN cur /\ cur[last].fp = f
      BY <2>6 DEF here, Occurs
    <3> QED BY <1>3, <3>1
  <2>8. DOMAIN rest = 1..(Len(buffered[f]) - n) /\ Len(buffered[f]) - n \in Nat
    BY <2>3, <2>4
  <2> HIDE DEF rest, id
  <2>9. /\ buffered'[f] \in [1..(Len(buffered[f]) - n) -> Nat]
        /\ \A i \in 1..(Len(buffered[f]) - n) : buffered'[f][i] = id
    BY <2>1, <2>7, <2>8
  <2>10. buffered'[f] \in Seq(Nat)
    <3>1. PICK m \in Nat : m = Len(buffered[f]) - n
      BY <2>8
    <3>2. buffered'[f] \in [1..m -> Nat]
      BY <2>9, <3>1
    <3> QED BY <3>1, <3>2, SeqDef
  <2>11. Len(buffered'[f]) = Len(buffered[f]) - n
    BY <2>8, <2>9, <2>10
  <2> QED BY <2>7, <2>9, <2>10, <2>11 DEF n, here
<1>5. \A f \in FP : Occurs(cur, f) = {} => buffered'[f] = buffered[f]
  BY <1>1 DEF UpdateBuffer, Occurs
<1> QED BY <1>1, <1>3, <1>4, <1>5

\* The recipe gets the pointers of the segment.
LEMMA ReleaseRecipe ==
  ASSUME IInv, FilterRelease
  PROVE  /\ recipe' \in Seq([fp : FP, id : Nat]) /\ Len(recipe') = Len(recipe) + Len(cur)
         /\ \A i \in 1..Len(recipe) : recipe'[i] = recipe[i]
         /\ \A i \in 1..Len(cur) : recipe'[Len(recipe) + i] = Pointer(cur[i])
         /\ \A i \in DOMAIN recipe' : Holds(recipe'[i].id, recipe'[i].fp)
<1> DEFINE new == [i \in DOMAIN cur |-> Pointer(cur[i])]
           P == [fp : FP, id : Nat]
<1>1. recipe' = Cat(recipe, new)
  BY DEF FilterRelease, Cat
<1>2. recipe \in Seq(P) /\ cur \in Seq(Chunk)
  BY DEF IInv, Shape, RecipeShape, FilterShape
<1>3. \A i \in DOMAIN cur : cur[i] \in Chunk /\ cur[i].id \in Nat /\ Holds(cur[i].id, cur[i].fp)
  BY ReleaseFacts
<1>4. /\ new \in Seq(P) /\ Len(new) = Len(cur) /\ \A i \in 1..Len(cur) : new[i] = Pointer(cur[i])
  <2>1. DOMAIN cur = 1..Len(cur) /\ Len(cur) \in Nat
    BY <1>2
  <2>2. \A i \in DOMAIN cur : Pointer(cur[i]) \in P
    BY <1>3 DEF Pointer, Chunk
  <2>3. new \in [1..Len(cur) -> P]
    BY <2>1, <2>2
  <2>4. new \in Seq(P)
    BY <2>1, <2>3, SeqDef
  <2> QED BY <2>1, <2>3, <2>4
<1> HIDE DEF new, P
<1>5. /\ recipe' \in Seq(P) /\ Len(recipe') = Len(recipe) + Len(new)
      /\ \A i \in 1..Len(recipe) : recipe'[i] = recipe[i]
      /\ \A i \in 1..Len(new) : recipe'[Len(recipe) + i] = new[i]
      /\ \A i \in 1..(Len(recipe) + Len(new)) :
           \/ i \in 1..Len(recipe) /\ recipe'[i] = recipe[i]
           \/ i - Len(recipe) \in 1..Len(new) /\ recipe'[i] = new[i - Len(recipe)]
  <2>1. recipe \in Seq(P) /\ new \in Seq(P)
    BY <1>2, <1>4, Zenon
  <2> DEFINE all == Cat(recipe, new)
  <2>2. /\ all \in Seq(P) /\ Len(all) = Len(recipe) + Len(new)
        /\ \A i \in 1..Len(recipe) : all[i] = recipe[i]
        /\ \A i \in 1..Len(new) : all[Len(recipe) + i] = new[i]
        /\ \A i \in 1..(Len(recipe) + Len(new)) :
             \/ i \in 1..Len(recipe) /\ all[i] = recipe[i]
             \/ i - Len(recipe) \in 1..Len(new) /\ all[i] = new[i - Len(recipe)]
    BY <2>1, CatSeq, Zenon
  <2> QED BY <1>1, <2>2, Zenon
<1>6. ASSUME NEW i \in 1..(Len(recipe) + Len(new))
      PROVE  Holds(recipe'[i].id, recipe'[i].fp)
  <2>1. CASE i \in 1..Len(recipe) /\ recipe'[i] = recipe[i]
    <3>1. i \in DOMAIN recipe
      BY <1>2, <2>1
    <3>2. Holds(recipe[i].id, recipe[i].fp)
      BY <3>1 DEF IInv, Recorded
    <3> QED BY <2>1, <3>2
  <2>2. CASE i - Len(recipe) \in 1..Len(new) /\ recipe'[i] = new[i - Len(recipe)]
    <3> DEFINE j == i - Len(recipe)
    <3>1. j \in 1..Len(cur) /\ j \in DOMAIN cur /\ recipe'[i] = Pointer(cur[j])
      <4>1. j \in 1..Len(new) /\ recipe'[i] = new[j]
        BY <2>2
      <4> HIDE DEF j
      <4>2. DOMAIN cur = 1..Len(cur)
        BY <1>2
      <4> QED BY <1>4, <4>1, <4>2
    <3> HIDE DEF j
    <3>2. recipe'[i].id = cur[j].id /\ recipe'[i].fp = cur[j].fp
      BY <3>1 DEF Pointer
    <3> QED BY <1>3, <3>1, <3>2
  <2> QED BY <1>5, <2>1, <2>2
<1>7. DOMAIN recipe' = 1..(Len(recipe) + Len(new))
  BY <1>5
<1> QED BY <1>4, <1>5, <1>6, <1>7 DEF P

-----------------------------------------------------------------------------
(* The invariant, part by part.                                            *)

\* A step of the filter phase on one chunk keeps the segment a segment.
LEMMA ChunkRow ==
  ASSUME IInv, filter = "chunks", pos <= Len(cur), NEW c, ChunkDone(c)
  PROVE  /\ pos \in DOMAIN cur /\ pos' = pos + 1 /\ pos \in Nat /\ pos > 0
         /\ cur' \in Seq(Chunk) /\ Len(cur') = Len(cur) /\ DOMAIN cur' = DOMAIN cur
         /\ cur'[pos] = c /\ \A i \in DOMAIN cur : i # pos => cur'[i] = cur[i]
         /\ \A i \in DOMAIN cur : SameChunk(cur'[i], cur[i])
         /\ UNCHANGED <<flight, seg, filter, lock, buffered, recipe, archive, session, config>>
<1>1. cur' = [cur EXCEPT ![pos] = c] /\ pos' = pos + 1 /\ c \in Chunk /\ SameChunk(c, cur[pos])
      /\ UNCHANGED <<flight, seg, filter, lock, buffered, recipe, archive, session, config>>
  BY DEF ChunkDone, Step, dedupVars, recipeVars
<1>2. cur \in Seq(Chunk) /\ pos \in DOMAIN cur /\ pos \in Nat /\ pos > 0
  BY DEF IInv, Shape, FilterShape
<1>3. cur' \in Seq(Chunk) /\ Len(cur') = Len(cur) /\ DOMAIN cur' = DOMAIN cur
  BY <1>1, <1>2
<1>4. cur'[pos] = c /\ \A i \in DOMAIN cur : i # pos => cur'[i] = cur[i]
  BY <1>1, <1>2
<1>5. \A i \in DOMAIN cur : SameChunk(cur'[i], cur[i])
  BY <1>1, <1>4 DEF SameChunk
<1> QED BY <1>1, <1>2, <1>3, <1>4, <1>5

\* The segments and the index buffer stay what they are.
LEMMA FlightStep ==
  ASSUME IInv, [Next]_vars
  PROVE  FlightShape'
<1>1. flight \in Seq(Seq(Chunk)) /\ buffered \in [FP -> Seq(Id)]
  BY DEF IInv, Shape, FlightShape
<1>2. CASE Still
  BY <1>1, <1>2 DEF Still, FlightShape
<1>3. CASE Looking
  <2>1. PICK id \in Id, dup \in BOOLEAN, denied \in BOOLEAN : LookedUp(id, dup, denied)
    BY <1>3 DEF Looking, Outcome
  <2>2. buffered' \in [FP -> Seq(Id)]
    BY <1>3, <2>1, LookupShape DEF Looking
  <2>3. flight' = flight
    BY <2>1 DEF LookedUp
  <2> QED BY <1>1, <2>2, <2>3 DEF FlightShape
<1>4. CASE SendSegment
  <2>1. flight' \in Seq(Seq(Chunk)) /\ buffered' = buffered
    BY <1>4, RowsSend DEF SendSegment, indexVars
  <2> QED BY <1>1, <2>1 DEF FlightShape
<1>5. CASE FilterTake
  <2>1. flight' \in Seq(Seq(Chunk)) /\ buffered' = buffered
    BY <1>5, TakeFacts DEF FilterTake, indexVars
  <2> QED BY <1>1, <2>1 DEF FlightShape
<1>6. CASE Filtering
  BY <1>1, <1>6, ChunkRow DEF Filtering, FlightShape
<1>7. CASE FilterRelease
  <2>1. /\ flight' = flight /\ DOMAIN buffered' = FP
        /\ \A f \in FP : Occurs(cur, f) = {} => buffered'[f] = buffered[f]
        /\ \A f \in FP : Occurs(cur, f) # {} => buffered'[f] \in Seq(Nat)
    BY <1>7, ReleaseFacts
  <2>2. \A f \in FP : buffered'[f] \in Seq(Id)
    <3> SUFFICES ASSUME NEW f \in FP PROVE buffered'[f] \in Seq(Id)
      OBVIOUS
    <3>1. CASE Occurs(cur, f) = {}
      BY <1>1, <2>1, <3>1
    <3>2. CASE Occurs(cur, f) # {}
      <4>1. buffered'[f] \in Seq(Nat)
        BY <2>1, <3>2
      <4> QED BY <4>1, SeqMonotonic DEF Id
    <3> QED BY <3>1, <3>2
  <2>3. buffered' = [f \in FP |-> buffered'[f]]
    BY <1>7 DEF FilterRelease
  <2>4. buffered' \in [FP -> Seq(Id)]
    BY <2>2, <2>3
  <2> QED BY <1>1, <2>1, <2>4 DEF FlightShape
<1>8. CASE NextSession
  <2>1. flight' = flight /\ buffered' = [f \in FP |-> <<>>]
    BY <1>8 DEF NextSession
  <2> QED BY <1>1, <2>1 DEF FlightShape
<1> QED BY <1>2, <1>3, <1>4, <1>5, <1>6, <1>7, <1>8, Kinds

\* The dedup phase: its chunks and where it is.
LEMMA DedupStep ==
  ASSUME IInv, [Next]_vars
  PROVE  DedupShape' /\ LockShape'
<1> USE DEF DedupShape, LockShape
<1>0. DedupShape /\ LockShape
  BY DEF IInv, Shape
<1>1. ASSUME NEW fps \in Segments, BeginSegment(fps)
      PROVE  DedupShape' /\ LockShape'
  <2>1. /\ stream' = Cat(stream, fps) /\ todo' = fps /\ seg' = <<>> /\ filter' = filter
        /\ dedup' = "lookup" /\ lock' = "dedup" /\ lock = "none"
    BY <1>1 DEF BeginSegment, filterVars, Cat
  <2>2. fps \in Seq(FP) /\ fps # <<>>
    BY SegmentIsSeq
  <2>3. Cat(stream, fps) \in Seq(FP)
    BY <1>0, <2>2, CatSeq, Zenon
  <2> QED BY <1>0, <2>1, <2>2, <2>3
<1>2. CASE LookupChunk
  <2>1. dedup = "lookup" /\ \E id \in Id, dup \in BOOLEAN, denied \in BOOLEAN : LookedUp(id, dup, denied)
    <3>1. dedup = "lookup"
      BY <1>2 DEF LookupChunk, InStorageBuffer, InIndexBuffer, InCache, InIndex, Unknown, LookingUp
    <3> QED BY <1>2, <3>1, LookupOutcome DEF Outcome
  <2> QED BY <2>1, LookupShape
<1>3. CASE SendSegment
  <2>1. dedup = "send" /\ dedup' = "segment" /\ seg' = <<>> /\ UNCHANGED <<stream, todo, lock, filter>>
    BY <1>3 DEF SendSegment, filterVars
  <2> QED BY <1>0, <2>1
<1>4. CASE EndOfStream
  <2>1. dedup = "segment" /\ dedup' = "ended" /\ UNCHANGED <<stream, todo, seg, lock, filter>>
    BY <1>4 DEF EndOfStream, filterVars
  <2> QED BY <1>0, <2>1
<1>5. CASE FilterTake
  <2>1. UNCHANGED <<stream, dedup, todo, seg>> /\ filter' = "chunks" /\ lock' = "filter" /\ lock = "none"
    BY <1>5 DEF FilterTake, dedupVars
  <2> QED BY <1>0, <2>1
<1>6. CASE FilterChunk
  <2>1. UNCHANGED <<stream, dedup, todo, seg, filter, lock>>
    BY <1>6, FilterChunkFacts DEF ChunkDone, Step, dedupVars
  <2> QED BY <1>0, <2>1
<1>7. CASE FilterRelease
  <2>1. UNCHANGED <<stream, dedup, todo, seg>> /\ filter = "chunks" /\ filter' = "reassemble" /\ lock' = "none"
    BY <1>7 DEF FilterRelease, dedupVars
  <2> QED BY <1>0, <2>1
<1>8. CASE FilterEnd
  <2>1. UNCHANGED <<stream, dedup, todo, seg, lock>> /\ filter = "reassemble" /\ filter' = "ended"
    BY <1>8 DEF FilterEnd, dedupVars
  <2> QED BY <1>0, <2>1
<1>9. CASE NextSession
  <2>1. /\ filter = "ended" /\ filter' = "reassemble" /\ lock' = lock
        /\ stream' = <<>> /\ dedup' = "segment" /\ todo' = <<>> /\ seg' = <<>>
    BY <1>9 DEF NextSession
  <2>2. dedup = "ended"
    BY <2>1 DEF IInv, Shape, FilterShape
  <2> QED BY <1>0, <2>1, <2>2
<1>10. CASE UNCHANGED vars
  <2>1. UNCHANGED <<stream, dedup, todo, seg, filter, lock>>
    BY <1>10 DEF vars, dedupVars, filterVars
  <2> QED BY <1>0, <2>1
<1> QED BY <1>1, <1>2, <1>3, <1>4, <1>5, <1>6, <1>7, <1>8, <1>9, <1>10 DEF Next, Dedup, Filter

\* The filter phase: its segment and where it is.
LEMMA FilterStep ==
  ASSUME IInv, [Next]_vars
  PROVE  FilterShape'
<1> USE DEF FilterShape
<1>0. FilterShape
  BY DEF IInv, Shape
<1>1. CASE \E fps \in Segments : BeginSegment(fps)
  <2>1. dedup = "segment" /\ UNCHANGED <<filter, cur, pos, flight, buf>>
    BY <1>1 DEF BeginSegment, filterVars, storeVars
  <2> QED BY <1>0, <2>1
<1>2. CASE LookupChunk
  <2>1. Looking
    BY <1>2, LookupOutcome DEF Looking, LookupChunk, InStorageBuffer, InIndexBuffer, InCache,
                               InIndex, Unknown, LookingUp
  <2>2. dedup = "lookup" /\ UNCHANGED <<filter, cur, pos, flight, buf>>
    BY <2>1 DEF Looking, Outcome, LookedUp, filterVars, storeVars
  <2> QED BY <1>0, <2>2
<1>3. CASE SendSegment
  <2>1. dedup = "send" /\ UNCHANGED <<filter, cur, pos, buf>>
    BY <1>3 DEF SendSegment, filterVars, storeVars
  <2> QED BY <1>0, <2>1
<1>4. CASE EndOfStream
  <2>1. dedup = "segment" /\ UNCHANGED <<filter, cur, pos, flight, buf>>
    BY <1>4 DEF EndOfStream, filterVars, storeVars
  <2> QED BY <1>0, <2>1
<1>5. CASE FilterTake
  <2>1. filter' = "chunks" /\ pos' = 1
    BY <1>5 DEF FilterTake
  <2>2. cur' \in Seq(Chunk)
    BY <1>5, TakeFacts
  <2>3. 1 \in 1..(Len(cur') + 1)
    BY <2>2
  <2> QED BY <2>1, <2>2, <2>3
<1>6. CASE FilterChunk
  <2>1. PICK c \in Chunk : ChunkDone(c)
    BY <1>6, FilterChunkFacts
  <2>2. /\ filter = "chunks" /\ pos <= Len(cur) /\ pos \in Nat /\ pos' = pos + 1 /\ filter' = filter
        /\ cur' \in Seq(Chunk) /\ Len(cur') = Len(cur)
    BY <1>6, <2>1, FilterChunkFacts, ChunkRow
  <2>3. pos' \in 1..(Len(cur') + 1)
    BY <2>2
  <2> QED BY <2>2, <2>3
<1>7. CASE FilterRelease
  <2>1. filter' = "reassemble" /\ cur' = <<>> /\ pos' = 1
    BY <1>7 DEF FilterRelease
  <2> QED BY <2>1
<1>8. CASE FilterEnd
  <2>1. /\ filter = "reassemble" /\ filter' = "ended" /\ dedup = "ended" /\ flight = <<>>
        /\ UNCHANGED <<cur, pos, dedup, flight>> /\ buf' = NoContainer
    BY <1>8 DEF FilterEnd, dedupVars
  <2> QED BY <1>0, <2>1
<1>9. CASE NextSession
  <2>1. filter = "ended" /\ filter' = "reassemble" /\ UNCHANGED <<cur, pos>>
    BY <1>9 DEF NextSession
  <2> QED BY <1>0, <2>1
<1>10. CASE UNCHANGED vars
  <2>1. UNCHANGED <<dedup, filter, cur, pos, flight, buf>>
    BY <1>10 DEF vars, dedupVars, filterVars, storeVars
  <2> QED BY <1>0, <2>1
<1> QED BY <1>1, <1>2, <1>3, <1>4, <1>5, <1>6, <1>7, <1>8, <1>9, <1>10 DEF Next, Dedup, Filter

\* An entry of the recipe is a chunk pointer.
LEMMA RecipeElement ==
  ASSUME RecipeShape, NEW i \in DOMAIN recipe
  PROVE  recipe[i] \in [fp : FP, id : Nat]
<1> DEFINE P == [fp : FP, id : Nat]
<1>1. recipe \in Seq(P)
  BY DEF RecipeShape
<1> HIDE DEF P
<1>2. recipe[i] \in P
  BY <1>1
<1> QED BY <1>2 DEF P

\* The recipes name containers that hold their chunks, for good.
LEMMA RecipeStep ==
  ASSUME IInv, [Next]_vars
  PROVE  RecipeShape' /\ Recorded'
<1>0. RecipeShape /\ Recorded
  BY DEF IInv, Shape
<1>1. StoreKept
  BY AlwaysKept
<1>2. \A i \in DOMAIN recipe : recipe[i].id \in Nat /\ recipe[i].fp \in FP
                               /\ HoldsNext(recipe[i].id, recipe[i].fp)
  <2> SUFFICES ASSUME NEW i \in DOMAIN recipe
               PROVE  recipe[i].id \in Nat /\ recipe[i].fp \in FP /\ HoldsNext(recipe[i].id, recipe[i].fp)
    OBVIOUS
  <2>1. recipe[i] \in [fp : FP, id : Nat]
    BY <1>0, RecipeElement
  <2>2. Holds(recipe[i].id, recipe[i].fp)
    BY <1>0 DEF Recorded
  <2> QED BY <1>1, <2>1, <2>2 DEF StoreKept
<1>3. \A p \in archive : p.id \in DOMAIN containers' /\ p.fp \in containers'[p.id]
  BY <1>0, <1>1 DEF Recorded, StoreKept
<1>4. CASE UNCHANGED <<recipe, archive, session, config>>
  <2>1. RecipeShape'
    BY <1>0, <1>4 DEF RecipeShape
  <2>2. Recorded'
    BY <1>2, <1>3, <1>4 DEF Recorded, Holds, HoldsNext
  <2> QED BY <2>1, <2>2
<1>5. CASE FilterRelease
  <2>1. /\ recipe' \in Seq([fp : FP, id : Nat])
        /\ \A i \in DOMAIN recipe' : Holds(recipe'[i].id, recipe'[i].fp)
    BY <1>5, ReleaseRecipe
  <2>2. UNCHANGED <<archive, session, config>> /\ UNCHANGED <<buf, containers>>
    BY <1>5 DEF FilterRelease, storeVars
  <2>3. RecipeShape'
    BY <1>0, <2>1, <2>2 DEF RecipeShape
  <2>4. Recorded'
    BY <1>3, <2>1, <2>2 DEF Recorded, Holds
  <2> QED BY <2>3, <2>4
<1>6. CASE NextSession
  <2>1. /\ filter = "ended" /\ session < MaxSessions /\ session' = session + 1
        /\ archive' = archive \cup {recipe[i] : i \in DOMAIN recipe} /\ recipe' = <<>>
        /\ config' = config /\ buf' = buf /\ containers' = containers
    BY <1>6 DEF NextSession, storeVars
  <2>2. buf.fps = {}
    BY <2>1 DEF IInv, Shape, FilterShape, NoContainer
  <2>3. \A p \in archive' : p.id \in DOMAIN containers /\ p.fp \in containers[p.id]
    <3>1. \A i \in DOMAIN recipe : recipe[i].id \in DOMAIN containers /\ recipe[i].fp \in containers[recipe[i].id]
      BY <1>0, <2>2 DEF Recorded, Holds
    <3> QED BY <1>0, <2>1, <3>1 DEF Recorded
  <2>4. Recorded'
    BY <2>1, <2>3 DEF Recorded
  <2>5. MaxSessions \in Nat
    BY PipelineAssumption
  <2>6. archive' \subseteq [fp : FP, id : Nat]
    <3>1. \A i \in DOMAIN recipe : recipe[i] \in [fp : FP, id : Nat]
      BY <1>0, RecipeElement
    <3> QED BY <1>0, <2>1, <3>1 DEF RecipeShape
  <2>7. session' \in 1..MaxSessions
    BY <1>0, <2>1, <2>5 DEF RecipeShape
  <2>8. RecipeShape'
    BY <1>0, <2>1, <2>6, <2>7 DEF RecipeShape
  <2> QED BY <2>4, <2>8
<1>7. UNCHANGED <<recipe, archive, session, config>> \/ FilterRelease \/ NextSession
  <2>1. CASE Still
    BY <2>1 DEF Still, recipeVars
  <2>2. CASE Looking
    BY <2>2 DEF Looking, Outcome, LookedUp, recipeVars
  <2>3. CASE SendSegment \/ FilterTake
    BY <2>3 DEF SendSegment, FilterTake, recipeVars
  <2>4. CASE Filtering
    BY <2>4, ChunkRow DEF Filtering
  <2> QED BY <2>1, <2>2, <2>3, <2>4, Kinds
<1> QED BY <1>4, <1>5, <1>6, <1>7

\* The shape is kept.
LEMMA ShapeStep ==
  ASSUME IInv, [Next]_vars
  PROVE  Shape' /\ IndexKnows' /\ Recorded'
<1>1. StoreShape' /\ IndexShape' /\ IndexKnows'
  BY AlwaysKept DEF StoreKept
<1> QED BY <1>1, FlightStep, DedupStep, FilterStep, RecipeStep DEF Shape

\* What a place of f is after a step.
LEMMA PlaceOfNext ==
  ASSUME NEW f, NEW p
  PROVE  p \in Places(f)' <=> \E k \in 0..(Len(flight)' + 1) : \E i \in DOMAIN Row(k)' :
                                p = <<k, i>> /\ Row(k)'[i].fp = f
BY DEF Places, Occurs

\* Rows that keep their fingerprints keep the places.
LEMMA SamePlaces ==
  ASSUME Len(flight)' = Len(flight), NEW f,
         \A k \in 0..(Len(flight) + 1) :
           DOMAIN Row(k)' = DOMAIN Row(k) /\ \A i \in DOMAIN Row(k) : Row(k)'[i].fp = Row(k)[i].fp
  PROVE  Places(f)' = Places(f)
<1>1. ASSUME NEW p PROVE p \in Places(f)' <=> p \in Places(f)
  BY PlaceOf, PlaceOfNext
<1> QED BY <1>1

\* All that a lookup changes of the rows and the index buffer: row n gets a
\* chunk m more.
LookupMoves(id, dup, n, m) ==
  /\ Len(flight) \in Nat /\ Len(flight)' = Len(flight) /\ UNCHANGED <<flight, cur, pos, buf, filter>>
  /\ n = Len(flight) + 1 /\ n \in Nat /\ m \in Nat
  /\ \A k \in 0..Len(flight) : Row(k)' = Row(k)
  /\ DOMAIN Row(n)' = DOMAIN Row(n) \cup {m} /\ DOMAIN Row(n) = 1..(m - 1)
  /\ \A i \in DOMAIN Row(n) : Row(n)'[i] = Row(n)[i]
  /\ Row(n)'[m].fp = Head(todo) /\ Row(n)'[m].id = id /\ Row(n)'[m].dup = dup
  /\ Row(n)'[m].since = Copies(Head(todo))
  /\ Head(todo) \in FP /\ buffered[Head(todo)] \in Seq(Id)
  /\ \A f \in FP : f # Head(todo) => buffered'[f] = buffered[f]
  /\ buffered'[Head(todo)] = Append(buffered[Head(todo)], id)

\* Whatever the outcome.
LEMMA LookupMovesSo ==
  ASSUME IInv, dedup = "lookup",
         NEW id \in Id, NEW dup \in BOOLEAN, NEW denied \in BOOLEAN, LookedUp(id, dup, denied)
  PROVE  \E n, m \in Nat : LookupMoves(id, dup, n, m)
<1>1. UNCHANGED <<flight, cur, pos, buf, filter>>
  BY DEF LookedUp, filterVars, storeVars
<1>2. /\ Len(flight) \in Nat /\ Len(flight)' = Len(flight)
      /\ \A k \in 0..Len(flight) : Row(k)' = Row(k)
      /\ \A n \in Nat : n = Len(flight) + 1 => Row(n) = seg /\ Row(n)' = seg'
  BY <1>1, RowsLookup
<1>3. /\ Head(todo) \in FP /\ seg' \in Seq(Chunk) /\ Len(seg') = Len(seg) + 1
      /\ \A i \in 1..Len(seg) : seg'[i] = seg[i]
      /\ seg'[Len(seg) + 1] = [fp |-> Head(todo), id |-> id, dup |-> dup, denied |-> denied,
                               mark |-> "none", since |-> Copies(Head(todo))]
      /\ \A f \in FP : f # Head(todo) => buffered'[f] = buffered[f]
      /\ buffered'[Head(todo)] = Append(buffered[Head(todo)], id)
  BY LookupShape
<1>4. buffered[Head(todo)] \in Seq(Id)
  BY <1>3 DEF IInv, Shape, FlightShape
<1>5. seg \in Seq(Chunk) /\ Len(seg) \in Nat
  BY DEF IInv, Shape, DedupShape
<1>6. PICK n, m \in Nat : n = Len(flight) + 1 /\ m = Len(seg) + 1
  BY <1>2, <1>5
<1>7. /\ DOMAIN seg = 1..(m - 1) /\ DOMAIN seg' = DOMAIN seg \cup {m}
      /\ \A i \in DOMAIN seg : seg'[i] = seg[i]
  <2>1. Len(seg) = m - 1 /\ Len(seg') = m
    BY <1>3, <1>5, <1>6
  <2>2. DOMAIN seg = 1..(m - 1) /\ DOMAIN seg' = 1..m
    BY <1>3, <1>5, <2>1
  <2>3. 1..m = (1..(m - 1)) \cup {m}
    BY <1>5, <1>6
  <2>4. \A i \in 1..(m - 1) : seg'[i] = seg[i]
    BY <1>3, <2>1
  <2> QED BY <2>2, <2>3, <2>4
<1>8. /\ seg'[m].fp = Head(todo) /\ seg'[m].id = id /\ seg'[m].dup = dup
      /\ seg'[m].since = Copies(Head(todo))
  BY <1>3, <1>6
<1>9. Row(n) = seg /\ Row(n)' = seg'
  BY <1>2, <1>6
<1>10. LookupMoves(id, dup, n, m)
  BY <1>1, <1>2, <1>3, <1>4, <1>6, <1>7, <1>8, <1>9 DEF LookupMoves
<1> QED BY <1>6, <1>10

\* The index buffer counts the chunks in flight.
LEMMA CountedStep ==
  ASSUME IInv, [Next]_vars
  PROVE  Counted'
<1> SUFFICES ASSUME NEW f \in FP
             PROVE  IsFiniteSet(Places(f)') /\ Cardinality(Places(f)') = Len(buffered'[f])
  BY DEF Counted
<1>0. IsFiniteSet(Places(f)) /\ Cardinality(Places(f)) = Len(buffered[f]) /\ buffered[f] \in Seq(Id)
  BY DEF IInv, Counted, Shape, FlightShape
<1>1. CASE Still
  <2>1. UNCHANGED <<flight, cur, seg, buffered>>
    BY <1>1 DEF Still
  <2>2. Places(f)' = Places(f)
    BY <2>1 DEF Places, Row, Occurs
  <2> QED BY <1>0, <2>1, <2>2
<1>2. CASE Looking
  <2>1. PICK id \in Id, dup \in BOOLEAN, n \in Nat, m \in Nat : LookupMoves(id, dup, n, m)
    BY <1>2, LookupMovesSo DEF Looking, Outcome
  <2> DEFINE q == <<n, m>>
  <2>2. Len(flight) \in Nat /\ Len(flight)' = Len(flight) /\ n \in 0..(Len(flight) + 1)
        /\ \A k \in 0..(Len(flight) + 1) : k = n \/ k \in 0..Len(flight)
    BY <2>1 DEF LookupMoves
  <2>3. CASE f # Head(todo)
    <3>1. ASSUME NEW p PROVE p \in Places(f)' <=> p \in Places(f)
      <4>1. ASSUME p \in Places(f) PROVE p \in Places(f)'
        <5>1. PICK k, i : k \in 0..(Len(flight) + 1) /\ i \in DOMAIN Row(k) /\ p = <<k, i>> /\ Row(k)[i].fp = f
          BY <4>1, PlaceOf
        <5>2. i \in DOMAIN Row(k)' /\ Row(k)'[i] = Row(k)[i]
          BY <2>1, <2>2, <5>1 DEF LookupMoves
        <5> QED BY <2>2, <5>1, <5>2, PlaceOfNext
      <4>2. ASSUME p \in Places(f)' PROVE p \in Places(f)
        <5>1. PICK k, i : k \in 0..(Len(flight) + 1) /\ i \in DOMAIN Row(k)' /\ p = <<k, i>> /\ Row(k)'[i].fp = f
          BY <2>2, <4>2, PlaceOfNext
        <5>2. i \in DOMAIN Row(k) /\ Row(k)'[i] = Row(k)[i]
          BY <2>1, <2>2, <2>3, <5>1 DEF LookupMoves
        <5> QED BY <5>1, <5>2, PlaceOf
      <4> QED BY <4>1, <4>2
    <3>2. Places(f)' = Places(f)
      BY <3>1
    <3>3. buffered'[f] = buffered[f]
      BY <2>1, <2>3 DEF LookupMoves
    <3> QED BY <1>0, <3>2, <3>3
  <2>4. CASE f = Head(todo)
    <3>1. ASSUME NEW p PROVE p \in Places(f)' <=> p \in Places(f) \cup {q}
      <4>1. ASSUME p \in Places(f) PROVE p \in Places(f)'
        <5>1. PICK k, i : k \in 0..(Len(flight) + 1) /\ i \in DOMAIN Row(k) /\ p = <<k, i>> /\ Row(k)[i].fp = f
          BY <4>1, PlaceOf
        <5>2. i \in DOMAIN Row(k)' /\ Row(k)'[i] = Row(k)[i]
          BY <2>1, <2>2, <5>1 DEF LookupMoves
        <5> QED BY <2>2, <5>1, <5>2, PlaceOfNext
      <4>2. q \in Places(f)'
        <5>1. m \in DOMAIN Row(n)' /\ Row(n)'[m].fp = f
          BY <2>1, <2>4 DEF LookupMoves
        <5> QED BY <2>2, <5>1, PlaceOfNext
      <4>3. ASSUME p \in Places(f)', p # q PROVE p \in Places(f)
        <5>1. PICK k, i : k \in 0..(Len(flight) + 1) /\ i \in DOMAIN Row(k)' /\ p = <<k, i>> /\ Row(k)'[i].fp = f
          BY <2>2, <4>3, PlaceOfNext
        <5>2. i \in DOMAIN Row(k) /\ Row(k)'[i] = Row(k)[i]
          BY <2>1, <2>2, <4>3, <5>1 DEF LookupMoves
        <5> QED BY <5>1, <5>2, PlaceOf
      <4> QED BY <4>1, <4>2, <4>3
    <3>2. Places(f)' = Places(f) \cup {q}
      BY <3>1
    <3>3. q \notin Places(f)
      <4> SUFFICES ASSUME q \in Places(f) PROVE FALSE
        OBVIOUS
      <4>1. PICK k, i : k \in 0..(Len(flight) + 1) /\ i \in DOMAIN Row(k) /\ q = <<k, i>>
        BY PlaceOf
      <4>2. k = n /\ i = m
        BY <4>1
      <4> QED BY <2>1, <4>1, <4>2 DEF LookupMoves
    <3> HIDE DEF q
    <3>4. IsFiniteSet(Places(f)') /\ Cardinality(Places(f)') = Cardinality(Places(f)) + 1
      BY <1>0, <3>2, <3>3, FS_AddElement
    <3>5. Len(buffered'[f]) = Len(buffered[f]) + 1
      <4>1. buffered'[f] = Append(buffered[f], id)
        BY <2>1, <2>4 DEF LookupMoves
      <4> QED BY <1>0, <4>1
    <3> QED BY <1>0, <3>4, <3>5
  <2> QED BY <2>3, <2>4
<1>3. CASE SendSegment
  <2>1. /\ Len(flight) \in Nat /\ Len(flight)' = Len(flight) + 1
        /\ \A k \in 0..(Len(flight) + 1) : Row(k)' = Row(k)
        /\ \A k \in Nat : k = Len(flight) + 2 => Row(k)' = <<>>
    BY <1>3, RowsSend
  <2>2. ASSUME NEW p PROVE p \in Places(f)' <=> p \in Places(f)
    <3>1. ASSUME p \in Places(f) PROVE p \in Places(f)'
      <4>1. PICK k, i : k \in 0..(Len(flight) + 1) /\ i \in DOMAIN Row(k) /\ p = <<k, i>> /\ Row(k)[i].fp = f
        BY <3>1, PlaceOf
      <4>2. k \in 0..(Len(flight)' + 1) /\ Row(k)' = Row(k)
        BY <2>1, <4>1
      <4> QED BY <4>1, <4>2, PlaceOfNext
    <3>2. ASSUME p \in Places(f)' PROVE p \in Places(f)
      <4>1. PICK k, i : k \in 0..(Len(flight)' + 1) /\ i \in DOMAIN Row(k)' /\ p = <<k, i>> /\ Row(k)'[i].fp = f
        BY <3>2, PlaceOfNext
      <4>2. k # Len(flight) + 2
        BY <2>1, <4>1
      <4>3. k \in 0..(Len(flight) + 1) /\ Row(k)' = Row(k)
        BY <2>1, <4>1, <4>2
      <4> QED BY <4>1, <4>3, PlaceOf
    <3> QED BY <3>1, <3>2
  <2>3. Places(f)' = Places(f) /\ buffered' = buffered
    BY <1>3, <2>2 DEF SendSegment, indexVars
  <2> QED BY <1>0, <2>3
<1>4. CASE FilterTake
  <2>1. /\ Len(flight) \in Nat \ {0} /\ Len(flight)' = Len(flight) - 1
        /\ Row(0) = <<>> /\ Row(0)' = cur' /\ DOMAIN cur' = DOMAIN Row(1)
        /\ \A k \in 1..Len(flight) : Row(k)' = Row(k + 1)
    BY <1>4, RowsTake
  <2>2. \A i \in DOMAIN cur' : cur'[i].fp = Row(1)[i].fp
    BY <1>4, TakeFacts DEF SameChunk
  <2>3. ASSUME NEW k \in 0..(Len(flight)' + 1)
        PROVE  /\ DOMAIN Row(k)' = DOMAIN Row(k + 1) /\ k + 1 \in 1..(Len(flight) + 1)
               /\ \A i \in DOMAIN Row(k)' : Row(k)'[i].fp = Row(k + 1)[i].fp
    <3>1. CASE k = 0
      BY <2>1, <2>2, <3>1
    <3>2. CASE k # 0
      BY <2>1, <3>2
    <3> QED BY <3>1, <3>2
  <2> DEFINE g == [p \in Places(f) |-> <<p[1] - 1, p[2]>>]
  <2>4. ASSUME NEW p \in Places(f)
        PROVE  g[p] \in Places(f)' /\ p = <<g[p][1] + 1, g[p][2]>>
    <3>1. PICK k, i : k \in 0..(Len(flight) + 1) /\ i \in DOMAIN Row(k) /\ p = <<k, i>> /\ Row(k)[i].fp = f
      BY PlaceOf
    <3>2. k # 0
      BY <2>1, <3>1
    <3>3. k - 1 \in 0..(Len(flight)' + 1) /\ (k - 1) + 1 = k /\ g[p] = <<k - 1, i>>
      BY <2>1, <3>1, <3>2
    <3>4. i \in DOMAIN Row(k - 1)' /\ Row(k - 1)'[i].fp = f
      BY <2>3, <3>1, <3>3
    <3> QED BY <3>1, <3>3, <3>4, PlaceOfNext
  <2>5. ASSUME NEW q \in Places(f)' PROVE \E p \in Places(f) : g[p] = q
    <3>1. PICK k, i : k \in 0..(Len(flight)' + 1) /\ i \in DOMAIN Row(k)' /\ q = <<k, i>> /\ Row(k)'[i].fp = f
      BY PlaceOfNext
    <3>2. /\ k + 1 \in 0..(Len(flight) + 1) /\ i \in DOMAIN Row(k + 1) /\ Row(k + 1)[i].fp = f
          /\ (k + 1) - 1 = k
      BY <2>1, <2>3, <3>1
    <3>3. <<k + 1, i>> \in Places(f)
      BY <3>2, PlaceOf
    <3>4. g[<<k + 1, i>>] = q
      BY <3>1, <3>2, <3>3
    <3> QED BY <3>3, <3>4
  <2>6. g \in Bijection(Places(f), Places(f)')
    <3>1. g \in [Places(f) -> Places(f)'] /\ DOMAIN g = Places(f)
      BY <2>4
    <3>2. \A a, b \in Places(f) : g[a] = g[b] => a = b
      BY <2>4
    <3> HIDE DEF g
    <3> QED BY <2>5, <3>1, <3>2 DEF Bijection, Injection, Surjection, IsInjective
  <2>7. ExistsBijection(Places(f), Places(f)')
    BY <2>6 DEF ExistsBijection
  <2>8. IsFiniteSet(Places(f)') /\ Cardinality(Places(f)') = Cardinality(Places(f))
    BY <1>0, <2>7, FS_Bijection
  <2>9. buffered' = buffered
    BY <1>4 DEF FilterTake, indexVars
  <2> QED BY <1>0, <2>8, <2>9
<1>5. CASE Filtering
  <2>1. /\ UNCHANGED <<flight, seg, buffered>>
        /\ DOMAIN cur' = DOMAIN cur /\ \A i \in DOMAIN cur : cur'[i].fp = cur[i].fp
    BY <1>5, ChunkRow DEF Filtering, SameChunk
  <2>2. /\ Len(flight) \in Nat /\ Len(flight)' = Len(flight) /\ Row(0) = cur /\ Row(0)' = cur'
        /\ \A k \in 1..(Len(flight) + 1) : Row(k)' = Row(k)
    BY <2>1, RowsFilter
  <2>3. ASSUME NEW k \in 0..(Len(flight) + 1)
        PROVE  DOMAIN Row(k)' = DOMAIN Row(k) /\ \A i \in DOMAIN Row(k) : Row(k)'[i].fp = Row(k)[i].fp
    <3>1. CASE k = 0
      BY <2>1, <2>2, <3>1
    <3>2. CASE k # 0
      BY <2>2, <3>2
    <3> QED BY <3>1, <3>2
  <2>4. Places(f)' = Places(f)
    BY <2>2, <2>3, SamePlaces
  <2> QED BY <1>0, <2>1, <2>4
<1>6. CASE FilterRelease
  <2>1. /\ cur' = <<>> /\ UNCHANGED <<flight, seg>>
        /\ Occurs(cur, f) = {} => buffered'[f] = buffered[f]
        /\ Occurs(cur, f) # {} => Len(buffered'[f]) = Len(buffered[f]) - Cardinality(Occurs(cur, f))
    BY <1>6, ReleaseFacts
  <2>2. /\ Len(flight) \in Nat /\ Len(flight)' = Len(flight) /\ Row(0) = cur /\ Row(0)' = <<>>
        /\ \A k \in 1..(Len(flight) + 1) : Row(k)' = Row(k)
    BY <2>1, RowsFilter
  <2> DEFINE here == {<<0, i>> : i \in Occurs(Row(0), f)}
  <2>3. /\ here \subseteq Places(f) /\ IsFiniteSet(here) /\ Cardinality(here) \in Nat
        /\ Cardinality(here) = Cardinality(Occurs(cur, f))
    <3>1. 0 \in 0..(Len(flight) + 1)
      BY <2>2
    <3> QED BY <2>2, <3>1, RowCount
  <2>4. ASSUME NEW p PROVE p \in Places(f)' <=> p \in Places(f) \ here
    <3>1. ASSUME p \in Places(f), p \notin here PROVE p \in Places(f)'
      <4>1. PICK k, i : k \in 0..(Len(flight) + 1) /\ i \in DOMAIN Row(k) /\ p = <<k, i>> /\ Row(k)[i].fp = f
        BY <3>1, PlaceOf
      <4>2. k # 0
        BY <3>1, <4>1 DEF Occurs
      <4>3. k \in 0..(Len(flight)' + 1) /\ Row(k)' = Row(k)
        BY <2>2, <4>1, <4>2
      <4> QED BY <4>1, <4>3, PlaceOfNext
    <3>2. ASSUME p \in Places(f)' PROVE p \in Places(f) /\ p \notin here
      <4>1. PICK k, i : k \in 0..(Len(flight)' + 1) /\ i \in DOMAIN Row(k)' /\ p = <<k, i>> /\ Row(k)'[i].fp = f
        BY <3>2, PlaceOfNext
      <4>2. k # 0
        BY <2>2, <4>1
      <4>3. k \in 0..(Len(flight) + 1) /\ Row(k)' = Row(k)
        BY <2>2, <4>1, <4>2
      <4>4. p \notin here
        BY <4>1, <4>2
      <4> QED BY <4>1, <4>3, <4>4, PlaceOf
    <3> QED BY <3>1, <3>2
  <2>5. Places(f)' = Places(f) \ here
    BY <2>4
  <2> HIDE DEF here
  <2>6. Places(f) \cap here = here
    BY <2>3
  <2>7. IsFiniteSet(Places(f)') /\ Cardinality(Places(f)') = Cardinality(Places(f)) - Cardinality(here)
    <3>1. IsFiniteSet(Places(f))
      BY <1>0
    <3> DEFINE all == Places(f)
               now == Places(f)'
    <3>2. now = all \ here /\ all \cap here = here /\ IsFiniteSet(all)
      BY <2>5, <2>6, <3>1
    <3> HIDE DEF all, now
    <3>3. /\ IsFiniteSet(all \ here)
          /\ Cardinality(all \ here) = Cardinality(all) - Cardinality(all \cap here)
      BY <3>2, FS_Difference, Zenon
    <3>4. IsFiniteSet(now) /\ Cardinality(now) = Cardinality(all) - Cardinality(here)
      BY <3>2, <3>3, Zenon
    <3> QED BY <3>4, Zenon DEF all, now
  <2>8. Occurs(cur, f) = {} => Cardinality(here) = 0
    BY <2>3, FS_EmptySet
  <2>9. CASE Occurs(cur, f) = {}
    BY <1>0, <2>1, <2>7, <2>8, <2>9
  <2>10. CASE Occurs(cur, f) # {}
    BY <1>0, <2>1, <2>3, <2>7, <2>10
  <2> QED BY <2>9, <2>10
<1>7. CASE NextSession
  <2>1. flight = <<>> /\ cur = <<>> /\ UNCHANGED <<flight, cur>> /\ seg' = <<>> /\ buffered' = [g \in FP |-> <<>>]
    BY <1>7 DEF NextSession, IInv, Shape, FilterShape
  <2>2. seg = <<>>
    BY <1>7 DEF NextSession, IInv, Shape, FilterShape, DedupShape
  <2>3. Len(flight)' = 0 /\ \A k \in 0..1 : Row(k)' = <<>>
    BY <2>1, <2>2, RowsIdle
  <2>4. ASSUME NEW p PROVE p \notin Places(f)'
    BY <2>3, PlaceOfNext
  <2>5. Places(f)' = {}
    BY <2>4
  <2> QED BY <2>1, <2>5, FS_EmptySet
<1> QED BY <1>1, <1>2, <1>3, <1>4, <1>5, <1>6, <1>7, Kinds

\* Every chunk in flight after the step was in flight before, s rows later, and
\* waited there if it still waits.
Carried(s) ==
  \A k \in 0..(Len(flight)' + 1) : \A i \in DOMAIN Row(k)' :
    /\ k + s \in 0..(Len(flight) + 1) /\ i \in DOMAIN Row(k + s)
    /\ SameChunk(Row(k)'[i], Row(k + s)[i])
    /\ k # 0 => Row(k)'[i] = Row(k + s)[i]
    /\ (k = 0 => i >= pos') => (k + s = 0 => i >= pos)

\* That is so of every step but a lookup.
LEMMA AllCarried ==
  ASSUME IInv, Still \/ SendSegment \/ FilterTake \/ Filtering \/ FilterRelease \/ NextSession
  PROVE  \E s \in {0, 1} : Carried(s)
<1> USE DEF Carried, SameChunk
<1>1. CASE Still
  <2>1. UNCHANGED <<flight, cur, seg, pos>>
    BY <1>1 DEF Still
  <2>2. /\ Len(flight) \in Nat /\ Len(flight)' = Len(flight)
        /\ \A k \in 0..(Len(flight) + 1) : Row(k)' = Row(k) /\ k + 0 = k
    BY <2>1 DEF Row, IInv, Shape, FlightShape
  <2>3. Carried(0)
    BY <2>1, <2>2
  <2> QED BY <2>3
<1>2. CASE SendSegment
  <2>1. /\ Len(flight) \in Nat /\ Len(flight)' = Len(flight) + 1
        /\ \A k \in 0..(Len(flight) + 1) : Row(k)' = Row(k)
        /\ \A k \in Nat : k = Len(flight) + 2 => Row(k)' = <<>>
    BY <1>2, RowsSend
  <2>2. pos' = pos
    BY <1>2 DEF SendSegment, filterVars
  <2>3. ASSUME NEW k \in 0..(Len(flight)' + 1), NEW i \in DOMAIN Row(k)'
        PROVE  k \in 0..(Len(flight) + 1) /\ Row(k)' = Row(k) /\ k + 0 = k
    <3>1. k # Len(flight) + 2
      BY <2>1
    <3> QED BY <2>1, <3>1
  <2>4. Carried(0)
    BY <2>2, <2>3
  <2> QED BY <2>4
<1>3. CASE FilterTake
  <2>1. /\ Len(flight) \in Nat \ {0} /\ Len(flight)' = Len(flight) - 1
        /\ Row(0)' = cur' /\ DOMAIN cur' = DOMAIN Row(1)
        /\ \A k \in 1..Len(flight) : Row(k)' = Row(k + 1)
    BY <1>3, RowsTake
  <2>2. \A i \in DOMAIN cur' : SameChunk(cur'[i], Row(1)[i])
    BY <1>3, TakeFacts
  <2>3. ASSUME NEW k \in 0..(Len(flight)' + 1), NEW i \in DOMAIN Row(k)'
        PROVE  /\ k + 1 \in 0..(Len(flight) + 1) /\ i \in DOMAIN Row(k + 1) /\ k + 1 # 0
               /\ SameChunk(Row(k)'[i], Row(k + 1)[i]) /\ (k # 0 => Row(k)'[i] = Row(k + 1)[i])
    <3>1. CASE k = 0
      BY <2>1, <2>2, <3>1
    <3>2. CASE k # 0
      BY <2>1, <3>2
    <3> QED BY <3>1, <3>2
  <2>4. Carried(1)
    BY <2>3
  <2> QED BY <2>4
<1>4. CASE Filtering
  <2>1. /\ UNCHANGED <<flight, seg>> /\ pos' = pos + 1 /\ pos \in Nat
        /\ cur' \in Seq(Chunk)
        /\ DOMAIN cur' = DOMAIN cur /\ \A i \in DOMAIN cur : SameChunk(cur'[i], cur[i])
    BY <1>4, ChunkRow DEF Filtering
  <2>2. /\ Len(flight) \in Nat /\ Len(flight)' = Len(flight) /\ Row(0) = cur /\ Row(0)' = cur'
        /\ \A k \in 1..(Len(flight) + 1) : Row(k)' = Row(k)
    BY <2>1, RowsFilter
  <2>3. ASSUME NEW k \in 0..(Len(flight)' + 1), NEW i \in DOMAIN Row(k)'
        PROVE  /\ k + 0 \in 0..(Len(flight) + 1) /\ i \in DOMAIN Row(k + 0) /\ k + 0 = k
               /\ SameChunk(Row(k)'[i], Row(k + 0)[i]) /\ (k # 0 => Row(k)'[i] = Row(k + 0)[i])
    <3>1. CASE k = 0
      BY <2>1, <2>2, <3>1
    <3>2. CASE k # 0
      BY <2>2, <3>2
    <3> QED BY <3>1, <3>2
  <2>4. \A i \in DOMAIN cur' : i >= pos' => i >= pos
    BY <2>1
  <2>5. Carried(0)
    BY <2>2, <2>3, <2>4
  <2> QED BY <2>5
<1>5. CASE FilterRelease
  <2>1. cur' = <<>> /\ UNCHANGED <<flight, seg>>
    BY <1>5, ReleaseFacts
  <2>2. /\ Len(flight) \in Nat /\ Len(flight)' = Len(flight) /\ Row(0)' = <<>>
        /\ \A k \in 1..(Len(flight) + 1) : Row(k)' = Row(k)
    BY <2>1, RowsFilter
  <2>3. ASSUME NEW k \in 0..(Len(flight)' + 1), NEW i \in DOMAIN Row(k)'
        PROVE  k \in 0..(Len(flight) + 1) /\ Row(k)' = Row(k) /\ k + 0 = k /\ k # 0
    <3>1. k # 0
      BY <2>2
    <3> QED BY <2>2, <3>1
  <2>4. Carried(0)
    BY <2>3
  <2> QED BY <2>4
<1>6. CASE NextSession
  <2>1. flight = <<>> /\ cur = <<>> /\ UNCHANGED <<flight, cur>> /\ seg' = <<>>
    BY <1>6 DEF NextSession, IInv, Shape, FilterShape
  <2>2. Len(flight)' = 0 /\ \A k \in 0..1 : Row(k)' = <<>>
    BY <2>1 DEF Row
  <2>3. Carried(0)
    BY <2>2
  <2> QED BY <2>3
<1> QED BY <1>1, <1>2, <1>3, <1>4, <1>5, <1>6

\* A unique chunk stays the first copy in flight.
LEMMA UniqueFirstStep ==
  ASSUME IInv, [Next]_vars
  PROVE  UniqueFirst'
<1>0. UniqueFirst
  BY DEF IInv
<1>1. CASE Still \/ SendSegment \/ FilterTake \/ Filtering \/ FilterRelease \/ NextSession
  <2>1. PICK s \in {0, 1} : Carried(s)
    BY <1>1, AllCarried
  <2> SUFFICES ASSUME NEW k \in 0..(Len(flight)' + 1), NEW l \in 0..(Len(flight)' + 1),
                      NEW i \in DOMAIN Row(k)', NEW j \in DOMAIN Row(l)',
                      ~Row(k)'[i].dup, Row(l)'[j].fp = Row(k)'[i].fp
               PROVE  k < l \/ (k = l /\ i <= j)
    BY DEF UniqueFirst
  <2>2. /\ k + s \in 0..(Len(flight) + 1) /\ i \in DOMAIN Row(k + s)
        /\ Row(k + s)[i].fp = Row(k)'[i].fp /\ Row(k + s)[i].dup = Row(k)'[i].dup
    BY <2>1 DEF Carried, SameChunk
  <2>3. /\ l + s \in 0..(Len(flight) + 1) /\ j \in DOMAIN Row(l + s)
        /\ Row(l + s)[j].fp = Row(l)'[j].fp
    BY <2>1 DEF Carried, SameChunk
  <2>4. k + s < l + s \/ (k + s = l + s /\ i <= j)
    BY <1>0, <2>2, <2>3 DEF UniqueFirst
  <2> QED BY <2>4
<1>2. CASE Looking
  <2>1. PICK id \in Id, dup \in BOOLEAN, denied \in BOOLEAN : Outcome(id, dup, denied)
    BY <1>2 DEF Looking
  <2>2. PICK n, m \in Nat : LookupMoves(id, dup, n, m)
    BY <1>2, <2>1, LookupMovesSo DEF Looking, Outcome
  <2>3. /\ Len(flight) \in Nat /\ Len(flight)' = Len(flight) /\ n = Len(flight) + 1
        /\ \A k \in 0..Len(flight) : Row(k)' = Row(k)
        /\ DOMAIN Row(n)' = DOMAIN Row(n) \cup {m} /\ DOMAIN Row(n) = 1..(m - 1)
        /\ \A i \in DOMAIN Row(n) : Row(n)'[i] = Row(n)[i]
        /\ Row(n)'[m].fp = Head(todo) /\ Row(n)'[m].dup = dup /\ Head(todo) \in FP
    BY <2>2 DEF LookupMoves
  <2>4. ASSUME NEW k \in 0..(Len(flight)' + 1), NEW i \in DOMAIN Row(k)'
        PROVE  \/ k = n /\ i = m
               \/ /\ k \in 0..(Len(flight) + 1) /\ i \in DOMAIN Row(k) /\ Row(k)'[i] = Row(k)[i]
                  /\ k < n \/ (k = n /\ i <= m)
    BY <2>3
  <2>5. ~dup => \A k \in 0..(Len(flight) + 1) : \A i \in DOMAIN Row(k) : Row(k)[i].fp # Head(todo)
    BY <2>1, <2>3, NotBufferedNotInFlight DEF Outcome, NotBuffered
  <2> SUFFICES ASSUME NEW k \in 0..(Len(flight)' + 1), NEW l \in 0..(Len(flight)' + 1),
                      NEW i \in DOMAIN Row(k)', NEW j \in DOMAIN Row(l)',
                      ~Row(k)'[i].dup, Row(l)'[j].fp = Row(k)'[i].fp
               PROVE  k < l \/ (k = l /\ i <= j)
    BY DEF UniqueFirst
  <2>6. CASE k = n /\ i = m
    <3>1. ~dup /\ Row(l)'[j].fp = Head(todo)
      BY <2>3, <2>6
    <3>2. l = n /\ j = m
      BY <2>4, <2>5, <3>1
    <3> QED BY <2>6, <3>2
  <2>7. CASE ~(k = n /\ i = m)
    <3>1. /\ k \in 0..(Len(flight) + 1) /\ i \in DOMAIN Row(k) /\ Row(k)'[i] = Row(k)[i]
          /\ k < n \/ (k = n /\ i <= m)
      BY <2>4, <2>7
    <3>2. CASE l = n /\ j = m
      BY <3>1, <3>2
    <3>3. CASE ~(l = n /\ j = m)
      <4>1. l \in 0..(Len(flight) + 1) /\ j \in DOMAIN Row(l) /\ Row(l)'[j] = Row(l)[j]
        BY <2>4, <3>3
      <4> QED BY <1>0, <3>1, <4>1 DEF UniqueFirst
    <3> QED BY <3>2, <3>3
  <2> QED BY <2>6, <2>7
<1> QED BY <1>1, <1>2, Kinds

\* While a unique chunk waits, nobody writes its fingerprint.
LEMMA UniqueFreshStep ==
  ASSUME IInv, [Next]_vars
  PROVE  UniqueFresh'
<1>0. UniqueFresh /\ UniqueFirst
  BY DEF IInv
<1>1. CASE Still \/ SendSegment \/ FilterTake \/ Filtering \/ FilterRelease \/ NextSession
  <2>1. PICK s \in {0, 1} : Carried(s)
    BY <1>1, AllCarried
  <2> SUFFICES ASSUME NEW k \in 0..(Len(flight)' + 1), NEW i \in DOMAIN Row(k)', NEW f,
                      k = 0 => i >= pos', ~Row(k)'[i].dup, f = Row(k)'[i].fp
               PROVE  /\ f \notin buf'.fps /\ Row(k)'[i].since = Copies(f)'
                      /\ Head(buffered'[f]) = TEMPORARY_ID
    BY DEF UniqueFresh, Waits, Place
  <2> DEFINE l == k + s
  <2>2. /\ l \in 0..(Len(flight) + 1) /\ i \in DOMAIN Row(l) /\ (l = 0 => i >= pos)
        /\ Row(l)[i].fp = f /\ ~Row(l)[i].dup /\ Row(l)[i].since = Row(k)'[i].since
    BY <2>1 DEF Carried, SameChunk
  <2> HIDE DEF l
  <2>3. f \notin buf.fps /\ Row(l)[i].since = Copies(f) /\ Head(buffered[f]) = TEMPORARY_ID
    BY <1>0, <2>2 DEF UniqueFresh, Waits, Place
  <2>4. f \in FP
    BY <2>2, InFlightBuffered
  <2>5. CASE Still
    <3>1. buf'.fps \subseteq buf.fps /\ Copies(f)' = Copies(f) /\ buffered' = buffered
      BY <2>4, <2>5 DEF Still
    <3> QED BY <2>2, <2>3, <3>1
  <2>6. CASE SendSegment \/ FilterTake
    <3>1. UNCHANGED <<storeVars, buffered>>
      BY <2>6 DEF SendSegment, FilterTake, indexVars
    <3>2. buf' = buf /\ Copies(f)' = Copies(f)
      BY <3>1 DEF storeVars, Copies
    <3> QED BY <2>2, <2>3, <3>1, <3>2
  <2>7. CASE Filtering
    <3>1. PICK c \in Chunk : ChunkDone(c)
      BY <2>7 DEF Filtering
    <3>2. filter = "chunks" /\ pos <= Len(cur)
      BY <2>7 DEF Filtering
    <3>3. /\ pos \in DOMAIN cur /\ pos' = pos + 1 /\ UNCHANGED <<flight, seg, buffered>> /\ pos \in Nat
          /\ cur \in Seq(Chunk) /\ DOMAIN cur' = DOMAIN cur
      BY <3>1, <3>2, ChunkRow DEF IInv, Shape, FilterShape
    <3>4. Row(0) = cur /\ Row(0)' = cur' /\ Len(flight) \in Nat /\ Len(flight)' = Len(flight)
      BY <3>3, RowsFilter
    <3>5. f # c.fp
      <4> SUFFICES ASSUME f = c.fp PROVE FALSE
        OBVIOUS
      <4>1. cur[pos].fp = f
        BY <3>1 DEF ChunkDone, SameChunk
      <4>2. l < 0 \/ (l = 0 /\ i <= pos)
        BY <1>0, <2>2, <3>3, <3>4, <4>1 DEF UniqueFirst
      <4>3. l = 0 /\ i <= pos /\ k = 0
        BY <2>2, <3>4, <4>2 DEF l
      <4>4. i \in DOMAIN cur /\ i >= pos + 1
        BY <3>3, <3>4, <4>3
      <4> QED BY <3>3, <4>3, <4>4
    <3>6. /\ buf'.fps \subseteq buf.fps \cup {c.fp}
          /\ \/ \A g \in FP : Copies(g)' = Copies(g)
             \/ \A g \in FP : Copies(g)' = Copies(g) + (IF g = c.fp THEN 1 ELSE 0)
      BY <3>1 DEF ChunkDone
    <3>7. Copies(f) \in Nat
      BY CopiesType DEF IInv, Shape
    <3>8. Copies(f)' = Copies(f)
      BY <2>4, <3>5, <3>6, <3>7
    <3> QED BY <2>2, <2>3, <3>3, <3>5, <3>6, <3>8
  <2>8. CASE FilterRelease
    <3>1. /\ UNCHANGED storeVars /\ UNCHANGED <<flight, seg>> /\ cur' = <<>>
          /\ Occurs(cur, f) = {} => buffered'[f] = buffered[f]
      BY <2>4, <2>8, ReleaseFacts DEF FilterRelease
    <3>2. buf' = buf /\ Copies(f)' = Copies(f)
      BY <3>1 DEF storeVars, Copies
    <3>3. /\ Row(0) = cur /\ Row(0)' = <<>> /\ Len(flight) \in Nat
          /\ \A r \in 1..(Len(flight) + 1) : Row(r)' = Row(r)
      BY <3>1, RowsFilter
    <3>4. k # 0
      BY <3>3
    <3>5. l # 0
      BY <3>4 DEF l
    <3>6. Occurs(cur, f) = {}
      <4> SUFFICES ASSUME NEW j \in Occurs(cur, f) PROVE FALSE
        OBVIOUS
      <4>1. j \in DOMAIN cur /\ cur[j].fp = f
        BY DEF Occurs
      <4>2. l < 0 \/ (l = 0 /\ i <= j)
        BY <1>0, <2>2, <3>3, <4>1 DEF UniqueFirst
      <4> QED BY <2>2, <3>3, <3>5, <4>2
    <3> QED BY <2>2, <2>3, <3>1, <3>2, <3>6
  <2>9. CASE NextSession
    <3>1. flight = <<>> /\ cur = <<>> /\ UNCHANGED <<flight, cur>> /\ seg' = <<>>
      BY <2>9 DEF NextSession, IInv, Shape, FilterShape
    <3>2. Len(flight)' = 0 /\ \A r \in 0..1 : Row(r)' = <<>>
      BY <3>1 DEF Row
    <3> QED BY <3>2
  <2> QED BY <1>1, <2>5, <2>6, <2>7, <2>8, <2>9
<1>2. CASE Looking
  <2>1. PICK id \in Id, dup \in BOOLEAN, denied \in BOOLEAN : Outcome(id, dup, denied)
    BY <1>2 DEF Looking
  <2>2. PICK n, m \in Nat : LookupMoves(id, dup, n, m)
    BY <1>2, <2>1, LookupMovesSo DEF Looking, Outcome
  <2>3. /\ Len(flight) \in Nat /\ Len(flight)' = Len(flight) /\ n = Len(flight) + 1
        /\ UNCHANGED <<pos, buf>>
        /\ \A k \in 0..Len(flight) : Row(k)' = Row(k)
        /\ DOMAIN Row(n)' = DOMAIN Row(n) \cup {m} /\ DOMAIN Row(n) = 1..(m - 1)
        /\ \A i \in DOMAIN Row(n) : Row(n)'[i] = Row(n)[i]
        /\ Row(n)'[m].fp = Head(todo) /\ Row(n)'[m].dup = dup
        /\ Row(n)'[m].since = Copies(Head(todo)) /\ Head(todo) \in FP
        /\ \A f \in FP : f # Head(todo) => buffered'[f] = buffered[f]
        /\ buffered'[Head(todo)] = Append(buffered[Head(todo)], id)
        /\ buffered[Head(todo)] \in Seq(Id)
    BY <2>2 DEF LookupMoves
  <2>4. \A f : Copies(f)' = Copies(f)
    <3>1. containers' = containers /\ buf' = buf
      BY <2>1 DEF Outcome, LookedUp, storeVars
    <3> QED BY <3>1 DEF Copies
  <2> SUFFICES ASSUME NEW k \in 0..(Len(flight)' + 1), NEW i \in DOMAIN Row(k)', NEW f,
                      k = 0 => i >= pos', ~Row(k)'[i].dup, f = Row(k)'[i].fp
               PROVE  /\ f \notin buf'.fps /\ Row(k)'[i].since = Copies(f)'
                      /\ Head(buffered'[f]) = TEMPORARY_ID
    BY DEF UniqueFresh, Waits, Place
  <2>5. CASE k = n /\ i = m
    <3>1. ~dup /\ f = Head(todo)
      BY <2>3, <2>5
    <3>2. id = TEMPORARY_ID /\ f \notin buf.fps /\ buffered[f] = <<>>
      BY <2>1, <3>1 DEF Outcome, NotBuffered
    <3>3. buffered'[f] = <<TEMPORARY_ID>>
      BY <2>3, <3>1, <3>2
    <3>4. Row(k)'[i].since = Copies(f)'
      BY <2>3, <2>4, <2>5, <3>1
    <3> QED BY <2>3, <3>2, <3>3, <3>4
  <2>6. CASE ~(k = n /\ i = m)
    <3>1. k \in 0..(Len(flight) + 1) /\ i \in DOMAIN Row(k) /\ Row(k)'[i] = Row(k)[i]
      BY <2>3, <2>6
    <3>2. f \notin buf.fps /\ Row(k)[i].since = Copies(f) /\ Head(buffered[f]) = TEMPORARY_ID
      BY <1>0, <2>3, <3>1 DEF UniqueFresh, Waits, Place
    <3>3. f \in FP /\ buffered[f] \in Seq(Id) /\ buffered[f] # <<>>
      BY <3>1, InFlightBuffered
    <3>4. Head(buffered'[f]) = Head(buffered[f])
      <4>1. Head(Append(buffered[f], id)) = Head(buffered[f])
        BY <3>3
      <4> QED BY <2>3, <3>3, <4>1
    <3> QED BY <2>3, <2>4, <3>1, <3>2, <3>4
  <2> QED BY <2>5, <2>6
<1> QED BY <1>1, <1>2, Kinds

\* An id names a container with the chunk, wherever it is kept.
LEMMA IdsHoldStep ==
  ASSUME IInv, [Next]_vars
  PROVE  IdsHold'
<1>0. IdsHold /\ FlightShape
  BY DEF IInv, Shape
<1>1. StoreKept
  BY AlwaysKept
<1>2. ASSUME NEW id \in Id, NEW f \in FP, id # TEMPORARY_ID => Holds(id, f)
      PROVE  id # TEMPORARY_ID => HoldsNext(id, f)
  BY <1>1, <1>2 DEF StoreKept, Id
<1>3. \A k \in 0..(Len(flight) + 1) : \A i \in DOMAIN Row(k) :
        Row(k)[i].id # TEMPORARY_ID => HoldsNext(Row(k)[i].id, Row(k)[i].fp)
  <2> SUFFICES ASSUME NEW k \in 0..(Len(flight) + 1), NEW i \in DOMAIN Row(k)
               PROVE  Row(k)[i].id # TEMPORARY_ID => HoldsNext(Row(k)[i].id, Row(k)[i].fp)
    OBVIOUS
  <2>1. Row(k)[i].fp \in FP /\ Row(k)[i].id \in Id
    BY InFlightBuffered DEF Chunk, Id
  <2> QED BY <1>0, <1>2, <2>1 DEF IdsHold
<1>4. \A f \in FP : \A i \in DOMAIN buffered[f] :
        buffered[f][i] # TEMPORARY_ID => HoldsNext(buffered[f][i], f)
  <2> SUFFICES ASSUME NEW f \in FP, NEW i \in DOMAIN buffered[f]
               PROVE  buffered[f][i] # TEMPORARY_ID => HoldsNext(buffered[f][i], f)
    OBVIOUS
  <2>1. buffered[f][i] \in Id
    <3>1. buffered[f] \in Seq(Id)
      BY <1>0 DEF FlightShape
    <3> QED BY <3>1
  <2> QED BY <1>0, <1>2, <2>1 DEF IdsHold
<1> SUFFICES
      /\ \A k \in 0..(Len(flight)' + 1) : \A i \in DOMAIN Row(k)' :
           Row(k)'[i].id # TEMPORARY_ID => HoldsNext(Row(k)'[i].id, Row(k)'[i].fp)
      /\ \A f \in FP : \A i \in DOMAIN buffered'[f] :
           buffered'[f][i] # TEMPORARY_ID => HoldsNext(buffered'[f][i], f)
  BY DEF IdsHold, Holds, HoldsNext
<1>5. CASE Still
  <2>1. UNCHANGED <<flight, cur, seg, buffered>>
    BY <1>5 DEF Still
  <2>2. Len(flight)' = Len(flight) /\ \A k \in 0..(Len(flight) + 1) : Row(k)' = Row(k)
    BY <2>1 DEF Row
  <2> QED BY <1>3, <1>4, <2>1, <2>2
<1>6. CASE Looking
  <2>1. PICK id \in Id, dup \in BOOLEAN, denied \in BOOLEAN : Outcome(id, dup, denied)
    BY <1>6 DEF Looking
  <2>2. PICK n, m \in Nat : LookupMoves(id, dup, n, m)
    BY <1>6, <2>1, LookupMovesSo DEF Looking, Outcome
  <2>3. /\ Len(flight) \in Nat /\ Len(flight)' = Len(flight) /\ n = Len(flight) + 1
        /\ \A k \in 0..Len(flight) : Row(k)' = Row(k)
        /\ DOMAIN Row(n)' = DOMAIN Row(n) \cup {m}
        /\ \A i \in DOMAIN Row(n) : Row(n)'[i] = Row(n)[i]
        /\ Row(n)'[m].fp = Head(todo) /\ Row(n)'[m].id = id /\ Head(todo) \in FP
        /\ \A f \in FP : f # Head(todo) => buffered'[f] = buffered[f]
        /\ buffered'[Head(todo)] = Append(buffered[Head(todo)], id)
        /\ buffered[Head(todo)] \in Seq(Id)
    BY <2>2 DEF LookupMoves
  <2>4. id # TEMPORARY_ID => HoldsNext(id, Head(todo))
    <3>1. id # TEMPORARY_ID => Holds(id, Head(todo))
      BY <2>1 DEF Outcome
    <3> QED BY <1>2, <2>3, <3>1
  <2>5. ASSUME NEW k \in 0..(Len(flight)' + 1), NEW i \in DOMAIN Row(k)'
        PROVE  Row(k)'[i].id # TEMPORARY_ID => HoldsNext(Row(k)'[i].id, Row(k)'[i].fp)
    <3>1. CASE k = n /\ i = m
      BY <2>3, <2>4, <3>1
    <3>2. CASE ~(k = n /\ i = m)
      <4>1. k \in 0..(Len(flight) + 1) /\ i \in DOMAIN Row(k) /\ Row(k)'[i] = Row(k)[i]
        BY <2>3, <3>2
      <4> QED BY <1>3, <4>1
    <3> QED BY <3>1, <3>2
  <2>6. ASSUME NEW f \in FP, NEW i \in DOMAIN buffered'[f]
        PROVE  buffered'[f][i] # TEMPORARY_ID => HoldsNext(buffered'[f][i], f)
    <3>1. CASE f # Head(todo)
      BY <1>4, <2>3, <3>1
    <3>2. CASE f = Head(todo)
      <4>1. buffered[f] \in Seq(Id) /\ buffered'[f] = Append(buffered[f], id)
        BY <2>3, <3>2
      <4>2. \/ i \in DOMAIN buffered[f] /\ buffered'[f][i] = buffered[f][i]
            \/ buffered'[f][i] = id
        BY <4>1
      <4> QED BY <1>4, <2>4, <3>2, <4>2
    <3> QED BY <3>1, <3>2
  <2> QED BY <2>5, <2>6
<1>7. CASE SendSegment
  <2>1. /\ Len(flight) \in Nat /\ Len(flight)' = Len(flight) + 1
        /\ \A k \in 0..(Len(flight) + 1) : Row(k)' = Row(k)
        /\ \A k \in Nat : k = Len(flight) + 2 => Row(k)' = <<>>
    BY <1>7, RowsSend
  <2>2. buffered' = buffered
    BY <1>7 DEF SendSegment, indexVars
  <2>3. ASSUME NEW k \in 0..(Len(flight)' + 1), NEW i \in DOMAIN Row(k)'
        PROVE  k \in 0..(Len(flight) + 1) /\ Row(k)' = Row(k)
    <3>1. k # Len(flight) + 2
      BY <2>1
    <3> QED BY <2>1, <3>1
  <2> QED BY <1>3, <1>4, <2>2, <2>3
<1>8. CASE FilterTake
  <2>1. /\ Len(flight) \in Nat \ {0} /\ Len(flight)' = Len(flight) - 1
        /\ Row(0)' = cur' /\ DOMAIN cur' = DOMAIN Row(1)
        /\ \A k \in 1..Len(flight) : Row(k)' = Row(k + 1)
    BY <1>8, RowsTake
  <2>2. buffered' = buffered
    BY <1>8 DEF FilterTake, indexVars
  <2>3. ASSUME NEW i \in DOMAIN cur'
        PROVE  cur'[i].id # TEMPORARY_ID => HoldsNext(cur'[i].id, cur'[i].fp)
    <3>1. /\ cur'[i].fp = Row(1)[i].fp
          /\ cur'[i].id = Row(1)[i].id \/ cur'[i].id = Head(buffered[cur'[i].fp])
      BY <1>8, TakeFacts DEF SameChunk
    <3>2. 1 \in 0..(Len(flight) + 1) /\ i \in DOMAIN Row(1)
      BY <2>1
    <3> DEFINE f == Row(1)[i].fp
    <3>3. f \in FP /\ buffered[f] \in Seq(Id) /\ buffered[f] # <<>>
      BY <3>2, InFlightBuffered
    <3>4. 1 \in DOMAIN buffered[f] /\ Head(buffered[f]) = buffered[f][1]
      BY <3>3
    <3>5. Head(buffered[f]) # TEMPORARY_ID => HoldsNext(Head(buffered[f]), f)
      BY <1>4, <3>3, <3>4
    <3>6. Row(1)[i].id # TEMPORARY_ID => HoldsNext(Row(1)[i].id, f)
      BY <1>3, <3>2
    <3> HIDE DEF f
    <3>7. cur'[i].fp = f
      BY <3>1 DEF f
    <3> QED BY <3>1, <3>5, <3>6, <3>7
  <2>4. ASSUME NEW k \in 0..(Len(flight)' + 1), NEW i \in DOMAIN Row(k)'
        PROVE  Row(k)'[i].id # TEMPORARY_ID => HoldsNext(Row(k)'[i].id, Row(k)'[i].fp)
    <3>1. CASE k = 0
      BY <2>1, <2>3, <3>1
    <3>2. CASE k # 0
      <4>1. k + 1 \in 0..(Len(flight) + 1) /\ Row(k)' = Row(k + 1)
        BY <2>1, <3>2
      <4> QED BY <1>3, <4>1
    <3> QED BY <3>1, <3>2
  <2> QED BY <1>4, <2>2, <2>4
<1>9. CASE Filtering
  <2>1. PICK c \in Chunk : ChunkDone(c)
    BY <1>9 DEF Filtering
  <2>2. /\ UNCHANGED <<flight, seg, buffered>> /\ pos \in DOMAIN cur /\ DOMAIN cur' = DOMAIN cur
        /\ cur'[pos] = c /\ \A i \in DOMAIN cur : i # pos => cur'[i] = cur[i]
    BY <1>9, <2>1, ChunkRow DEF Filtering
  <2>3. HoldsNext(c.id, c.fp)
    BY <2>1 DEF ChunkDone
  <2>4. /\ Len(flight) \in Nat /\ Len(flight)' = Len(flight) /\ Row(0) = cur /\ Row(0)' = cur'
        /\ \A k \in 1..(Len(flight) + 1) : Row(k)' = Row(k)
    BY <2>2, RowsFilter
  <2>5. ASSUME NEW k \in 0..(Len(flight)' + 1), NEW i \in DOMAIN Row(k)'
        PROVE  Row(k)'[i].id # TEMPORARY_ID => HoldsNext(Row(k)'[i].id, Row(k)'[i].fp)
    <3>1. CASE k = 0 /\ i = pos
      BY <2>2, <2>3, <2>4, <3>1
    <3>2. CASE k = 0 /\ i # pos
      <4>1. 0 \in 0..(Len(flight) + 1) /\ i \in DOMAIN Row(0) /\ Row(k)'[i] = Row(0)[i]
        BY <2>2, <2>4, <3>2
      <4> QED BY <1>3, <4>1
    <3>3. CASE k # 0
      BY <1>3, <2>4, <3>3
    <3> QED BY <3>1, <3>2, <3>3
  <2> QED BY <1>4, <2>2, <2>5
<1>10. CASE FilterRelease
  <2>1. /\ cur' = <<>> /\ UNCHANGED <<flight, seg>>
        /\ \A f \in FP : Occurs(cur, f) = {} => buffered'[f] = buffered[f]
        /\ \A f \in FP : Occurs(cur, f) # {} =>
             buffered'[f] \in Seq(Nat) /\ \A i \in DOMAIN buffered'[f] : Holds(buffered'[f][i], f)
    BY <1>10, ReleaseFacts
  <2>2. /\ Len(flight) \in Nat /\ Len(flight)' = Len(flight) /\ Row(0)' = <<>>
        /\ \A k \in 1..(Len(flight) + 1) : Row(k)' = Row(k)
    BY <2>1, RowsFilter
  <2>3. ASSUME NEW k \in 0..(Len(flight)' + 1), NEW i \in DOMAIN Row(k)'
        PROVE  k \in 0..(Len(flight) + 1) /\ Row(k)' = Row(k)
    <3>1. k # 0
      BY <2>2
    <3> QED BY <2>2, <3>1
  <2>4. ASSUME NEW f \in FP, NEW i \in DOMAIN buffered'[f]
        PROVE  buffered'[f][i] # TEMPORARY_ID => HoldsNext(buffered'[f][i], f)
    <3>1. CASE Occurs(cur, f) = {}
      BY <1>4, <2>1, <3>1
    <3>2. CASE Occurs(cur, f) # {}
      <4>1. buffered'[f][i] \in Nat /\ Holds(buffered'[f][i], f)
        BY <2>1, <3>2
      <4> QED BY <1>1, <4>1 DEF StoreKept
    <3> QED BY <3>1, <3>2
  <2> QED BY <1>3, <2>3, <2>4
<1>11. CASE NextSession
  <2>1. flight = <<>> /\ cur = <<>> /\ UNCHANGED <<flight, cur>> /\ seg' = <<>>
        /\ buffered' = [f \in FP |-> <<>>]
    BY <1>11 DEF NextSession, IInv, Shape, FilterShape
  <2>2. Len(flight)' = 0 /\ \A k \in 0..1 : Row(k)' = <<>>
    BY <2>1 DEF Row
  <2> QED BY <2>1, <2>2
<1> QED BY <1>5, <1>6, <1>7, <1>8, <1>9, <1>10, <1>11, Kinds

\* A queue without an id waits for a unique chunk that is in flight.
LEMMA PromisedStep ==
  ASSUME IInv, [Next]_vars
  PROVE  Promised'
<1>0. Promised /\ FlightShape
  BY DEF IInv, Shape
<1> SUFFICES ASSUME NEW f \in FP, buffered'[f] # <<>>, Head(buffered'[f]) = TEMPORARY_ID
             PROVE  \E k \in 0..(Len(flight)' + 1) : \E i \in DOMAIN Row(k)' :
                      Row(k)'[i].fp = f /\ ~Row(k)'[i].dup
  BY DEF Promised
<1>1. ASSUME buffered'[f] = buffered[f]
      PROVE  \E k, i : /\ k \in 0..(Len(flight) + 1) /\ i \in DOMAIN Row(k)
                       /\ Row(k)[i].fp = f /\ ~Row(k)[i].dup
  BY <1>0, <1>1 DEF Promised
<1>2. CASE Still
  <2>1. UNCHANGED <<flight, cur, seg, buffered>>
    BY <1>2 DEF Still
  <2>2. Len(flight)' = Len(flight) /\ \A k \in 0..(Len(flight) + 1) : Row(k)' = Row(k)
    BY <2>1 DEF Row
  <2> QED BY <1>1, <2>1, <2>2
<1>3. CASE Looking
  <2>1. PICK id \in Id, dup \in BOOLEAN, denied \in BOOLEAN : Outcome(id, dup, denied)
    BY <1>3 DEF Looking
  <2>2. PICK n, m \in Nat : LookupMoves(id, dup, n, m)
    BY <1>3, <2>1, LookupMovesSo DEF Looking, Outcome
  <2>3. /\ Len(flight) \in Nat /\ Len(flight)' = Len(flight) /\ n = Len(flight) + 1
        /\ \A k \in 0..Len(flight) : Row(k)' = Row(k)
        /\ DOMAIN Row(n)' = DOMAIN Row(n) \cup {m}
        /\ \A i \in DOMAIN Row(n) : Row(n)'[i] = Row(n)[i]
        /\ Row(n)'[m].fp = Head(todo) /\ Row(n)'[m].dup = dup /\ Head(todo) \in FP
        /\ \A g \in FP : g # Head(todo) => buffered'[g] = buffered[g]
        /\ buffered'[Head(todo)] = Append(buffered[Head(todo)], id)
        /\ buffered[Head(todo)] \in Seq(Id)
    BY <2>2 DEF LookupMoves
  <2>4. ASSUME NEW k, NEW i, k \in 0..(Len(flight) + 1), i \in DOMAIN Row(k)
        PROVE  k \in 0..(Len(flight)' + 1) /\ i \in DOMAIN Row(k)' /\ Row(k)'[i] = Row(k)[i]
    BY <2>3, <2>4
  <2>5. CASE buffered[f] # <<>> /\ Head(buffered[f]) = TEMPORARY_ID
    <3>1. PICK k, i : /\ k \in 0..(Len(flight) + 1) /\ i \in DOMAIN Row(k)
                      /\ Row(k)[i].fp = f /\ ~Row(k)[i].dup
      BY <1>0, <2>5 DEF Promised
    <3> QED BY <2>4, <3>1
  <2>6. CASE f = Head(todo) /\ buffered[f] = <<>>
    <3>1. buffered'[f] = <<id>>
      BY <2>3, <2>6
    <3>2. ~dup
      BY <2>1, <2>6, <3>1 DEF Outcome
    <3>3. n \in 0..(Len(flight)' + 1) /\ m \in DOMAIN Row(n)' /\ Row(n)'[m].fp = f /\ ~Row(n)'[m].dup
      BY <2>3, <2>6, <3>2
    <3> QED BY <3>3
  <2>7. buffered[f] # <<>> => Head(buffered'[f]) = Head(buffered[f])
    <3> SUFFICES ASSUME buffered[f] # <<>> PROVE Head(buffered'[f]) = Head(buffered[f])
      OBVIOUS
    <3>1. CASE f # Head(todo)
      BY <2>3, <3>1
    <3>2. CASE f = Head(todo)
      <4>1. buffered[f] \in Seq(Id) /\ buffered'[f] = Append(buffered[f], id)
        BY <2>3, <3>2
      <4>2. Head(Append(buffered[f], id)) = Head(buffered[f])
        BY <4>1
      <4> QED BY <4>1, <4>2
    <3> QED BY <3>1, <3>2
  <2>8. buffered[f] = <<>> => f = Head(todo)
    BY <2>3
  <2> QED BY <2>5, <2>6, <2>7, <2>8
<1>4. CASE SendSegment
  <2>1. /\ Len(flight) \in Nat /\ Len(flight)' = Len(flight) + 1
        /\ \A k \in 0..(Len(flight) + 1) : Row(k)' = Row(k)
    BY <1>4, RowsSend
  <2>2. buffered' = buffered
    BY <1>4 DEF SendSegment, indexVars
  <2>3. PICK k, i : /\ k \in 0..(Len(flight) + 1) /\ i \in DOMAIN Row(k)
                    /\ Row(k)[i].fp = f /\ ~Row(k)[i].dup
    BY <1>1, <2>2
  <2>4. k \in 0..(Len(flight)' + 1) /\ Row(k)' = Row(k)
    BY <2>1, <2>3
  <2> QED BY <2>3, <2>4
<1>5. CASE FilterTake
  <2>1. /\ Len(flight) \in Nat \ {0} /\ Len(flight)' = Len(flight) - 1
        /\ Row(0) = <<>> /\ Row(0)' = cur' /\ DOMAIN cur' = DOMAIN Row(1)
        /\ \A k \in 1..Len(flight) : Row(k)' = Row(k + 1)
    BY <1>5, RowsTake
  <2>2. buffered' = buffered
    BY <1>5 DEF FilterTake, indexVars
  <2>3. PICK k, i : /\ k \in 0..(Len(flight) + 1) /\ i \in DOMAIN Row(k)
                    /\ Row(k)[i].fp = f /\ ~Row(k)[i].dup
    BY <1>1, <2>2
  <2>4. CASE k = 1
    <3>1. i \in DOMAIN cur' /\ cur'[i].fp = f /\ ~cur'[i].dup
      BY <1>5, <2>1, <2>3, <2>4, TakeFacts DEF SameChunk
    <3>2. 0 \in 0..(Len(flight)' + 1)
      BY <2>1
    <3> QED BY <2>1, <3>1, <3>2
  <2>5. CASE k # 1
    <3>1. k # 0
      BY <2>1, <2>3
    <3>2. /\ k - 1 \in 0..(Len(flight)' + 1) /\ k - 1 \in 1..Len(flight) /\ (k - 1) + 1 = k
      BY <2>1, <2>3, <2>5, <3>1
    <3> DEFINE l == k - 1
    <3> HIDE DEF l
    <3>3. l \in 0..(Len(flight)' + 1) /\ Row(l)' = Row(k)
      BY <2>1, <3>2 DEF l
    <3> QED BY <2>3, <3>3
  <2> QED BY <2>4, <2>5
<1>6. CASE Filtering
  <2>1. /\ UNCHANGED <<flight, seg, buffered>> /\ DOMAIN cur' = DOMAIN cur
        /\ \A i \in DOMAIN cur : SameChunk(cur'[i], cur[i])
    BY <1>6, ChunkRow DEF Filtering
  <2>2. /\ Len(flight) \in Nat /\ Len(flight)' = Len(flight) /\ Row(0) = cur /\ Row(0)' = cur'
        /\ \A k \in 1..(Len(flight) + 1) : Row(k)' = Row(k)
    BY <2>1, RowsFilter
  <2>3. PICK k, i : /\ k \in 0..(Len(flight) + 1) /\ i \in DOMAIN Row(k)
                    /\ Row(k)[i].fp = f /\ ~Row(k)[i].dup
    BY <1>1, <2>1
  <2>4. i \in DOMAIN Row(k)' /\ Row(k)'[i].fp = f /\ ~Row(k)'[i].dup
    <3>1. CASE k = 0
      BY <2>1, <2>2, <2>3, <3>1 DEF SameChunk
    <3>2. CASE k # 0
      BY <2>2, <2>3, <3>2
    <3> QED BY <3>1, <3>2
  <2> QED BY <2>2, <2>3, <2>4
<1>7. CASE FilterRelease
  <2>1. /\ cur' = <<>> /\ UNCHANGED <<flight, seg>>
        /\ Occurs(cur, f) = {} => buffered'[f] = buffered[f]
        /\ Occurs(cur, f) # {} => buffered'[f] \in Seq(Nat)
    BY <1>7, ReleaseFacts
  <2>2. /\ Len(flight) \in Nat /\ Len(flight)' = Len(flight) /\ Row(0) = cur
        /\ \A k \in 1..(Len(flight) + 1) : Row(k)' = Row(k)
    BY <2>1, RowsFilter
  <2>3. Occurs(cur, f) = {}
    <3> SUFFICES ASSUME Occurs(cur, f) # {} PROVE FALSE
      OBVIOUS
    <3>1. Head(buffered'[f]) \in Nat
      BY <2>1
    <3> QED BY <3>1 DEF TEMPORARY_ID
  <2>4. PICK k, i : /\ k \in 0..(Len(flight) + 1) /\ i \in DOMAIN Row(k)
                    /\ Row(k)[i].fp = f /\ ~Row(k)[i].dup
    BY <1>1, <2>1, <2>3
  <2>5. k # 0
    BY <2>2, <2>3, <2>4 DEF Occurs
  <2>6. k \in 0..(Len(flight)' + 1) /\ Row(k)' = Row(k)
    BY <2>2, <2>4, <2>5
  <2> QED BY <2>4, <2>6
<1>8. CASE NextSession
  <2>1. buffered' = [g \in FP |-> <<>>]
    BY <1>8 DEF NextSession
  <2> QED BY <2>1
<1> QED BY <1>2, <1>3, <1>4, <1>5, <1>6, <1>7, <1>8, Kinds

\* A duplicate without an id finds the unique copy before it in its segment.
LEMMA ResolvedStep ==
  ASSUME IInv, [Next]_vars
  PROVE  Resolved'
<1>0. Resolved /\ FilterShape
  BY DEF IInv, Shape
<1>1. CASE UNCHANGED <<cur, pos, unique>>
  BY <1>0, <1>1 DEF Resolved
<1>2. CASE FilterTake
  <2>1. /\ pos' = 1 /\ cur' \in Seq(Chunk) /\ DOMAIN cur' = DOMAIN Row(1) /\ cur = <<>>
        /\ \A i \in DOMAIN cur' :
              /\ SameChunk(cur'[i], Row(1)[i])
              /\ cur'[i].dup /\ cur'[i].id = TEMPORARY_ID => Head(buffered[cur'[i].fp]) = TEMPORARY_ID
    BY <1>2, TakeFacts DEF FilterTake
  <2>2. Len(flight) \in Nat /\ 1 \in 0..(Len(flight) + 1) /\ Row(0) = <<>>
    BY <1>2, RowsTake
  <2>3. ASSUME NEW i \in pos'..Len(cur'), cur'[i].dup, cur'[i].id = TEMPORARY_ID
        PROVE  \E j \in 1..(i - 1) : cur'[j].fp = cur'[i].fp /\ ~cur'[j].dup
    <3> DEFINE f == cur'[i].fp
    <3>1. i \in DOMAIN cur' /\ i \in DOMAIN Row(1)
      BY <2>1
    <3>2. f = Row(1)[i].fp /\ Row(1)[i].dup /\ Head(buffered[f]) = TEMPORARY_ID
      BY <2>1, <2>3, <3>1 DEF SameChunk
    <3>3. f \in FP /\ buffered[f] # <<>>
      BY <2>2, <3>1, <3>2, InFlightBuffered
    <3> HIDE DEF f
    <3>4. PICK k, j : /\ k \in 0..(Len(flight) + 1) /\ j \in DOMAIN Row(k)
                      /\ Row(k)[j].fp = f /\ ~Row(k)[j].dup
      BY <3>2, <3>3 DEF IInv, Promised
    <3>5. k < 1 \/ (k = 1 /\ j <= i)
      BY <2>2, <3>1, <3>2, <3>4 DEF IInv, UniqueFirst
    <3>6. k = 1 /\ j <= i
      <4>1. k # 0
        BY <2>2, <3>4
      <4> QED BY <2>2, <3>4, <3>5, <4>1
    <3>7. j # i
      BY <3>2, <3>4, <3>6
    <3>8. j \in DOMAIN cur' /\ cur'[j].fp = f /\ ~cur'[j].dup
      BY <2>1, <3>4, <3>6 DEF SameChunk
    <3>9. j \in 1..(i - 1)
      <4>1. j \in Nat /\ i \in Nat /\ j >= 1
        BY <2>1, <3>1, <3>8
      <4> QED BY <3>6, <3>7, <4>1
    <3> QED BY <3>8, <3>9 DEF f
  <2>4. 1..(pos' - 1) = {}
    BY <2>1
  <2> QED BY <2>3, <2>4 DEF Resolved
<1>3. CASE Filtering
  <2>1. PICK c \in Chunk : ChunkDone(c)
    BY <1>3 DEF Filtering
  <2>2. /\ pos \in DOMAIN cur /\ pos' = pos + 1 /\ pos \in Nat /\ pos > 0
        /\ cur' \in Seq(Chunk) /\ Len(cur') = Len(cur) /\ DOMAIN cur' = DOMAIN cur
        /\ cur'[pos] = c /\ \A i \in DOMAIN cur : i # pos => cur'[i] = cur[i]
        /\ \A i \in DOMAIN cur : cur'[i].fp = cur[i].fp /\ cur'[i].dup = cur[i].dup
    BY <1>3, <2>1, ChunkRow DEF Filtering, SameChunk
  <2>3. DOMAIN cur = 1..Len(cur) /\ Len(cur) \in Nat
    BY <1>0 DEF FilterShape
  <2>4. ASSUME NEW i \in pos'..Len(cur'), cur'[i].dup, cur'[i].id = TEMPORARY_ID
        PROVE  \E j \in 1..(i - 1) : cur'[j].fp = cur'[i].fp /\ ~cur'[j].dup
    <3>1. i \in pos..Len(cur) /\ i \in DOMAIN cur /\ i # pos
      BY <2>2, <2>3
    <3>2. PICK j \in 1..(i - 1) : cur[j].fp = cur[i].fp /\ ~cur[j].dup
      BY <1>0, <2>2, <2>4, <3>1 DEF Resolved
    <3>3. j \in DOMAIN cur
      BY <2>3, <3>1
    <3> QED BY <2>2, <3>1, <3>2, <3>3
  <2>5. ASSUME NEW j \in 1..(pos' - 1)
        PROVE  cur'[j].id # TEMPORARY_ID /\ (~cur'[j].dup => cur'[j].fp \in DOMAIN unique')
    <3>1. DOMAIN unique \subseteq DOMAIN unique' /\ (~c.dup => c.fp \in DOMAIN unique')
      BY <2>1 DEF ChunkDone, Remember
    <3>2. CASE j = pos
      <4>1. c.id # TEMPORARY_ID
        BY <2>1 DEF ChunkDone, TEMPORARY_ID
      <4> QED BY <2>2, <3>1, <3>2, <4>1
    <3>3. CASE j # pos
      <4>1. j \in 1..(pos - 1) /\ j \in DOMAIN cur
        BY <2>2, <2>3, <3>3
      <4> QED BY <1>0, <2>2, <3>1, <3>3, <4>1 DEF Resolved
    <3> QED BY <3>2, <3>3
  <2> QED BY <2>4, <2>5 DEF Resolved
<1>4. CASE FilterRelease
  <2>1. cur' = <<>> /\ pos' = 1
    BY <1>4, ReleaseFacts
  <2> QED BY <2>1 DEF Resolved
<1>5. UNCHANGED <<cur, pos, unique>> \/ FilterTake \/ Filtering \/ FilterRelease
  <2>1. CASE Still
    BY <2>1 DEF Still
  <2>2. CASE Looking
    BY <2>2 DEF Looking, Outcome, LookedUp, filterVars
  <2>3. CASE SendSegment \/ NextSession
    BY <2>3 DEF SendSegment, NextSession, filterVars
  <2> QED BY <2>1, <2>2, <2>3, Kinds
<1> QED BY <1>1, <1>2, <1>3, <1>4, <1>5

\* What the segment remembers of itself is so.
LEMMA RememberedStep ==
  ASSUME IInv, [Next]_vars
  PROVE  Remembered'
<1>0. Remembered /\ FilterShape
  BY DEF IInv, Shape
<1>1. StoreKept
  BY AlwaysKept
<1>2. /\ \A f \in DOMAIN unique : f \in FP /\ unique[f] \in Nat /\ HoldsNext(unique[f], f)
      /\ \A f \in DOMAIN rewritten : f \in FP /\ rewritten[f] \in Nat /\ HoldsNext(rewritten[f], f)
  BY <1>0, <1>1 DEF Remembered, StoreKept
<1>3. CASE UNCHANGED <<cur, pos, unique, rewritten>>
  BY <1>0, <1>2, <1>3 DEF Remembered, Holds, HoldsNext
<1>4. CASE FilterTake \/ FilterRelease
  <2>1. unique' = Empty /\ rewritten' = Empty
    BY <1>4 DEF FilterTake, FilterRelease
  <2>2. DOMAIN unique' = {} /\ DOMAIN rewritten' = {}
    BY <2>1 DEF Empty
  <2> QED BY <2>2 DEF Remembered
<1>5. CASE Filtering
  <2>1. PICK c \in Chunk : ChunkDone(c)
    BY <1>5 DEF Filtering
  <2>2. /\ pos \in DOMAIN cur /\ pos' = pos + 1 /\ pos \in Nat /\ pos > 0
        /\ cur'[pos] = c /\ \A i \in DOMAIN cur : i # pos => cur'[i] = cur[i]
    BY <1>5, <2>1, ChunkRow DEF Filtering
  <2>3. c.fp \in FP /\ c.id \in Nat /\ HoldsNext(c.id, c.fp)
    BY <2>1 DEF ChunkDone, Chunk
  <2>4. unique' = unique \/ unique' = Remember(unique, c.fp, c.id)
    BY <2>1 DEF ChunkDone
  <2>5. rewritten' = rewritten \/ rewritten' = Remember(rewritten, c.fp, c.id)
    BY <2>1 DEF ChunkDone
  <2>6. ASSUME NEW f \in DOMAIN unique' PROVE f \in FP /\ unique'[f] \in Nat /\ HoldsNext(unique'[f], f)
    <3>1. \/ f \in DOMAIN unique /\ unique'[f] = unique[f]
          \/ f = c.fp /\ unique'[f] = c.id
      BY <2>4 DEF Remember
    <3> QED BY <1>2, <2>3, <3>1
  <2>7. ASSUME NEW f \in DOMAIN rewritten'
        PROVE  /\ f \in FP /\ rewritten'[f] \in Nat /\ HoldsNext(rewritten'[f], f)
               /\ f \in DOMAIN rewritten \/ f = c.fp
    <3>1. \/ f \in DOMAIN rewritten /\ rewritten'[f] = rewritten[f]
          \/ f = c.fp /\ rewritten'[f] = c.id
      BY <2>5 DEF Remember
    <3> QED BY <1>2, <2>3, <3>1
  <2>8. ASSUME NEW f \in DOMAIN rewritten' PROVE \E j \in 1..(pos' - 1) : cur'[j].fp = f
    <3>1. CASE f = c.fp
      <4>1. pos \in 1..(pos' - 1)
        BY <2>2
      <4> QED BY <2>2, <3>1, <4>1
    <3>2. CASE f # c.fp
      <4>1. PICK j \in 1..(pos - 1) : cur[j].fp = f
        BY <1>0, <2>7, <3>2 DEF Remembered
      <4>2. j \in 1..(pos' - 1) /\ j # pos /\ j \in DOMAIN cur
        BY <1>0, <2>2, <4>1 DEF FilterShape
      <4> QED BY <2>2, <4>1, <4>2
    <3> QED BY <3>1, <3>2
  <2> QED BY <2>6, <2>7, <2>8 DEF Remembered, Holds, HoldsNext
<1>6. UNCHANGED <<cur, pos, unique, rewritten>> \/ FilterTake \/ Filtering \/ FilterRelease
  <2>1. CASE Still
    BY <2>1 DEF Still
  <2>2. CASE Looking
    BY <2>2 DEF Looking, Outcome, LookedUp, filterVars
  <2>3. CASE SendSegment \/ NextSession
    BY <2>3 DEF SendSegment, NextSession, filterVars
  <2> QED BY <2>1, <2>2, <2>3, Kinds
<1> QED BY <1>3, <1>4, <1>5, <1>6

-----------------------------------------------------------------------------
(* The theorems.                                                           *)

\* All of it holds when the first backup starts.
LEMMA InitEstablishes == Init => IInv
<1> SUFFICES ASSUME Init PROVE IInv
  OBVIOUS
<1>1. /\ stream = <<>> /\ lock = "none" /\ dedup = "segment" /\ todo = <<>> /\ seg = <<>> /\ flight = <<>>
      /\ buffered = [f \in FP |-> <<>>] /\ cache = <<>> /\ kv = [k \in Keys |-> TEMPORARY_ID]
      /\ filter = "reassemble" /\ cur = <<>> /\ pos = 1 /\ unique = Empty /\ rewritten = Empty
      /\ buf = NoContainer /\ count = 0 /\ containers = [id \in {} |-> {}]
      /\ recipe = <<>> /\ archive = {} /\ session = 1 /\ config \in Configs
  BY DEF Init
<1>2. MaxSessions \in Nat \ {0} /\ CacheSize \in Nat \ {0}
  BY PipelineAssumption
<1>3. DedupShape /\ FilterShape /\ LockShape
  BY <1>1 DEF DedupShape, FilterShape, LockShape
<1>4. FlightShape
  BY <1>1 DEF FlightShape
<1>5. StoreShape
  <2>1. NoContainer \in [id : Id, fps : SUBSET FP]
    BY DEF NoContainer, Id
  <2>2. DOMAIN containers = {} /\ 0..(count - 1) = {}
    BY <1>1
  <2> QED BY <1>1, <2>1, <2>2 DEF StoreShape
<1>6. IndexShape
  BY <1>1, <1>2 DEF IndexShape, Id
<1>7. RecipeShape
  BY <1>1, <1>2 DEF RecipeShape
<1>8. IndexKnows
  BY <1>1 DEF IndexKnows, IndexSound, Indexed
<1>9. Len(flight) = 0 /\ \A k \in 0..1 : Row(k) = <<>>
  BY <1>1 DEF Row
<1>10. Counted
  <2> SUFFICES ASSUME NEW f \in FP
               PROVE  IsFiniteSet(Places(f)) /\ Cardinality(Places(f)) = Len(buffered[f])
    BY DEF Counted
  <2>1. \A p : p \notin Places(f)
    BY <1>9, PlaceOf
  <2>2. Places(f) = {}
    BY <2>1
  <2> QED BY <1>1, <2>2, FS_EmptySet
<1>11. UniqueFirst /\ UniqueFresh /\ Promised
  BY <1>1, <1>9 DEF UniqueFirst, UniqueFresh, Promised
<1>12. IdsHold
  BY <1>1, <1>9 DEF IdsHold
<1>13. Resolved /\ Remembered
  BY <1>1 DEF Resolved, Remembered, Empty
<1>14. Recorded
  BY <1>1 DEF Recorded
<1> QED BY <1>3, <1>4, <1>5, <1>6, <1>7, <1>8, <1>10, <1>11, <1>12, <1>13, <1>14 DEF IInv, Shape

\* And every step keeps it.
LEMMA StepKeeps == IInv /\ [Next]_vars => IInv'
BY ShapeStep, CountedStep, UniqueFirstStep, UniqueFreshStep, IdsHoldStep, PromisedStep,
   ResolvedStep, RememberedStep DEF IInv

\* The inductive invariant holds throughout.
THEOREM PipelineInvariant == Spec => []IInv
BY InitEstablishes, StepKeeps, PTL DEF Spec

\* The index buffer holds one id per copy in flight, no two of a kind that
\* contradict, and none that names a container without the chunk; while the
\* first copy waits to be written no other way leads to the chunk.
THEOREM IndexBufferSound == Spec => []BufferSound
<1>1. ASSUME IInv PROVE BufferCountsFlight
  BY <1>1 DEF IInv, Counted, BufferCountsFlight, InFlight
<1>2. ASSUME IInv, NEW f \in FP, buffered[f] # <<>>, Head(buffered[f]) = TEMPORARY_ID,
             filter # "chunks"
      PROVE  f \notin buf.fps
  <2>1. PICK k, i : /\ k \in 0..(Len(flight) + 1) /\ i \in DOMAIN Row(k)
                    /\ Row(k)[i].fp = f /\ ~Row(k)[i].dup
    BY <1>2 DEF IInv, Promised
  <2>2. k # 0
    BY <1>2, <2>1 DEF Row, IInv, Shape, FilterShape
  <2>3. Waits(k, i)
    BY <2>1, <2>2 DEF Waits, Place
  <2> QED BY <1>2, <2>1, <2>3 DEF IInv, UniqueFresh
<1>3. IInv => BufferCoherent
  <2>1. IInv => \A f \in FP : \A i \in DOMAIN buffered[f] :
          buffered[f][i] # TEMPORARY_ID => Holds(buffered[f][i], f)
    BY DEF IInv, IdsHold
  <2> QED BY <1>2, <2>1 DEF BufferCoherent
<1>4. IInv => BufferSound
  BY <1>1, <1>3 DEF BufferSound
<1> QED BY <1>4, PipelineInvariant, PTL

\* Every recipe, of this backup and of the earlier ones, names for each chunk a
\* container that holds it.
THEOREM RecipesRestorable == Spec => []RecipeRestorable
<1>1. IInv => RecipeRestorable
  BY DEF IInv, Recorded, RecipeRestorable
<1> QED BY <1>1, PipelineInvariant, PTL

\* The index names only containers that were handed over, each under the key of a
\* fingerprint, and an exact one all of them once the backup is over.
THEOREM IndexAgreement == Spec => []IndexAgrees
<1>1. IInv => IndexAgrees
  BY DEF IInv, IndexKnows, IndexAgrees, IndexComplete
<1> QED BY <1>1, PipelineInvariant, PTL

-----------------------------------------------------------------------------
(* The pipeline keeps the order of the stream.                             *)

\* Recipe, rows and what is still to be looked up are the stream, piece by
\* piece: off[k] chunks of it lie before row k.
Offsets(off) ==
  /\ off \in [0..(Len(flight) + 2) -> 0..Len(stream)]
  /\ off[0] = Len(recipe)
  /\ \A k \in 0..(Len(flight) + 1) :
       /\ off[k] <= off[k + 1] /\ DOMAIN Row(k) = 1..(off[k + 1] - off[k])
       /\ \A i \in DOMAIN Row(k) : stream[off[k] + i] = Row(k)[i].fp
  /\ Len(stream) = off[Len(flight) + 2] + Len(todo)
  /\ \A i \in DOMAIN todo : stream[off[Len(flight) + 2] + i] = todo[i]

\* So the recipe is a beginning of the stream.
InOrder ==
  /\ \E off : Offsets(off)
  /\ \A i \in DOMAIN recipe : stream[i] = recipe[i].fp

\* What an exact index and no rewriting leave to write: unique chunks, of which
\* no container has a copy.
Plain ==
  /\ config.rewriting = "no" => \A i \in DOMAIN cur : cur[i].mark = "none"
  /\ config.exact => \A k \in 0..(Len(flight) + 1) : \A i \in DOMAIN Row(k) :
                       ~Row(k)[i].dup => Row(k)[i].since = 0

\* Intervals that are equal are of the same length.
LEMMA IntervalLength ==
  ASSUME NEW a \in Nat, NEW b \in Nat, 1..a = 1..b
  PROVE  a = b
<1>1. CASE a < b
  <2>1. b \in 1..b /\ b \notin 1..a
    BY <1>1
  <2> QED BY <2>1
<1>2. CASE b < a
  <2>1. a \in 1..a /\ a \notin 1..b
    BY <1>2
  <2> QED BY <2>1
<1> QED BY <1>1, <1>2

\* The offsets are numbers and the rows lie within the stream.
LEMMA OffsetsType ==
  ASSUME IInv, NEW off, Offsets(off)
  PROVE  /\ Len(flight) \in Nat /\ Len(stream) \in Nat /\ Len(recipe) \in Nat
         /\ stream \in Seq(FP) /\ todo \in Seq(FP) /\ recipe \in Seq([fp : FP, id : Nat])
         /\ \A k \in 0..(Len(flight) + 2) : off[k] \in Nat /\ off[k] <= Len(stream)
<1>1. flight \in Seq(Seq(Chunk)) /\ stream \in Seq(FP) /\ todo \in Seq(FP)
      /\ recipe \in Seq([fp : FP, id : Nat])
  BY DEF IInv, Shape, FlightShape, DedupShape, RecipeShape
<1>2. Len(flight) \in Nat /\ Len(stream) \in Nat /\ Len(recipe) \in Nat
  BY <1>1
<1>3. \A k \in 0..(Len(flight) + 2) : off[k] \in 0..Len(stream)
  BY DEF Offsets
<1> QED BY <1>1, <1>2, <1>3

\* A step that keeps stream and recipe, and the fingerprints row by row.
LEMMA SameOrder ==
  ASSUME InOrder, UNCHANGED <<stream, todo, recipe>>, Len(flight)' = Len(flight),
         \A k \in 0..(Len(flight) + 1) :
           DOMAIN Row(k)' = DOMAIN Row(k) /\ \A i \in DOMAIN Row(k) : Row(k)'[i].fp = Row(k)[i].fp
  PROVE  InOrder'
<1>1. PICK off : Offsets(off)
  BY DEF InOrder
<1>2. ASSUME NEW k \in 0..(Len(flight) + 1)
      PROVE  /\ off[k] <= off[k + 1] /\ DOMAIN Row(k)' = 1..(off[k + 1] - off[k])
             /\ \A i \in DOMAIN Row(k)' : stream[off[k] + i] = Row(k)'[i].fp
  BY <1>1, Zenon DEF Offsets
<1>3. /\ off \in [0..(Len(flight) + 2) -> 0..Len(stream)] /\ off[0] = Len(recipe)
      /\ Len(stream) = off[Len(flight) + 2] + Len(todo)
      /\ \A i \in DOMAIN todo : stream[off[Len(flight) + 2] + i] = todo[i]
  BY <1>1 DEF Offsets
<1>4. Offsets(off)'
  BY <1>2, <1>3, Zenon DEF Offsets
<1> QED BY <1>4 DEF InOrder

\* Reading a segment lengthens the stream by what is to be looked up.
LEMMA OrderBegin ==
  ASSUME IInv, InOrder, NEW fps \in Segments, BeginSegment(fps)
  PROVE  InOrder'
<1>1. PICK off : Offsets(off)
  BY DEF InOrder
<1>2. /\ dedup = "segment" /\ stream' = Cat(stream, fps) /\ todo' = fps /\ seg' = <<>>
      /\ UNCHANGED <<flight, cur, recipe>>
  BY DEF BeginSegment, Cat, filterVars, recipeVars
<1>3. seg = <<>> /\ todo = <<>> /\ stream \in Seq(FP)
  BY <1>2 DEF IInv, Shape, DedupShape
<1>4. fps \in Seq(FP)
  BY SegmentIsSeq
<1>5. /\ Len(stream') = Len(stream) + Len(fps)
      /\ \A i \in 1..Len(stream) : stream'[i] = stream[i]
      /\ \A i \in 1..Len(fps) : stream'[Len(stream) + i] = fps[i]
  <2>1. stream \in Seq(FP) /\ fps \in Seq(FP)
    BY <1>3, <1>4
  <2>2. /\ Len(Cat(stream, fps)) = Len(stream) + Len(fps)
        /\ \A i \in 1..(Len(stream) + Len(fps)) :
             \/ i \in 1..Len(stream) /\ Cat(stream, fps)[i] = stream[i]
             \/ i - Len(stream) \in 1..Len(fps) /\ Cat(stream, fps)[i] = fps[i - Len(stream)]
    BY <2>1, CatSeq, Zenon
  <2>3. Len(stream) \in Nat /\ Len(fps) \in Nat
    BY <2>1
  <2>4. ASSUME NEW i \in 1..Len(stream) PROVE stream'[i] = stream[i]
    <3>1. i \in 1..(Len(stream) + Len(fps)) /\ i - Len(stream) \notin 1..Len(fps)
      BY <2>3
    <3> QED BY <1>2, <2>2, <3>1
  <2>5. ASSUME NEW i \in 1..Len(fps) PROVE stream'[Len(stream) + i] = fps[i]
    <3>1. PICK j \in Nat : j = Len(stream) + i
      BY <2>3
    <3>2. j \in 1..(Len(stream) + Len(fps)) /\ j \notin 1..Len(stream) /\ j - Len(stream) = i
      BY <2>3, <3>1
    <3> QED BY <1>2, <2>2, <3>1, <3>2
  <2> QED BY <1>2, <2>2, <2>4, <2>5
<1>6. Len(flight)' = Len(flight) /\ \A k : Row(k)' = Row(k)
  BY <1>2, <1>3 DEF Row
<1>7. /\ Len(flight) \in Nat /\ Len(stream) \in Nat /\ Len(fps) \in Nat /\ Len(recipe) \in Nat
      /\ \A k \in 0..(Len(flight) + 2) : off[k] \in Nat /\ off[k] <= Len(stream)
  BY <1>1, <1>4, OffsetsType
<1>8. off[Len(flight) + 2] = Len(stream)
  BY <1>1, <1>3, <1>7 DEF Offsets
<1>9. off \in [0..(Len(flight) + 2) -> 0..Len(stream')]
  <2>1. off \in [0..(Len(flight) + 2) -> 0..Len(stream)]
    BY <1>1, Zenon DEF Offsets
  <2>2. 0..Len(stream) \subseteq 0..Len(stream')
    BY <1>5, <1>7
  <2> QED BY <2>1, <2>2
<1>10. ASSUME NEW k \in 0..(Len(flight) + 1), NEW i \in DOMAIN Row(k)
       PROVE  stream'[off[k] + i] = Row(k)[i].fp
  <2>1. i \in 1..(off[k + 1] - off[k]) /\ stream[off[k] + i] = Row(k)[i].fp
    BY <1>1 DEF Offsets
  <2>2. off[k] + i \in 1..Len(stream)
    <3>1. k \in 0..(Len(flight) + 2) /\ k + 1 \in 0..(Len(flight) + 2)
      BY <1>7
    <3>2. off[k] \in Nat /\ off[k + 1] \in Nat /\ off[k + 1] <= Len(stream)
      BY <1>7, <3>1
    <3>3. Len(stream) \in Nat /\ i \in Nat /\ i > 0 /\ i <= off[k + 1] - off[k]
      BY <1>7, <2>1, <3>2
    <3>4. PICK a \in Nat, b \in Nat : a = off[k] /\ b = off[k + 1]
      BY <3>2
    <3>5. a + i \in 1..Len(stream)
      <4>1. b <= Len(stream) /\ i <= b - a
        BY <3>2, <3>3, <3>4
      <4> QED BY <3>3, <4>1
    <3> QED BY <3>4, <3>5
  <2> QED BY <1>5, <2>1, <2>2
<1>11. Offsets(off)'
  <2>1. /\ off[0] = Len(recipe')
        /\ \A k \in 0..(Len(flight)' + 1) :
             /\ off[k] <= off[k + 1] /\ DOMAIN Row(k)' = 1..(off[k + 1] - off[k])
             /\ \A i \in DOMAIN Row(k)' : stream'[off[k] + i] = Row(k)'[i].fp
    BY <1>1, <1>2, <1>6, <1>10 DEF Offsets
  <2>2. \A i \in DOMAIN todo' : stream'[off[Len(flight)' + 2] + i] = todo'[i]
    BY <1>2, <1>4, <1>5, <1>6, <1>8
  <2> QED BY <1>2, <1>5, <1>6, <1>8, <1>9, <2>1, <2>2 DEF Offsets
<1>12. ASSUME NEW i \in DOMAIN recipe
       PROVE  stream'[i] = recipe[i].fp
  <2>1. i \in 1..Len(recipe)
    BY <1>1, OffsetsType
  <2>2. Len(recipe) <= Len(stream)
    BY <1>1, <1>7 DEF Offsets
  <2> QED BY <1>5, <1>7, <2>1, <2>2 DEF InOrder
<1> QED BY <1>2, <1>11, <1>12 DEF InOrder

\* A lookup moves a chunk from todo to the last row.
LEMMA OrderLookup ==
  ASSUME IInv, InOrder, Looking
  PROVE  InOrder'
<1>1. PICK off : Offsets(off)
  BY DEF InOrder
<1>2. PICK id \in Id, dup \in BOOLEAN, denied \in BOOLEAN : LookedUp(id, dup, denied)
  BY DEF Looking, Outcome
<1>3. UNCHANGED <<stream, recipe>> /\ todo' = Tail(todo) /\ dedup = "lookup"
  BY <1>2 DEF Looking, LookedUp, recipeVars
<1>4. PICK n, m : n \in Nat /\ m \in Nat /\ LookupMoves(id, dup, n, m)
  BY <1>2, <1>3, LookupMovesSo
<1>5. /\ Len(flight)' = Len(flight) /\ n = Len(flight) + 1
      /\ \A k \in 0..Len(flight) : Row(k)' = Row(k)
      /\ DOMAIN Row(n)' = DOMAIN Row(n) \cup {m} /\ DOMAIN Row(n) = 1..(m - 1)
      /\ \A i \in DOMAIN Row(n) : Row(n)'[i] = Row(n)[i]
      /\ Row(n)'[m].fp = Head(todo)
  BY <1>4 DEF LookupMoves
<1>6. /\ Len(flight) \in Nat /\ Len(stream) \in Nat /\ todo \in Seq(FP) /\ todo # <<>>
      /\ \A k \in 0..(Len(flight) + 2) : off[k] \in Nat /\ off[k] <= Len(stream)
  BY <1>1, <1>3, OffsetsType DEF IInv, Shape, DedupShape
<1>7. /\ DOMAIN todo = 1..Len(todo) /\ Len(todo) \in Nat \ {0} /\ Len(todo') = Len(todo) - 1
      /\ DOMAIN todo' = 1..(Len(todo) - 1) /\ \A i \in 1..(Len(todo) - 1) : todo'[i] = todo[i + 1]
      /\ Head(todo) = todo[1]
  BY <1>3, <1>6
<1> DEFINE z == n + 1
           new == [off EXCEPT ![z] = @ + 1]
<1>8. z = Len(flight) + 2 /\ off[z] \in Nat /\ off[n] \in Nat /\ DOMAIN off = 0..z
  BY <1>1, <1>5, <1>6 DEF Offsets
<1>9. /\ off[n] <= off[z] /\ DOMAIN Row(n) = 1..(off[z] - off[n]) /\ Len(stream) = off[z] + Len(todo)
      /\ \A i \in DOMAIN Row(n) : stream[off[n] + i] = Row(n)[i].fp
      /\ \A i \in DOMAIN todo : stream[off[z] + i] = todo[i]
  <2>1. n \in 0..(Len(flight) + 1) /\ z = n + 1 /\ z = Len(flight) + 2
    BY <1>4, <1>5, <1>6
  <2> HIDE DEF z
  <2>2. /\ off[n] <= off[n + 1] /\ DOMAIN Row(n) = 1..(off[n + 1] - off[n])
        /\ \A i \in DOMAIN Row(n) : stream[off[n] + i] = Row(n)[i].fp
    BY <1>1, <2>1, Zenon DEF Offsets
  <2>3. /\ Len(stream) = off[Len(flight) + 2] + Len(todo)
        /\ \A i \in DOMAIN todo : stream[off[Len(flight) + 2] + i] = todo[i]
    BY <1>1, Zenon DEF Offsets
  <2> QED BY <2>1, <2>2, <2>3
<1>10. m # 0
  <2> SUFFICES ASSUME m = 0 PROVE FALSE
    OBVIOUS
  <2>1. Looking => Row(n)' \in Seq(Chunk)
    <3>1. seg' \in Seq(Chunk)
      BY <1>2, <1>3, LookupShape
    <3>2. Row(n)' = seg'
      BY <1>3, <1>5, <1>2, RowsLookup DEF LookedUp, filterVars
    <3> QED BY <3>1, <3>2
  <2>2. 0 \in DOMAIN Row(n)'
    BY <1>5
  <2> QED BY <2>1, <2>2
<1>11. off[z] - off[n] = m - 1
  <2>1. off[z] - off[n] \in Nat /\ m - 1 \in Nat
    BY <1>4, <1>8, <1>9, <1>10
  <2>2. 1..(off[z] - off[n]) = 1..(m - 1)
    BY <1>5, <1>9
  <2> QED BY <2>1, <2>2, IntervalLength, Zenon
<1>12. new[z] = off[z] + 1 /\ \A k \in 0..n : new[k] = off[k]
  BY <1>4, <1>8
<1>13. new \in [0..(Len(flight) + 2) -> 0..Len(stream)]
  <2>1. off[z] + 1 \in 0..Len(stream)
    <3>1. Len(todo) \in Nat \ {0} /\ off[z] \in Nat /\ Len(stream) = off[z] + Len(todo)
      BY <1>7, <1>8, <1>9
    <3> QED BY <3>1
  <2> QED BY <1>1, <2>1 DEF Offsets
<1> HIDE DEF new, z
<1>14. ASSUME NEW k \in 0..(Len(flight) + 1)
       PROVE  /\ new[k] <= new[k + 1] /\ DOMAIN Row(k)' = 1..(new[k + 1] - new[k])
              /\ \A i \in DOMAIN Row(k)' : stream[new[k] + i] = Row(k)'[i].fp
  <2>1. CASE k = n
    <3>1. new[k] = off[n] /\ new[k + 1] = off[z] + 1
      BY <1>4, <1>12, <2>1 DEF z
    <3>2. (off[z] + 1) - off[n] = m /\ off[n] + m = off[z] + 1
      BY <1>4, <1>8, <1>11
    <3>3. DOMAIN Row(n)' = 1..m
      <4>1. (1..(m - 1)) \cup {m} = 1..m
        BY <1>4, <1>10
      <4> QED BY <1>5, <4>1
    <3>4. stream[off[n] + m] = Row(n)'[m].fp
      <4>1. 1 \in DOMAIN todo
        BY <1>7
      <4> QED BY <1>5, <1>7, <1>9, <3>2, <4>1
    <3>5. \A i \in DOMAIN Row(n)' : stream[off[n] + i] = Row(n)'[i].fp
      BY <1>5, <1>9, <3>4
    <3>6. off[n] <= off[z] + 1
      <4>1. off[n] \in Nat /\ off[z] \in Nat /\ off[n] <= off[z]
        BY <1>8, <1>9
      <4> QED BY <4>1
    <3> QED BY <2>1, <3>1, <3>2, <3>3, <3>5, <3>6
  <2>2. CASE k # n
    <3>1. k \in 0..Len(flight) /\ k \in 0..n /\ k + 1 \in 0..n
      BY <1>5, <1>6, <2>2
    <3>2. new[k] = off[k] /\ new[k + 1] = off[k + 1] /\ Row(k)' = Row(k)
      BY <1>5, <1>12, <3>1
    <3> QED BY <1>1, <3>2 DEF Offsets
  <2> QED BY <2>1, <2>2
<1>15. new[0] = Len(recipe)
  BY <1>1, <1>4, <1>12 DEF Offsets
<1>16. Len(stream) = new[z] + Len(todo')
  BY <1>7, <1>8, <1>9, <1>12
<1>17. ASSUME NEW i \in DOMAIN todo'
       PROVE  stream[new[z] + i] = todo'[i]
  <2>1. i \in Nat /\ i + 1 \in DOMAIN todo /\ todo'[i] = todo[i + 1]
    BY <1>7
  <2>2. new[z] + i = off[z] + (i + 1)
    BY <1>8, <1>12, <2>1
  <2> QED BY <1>9, <2>1, <2>2
<1>18. Offsets(new)'
  BY <1>3, <1>5, <1>8, <1>13, <1>14, <1>15, <1>16, <1>17 DEF Offsets
<1> QED BY <1>3, <1>18 DEF InOrder

\* A segment that is sent becomes the last in flight.
LEMMA OrderSend ==
  ASSUME IInv, InOrder, SendSegment
  PROVE  InOrder'
<1>1. PICK off : Offsets(off)
  BY DEF InOrder
<1>2. dedup = "send" /\ UNCHANGED <<stream, todo, recipe>>
  BY DEF SendSegment, recipeVars
<1>3. todo = <<>>
  BY <1>2 DEF IInv, Shape, DedupShape
<1>4. /\ Len(flight) \in Nat /\ Len(flight)' = Len(flight) + 1
      /\ \A k \in 0..(Len(flight) + 1) : Row(k)' = Row(k)
      /\ \A k \in Nat : k = Len(flight) + 2 => Row(k)' = <<>>
  BY RowsSend
<1>5. PICK z \in Nat : z = Len(flight) + 2
  BY <1>4
<1> DEFINE new == [k \in 0..(z + 1) |-> IF k = z + 1 THEN off[z] ELSE off[k]]
<1>6. /\ off \in [0..z -> 0..Len(stream)] /\ off[0] = Len(recipe)
      /\ \A k \in 0..(z - 1) :
           /\ off[k] <= off[k + 1] /\ DOMAIN Row(k) = 1..(off[k + 1] - off[k])
           /\ \A i \in DOMAIN Row(k) : stream[off[k] + i] = Row(k)[i].fp
      /\ Len(stream) = off[z] + Len(todo)
  <2>1. Len(flight) + 1 = z - 1
    BY <1>4, <1>5
  <2> QED BY <1>1, <1>5, <2>1 DEF Offsets
<1>7. off[z] \in Nat
  BY <1>1, <1>5, OffsetsType
<1>8. new \in [0..(z + 1) -> 0..Len(stream)]
  BY <1>6
<1>9. \A k \in 0..z : new[k] = off[k]
  BY <1>5
<1>10. new[z + 1] = off[z]
  BY <1>5
<1> HIDE DEF new
<1>11. ASSUME NEW k \in 0..z
       PROVE  /\ new[k] <= new[k + 1] /\ DOMAIN Row(k)' = 1..(new[k + 1] - new[k])
              /\ \A i \in DOMAIN Row(k)' : stream[new[k] + i] = Row(k)'[i].fp
  <2>1. CASE k = z
    <3>1. Row(k)' = <<>> /\ new[k] = off[z] /\ new[k + 1] = off[z]
      BY <1>4, <1>5, <1>9, <1>10, <2>1
    <3>2. DOMAIN Row(k)' = {} /\ 1..(off[z] - off[z]) = {}
      BY <1>7, <3>1
    <3> QED BY <1>7, <3>1, <3>2
  <2>2. CASE k # z
    <3>1. k \in 0..(z - 1) /\ k \in 0..z /\ k + 1 \in 0..z /\ k \in 0..(Len(flight) + 1)
      BY <1>4, <1>5, <2>2
    <3>2. new[k] = off[k] /\ new[k + 1] = off[k + 1] /\ Row(k)' = Row(k)
      BY <1>4, <1>9, <3>1
    <3> QED BY <1>6, <3>1, <3>2
  <2> QED BY <2>1, <2>2
<1>12. Len(flight)' + 2 = z + 1 /\ Len(flight)' + 1 = z
  BY <1>4, <1>5
<1>13. new[0] = Len(recipe) /\ Len(stream) = new[z + 1] + Len(todo)
  BY <1>6, <1>9, <1>10
<1>14. \A i \in DOMAIN todo : stream[new[z + 1] + i] = todo[i]
  BY <1>3
<1>15. Offsets(new)'
  BY <1>2, <1>8, <1>11, <1>12, <1>13, <1>14 DEF Offsets
<1> QED BY <1>2, <1>15 DEF InOrder

\* The segment taken is the one after nothing.
LEMMA OrderTake ==
  ASSUME IInv, InOrder, FilterTake
  PROVE  InOrder'
<1>1. PICK off : Offsets(off)
  BY DEF InOrder
<1>2. UNCHANGED <<stream, todo, recipe>>
  BY DEF FilterTake, dedupVars, recipeVars
<1>3. /\ Len(flight) \in Nat \ {0} /\ Len(flight)' = Len(flight) - 1
      /\ Row(0) = <<>> /\ Row(0)' = cur' /\ DOMAIN cur' = DOMAIN Row(1)
      /\ \A k \in 1..Len(flight) : Row(k)' = Row(k + 1)
  BY RowsTake
<1>4. \A i \in DOMAIN cur' : cur'[i].fp = Row(1)[i].fp
  BY TakeFacts DEF SameChunk
<1>5. PICK z \in Nat : z = Len(flight) + 1
  BY <1>3
<1>6. /\ off \in [0..(z + 1) -> 0..Len(stream)] /\ off[0] = Len(recipe)
      /\ \A k \in 0..z :
           /\ off[k] <= off[k + 1] /\ DOMAIN Row(k) = 1..(off[k + 1] - off[k])
           /\ \A i \in DOMAIN Row(k) : stream[off[k] + i] = Row(k)[i].fp
      /\ Len(stream) = off[z + 1] + Len(todo)
      /\ \A i \in DOMAIN todo : stream[off[z + 1] + i] = todo[i]
  <2>1. Len(flight) + 2 = z + 1 /\ Len(flight) + 1 = z
    BY <1>3, <1>5
  <2> QED BY <1>1, <2>1 DEF Offsets
<1>7. off[1] = Len(recipe)
  <2>1. off[0] \in Nat /\ off[1] \in Nat
    BY <1>1, <1>3, OffsetsType
  <2>2. 1..(off[1] - off[0]) = 1..0 /\ off[1] - off[0] \in Nat
    <3>1. 0 \in 0..z /\ 0 + 1 = 1
      BY <1>5
    <3>2. off[0] <= off[0 + 1] /\ DOMAIN Row(0) = 1..(off[0 + 1] - off[0])
      BY <1>6, <3>1, Zenon
    <3>3. DOMAIN Row(0) = 1..0
      BY <1>3
    <3>4. off[0] <= off[1] /\ 1..(off[1] - off[0]) = 1..0
      BY <3>1, <3>2, <3>3
    <3> QED BY <2>1, <3>4
  <2>3. off[1] - off[0] = 0
    BY <2>2, IntervalLength
  <2> QED BY <1>6, <2>1, <2>3
<1> DEFINE new == [k \in 0..z |-> off[k + 1]]
<1>8. new \in [0..z -> 0..Len(stream)] /\ \A k \in 0..z : new[k] = off[k + 1]
  BY <1>6
<1> HIDE DEF new
<1>9. ASSUME NEW k \in 0..(z - 1)
      PROVE  /\ new[k] <= new[k + 1] /\ DOMAIN Row(k)' = 1..(new[k + 1] - new[k])
             /\ \A i \in DOMAIN Row(k)' : stream[new[k] + i] = Row(k)'[i].fp
  <2>1. k \in 0..z /\ k + 1 \in 0..z
    BY <1>5
  <2>2. new[k] = off[k + 1] /\ new[k + 1] = off[(k + 1) + 1]
    BY <1>8, <2>1
  <2>3. DOMAIN Row(k)' = DOMAIN Row(k + 1) /\ \A i \in DOMAIN Row(k)' : Row(k)'[i].fp = Row(k + 1)[i].fp
    <3>1. CASE k = 0
      BY <1>3, <1>4, <3>1
    <3>2. CASE k # 0
      BY <1>3, <1>5, <3>2
    <3> QED BY <3>1, <3>2
  <2>4. /\ off[k + 1] <= off[(k + 1) + 1] /\ DOMAIN Row(k + 1) = 1..(off[(k + 1) + 1] - off[k + 1])
        /\ \A i \in DOMAIN Row(k + 1) : stream[off[k + 1] + i] = Row(k + 1)[i].fp
    BY <1>6, <2>1
  <2> QED BY <2>2, <2>3, <2>4
<1>10. Len(flight)' + 2 = z /\ Len(flight)' + 1 = z - 1
  BY <1>3, <1>5
<1>11. new[0] = Len(recipe) /\ new[z] = off[z + 1]
  BY <1>5, <1>7, <1>8
<1>12. Offsets(new)'
  BY <1>2, <1>6, <1>8, <1>9, <1>10, <1>11 DEF Offsets
<1> QED BY <1>2, <1>12 DEF InOrder

\* A segment that is through becomes the end of the recipe.
LEMMA OrderRelease ==
  ASSUME IInv, InOrder, FilterRelease
  PROVE  InOrder' /\ Len(recipe') <= Len(stream) /\ Len(recipe) <= Len(recipe') /\ stream' = stream
<1>1. PICK off : Offsets(off)
  BY DEF InOrder
<1>2. UNCHANGED <<stream, todo>> /\ cur' = <<>> /\ UNCHANGED <<flight, seg>>
  BY ReleaseFacts DEF FilterRelease, dedupVars
<1>3. /\ Len(flight) \in Nat /\ Len(flight)' = Len(flight) /\ Row(0) = cur /\ Row(0)' = <<>>
      /\ \A k \in 1..(Len(flight) + 1) : Row(k)' = Row(k)
  BY <1>2, RowsFilter
<1>4. /\ Len(recipe') = Len(recipe) + Len(cur) /\ recipe' \in Seq([fp : FP, id : Nat])
      /\ \A i \in 1..Len(recipe) : recipe'[i] = recipe[i]
      /\ \A i \in 1..Len(cur) : recipe'[Len(recipe) + i] = Pointer(cur[i])
  BY ReleaseRecipe
<1>5. /\ cur \in Seq(Chunk) /\ Len(cur) \in Nat /\ Len(recipe) \in Nat
      /\ DOMAIN cur = 1..Len(cur) /\ DOMAIN recipe = 1..Len(recipe)
  <2>1. cur \in Seq(Chunk) /\ recipe \in Seq([fp : FP, id : Nat])
    BY DEF IInv, Shape, FilterShape, RecipeShape
  <2> QED BY <2>1
<1>6. PICK z \in Nat : z = Len(flight) + 2
  BY <1>3
<1>7. /\ off \in [0..z -> 0..Len(stream)] /\ off[0] = Len(recipe)
      /\ \A k \in 0..(z - 1) :
           /\ off[k] <= off[k + 1] /\ DOMAIN Row(k) = 1..(off[k + 1] - off[k])
           /\ \A i \in DOMAIN Row(k) : stream[off[k] + i] = Row(k)[i].fp
      /\ Len(stream) = off[z] + Len(todo)
      /\ \A i \in DOMAIN todo : stream[off[z] + i] = todo[i]
  <2>1. Len(flight) + 1 = z - 1
    BY <1>3, <1>6
  <2> QED BY <1>1, <1>6, <2>1 DEF Offsets
<1>8. off[0] \in Nat /\ off[1] \in Nat /\ off[1] <= Len(stream) /\ Len(stream) \in Nat /\ off[z] \in Nat
  BY <1>1, <1>3, <1>6, OffsetsType
<1>9. /\ DOMAIN Row(0) = 1..(off[0 + 1] - off[0]) /\ off[0] <= off[0 + 1]
      /\ \A i \in DOMAIN Row(0) : stream[off[0] + i] = Row(0)[i].fp
  <2>1. 0 \in 0..(z - 1)
    BY <1>3, <1>6
  <2> QED BY <1>7, <2>1
<1>10. off[1] = Len(recipe')
  <2>1. 1..(off[1] - off[0]) = 1..Len(cur) /\ off[1] - off[0] \in Nat
    BY <1>3, <1>5, <1>8, <1>9
  <2>2. off[1] - off[0] = Len(cur)
    BY <1>5, <2>1, IntervalLength
  <2> QED BY <1>4, <1>5, <1>7, <1>8, <2>2
<1>11. ASSUME NEW i \in DOMAIN recipe'
       PROVE  stream[i] = recipe'[i].fp
  <2>1. i \in 1..(Len(recipe) + Len(cur))
    BY <1>4
  <2>2. CASE i \in 1..Len(recipe)
    BY <1>4, <1>5, <2>2 DEF InOrder
  <2>3. CASE i \notin 1..Len(recipe)
    <3>1. PICK j \in 1..Len(cur) : i = Len(recipe) + j
      <4>1. i - Len(recipe) \in 1..Len(cur) /\ i = Len(recipe) + (i - Len(recipe))
        BY <1>5, <2>1, <2>3
      <4> QED BY <4>1
    <3>2. recipe'[i].fp = cur[j].fp
      <4>1. recipe'[i] = Pointer(cur[j])
        BY <1>4, <3>1
      <4> QED BY <4>1 DEF Pointer
    <3>3. stream[off[0] + j] = cur[j].fp
      BY <1>3, <1>5, <1>9
    <3>4. stream[Len(recipe) + j] = cur[j].fp
      BY <1>7, <3>3, Zenon
    <3> QED BY <3>1, <3>2, <3>4, Zenon
  <2> QED BY <2>2, <2>3
<1> DEFINE new == [off EXCEPT ![0] = off[1]]
<1>12. /\ new \in [0..z -> 0..Len(stream)] /\ new[0] = off[1]
       /\ \A k \in 1..z : new[k] = off[k]
  BY <1>6, <1>7
<1> HIDE DEF new
<1>13. ASSUME NEW k \in 0..(z - 1)
       PROVE  /\ new[k] <= new[k + 1] /\ DOMAIN Row(k)' = 1..(new[k + 1] - new[k])
              /\ \A i \in DOMAIN Row(k)' : stream[new[k] + i] = Row(k)'[i].fp
  <2>1. CASE k = 0
    <3>1. new[k] = off[1] /\ new[k + 1] = off[1]
      BY <1>3, <1>6, <1>12, <2>1
    <3>2. DOMAIN Row(k)' = {} /\ 1..(off[1] - off[1]) = {}
      BY <1>3, <1>8, <2>1
    <3> QED BY <1>8, <3>1, <3>2
  <2>2. CASE k # 0
    <3>1. k \in 1..z /\ k + 1 \in 1..z /\ k \in 1..(Len(flight) + 1)
      BY <1>3, <1>6, <2>2
    <3>2. new[k] = off[k] /\ new[k + 1] = off[k + 1] /\ Row(k)' = Row(k)
      BY <1>3, <1>12, <3>1
    <3> QED BY <1>7, <3>2
  <2> QED BY <2>1, <2>2
<1>14. Len(flight)' + 2 = z /\ Len(flight)' + 1 = z - 1 /\ new[z] = off[z]
  BY <1>3, <1>6, <1>12
<1>15. Offsets(new)'
  <2>1. /\ new \in [0..(Len(flight)' + 2) -> 0..Len(stream')] /\ new[0] = Len(recipe')
        /\ Len(stream') = new[Len(flight)' + 2] + Len(todo')
        /\ \A i \in DOMAIN todo' : stream'[new[Len(flight)' + 2] + i] = todo'[i]
    BY <1>2, <1>7, <1>10, <1>12, <1>14, Zenon
  <2>2. \A k \in 0..(Len(flight)' + 1) :
          /\ new[k] <= new[k + 1] /\ DOMAIN Row(k)' = 1..(new[k + 1] - new[k])
          /\ \A i \in DOMAIN Row(k)' : stream'[new[k] + i] = Row(k)'[i].fp
    BY <1>2, <1>13, <1>14, Zenon
  <2> QED BY <2>1, <2>2, Zenon DEF Offsets
<1>16. InOrder'
  BY <1>2, <1>11, <1>15 DEF InOrder
<1> QED BY <1>2, <1>4, <1>5, <1>8, <1>10, <1>16

\* When a backup is over all of its stream is in the recipe.
LEMMA OrderEnd ==
  ASSUME IInv, InOrder, filter = "ended"
  PROVE  Len(recipe) = Len(stream)
<1>1. PICK off : Offsets(off)
  BY DEF InOrder
<1>2. flight = <<>> /\ seg = <<>> /\ cur = <<>> /\ todo = <<>>
  BY DEF IInv, Shape, FilterShape, DedupShape
<1>3. Len(flight) = 0 /\ \A k \in 0..1 : Row(k) = <<>>
  BY <1>2 DEF Row
<1>4. /\ off[0] = Len(recipe) /\ Len(stream) = off[2] + Len(todo)
      /\ \A k \in 0..1 : off[k] <= off[k + 1] /\ DOMAIN Row(k) = 1..(off[k + 1] - off[k])
  BY <1>1, <1>3 DEF Offsets
<1>5. off[0] \in Nat /\ off[1] \in Nat /\ off[2] \in Nat
  BY <1>1, <1>3, OffsetsType
<1>6. ASSUME NEW k \in 0..1 PROVE off[k] = off[k + 1]
  <2>1. off[k + 1] - off[k] \in Nat /\ 1..(off[k + 1] - off[k]) = 1..0
    <3>1. off[k] <= off[k + 1] /\ DOMAIN Row(k) = 1..(off[k + 1] - off[k])
      BY <1>4
    <3>2. DOMAIN Row(k) = 1..0
      BY <1>3
    <3>3. off[k] \in Nat /\ off[k + 1] \in Nat
      BY <1>5
    <3> QED BY <3>1, <3>2, <3>3
  <2>2. off[k + 1] - off[k] = 0
    BY <2>1, IntervalLength
  <2> QED BY <1>5, <2>2
<1> QED BY <1>2, <1>4, <1>5, <1>6

\* Another backup starts with nothing.
LEMMA OrderNext ==
  ASSUME IInv, NextSession
  PROVE  InOrder'
<1>1. /\ flight = <<>> /\ cur = <<>> /\ UNCHANGED <<flight, cur>> /\ seg' = <<>> /\ todo' = <<>>
      /\ stream' = <<>> /\ recipe' = <<>>
  BY DEF NextSession, IInv, Shape, FilterShape
<1>2. Len(flight)' = 0 /\ \A k \in 0..1 : Row(k)' = <<>>
  BY <1>1 DEF Row
<1> DEFINE new == [k \in 0..2 |-> 0]
<1>3. new \in [0..2 -> 0..Len(stream')] /\ \A k \in 0..2 : new[k] = 0
  BY <1>1
<1> HIDE DEF new
<1>4. ASSUME NEW k \in 0..1
      PROVE  /\ new[k] <= new[k + 1] /\ DOMAIN Row(k)' = 1..(new[k + 1] - new[k])
             /\ \A i \in DOMAIN Row(k)' : stream'[new[k] + i] = Row(k)'[i].fp
  <2>1. new[k] = 0 /\ new[k + 1] = 0 /\ DOMAIN Row(k)' = {}
    BY <1>2, <1>3
  <2> QED BY <2>1
<1>5. Offsets(new)'
  BY <1>1, <1>2, <1>3, <1>4 DEF Offsets
<1> QED BY <1>1, <1>5 DEF InOrder

\* Whatever the step, the order is kept.
LEMMA OrderStep ==
  ASSUME IInv, InOrder, [Next]_vars
  PROVE  InOrder'
<1>1. CASE Still /\ UNCHANGED <<stream, todo>>
  <2>1. UNCHANGED <<stream, todo, recipe>> /\ Len(flight)' = Len(flight)
        /\ \A k : Row(k)' = Row(k)
    BY <1>1 DEF Still, recipeVars, Row
  <2> QED BY <2>1, SameOrder
<1>2. CASE Filtering
  <2>1. PICK c \in Chunk : ChunkDone(c)
    BY <1>2 DEF Filtering
  <2>2. /\ UNCHANGED <<flight, seg, recipe>> /\ DOMAIN cur' = DOMAIN cur
        /\ \A i \in DOMAIN cur : cur'[i].fp = cur[i].fp
    BY <1>2, <2>1, ChunkRow DEF Filtering, SameChunk
  <2>3. UNCHANGED <<stream, todo>>
    BY <2>1 DEF ChunkDone, Step, dedupVars
  <2>4. /\ Len(flight) \in Nat /\ Len(flight)' = Len(flight) /\ Row(0) = cur /\ Row(0)' = cur'
        /\ \A k \in 1..(Len(flight) + 1) : Row(k)' = Row(k)
    BY <2>2, RowsFilter
  <2>5. ASSUME NEW k \in 0..(Len(flight) + 1)
        PROVE  DOMAIN Row(k)' = DOMAIN Row(k) /\ \A i \in DOMAIN Row(k) : Row(k)'[i].fp = Row(k)[i].fp
    <3>1. CASE k = 0
      BY <2>2, <2>4, <3>1
    <3>2. CASE k # 0
      BY <2>4, <3>2
    <3> QED BY <3>1, <3>2
  <2> QED BY <2>2, <2>3, <2>4, <2>5, SameOrder
<1> QED BY <1>1, <1>2, OrderBegin, OrderLookup, OrderSend, OrderTake, OrderRelease, OrderNext, Kinds

\* The configuration is the same for all backups.
LEMMA ConfigSame ==
  ASSUME IInv, [Next]_vars
  PROVE  config' = config
<1>1. CASE Still
  BY <1>1 DEF Still, recipeVars
<1>2. CASE Looking
  BY <1>2 DEF Looking, Outcome, LookedUp, recipeVars
<1>3. CASE Filtering
  BY <1>3 DEF Filtering, ChunkDone, Step, recipeVars
<1>4. CASE SendSegment \/ FilterTake \/ FilterRelease \/ NextSession
  BY <1>4 DEF SendSegment, FilterTake, FilterRelease, NextSession, recipeVars
<1> QED BY <1>1, <1>2, <1>3, <1>4, Kinds

\* Without rewriting nothing is marked.
LEMMA UnmarkedStep ==
  ASSUME IInv, Plain, [Next]_vars, config.rewriting = "no"
  PROVE  \A i \in DOMAIN cur' : cur'[i].mark = "none"
<1>1. \A i \in DOMAIN cur : cur[i].mark = "none"
  BY DEF Plain
<1>2. CASE UNCHANGED cur
  BY <1>1, <1>2
<1>3. CASE FilterTake
  <2>1. \A i \in DOMAIN cur' : cur'[i].mark \in Markable(Row(1)[i])
    BY <1>3, TakeFacts
  <2> QED BY <2>1 DEF Markable
<1>4. CASE Filtering
  <2>1. PICK c \in Chunk : ChunkDone(c)
    BY <1>4 DEF Filtering
  <2>2. /\ pos \in DOMAIN cur /\ DOMAIN cur' = DOMAIN cur
        /\ cur'[pos] = c /\ \A i \in DOMAIN cur : i # pos => cur'[i] = cur[i]
    BY <1>4, <2>1, ChunkRow DEF Filtering
  <2>3. c.mark = cur[pos].mark
    BY <2>1 DEF ChunkDone
  <2> QED BY <1>1, <2>2, <2>3
<1>5. CASE FilterRelease
  <2>1. cur' = <<>>
    BY <1>5, ReleaseFacts
  <2> QED BY <2>1
<1>6. UNCHANGED cur \/ FilterTake \/ Filtering \/ FilterRelease
  <2>1. CASE Still
    BY <2>1 DEF Still
  <2>2. CASE Looking
    BY <2>2 DEF Looking, Outcome, LookedUp, filterVars
  <2>3. CASE SendSegment \/ NextSession
    BY <2>3 DEF SendSegment, NextSession, filterVars
  <2> QED BY <2>1, <2>2, <2>3, Kinds
<1> QED BY <1>2, <1>3, <1>4, <1>5, <1>6

\* With an exact index a chunk is unique only if no container had it.
LEMMA UniqueUnstored ==
  ASSUME IInv, Plain, [Next]_vars, config.exact
  PROVE  \A k \in 0..(Len(flight)' + 1) : \A i \in DOMAIN Row(k)' :
           ~Row(k)'[i].dup => Row(k)'[i].since = 0
<1>1. \A k \in 0..(Len(flight) + 1) : \A i \in DOMAIN Row(k) : ~Row(k)[i].dup => Row(k)[i].since = 0
  BY DEF Plain
<1>2. CASE Looking
  <2>1. PICK id \in Id, dup \in BOOLEAN, denied \in BOOLEAN : Outcome(id, dup, denied)
    BY <1>2 DEF Looking
  <2>2. PICK n, m : n \in Nat /\ m \in Nat /\ LookupMoves(id, dup, n, m)
    BY <1>2, <2>1, LookupMovesSo DEF Looking, Outcome
  <2>3. /\ Len(flight) \in Nat /\ Len(flight)' = Len(flight) /\ n = Len(flight) + 1
        /\ \A k \in 0..Len(flight) : Row(k)' = Row(k)
        /\ DOMAIN Row(n)' = DOMAIN Row(n) \cup {m}
        /\ \A i \in DOMAIN Row(n) : Row(n)'[i] = Row(n)[i]
        /\ Row(n)'[m].dup = dup /\ Row(n)'[m].since = Copies(Head(todo))
    BY <2>2 DEF LookupMoves
  <2>4. ~dup => Copies(Head(todo)) = 0
    <3> SUFFICES ASSUME ~dup PROVE Copies(Head(todo)) = 0
      OBVIOUS
    <3>1. /\ Head(todo) \notin buf.fps
          /\ {id2 \in DOMAIN containers : Head(todo) \in containers[id2]} = {}
      BY <2>1 DEF Outcome, NotBuffered
    <3>2. Cardinality({id2 \in DOMAIN containers : Head(todo) \in containers[id2]}) = 0
      BY <3>1, FS_EmptySet, Zenon
    <3> QED BY <3>1, <3>2 DEF Copies
  <2>5. ASSUME NEW k \in 0..(Len(flight)' + 1), NEW i \in DOMAIN Row(k)', ~Row(k)'[i].dup
        PROVE  Row(k)'[i].since = 0
    <3>1. CASE k = n
      <4>1. k \in 0..(Len(flight) + 1)
        BY <2>3
      <4> QED BY <1>1, <2>3, <2>4, <2>5, <3>1, <4>1
    <3>2. CASE k # n
      <4>1. k \in 0..Len(flight) /\ k \in 0..(Len(flight) + 1)
        BY <2>3, <3>2
      <4> QED BY <1>1, <2>3, <2>5, <4>1
    <3> QED BY <3>1, <3>2
  <2> QED BY <2>5
<1>3. CASE Still \/ SendSegment \/ FilterTake \/ Filtering \/ FilterRelease \/ NextSession
  <2>1. PICK s \in {0, 1} : Carried(s)
    BY <1>3, AllCarried
  <2> SUFFICES ASSUME NEW k \in 0..(Len(flight)' + 1), NEW i \in DOMAIN Row(k)', ~Row(k)'[i].dup
               PROVE  Row(k)'[i].since = 0
    OBVIOUS
  <2>2. /\ k + s \in 0..(Len(flight) + 1) /\ i \in DOMAIN Row(k + s)
        /\ SameChunk(Row(k)'[i], Row(k + s)[i])
    BY <2>1 DEF Carried
  <2> HIDE DEF Carried
  <2>3. ~Row(k + s)[i].dup /\ Row(k)'[i].since = Row(k + s)[i].since
    BY <2>2 DEF SameChunk
  <2> QED BY <1>1, <2>2, <2>3
<1> QED BY <1>2, <1>3, Kinds

\* Both are kept.
LEMMA PlainStep ==
  ASSUME IInv, Plain, [Next]_vars
  PROVE  Plain'
BY UnmarkedStep, UniqueUnstored, ConfigSame DEF Plain

\* The invariant of the refinement holds throughout.
THEOREM StreamInOrder == Spec => [](InOrder /\ Plain)
<1>1. Init => InOrder /\ Plain
  <2> SUFFICES ASSUME Init PROVE InOrder /\ Plain
    OBVIOUS
  <2>1. stream = <<>> /\ todo = <<>> /\ seg = <<>> /\ flight = <<>> /\ cur = <<>> /\ recipe = <<>>
    BY DEF Init
  <2>2. Len(flight) = 0 /\ \A k \in 0..1 : Row(k) = <<>>
    BY <2>1 DEF Row
  <2> DEFINE new == [k \in 0..2 |-> 0]
  <2>3. new \in [0..2 -> 0..Len(stream)] /\ \A k \in 0..2 : new[k] = 0
    BY <2>1
  <2> HIDE DEF new
  <2>4. ASSUME NEW k \in 0..1
        PROVE  /\ new[k] <= new[k + 1] /\ DOMAIN Row(k) = 1..(new[k + 1] - new[k])
               /\ \A i \in DOMAIN Row(k) : stream[new[k] + i] = Row(k)[i].fp
    <3>1. new[k] = 0 /\ new[k + 1] = 0 /\ DOMAIN Row(k) = {}
      BY <2>2, <2>3
    <3> QED BY <3>1
  <2>5. Offsets(new)
    BY <2>1, <2>2, <2>3, <2>4 DEF Offsets
  <2>6. Plain
    BY <2>1, <2>2 DEF Plain
  <2> QED BY <2>1, <2>5, <2>6 DEF InOrder
<1>2. IInv /\ (InOrder /\ Plain) /\ [Next]_vars => (InOrder /\ Plain)'
  BY OrderStep, PlainStep
<1> QED BY <1>1, <1>2, PipelineInvariant, PTL DEF Spec

\* The types hold and so do the assertions of the filter phase: assert(ruc), a
\* duplicate without an id has the unique copy before it;
\* assert(c->id != TEMPORARY_ID) for what has been through; and with an exact index
\* and no rewriting the container at hand never holds what is to be written.
THEOREM PhasesSound == Spec => []StateSound
<1>1. ASSUME IInv PROVE TypeOK
  <2>1. \A f \in FP : buffered[f] \in Seq(Nat \cup {TEMPORARY_ID})
    BY <1>1 DEF IInv, Shape, FlightShape, Id
  <2>2. \A i \in DOMAIN flight : flight[i] \in Seq(Chunk)
    <3>1. flight \in Seq(Seq(Chunk))
      BY <1>1 DEF IInv, Shape, FlightShape
    <3> QED BY <3>1
  <2>3. DOMAIN containers \subseteq 0..(count - 1)
    BY <1>1 DEF IInv, Shape, StoreShape
  <2>4. buf.id \in Nat \cup {TEMPORARY_ID} /\ buf.fps \subseteq FP
    BY <1>1 DEF IInv, Shape, StoreShape, Id
  <2>5. kv \in [Keys -> Nat \cup {TEMPORARY_ID}]
    BY <1>1 DEF IInv, Shape, IndexShape, Id
  <2>6. DOMAIN unique \subseteq FP /\ DOMAIN rewritten \subseteq FP
    BY <1>1 DEF IInv, Remembered
  <2>7. DedupShape /\ FilterShape /\ LockShape /\ FlightShape /\ StoreShape /\ IndexShape /\ RecipeShape
    BY <1>1 DEF IInv, Shape
  <2> QED BY <2>1, <2>2, <2>3, <2>4, <2>5, <2>6, <2>7
          DEF TypeOK, DedupShape, FilterShape, LockShape, FlightShape, StoreShape, IndexShape, RecipeShape
<1>2. ASSUME IInv, Plain PROVE AssertionsHold
  <2>1. pos \in Nat /\ Len(cur) \in Nat /\ pos >= 1
    BY <1>2 DEF IInv, Shape, FilterShape
  <2>2. ASSUME pos <= Len(cur), cur[pos].dup, cur[pos].id = TEMPORARY_ID
        PROVE  cur[pos].fp \in DOMAIN unique
    <3>1. pos \in pos..Len(cur)
      BY <2>1, <2>2
    <3>2. PICK j \in 1..(pos - 1) : cur[j].fp = cur[pos].fp /\ ~cur[j].dup
      BY <1>2, <2>2, <3>1 DEF IInv, Resolved
    <3> QED BY <1>2, <3>2 DEF IInv, Resolved
  <2>3. \A j \in 1..(pos - 1) : cur[j].id # TEMPORARY_ID
    BY <1>2 DEF IInv, Resolved
  <2>4. ASSUME filter = "chunks", config.rewriting = "no", pos <= Len(cur), Written(Resolve(cur[pos]))
        PROVE  cur[pos].fp \notin buf.fps
    <3>1. pos \in DOMAIN cur
      BY <1>2, <2>1, <2>4 DEF IInv, Shape, FilterShape
    <3>2. cur[pos].mark = "none"
      BY <1>2, <2>4, <3>1 DEF Plain
    <3>3. SameChunk(Resolve(cur[pos]), cur[pos]) /\ Resolve(cur[pos]).mark = cur[pos].mark
      BY <1>2, <2>4, ResolveFacts DEF Settled
    <3>4. ~cur[pos].dup
      BY <2>4, <3>2, <3>3 DEF Written, SameChunk
    <3> QED BY <1>2, <2>4, <3>4, UniqueAtHand
  <2> QED BY <2>2, <2>3, <2>4 DEF AssertionsHold
<1>3. IInv /\ Plain => StateSound
  BY <1>1, <1>2 DEF StateSound
<1> QED BY <1>3, PipelineInvariant, StreamInOrder, PTL

-----------------------------------------------------------------------------
(* The copies after a unique one.                                          *)

\* In one segment the copies after a unique chunk have no id as long as it waits,
\* so only capping marks them; and what the segment remembers as unique is one of
\* the unique chunks it has been through.
Following ==
  /\ \A k \in 1..(Len(flight) + 1) : \A i, j \in DOMAIN Row(k) :
       ~Row(k)[i].dup /\ i < j /\ Row(k)[j].fp = Row(k)[i].fp => Row(k)[j].id = TEMPORARY_ID
  /\ \A i, j \in DOMAIN cur :
       ~cur[i].dup /\ i < j /\ cur[j].fp = cur[i].fp /\ config.rewriting # "capping"
         => cur[j].mark = "none"
  /\ \A f \in DOMAIN unique : \E j \in 1..(pos - 1) : cur[j].fp = f /\ ~cur[j].dup

\* A copy that is looked up while the unique one waits finds no id in the index buffer.
LEMMA FollowersWait ==
  ASSUME IInv, Following, [Next]_vars
  PROVE  \A k \in 1..(Len(flight)' + 1) : \A i, j \in DOMAIN Row(k)' :
           ~Row(k)'[i].dup /\ i < j /\ Row(k)'[j].fp = Row(k)'[i].fp => Row(k)'[j].id = TEMPORARY_ID
<1>1. \A k \in 1..(Len(flight) + 1) : \A i, j \in DOMAIN Row(k) :
        ~Row(k)[i].dup /\ i < j /\ Row(k)[j].fp = Row(k)[i].fp => Row(k)[j].id = TEMPORARY_ID
  BY DEF Following
<1> SUFFICES ASSUME NEW k \in 1..(Len(flight)' + 1), NEW i \in DOMAIN Row(k)', NEW j \in DOMAIN Row(k)',
                    ~Row(k)'[i].dup, i < j, Row(k)'[j].fp = Row(k)'[i].fp
             PROVE  Row(k)'[j].id = TEMPORARY_ID
  OBVIOUS
<1>2. CASE Still \/ SendSegment \/ FilterTake \/ Filtering \/ FilterRelease \/ NextSession
  <2>1. PICK s \in {0, 1} : Carried(s)
    BY <1>2, AllCarried
  <2>2. k \in 0..(Len(flight)' + 1) /\ k # 0
    OBVIOUS
  <2>3. /\ k + s \in 0..(Len(flight) + 1) /\ i \in DOMAIN Row(k + s) /\ j \in DOMAIN Row(k + s)
        /\ Row(k)'[i] = Row(k + s)[i] /\ Row(k)'[j] = Row(k + s)[j]
    BY <2>1, <2>2 DEF Carried
  <2>4. k + s \in 1..(Len(flight) + 1)
    BY <2>3
  <2> QED BY <1>1, <2>3, <2>4
<1>3. CASE Looking
  <2>1. PICK id \in Id, dup \in BOOLEAN, denied \in BOOLEAN : Outcome(id, dup, denied)
    BY <1>3 DEF Looking
  <2>2. PICK n, m \in Nat : LookupMoves(id, dup, n, m)
    BY <1>3, <2>1, LookupMovesSo DEF Looking, Outcome
  <2>3. /\ Len(flight) \in Nat /\ Len(flight)' = Len(flight) /\ n = Len(flight) + 1
        /\ \A l \in 0..Len(flight) : Row(l)' = Row(l)
        /\ DOMAIN Row(n)' = DOMAIN Row(n) \cup {m} /\ DOMAIN Row(n) = 1..(m - 1)
        /\ \A l \in DOMAIN Row(n) : Row(n)'[l] = Row(n)[l]
        /\ Row(n)'[m].fp = Head(todo) /\ Row(n)'[m].id = id /\ Head(todo) \in FP
    BY <2>2 DEF LookupMoves
  <2>4. CASE k # n
    <3>1. Row(k)' = Row(k) /\ k \in 1..(Len(flight) + 1)
      BY <2>3, <2>4
    <3> QED BY <1>1, <3>1
  <2>5. CASE k = n /\ j # m
    <3>1. j \in DOMAIN Row(n) /\ j \in 1..(m - 1)
      BY <2>3, <2>5
    <3>2. i \in DOMAIN Row(n)
      BY <2>3, <2>5, <3>1
    <3>3. k \in 1..(Len(flight) + 1) /\ Row(n)'[i] = Row(n)[i] /\ Row(n)'[j] = Row(n)[j]
      BY <2>3, <3>1, <3>2
    <3> QED BY <1>1, <2>5, <3>1, <3>2, <3>3
  <2>6. CASE k = n /\ j = m
    <3>1. i \in DOMAIN Row(n) /\ n \in 0..(Len(flight) + 1) /\ n # 0
      BY <2>3, <2>6
    <3>2. ~Row(n)[i].dup /\ Row(n)[i].fp = Head(todo)
      BY <2>3, <2>6, <3>1
    <3>3. Waits(n, i)
      BY <3>1 DEF Waits, Place
    <3>4. Head(todo) \notin buf.fps /\ Head(buffered[Head(todo)]) = TEMPORARY_ID
      BY <3>1, <3>2, <3>3 DEF IInv, UniqueFresh
    <3>5. buffered[Head(todo)] # <<>>
      BY <3>1, <3>2, InFlightBuffered
    <3>6. id = TEMPORARY_ID
      BY <2>1, <3>4, <3>5 DEF Outcome
    <3> QED BY <2>3, <2>6, <3>6
  <2> QED BY <2>4, <2>5, <2>6
<1> QED BY <1>2, <1>3, Kinds

\* So without capping the rewrite phase leaves them alone.
LEMMA FollowersUnmarked ==
  ASSUME IInv, Following, [Next]_vars, config.rewriting # "capping"
  PROVE  \A i, j \in DOMAIN cur' :
           ~cur'[i].dup /\ i < j /\ cur'[j].fp = cur'[i].fp => cur'[j].mark = "none"
<1>1. \A i, j \in DOMAIN cur : ~cur[i].dup /\ i < j /\ cur[j].fp = cur[i].fp => cur[j].mark = "none"
  BY DEF Following
<1>2. CASE UNCHANGED cur
  BY <1>1, <1>2
<1>3. CASE FilterTake
  <2> SUFFICES ASSUME NEW i \in DOMAIN cur', NEW j \in DOMAIN cur',
                      ~cur'[i].dup, i < j, cur'[j].fp = cur'[i].fp
               PROVE  cur'[j].mark = "none"
    OBVIOUS
  <2>1. /\ DOMAIN cur' = DOMAIN Row(1) /\ cur'[j].mark \in Markable(Row(1)[j])
        /\ SameChunk(cur'[i], Row(1)[i]) /\ SameChunk(cur'[j], Row(1)[j])
    BY <1>3, TakeFacts
  <2>2. 1 \in 1..(Len(flight) + 1)
    BY <1>3, RowsTake
  <2>3. Row(1)[j].id = TEMPORARY_ID
    BY <2>1, <2>2 DEF Following, SameChunk
  <2> QED BY <2>1, <2>3 DEF Markable
<1>4. CASE Filtering
  <2>1. PICK c \in Chunk : ChunkDone(c)
    BY <1>4 DEF Filtering
  <2>2. /\ pos \in DOMAIN cur /\ DOMAIN cur' = DOMAIN cur
        /\ cur'[pos] = c /\ \A i \in DOMAIN cur : i # pos => cur'[i] = cur[i]
        /\ \A i \in DOMAIN cur : SameChunk(cur'[i], cur[i])
    BY <1>4, <2>1, ChunkRow DEF Filtering
  <2>3. \A i \in DOMAIN cur : cur'[i].mark = cur[i].mark
    BY <2>1, <2>2 DEF ChunkDone
  <2> QED BY <1>1, <2>2, <2>3 DEF SameChunk
<1>5. CASE FilterRelease
  <2>1. cur' = <<>>
    BY <1>5, ReleaseFacts
  <2> QED BY <2>1
<1>6. UNCHANGED cur \/ FilterTake \/ Filtering \/ FilterRelease
  <2>1. CASE Still
    BY <2>1 DEF Still
  <2>2. CASE Looking
    BY <2>2 DEF Looking, Outcome, LookedUp, filterVars
  <2>3. CASE SendSegment \/ NextSession
    BY <2>3 DEF SendSegment, NextSession, filterVars
  <2> QED BY <2>1, <2>2, <2>3, Kinds
<1> QED BY <1>2, <1>3, <1>4, <1>5, <1>6

\* recently_unique_chunks forgets at the end of a segment and learns of unique chunks only.
LEMMA UniqueSeen ==
  ASSUME IInv, Following, [Next]_vars
  PROVE  \A f \in DOMAIN unique' : \E j \in 1..(pos' - 1) : cur'[j].fp = f /\ ~cur'[j].dup
<1>1. \A f \in DOMAIN unique : \E j \in 1..(pos - 1) : cur[j].fp = f /\ ~cur[j].dup
  BY DEF Following
<1>2. CASE UNCHANGED <<cur, pos, unique>>
  BY <1>1, <1>2
<1>3. CASE FilterTake \/ FilterRelease
  <2>1. unique' = Empty
    BY <1>3 DEF FilterTake, FilterRelease
  <2> QED BY <2>1 DEF Empty
<1>4. CASE Filtering
  <2>1. PICK c \in Chunk : ChunkDone(c)
    BY <1>4 DEF Filtering
  <2>2. /\ pos \in DOMAIN cur /\ pos' = pos + 1 /\ pos \in Nat /\ pos > 0 /\ cur'[pos] = c
        /\ \A i \in DOMAIN cur : i # pos => cur'[i] = cur[i]
    BY <1>4, <2>1, ChunkRow DEF Filtering
  <2>3. unique' = unique \/ (~c.dup /\ unique' = Remember(unique, c.fp, c.id))
    BY <2>1 DEF ChunkDone
  <2> SUFFICES ASSUME NEW f \in DOMAIN unique'
               PROVE  \E j \in 1..(pos' - 1) : cur'[j].fp = f /\ ~cur'[j].dup
    OBVIOUS
  <2>4. f \in DOMAIN unique \/ (f = c.fp /\ ~c.dup)
    BY <2>3 DEF Remember
  <2>5. CASE f = c.fp /\ ~c.dup
    <3>1. pos \in 1..(pos' - 1)
      BY <2>2
    <3> QED BY <2>2, <2>5, <3>1
  <2>6. CASE f \in DOMAIN unique
    <3>1. PICK j \in 1..(pos - 1) : cur[j].fp = f /\ ~cur[j].dup
      BY <1>1, <2>6
    <3>2. j \in 1..(pos' - 1) /\ j # pos /\ j \in DOMAIN cur
      BY <2>2, <3>1 DEF IInv, Shape, FilterShape
    <3> QED BY <2>2, <3>1, <3>2
  <2> QED BY <2>4, <2>5, <2>6
<1>5. UNCHANGED <<cur, pos, unique>> \/ FilterTake \/ Filtering \/ FilterRelease
  <2>1. CASE Still
    BY <2>1 DEF Still
  <2>2. CASE Looking
    BY <2>2 DEF Looking, Outcome, LookedUp, filterVars
  <2>3. CASE SendSegment \/ NextSession
    BY <2>3 DEF SendSegment, NextSession, filterVars
  <2> QED BY <2>1, <2>2, <2>3, Kinds
<1> QED BY <1>2, <1>3, <1>4, <1>5

\* That much holds throughout.
LEMMA AlwaysFollowing == Spec => []Following
<1>1. ASSUME Init PROVE Following
  <2>1. seg = <<>> /\ flight = <<>> /\ cur = <<>> /\ DOMAIN unique = {}
    BY <1>1 DEF Init, Empty
  <2>2. Len(flight) = 0 /\ \A k \in 1..1 : Row(k) = <<>>
    BY <2>1 DEF Row
  <2> QED BY <2>1, <2>2 DEF Following
<1>2. ASSUME IInv, Following, [Next]_vars PROVE Following'
  BY <1>2, FollowersWait, FollowersUnmarked, UniqueSeen, ConfigSame DEF Following
<1> QED BY <1>1, <1>2, PipelineInvariant, PTL DEF Spec

\* A step writes a chunk only if its segment has not rewritten it, nor written it as
\* unique unless capping marked this copy; and a unique one only if no copy of it was
\* written since it was looked up.
LEMMA OneRewriteStep ==
  ASSUME IInv, Following, [Next]_vars, NEW f \in FP, Copies(f)' > Copies(f)
  PROVE  /\ f \notin DOMAIN rewritten
         /\ f \in DOMAIN unique => config.rewriting = "capping" /\ cur[pos].dup
         /\ ~cur[pos].dup => Copies(f) = cur[pos].since
<1>1. Copies(f) \in Nat
  BY CopiesType DEF IInv, Shape
<1>2. CASE Filtering
  <2>1. PICK c \in Chunk : ChunkDone(c)
    BY <1>2 DEF Filtering
  <2>2. /\ c.fp \notin DOMAIN rewritten /\ SameChunk(c, cur[pos])
        /\ Copies(f)' = Copies(f) + (IF f = c.fp THEN 1 ELSE 0)
    BY <1>1, <2>1 DEF ChunkDone
  <2>3. f = c.fp /\ c.fp = cur[pos].fp
    BY <1>1, <2>2 DEF SameChunk
  <2>4. filter = "chunks" /\ pos <= Len(cur)
    BY <1>2 DEF Filtering
  <2>5. ASSUME f \in DOMAIN unique PROVE config.rewriting = "capping" /\ cur[pos].dup
    <3>1. PICK j \in 1..(pos - 1) : cur[j].fp = f /\ ~cur[j].dup
      BY <2>5 DEF Following
    <3>2. pos \in DOMAIN cur /\ j \in DOMAIN cur /\ j < pos /\ pos \in Nat /\ Row(0) = cur
          /\ 0 \in 0..(Len(flight) + 1)
      BY <2>4, <3>1 DEF IInv, Shape, FilterShape, FlightShape, Row
    <3>3. cur[pos].dup
      <4>1. ~cur[pos].dup => 0 < 0 \/ (0 = 0 /\ pos <= j)
        BY <2>3, <3>1, <3>2 DEF IInv, UniqueFirst
      <4> QED BY <3>2, <4>1
    <3>4. cur[pos].mark # "none"
      BY <1>1, <2>1, <2>3, <3>3 DEF ChunkDone, SameChunk
    <3>5. config.rewriting = "capping"
      BY <2>3, <3>1, <3>2, <3>4 DEF Following
    <3> QED BY <3>3, <3>5
  <2> QED BY <2>2, <2>3, <2>4, <2>5, UniqueAtHand
<1>3. ASSUME Copies(f)' = Copies(f) PROVE FALSE
  BY <1>1, <1>3
<1>4. CASE Still
  BY <1>3, <1>4 DEF Still
<1>5. CASE UNCHANGED storeVars
  BY <1>3, <1>5 DEF Copies, storeVars
<1>6. Still \/ Filtering \/ UNCHANGED storeVars
  <2>1. CASE Looking
    BY <2>1 DEF Looking, Outcome, LookedUp
  <2>2. CASE SendSegment \/ FilterTake \/ FilterRelease \/ NextSession
    BY <2>2 DEF SendSegment, FilterTake, FilterRelease, NextSession
  <2> QED BY <2>1, <2>2, Kinds
<1> QED BY <1>2, <1>4, <1>5, <1>6

\* So a segment rewrites a chunk at most once, and after its own unique copy only with
\* capping; and a unique chunk is written only if no copy was since it was looked up.
THEOREM RewritesOnce == Spec => OneRewritePerSegment
<1>1. IInv /\ Following /\ [Next]_vars =>
        [\A f \in FP : Copies(f)' > Copies(f) =>
           /\ f \notin DOMAIN rewritten
           /\ f \in DOMAIN unique => config.rewriting = "capping" /\ cur[pos].dup
           /\ ~cur[pos].dup => Copies(f) = cur[pos].since]_vars
  BY OneRewriteStep
<1> QED BY <1>1, PipelineInvariant, AlwaysFollowing, PTL DEF Spec, OneRewritePerSegment

-----------------------------------------------------------------------------
(* The pipeline implements the archive.                                    *)

\* What the archive is told: whether it stores once, and how many copies there are.
Once == config.exact /\ config.rewriting = "no"
CopiesOf == [f \in FP |-> Copies(f)]

\* A step that reads nothing, writes nothing and records nothing is a stutter.
LEMMA Stutters ==
  ASSUME UNCHANGED <<config, stream, recipe>>, \A f \in FP : Copies(f)' = Copies(f)
  PROVE  UNCHANGED <<Once, stream, SegFps(recipe), CopiesOf>>
BY DEF Once, SegFps, CopiesOf

\* Where a chunk is held it is counted.
LEMMA HeldIsCounted ==
  ASSUME StoreShape, NEW id, NEW f \in FP, Holds(id, f)
  PROVE  Copies(f) > 0
<1> DEFINE S == {c \in DOMAIN containers : f \in containers[c]}
<1>1. IsFiniteSet(S) /\ Cardinality(S) \in Nat /\ Copies(f) = Cardinality(S) + (IF f \in buf.fps THEN 1 ELSE 0)
  BY CopiesType DEF Copies
<1>2. CASE f \in buf.fps
  BY <1>1, <1>2
<1>3. CASE f \notin buf.fps
  <2>1. id \in S
    BY <1>3 DEF Holds
  <2> HIDE DEF S
  <2>2. Cardinality(S) # 0
    BY <1>1, <2>1, FS_EmptySet
  <2> QED BY <1>1, <2>2
<1> QED BY <1>2, <1>3

\* Beginning a segment is reading it.
LEMMA BeginReads ==
  ASSUME IInv, NEW fps \in Segments, BeginSegment(fps), Still
  PROVE  \E m \in 1..SegmentMax : \E s \in [1..m -> FP] : DA!Read(s)
<1>1. stream' = stream \o fps /\ config' = config /\ recipe' = recipe
      /\ \A f \in FP : Copies(f)' = Copies(f)
  BY DEF BeginSegment, recipeVars, Still
<1>2. DA!Read(fps)
  BY <1>1, Stutters DEF DA!Read, Once, CopiesOf
<1>3. PICK m \in 1..SegmentMax : fps \in [1..m -> FP]
  BY DEF Segments
<1> QED BY <1>2, <1>3

\* Filtering a chunk writes it, or not.
LEMMA FilteringStores ==
  ASSUME IInv, InOrder, Plain, Filtering
  PROVE  \/ UNCHANGED <<Once, stream, SegFps(recipe), CopiesOf>>
         \/ \E f \in FP : DA!Store(f)
<1>1. PICK c \in Chunk : ChunkDone(c)
  BY DEF Filtering
<1>2. UNCHANGED <<config, stream, recipe>>
  BY <1>1 DEF ChunkDone, Step, dedupVars, recipeVars
<1>3. filter = "chunks" /\ pos <= Len(cur)
  BY DEF Filtering
<1>4. CASE \A f \in FP : Copies(f)' = Copies(f)
  BY <1>2, <1>4, Stutters
<1>5. CASE /\ c.dup => c.mark # "none"
           /\ \A f \in FP : Copies(f)' = Copies(f) + (IF f = c.fp THEN 1 ELSE 0)
  <2>1. c.fp \in FP /\ c.fp = cur[pos].fp /\ c.dup = cur[pos].dup /\ c.mark = cur[pos].mark
    BY <1>1 DEF ChunkDone, SameChunk, Chunk
  <2>2. pos \in DOMAIN cur /\ cur \in Seq(Chunk) /\ Row(0) = cur /\ Len(flight) \in Nat
        /\ recipe \in Seq([fp : FP, id : Nat]) /\ 0 \in 0..(Len(flight) + 1)
    BY <1>3 DEF IInv, Shape, FilterShape, FlightShape, RecipeShape, Row
  <2>3. \E i \in (Len(SegFps(recipe)) + 1)..Len(stream) : stream[i] = c.fp
    <3>1. PICK off : Offsets(off)
      BY DEF InOrder
    <3>2. /\ off[0] = Len(recipe) /\ DOMAIN Row(0) = 1..(off[0 + 1] - off[0])
          /\ \A i \in DOMAIN Row(0) : stream[off[0] + i] = Row(0)[i].fp
      BY <2>2, <3>1 DEF Offsets
    <3>3. Len(stream) \in Nat /\ Len(recipe) \in Nat /\ off[1] \in Nat /\ off[1] <= Len(stream)
      BY <2>2, <3>1, OffsetsType
    <3>4. Len(SegFps(recipe)) = Len(recipe)
      BY <2>2 DEF SegFps
    <3>5. pos \in 1..(off[1] - Len(recipe)) /\ stream[Len(recipe) + pos] = c.fp
      <4>1. pos \in 1..(off[1] - off[0])
        <5>1. 0 + 1 = 1
          OBVIOUS
        <5>2. pos \in DOMAIN Row(0)
          BY <2>2
        <5> QED BY <3>2, <5>1, <5>2, Zenon
      <4>2. stream[off[0] + pos] = Row(0)[pos].fp
        BY <2>2, <3>2
      <4> QED BY <2>1, <2>2, <3>2, <4>1, <4>2
    <3>6. Len(recipe) + pos \in (Len(SegFps(recipe)) + 1)..Len(stream)
      BY <3>3, <3>4, <3>5
    <3> QED BY <3>5, <3>6
  <2>4. Once => Copies(c.fp) = 0
    <3> SUFFICES ASSUME Once PROVE Copies(c.fp) = 0
      OBVIOUS
    <3>1. cur[pos].mark = "none" /\ ~cur[pos].dup
      BY <1>5, <2>1, <2>2 DEF Plain, Once
    <3>2. cur[pos].since = 0
      BY <2>2, <3>1 DEF Plain, Once
    <3> QED BY <1>3, <2>1, <3>1, <3>2, UniqueAtHand
  <2>5. CopiesOf' = [CopiesOf EXCEPT ![c.fp] = @ + 1]
    <3>1. \A f \in FP : Copies(f) \in Nat
      BY CopiesType DEF IInv, Shape
    <3>2. CopiesOf' = [f \in FP |-> Copies(f) + (IF f = c.fp THEN 1 ELSE 0)]
      BY <1>5 DEF CopiesOf
    <3>3. \A f \in FP : Copies(f) + (IF f = c.fp THEN 1 ELSE 0) = IF f = c.fp THEN Copies(f) + 1 ELSE Copies(f)
      BY <3>1
    <3> QED BY <2>1, <3>2, <3>3 DEF CopiesOf
  <2>6. Once => CopiesOf[c.fp] = 0
    BY <2>1, <2>4 DEF CopiesOf
  <2>7. Once' = Once /\ stream' = stream /\ SegFps(recipe)' = SegFps(recipe)
    BY <1>2 DEF Once, SegFps
  <2>8. DA!Store(c.fp)
    BY <2>3, <2>5, <2>6, <2>7 DEF DA!Store, Once, CopiesOf
  <2> QED BY <2>1, <2>8
<1> QED BY <1>1, <1>4, <1>5 DEF ChunkDone

\* The end of a segment records it.
LEMMA ReleaseRecords ==
  ASSUME IInv, InOrder, InOrder', FilterRelease
  PROVE  \E n \in Len(SegFps(recipe))..Len(stream) : DA!Record(n)
<1>1. Len(recipe') <= Len(stream) /\ Len(recipe) <= Len(recipe') /\ stream' = stream
  BY OrderRelease
<1>2. /\ recipe' \in Seq([fp : FP, id : Nat])
      /\ \A i \in DOMAIN recipe' : Holds(recipe'[i].id, recipe'[i].fp)
  BY ReleaseRecipe
<1>3. \A i \in DOMAIN recipe' : stream[i] = recipe'[i].fp
  BY <1>1 DEF InOrder
<1>4. stream \in Seq(FP) /\ recipe \in Seq([fp : FP, id : Nat])
  BY DEF IInv, Shape, DedupShape, RecipeShape
<1>5. PICK n \in Nat : n = Len(recipe')
  BY <1>2
<1>6. DOMAIN recipe' = 1..n /\ Len(SegFps(recipe)) = Len(recipe) /\ Len(recipe) \in Nat /\ Len(stream) \in Nat
  BY <1>2, <1>4, <1>5 DEF SegFps
<1>7. n \in Len(SegFps(recipe))..Len(stream)
  BY <1>1, <1>5, <1>6
<1>8. ASSUME NEW i \in 1..n
      PROVE  CopiesOf[stream[i]] > 0
  <2>1. stream[i] = recipe'[i].fp /\ Holds(recipe'[i].id, stream[i]) /\ stream[i] \in FP
    <3>1. i \in DOMAIN recipe' /\ i \in 1..Len(stream)
      BY <1>1, <1>5, <1>6
    <3>2. stream[i] = recipe'[i].fp
      BY <1>3, <3>1
    <3>3. Holds(recipe'[i].id, recipe'[i].fp)
      BY <1>2, <3>1
    <3>4. stream[i] \in FP
      BY <1>4, <3>1
    <3> QED BY <3>2, <3>3, <3>4
  <2> QED BY <2>1, HeldIsCounted DEF CopiesOf, IInv, Shape
<1>9. SegFps(recipe') = SubSeq(stream, 1, n)
  <2>1. SegFps(recipe') = [i \in 1..n |-> stream[i]]
    BY <1>3, <1>6 DEF SegFps
  <2>2. SubSeq(stream, 1, n) = [i \in 1..n |-> stream[i]]
    BY <1>1, <1>4, <1>5, <1>6
  <2> QED BY <2>1, <2>2
<1>10. config' = config /\ \A f \in FP : Copies(f)' = Copies(f)
  BY DEF FilterRelease, storeVars, Copies
<1>11. Once' = Once /\ CopiesOf' = CopiesOf
  BY <1>10 DEF Once, CopiesOf
<1>12. DA!Record(n)
  BY <1>1, <1>8, <1>9, <1>11 DEF DA!Record, Once, CopiesOf
<1> QED BY <1>7, <1>12

\* Another backup starts when all of the stream is recorded.
LEMMA NextBacksUp ==
  ASSUME IInv, InOrder, NextSession
  PROVE  DA!NextBackup
<1>1. stream' = <<>> /\ recipe' = <<>> /\ config' = config /\ filter = "ended"
      /\ \A f \in FP : Copies(f)' = Copies(f)
  BY DEF NextSession, storeVars, Copies
<1>2. stream \in Seq(FP) /\ recipe \in Seq([fp : FP, id : Nat]) /\ Len(recipe) = Len(stream)
  BY <1>1, OrderEnd DEF IInv, Shape, DedupShape, RecipeShape
<1>3. SegFps(recipe) = stream
  <2>1. DOMAIN recipe = DOMAIN stream /\ \A i \in DOMAIN recipe : recipe[i].fp = stream[i]
    BY <1>2 DEF InOrder
  <2>2. stream = [i \in DOMAIN stream |-> stream[i]]
    BY <1>2
  <2> QED BY <2>1, <2>2 DEF SegFps
<1>4. SegFps(recipe') = <<>>
  BY <1>1 DEF SegFps
<1>5. Once' = Once /\ CopiesOf' = CopiesOf
  BY <1>1 DEF Once, CopiesOf
<1> QED BY <1>1, <1>3, <1>4, <1>5 DEF DA!NextBackup, Once, CopiesOf

\* So every step is one of the archive.
LEMMA StepArchives ==
  ASSUME IInv, InOrder, InOrder', Plain, [Next]_vars
  PROVE  [DA!DANext]_<<Once, stream, SegFps(recipe), CopiesOf>>
<1>1. CASE Still /\ UNCHANGED <<stream, todo>>
  BY <1>1, Stutters DEF Still, recipeVars
<1>2. CASE Still /\ \E fps \in Segments : BeginSegment(fps)
  BY <1>2, BeginReads DEF DA!DANext
<1>3. ASSUME UNCHANGED <<config, stream, recipe, storeVars>>
      PROVE  UNCHANGED <<Once, stream, SegFps(recipe), CopiesOf>>
  BY <1>3, Stutters DEF storeVars, Copies
<1>4. CASE Looking \/ SendSegment \/ FilterTake
  <2>1. CASE Looking
    BY <1>3, <2>1 DEF Looking, Outcome, LookedUp, recipeVars
  <2>2. CASE SendSegment
    BY <1>3, <2>2 DEF SendSegment, recipeVars
  <2>3. CASE FilterTake
    BY <1>3, <2>3 DEF FilterTake, dedupVars, recipeVars
  <2> QED BY <1>4, <2>1, <2>2, <2>3
<1>5. CASE Filtering
  BY <1>5, FilteringStores DEF DA!DANext
<1>6. CASE FilterRelease
  BY <1>6, ReleaseRecords DEF DA!DANext
<1>7. CASE NextSession
  BY <1>7, NextBacksUp DEF DA!DANext
<1> QED BY <1>1, <1>2, <1>4, <1>5, <1>6, <1>7, Kinds

\* The pipeline is a deduplicating archive: recipes repeat the stream, name only
\* what is stored, and with an exact index and no rewriting nothing is stored
\* twice although chunks are looked up long before they are written.
THEOREM PipelineIsArchive == Spec => ImplementsDedupArchive
<1>1. Init => DA!DAInit
  <2> SUFFICES ASSUME Init PROVE DA!DAInit
    OBVIOUS
  <2>1. /\ config \in Config /\ stream = <<>> /\ recipe = <<>> /\ buf = NoContainer
        /\ containers = [id \in {} |-> {}]
    BY PipelineAssumption DEF Init
  <2>2. Once \in BOOLEAN
    BY <2>1 DEF Config, Once
  <2>3. SegFps(recipe) = <<>>
    BY <2>1 DEF SegFps
  <2>4. ASSUME NEW f \in FP PROVE Copies(f) = 0
    <3>1. {id \in DOMAIN containers : f \in containers[id]} = {} /\ f \notin buf.fps
      BY <2>1 DEF NoContainer
    <3>2. Cardinality({id \in DOMAIN containers : f \in containers[id]}) = 0
      BY <3>1, FS_EmptySet, Zenon
    <3> QED BY <3>1, <3>2 DEF Copies
  <2>5. CopiesOf = [f \in FP |-> 0]
    BY <2>4 DEF CopiesOf
  <2> QED BY <2>1, <2>2, <2>3, <2>5 DEF DA!DAInit, Once, CopiesOf
<1>2. IInv /\ (InOrder /\ Plain) /\ (InOrder /\ Plain)' /\ [Next]_vars
        => [DA!DANext]_<<Once, stream, SegFps(recipe), CopiesOf>>
  BY StepArchives
<1>3. IInv /\ (InOrder /\ Plain) /\ (InOrder /\ Plain)' /\ [Next]_vars
        => [DA!DANext]_<<config.exact /\ config.rewriting = "no", stream, SegFps(recipe),
                         [f \in FP |-> Copies(f)]>>
  BY <1>2 DEF Once, CopiesOf
<1> QED BY <1>1, <1>3, PipelineInvariant, StreamInOrder, PTL
        DEF Spec, ImplementsDedupArchive, DA!DASpec

=============================================================================
