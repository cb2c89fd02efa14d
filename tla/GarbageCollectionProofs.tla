----------------------- MODULE GarbageCollectionProofs -----------------------
(***************************************************************************)
(* Garbage collection keeps what backups need, reclaims the rest and leaves *)
(* an index that leads to neither, for any number of jobs, fingerprints and *)
(* ids per key, and whatever retention times follow each other.            *)
(***************************************************************************)
EXTENDS GarbageCollection, FiniteSetTheorems, TLAPS

Segments == UNION {[fps -> Nat] : fps \in SUBSET FP}
Entries == IF locality = "physical" THEN Nat ELSE Nat \X Nat
ListMax == IF locality = "physical" THEN 1 ELSE ValueLength

\* The variables have their types; container ids are given out one by one.
TypeInv ==
  /\ locality \in Localities /\ locality \in {"physical", "logical"}
  /\ key \in KeyMaps /\ key \in [FP -> Keys] /\ similarity \in BOOLEAN
  /\ main \in {"idle", "backup", "truncate", "delete", "save", "record", "restore"}
  /\ job \in 0..MaxJobs /\ revision \in 0..MaxJobs-1
  /\ main = "backup" => job < MaxJobs
  /\ Cardinality(Ids) \in Nat /\ Ids = 0..Cardinality(Ids)-1
  /\ containers \in [Ids -> SUBSET FP]
  /\ recipe \in [0..MaxJobs-1 -> Seq(Segments)]
  /\ \A j \in 0..MaxJobs-1 : Used(j) \subseteq Ids
  /\ known \subseteq FP \X Ids
  /\ index \in [Keys -> Seq(Entries)] /\ htable \in [Keys -> Seq(Entries)]
  /\ \A k \in Keys : Len(index[k]) <= ListMax /\ Len(htable[k]) <= ListMax
  /\ DOMAIN manifest \subseteq Ids
  /\ invalid \subseteq Ids /\ reclaimed \in [0..MaxJobs-1 -> SUBSET Ids]
  /\ marked \subseteq 0..MaxJobs-1
  /\ deleted \in -1..MaxJobs-1 /\ fifo \in BOOLEAN /\ killed \in BOOLEAN
  /\ unsampled \in BOOLEAN /\ overwritten \in BOOLEAN

\* Where the main thread is, as far as jobs go.
JobInv ==
  /\ deleted < job
  /\ main = "truncate" => revision < job
  /\ main \in {"delete", "save", "record"} => revision <= deleted

\* A manifest entry is a job that used the container, and no later one did.
ManifestInv ==
  /\ \A id \in DOMAIN manifest : manifest[id] \in Live /\ id \in Used(manifest[id])
  /\ \A j \in Live : \A id \in Used(j) : id \in DOMAIN manifest /\ j <= manifest[id]

\* What is being reclaimed is not in the manifest.
InvalidInv ==
  /\ invalid \cap DOMAIN manifest = {}
  /\ main \notin {"delete", "save", "record"} => invalid = {}

\* While nothing was killed and no list overwritten, each container is somewhere.
LeakInv ==
  ~killed /\ ~overwritten => Ids \subseteq DOMAIN manifest \cup Reclaimed \cup invalid
                                             \cup (IF main = "backup" THEN Used(job) ELSE {})

\* What is at this key may be there for want of a fingerprint.
Unsampled(k) == k = DummyKey /\ unsampled

\* A key leads to a container or segment that has a fingerprint with it.
Contains(k, e) ==
  IF locality = "physical"
  THEN e \in Ids /\ (Unsampled(k) \/ \E f \in containers[e] : key[f] = k)
  ELSE /\ e[1] \in 0..MaxJobs-1 /\ e[2] \in DOMAIN recipe[e[1]]
       /\ Unsampled(k) \/ \E f \in DOMAIN recipe[e[1]][e[2]] : key[f] = k

\* The ids of a list lead to what has the key, in jobs up to last, of which the
\* latest come first.
Sound(ix, last) ==
  \A k \in Keys : \A i \in DOMAIN ix[k] :
    /\ Contains(k, ix[k][i])
    /\ locality = "logical" =>
         /\ ix[k][i][1] <= last
         /\ \A j \in i..Len(ix[k]) : ix[k][j][1] <= ix[k][i][1]

IndexInv ==
  /\ Sound(htable, job - 1)
  /\ Sound(index, IF main = "backup" THEN job ELSE job - 1)
  /\ main \notin {"backup", "delete", "save"} => index = NoIndex
  /\ main # "backup" => known = {}

\* The containers that an id of the index leads to.
LeadsTo(e) == IF locality = "physical" THEN {e} ELSE Used(e[1])

Avoids(ix, ids) == \A k \in Asked : \A i \in DOMAIN ix[k] : LeadsTo(ix[k][i]) \cap ids = {}

\* The keys of which a deletion finds everything: not the dummy key, once
\* something is there for want of a fingerprint.
Swept == IF unsampled THEN {key[f] : f \in FP} \ {DummyKey} ELSE Keys

\* At these keys a logical index leads to live jobs, and to the one just being
\* deleted.
Young(ix, stages) ==
  locality = "logical" =>
    \A k \in Swept : \A i \in DOMAIN ix[k] :
      \/ ix[k][i][1] > deleted
      \/ main \in stages /\ ix[k][i][1] = revision

YoungInv == fifo /\ ~killed => Young(htable, {"delete", "save"}) /\ Young(index, {"delete"})

InOrder ==
  /\ locality = "physical" \/ (fifo /\ ~killed)
  /\ unsampled => DummyKey \notin Asked

\* What was given out is used by nobody and led to by nothing.
SafeInv ==
  InOrder =>
    /\ DOMAIN manifest \cap Reclaimed = {}
    /\ main = "backup" => Used(job) \cap Reclaimed = {}
    /\ \A p \in known : p[2] \notin Reclaimed
    /\ Avoids(htable, Reclaimed) /\ Avoids(index, Reclaimed)
    /\ main = "save" => Avoids(index, invalid)
    /\ main = "record" => Avoids(htable, invalid)

\* The inductive invariant.
IInv == /\ TypeInv /\ JobInv /\ ManifestInv /\ InvalidInv /\ LeakInv
        /\ IndexInv /\ YoungInv /\ SafeInv

-----------------------------------------------------------------------------
(* What the operators do. *)

\* The bounds are at least one.
LEMMA Bounds == MaxJobs \in Nat /\ MaxJobs > 0 /\ ValueLength \in Nat /\ ValueLength > 0
  BY GCAssumption

\* The keys that are asked for, and the ones that a deletion sweeps.
LEMMA KeyFacts ==
  ASSUME TypeInv
  PROVE  /\ Asked \subseteq Keys /\ Swept \subseteq Keys
         /\ (unsampled => DummyKey \notin Asked) => Asked \subseteq Swept
         /\ \A k \in Swept : ~Unsampled(k)
<1>1. \A f \in FP : key[f] \in Keys
  BY DEF TypeInv
<1>2. Asked \subseteq Keys
  BY <1>1 DEF Asked, Keys
<1>3. Swept \subseteq Keys /\ \A k \in Swept : ~Unsampled(k)
  BY <1>1 DEF Swept, Unsampled
<1>4. ASSUME unsampled => DummyKey \notin Asked PROVE Asked \subseteq Swept
  BY <1>2, <1>4 DEF Asked, Swept
<1> QED BY <1>2, <1>3, <1>4

\* The lists name existing containers.
LEMMA ReclaimedFacts == TypeInv => Reclaimed \subseteq Ids
  BY DEF TypeInv, Reclaimed

\* What a segment of a recipe is.
LEMMA SegmentFacts ==
  ASSUME TypeInv, NEW j \in 0..MaxJobs-1, NEW n \in DOMAIN recipe[j]
  PROVE  /\ DOMAIN recipe[j][n] \subseteq FP
         /\ \A f \in DOMAIN recipe[j][n] : recipe[j][n][f] \in Used(j) /\ recipe[j][n][f] \in Ids
<1>1. recipe[j] \in Seq(Segments)
  BY DEF TypeInv
<1>2. recipe[j][n] \in Segments
  BY <1>1
<1>3. \A f \in DOMAIN recipe[j][n] : recipe[j][n][f] \in Used(j)
  BY DEF Used
<1>4. DOMAIN recipe[j][n] \subseteq FP
  BY <1>2 DEF Segments
<1> QED BY <1>3, <1>4 DEF TypeInv

\* A prefetch finds existing containers, those that an id of the index leads to.
LEMMA ReachFacts ==
  ASSUME TypeInv, Sound(htable, job - 1), NEW p \in Reach(htable)
  PROVE  /\ p \in FP \X Ids
         /\ \E k \in Asked : \E i \in DOMAIN htable[k] : p[2] \in LeadsTo(htable[k][i])
<1>0. PICK k \in Asked : \E i \in DOMAIN htable[k] : p \in Leads(htable[k][i])
  BY DEF Reach
<1>1. PICK i \in DOMAIN htable[k] : p \in Leads(htable[k][i])
  BY <1>0
<1> DEFINE e == htable[k][i]
<1>2. k \in Keys /\ Contains(k, e)
  BY <1>1, KeyFacts DEF Sound
<1>3. e \in Entries
  BY <1>1, <1>2 DEF TypeInv
<1> HIDE DEF e
<1>4. CASE locality = "physical"
  <2>1. PICK g \in containers[e] : p = <<g, e>>
    BY <1>1, <1>4 DEF Leads, e
  <2>2. e \in Ids /\ g \in FP
    BY <1>2, <1>4, <2>1 DEF Contains, TypeInv
  <2>3. p[2] \in LeadsTo(e) /\ p \in FP \X Ids
    BY <1>4, <2>1, <2>2 DEF LeadsTo
  <2> QED BY <2>3, <1>1 DEF e
<1>5. CASE locality = "logical"
  <2>1. PICK n \in e[2]..Len(recipe[e[1]]) : \E g \in DOMAIN recipe[e[1]][n] : p = <<g, recipe[e[1]][n][g]>>
    BY <1>1, <1>5 DEF Leads, e
  <2>2. PICK g \in DOMAIN recipe[e[1]][n] : p = <<g, recipe[e[1]][n][g]>>
    BY <2>1
  <2>3. e[1] \in 0..MaxJobs-1 /\ e[2] \in DOMAIN recipe[e[1]]
    BY <1>2, <1>5 DEF Contains
  <2>4. recipe[e[1]] \in Seq(Segments)
    BY <2>3 DEF TypeInv
  <2>5. n \in DOMAIN recipe[e[1]]
    BY <2>3, <2>4, <2>1
  <2>6. g \in FP /\ recipe[e[1]][n][g] \in Used(e[1]) /\ recipe[e[1]][n][g] \in Ids
    BY <2>3, <2>5, <2>2, SegmentFacts
  <2>7. p[2] \in LeadsTo(e) /\ p \in FP \X Ids
    BY <1>5, <2>2, <2>6 DEF LeadsTo
  <2> QED BY <2>7, <1>1 DEF e
<1> QED BY <1>4, <1>5 DEF TypeInv

\* kv_update puts the id first, keeps the others in order and respects the length.
LEMMA UpdateFacts ==
  ASSUME NEW ids \in Seq(Entries), NEW id \in Entries, Len(ids) <= ListMax
  PROVE  /\ Update(ids, id) \in Seq(Entries)
         /\ Len(Update(ids, id)) \in 1..ListMax
         /\ Update(ids, id)[1] = id
         /\ \A i \in 2..Len(Update(ids, id)) :
              i - 1 \in 1..Len(ids) /\ Update(ids, id)[i] = ids[i - 1]
<1> USE Bounds
<1>1. CASE locality = "physical"
  BY <1>1 DEF Update, ListMax
<1>2. CASE locality # "physical"
  <2> DEFINE n == IF Len(ids) < ValueLength THEN Len(ids) ELSE ValueLength - 1
             rest == SubSeq(ids, 1, n)
  <2>1. n \in Nat /\ n <= Len(ids) /\ n <= ValueLength - 1
    OBVIOUS
  <2>2. rest \in Seq(Entries) /\ Len(rest) = n /\ \A i \in 1..n : rest[i] = ids[i]
    BY <2>1
  <2>3. Update(ids, id) = <<id>> \o rest
    BY <1>2 DEF Update
  <2> HIDE DEF n, rest
  <2>4. /\ <<id>> \o rest \in Seq(Entries)
        /\ Len(<<id>> \o rest) = n + 1
        /\ (<<id>> \o rest)[1] = id
        /\ \A i \in 2..n + 1 : (<<id>> \o rest)[i] = rest[i - 1]
    BY <2>1, <2>2
  <2> QED BY <1>2, <2>1, <2>2, <2>3, <2>4 DEF ListMax
<1> QED BY <1>1, <1>2

\* An index update puts the new id first where there is a feature.
LEMMA IndexUpdateFacts ==
  ASSUME TypeInv, NEW features, NEW e \in Entries, IndexUpdate(features, e)
  PROVE  /\ index' \in [Keys -> Seq(Entries)]
         /\ \A k \in Keys : Len(index'[k]) <= ListMax
         /\ \A k \in Keys : \A i \in DOMAIN index'[k] :
              \/ k \in features /\ index'[k][i] = e
              \/ \E j \in DOMAIN index[k] : index'[k][i] = index[k][j]
         /\ locality = "logical" /\ Sound(index, e[1]) =>
              \A k \in Keys : \A i \in DOMAIN index'[k] :
                \A j \in i..Len(index'[k]) : index'[k][j][1] <= index'[k][i][1]
<1>1. \A k \in Keys : index[k] \in Seq(Entries) /\ Len(index[k]) <= ListMax
  BY DEF TypeInv
<1>2. \A k \in Keys : index'[k] = IF k \in features THEN Update(index[k], e) ELSE index[k]
  BY DEF IndexUpdate
<1>3. \A k \in Keys : /\ Update(index[k], e) \in Seq(Entries)
                    /\ Len(Update(index[k], e)) \in 1..ListMax
                    /\ Update(index[k], e)[1] = e
                    /\ \A i \in 2..Len(Update(index[k], e)) :
                         i - 1 \in 1..Len(index[k]) /\ Update(index[k], e)[i] = index[k][i - 1]
  <2> SUFFICES ASSUME NEW k \in Keys
               PROVE  /\ Update(index[k], e) \in Seq(Entries)
                      /\ Len(Update(index[k], e)) \in 1..ListMax
                      /\ Update(index[k], e)[1] = e
                      /\ \A i \in 2..Len(Update(index[k], e)) :
                           i - 1 \in 1..Len(index[k]) /\ Update(index[k], e)[i] = index[k][i - 1]
    OBVIOUS
  <2>1. index[k] \in Seq(Entries) /\ Len(index[k]) <= ListMax
    BY <1>1
  <2> QED BY <2>1, UpdateFacts
<1>4. index' \in [Keys -> Seq(Entries)]
  <2>1. \A k \in Keys : index'[k] \in Seq(Entries)
    BY <1>1, <1>2, <1>3
  <2>2. index' = [k \in Keys |-> index'[k]]
    BY DEF IndexUpdate
  <2> QED BY <2>1, <2>2
<1>5. \A k \in Keys : Len(index'[k]) <= ListMax
  BY <1>1, <1>2, <1>3, Bounds
<1>6. ASSUME NEW k \in Keys, NEW i \in DOMAIN index'[k]
      PROVE  \/ k \in features /\ index'[k][i] = e
             \/ \E j \in DOMAIN index[k] : index'[k][i] = index[k][j]
  <2>1. CASE k \in features
    <3>1. i \in 1..Len(Update(index[k], e)) /\ index'[k] = Update(index[k], e)
      BY <2>1, <1>2, <1>3
    <3>2. CASE i = 1
      BY <3>1, <3>2, <2>1, <1>3
    <3>3. CASE i # 1
      <4>1. i \in 2..Len(Update(index[k], e))
        BY <3>1, <3>3, <1>3
      <4>2. i - 1 \in DOMAIN index[k] /\ index'[k][i] = index[k][i - 1]
        BY <3>1, <4>1, <1>1, <1>3
      <4> QED BY <4>2
    <3> QED BY <3>2, <3>3
  <2>2. CASE k \notin features
    BY <2>2, <1>2
  <2> QED BY <2>1, <2>2
<1>7. ASSUME locality = "logical", Sound(index, e[1]),
             NEW k \in Keys, NEW i \in DOMAIN index'[k], NEW j \in i..Len(index'[k])
      PROVE  index'[k][j][1] <= index'[k][i][1]
  <2>0. \A x \in Entries : x[1] \in Nat
    BY <1>7 DEF Entries
  <2>1. CASE k \in features
    <3>1. /\ index'[k] = Update(index[k], e)
          /\ i \in 1..Len(Update(index[k], e)) /\ j \in 1..Len(Update(index[k], e)) /\ i <= j
      BY <2>1, <1>2, <1>3
    <3>2. CASE i = 1
      <4>1. index'[k][i] = e
        BY <3>1, <3>2, <1>3
      <4>2. CASE j = 1
        BY <4>1, <4>2, <3>2, <2>0
      <4>3. CASE j # 1
        <5>1. j \in 2..Len(Update(index[k], e))
          BY <3>1, <4>3
        <5>2. j - 1 \in DOMAIN index[k] /\ index'[k][j] = index[k][j - 1]
          BY <3>1, <5>1, <1>1, <1>3
        <5> QED BY <4>1, <5>2, <1>7 DEF Sound
      <4> QED BY <4>2, <4>3
    <3>3. CASE i # 1
      <4>1. i \in 2..Len(Update(index[k], e)) /\ j \in 2..Len(Update(index[k], e))
        BY <3>1, <3>3
      <4>2. /\ i - 1 \in DOMAIN index[k] /\ index'[k][i] = index[k][i - 1]
            /\ j - 1 \in (i - 1)..Len(index[k]) /\ index'[k][j] = index[k][j - 1]
        BY <3>1, <4>1, <1>1, <1>3
      <4> QED BY <4>2, <1>7 DEF Sound
    <3> QED BY <3>2, <3>3
  <2>2. CASE k \notin features
    BY <2>2, <1>2, <1>7 DEF Sound
  <2> QED BY <2>1, <2>2
<1> QED BY <1>4, <1>5, <1>6, <1>7

\* Jobs and containers stay what they are when recipes and containers do.
LEMMA SameStores ==
  ASSUME UNCHANGED <<locality, key, similarity, containers, recipe, unsampled>>
  PROVE  /\ Ids' = Ids /\ Entries' = Entries /\ ListMax' = ListMax
         /\ Asked' = Asked /\ Swept' = Swept
         /\ \A j : Used(j)' = Used(j)
         /\ \A e : LeadsTo(e)' = LeadsTo(e)
         /\ \A k, e : Contains(k, e)' = Contains(k, e)
  BY DEF Ids, Entries, ListMax, Asked, Swept, Used, LeadsTo, Contains, Unsampled

-----------------------------------------------------------------------------
(* Backup. *)

\* An index that is closed is empty.
LEMMA NoIndexFacts ==
  /\ NoIndex \in [Keys -> Seq(Entries)]
  /\ \A k \in Keys : Len(NoIndex[k]) <= ListMax
  /\ \A k \in Keys : \A i \in DOMAIN NoIndex[k] : FALSE
<1>1. NoIndex \in [Keys -> Seq(Entries)]
  BY DEF NoIndex
<1>2. 0 <= ListMax
  BY Bounds DEF ListMax
<1>3. \A k \in Keys : Len(NoIndex[k]) <= ListMax
  BY <1>2 DEF NoIndex
<1>4. \A k \in Keys : \A i \in DOMAIN NoIndex[k] : FALSE
  BY DEF NoIndex
<1> QED BY <1>1, <1>3, <1>4

\* A fresh installation.
LEMMA InitIInv == Init => IInv
<1> SUFFICES ASSUME Init PROVE IInv
  OBVIOUS
<1>1. Ids = {} /\ Cardinality(Ids) = 0
  BY FS_EmptySet DEF Init, Nothing, Ids
<1>2. recipe \in [0..MaxJobs-1 -> Seq(Segments)]
  BY DEF Init
<1>3. \A j \in 0..MaxJobs-1 : Used(j) \subseteq Ids
  BY DEF Init, Used
<1>4. /\ locality \in Localities /\ main = "idle" /\ job = 0 /\ revision = 0
      /\ known = {} /\ index = NoIndex /\ htable = NoIndex
      /\ DOMAIN manifest = {} /\ invalid = {} /\ reclaimed = NoLists /\ marked = {}
      /\ deleted = -1 /\ fifo = TRUE /\ killed = FALSE /\ unsampled = FALSE /\ overwritten = FALSE
      /\ key \in KeyMaps /\ similarity \in BOOLEAN
  BY DEF Init, Nothing
<1>5. containers \in [Ids -> SUBSET FP]
  BY DEF Init, Nothing, Ids
<1>6. TypeInv
  <2>1. locality \in {"physical", "logical"} /\ key \in [FP -> Keys]
    BY <1>4, GCAssumption
  <2>4. reclaimed \in [0..MaxJobs-1 -> SUBSET Ids]
    BY <1>4 DEF NoLists
  <2>2. job \in 0..MaxJobs /\ revision \in 0..MaxJobs-1 /\ deleted \in -1..MaxJobs-1
    BY <1>4, Bounds
  <2>3. Cardinality(Ids) \in Nat /\ Ids = 0..Cardinality(Ids)-1
    BY <1>1
  <2> QED BY <1>2, <1>3, <1>4, <1>5, <2>1, <2>2, <2>3, <2>4, NoIndexFacts DEF TypeInv
<1>7. Live = {}
  BY <1>4 DEF Live
<1>8. JobInv /\ ManifestInv /\ InvalidInv /\ LeakInv
  BY <1>1, <1>4, <1>7 DEF JobInv, ManifestInv, InvalidInv, LeakInv
<1>9. IndexInv
  BY <1>4, NoIndexFacts DEF IndexInv, Sound
<1>10. YoungInv /\ SafeInv
  <2>1. Reclaimed = {}
    BY <1>4 DEF Reclaimed, NoLists
  <2>2. Young(htable, {"delete", "save"}) /\ Young(index, {"delete"})
    BY <1>4, <1>6, KeyFacts, NoIndexFacts DEF Young
  <2> QED BY <1>4, <2>1, <2>2 DEF YoungInv, SafeInv, Avoids
<1> QED BY <1>6, <1>8, <1>9, <1>10 DEF IInv

\* A backup begins with an empty recipe; what it may find is in the index.
LEMMA BeginKeeps ==
  ASSUME IInv, Begin
  PROVE  IInv'
<1> USE Bounds DEF Begin
<1>0. TypeInv /\ Sound(htable, job - 1)
  BY DEF IInv, IndexInv
<1>b. UNCHANGED <<locality, key, similarity, job, revision, containers, htable, manifest,
                  invalid, reclaimed, deleted, fifo, killed, unsampled, overwritten>>
  BY DEF config, history
<1>1. /\ recipe' \in [0..MaxJobs-1 -> Seq(Segments)]
      /\ recipe'[job] = <<>> /\ \A j \in 0..MaxJobs-1 : j # job => recipe'[j] = recipe[j]
  BY <1>0 DEF TypeInv
<1>2. /\ Used(job)' = {}
      /\ \A j \in 0..MaxJobs-1 : j # job => Used(j)' = Used(j)
  BY <1>1 DEF Used
<1>3. /\ Live' = Live /\ Ids' = Ids /\ Entries' = Entries /\ ListMax' = ListMax
      /\ Asked' = Asked /\ Swept' = Swept /\ Reclaimed' = Reclaimed
  BY <1>b DEF Live, Ids, Entries, ListMax, Asked, Swept, Reclaimed
<1>4. \A p \in known' : /\ p \in FP \X Ids
                        /\ \E k \in Asked : \E i \in DOMAIN htable[k] : p[2] \in LeadsTo(htable[k][i])
  BY <1>0, ReachFacts
<1>5. TypeInv'
  <2>1. \A j \in 0..MaxJobs-1 : Used(j)' \subseteq Ids'
    BY <1>0, <1>2, <1>3 DEF TypeInv
  <2> QED BY <1>0, <1>b, <1>1, <1>3, <1>4, <2>1 DEF TypeInv
<1>6. JobInv' /\ ManifestInv' /\ InvalidInv' /\ LeakInv'
  <2>1. ASSUME NEW j \in Live
        PROVE  Used(j)' = Used(j)
    <3>1. j \in 0..MaxJobs-1 /\ j # job
      BY <1>0 DEF Live, TypeInv
    <3> QED BY <3>1, <1>2
  <2>2. ManifestInv'
    BY <2>1, <1>b, <1>3 DEF IInv, ManifestInv
  <2>3. JobInv' /\ InvalidInv'
    BY <1>b DEF IInv, JobInv, InvalidInv
  <2>4. LeakInv'
    BY <1>b, <1>2, <1>3 DEF IInv, LeakInv
  <2> QED BY <2>2, <2>3, <2>4
<1>7. \A k \in Keys : \A i \in DOMAIN htable[k] :
        /\ Contains(k, htable[k][i])' /\ LeadsTo(htable[k][i])' = LeadsTo(htable[k][i])
  <2> SUFFICES ASSUME NEW k \in Keys, NEW i \in DOMAIN htable[k]
               PROVE  /\ Contains(k, htable[k][i])'
                      /\ LeadsTo(htable[k][i])' = LeadsTo(htable[k][i])
    OBVIOUS
  <2>1. Contains(k, htable[k][i]) /\ (locality = "logical" => htable[k][i][1] <= job - 1)
    BY <1>0 DEF Sound
  <2>2. CASE locality = "physical"
    BY <2>1, <2>2, <1>b, <1>3 DEF Contains, Unsampled, LeadsTo
  <2>3. CASE locality = "logical"
    <3>1. htable[k][i][1] \in 0..MaxJobs-1 /\ htable[k][i][1] # job
      BY <2>1, <2>3, <1>0 DEF Contains, TypeInv
    <3> QED BY <2>1, <2>3, <3>1, <1>b, <1>1, <1>2 DEF Contains, Unsampled, LeadsTo
  <2> QED BY <2>2, <2>3, <1>0 DEF TypeInv
<1>8. IndexInv'
  <2>1. Sound(htable, job - 1)'
    BY <1>0, <1>b, <1>7 DEF Sound
  <2>2. ASSUME locality = "logical", NEW k \in Keys, NEW i \in DOMAIN htable[k]
        PROVE  htable[k][i][1] \in Nat
    BY <2>2, <1>0 DEF TypeInv, Entries
  <2>3. Sound(htable, job)'
    <3>1. \A k \in Keys : \A i \in DOMAIN htable[k] :
            locality = "logical" => htable[k][i][1] <= job
      BY <2>2, <1>0 DEF Sound, TypeInv
    <3> QED BY <2>1, <3>1, <1>b DEF Sound
  <2> QED BY <2>1, <2>3, <1>b DEF IndexInv, Sound
<1>9. YoungInv'
  <2> SUFFICES ASSUME fifo, ~killed PROVE YoungInv'
    BY <1>b DEF YoungInv
  <2>1. Young(htable, {"delete", "save"})
    BY DEF IInv, YoungInv
  <2>2. Young(htable, {"delete", "save"})' /\ Young(htable, {"delete"})'
    BY <2>1, <1>b, <1>3 DEF Young
  <2>3. Young(index, {"delete"})'
    BY <2>2, <1>b DEF Young
  <2> QED BY <2>2, <2>3 DEF YoungInv
<1>10. SafeInv'
  <2> SUFFICES ASSUME InOrder PROVE SafeInv'
    BY <1>b, <1>3 DEF SafeInv, InOrder
  <2>1. Avoids(htable, Reclaimed) /\ DOMAIN manifest \cap Reclaimed = {}
    BY DEF IInv, SafeInv
  <2>2. Avoids(htable, Reclaimed)'
    BY <2>1, <1>0, <1>b, <1>3, <1>7, KeyFacts DEF Avoids
  <2>3. \A p \in known' : p[2] \notin Reclaimed
    BY <2>1, <1>4 DEF Avoids
  <2>4. Avoids(index, Reclaimed)'
    BY <2>2, <1>b DEF Avoids
  <2> QED BY <2>1, <2>2, <2>3, <2>4, <1>b, <1>2, <1>3 DEF SafeInv
<1> QED BY <1>5, <1>6, <1>8, <1>9, <1>10 DEF IInv

\* A segment names containers that a lookup returned, or the new one.
LEMMA SegmentKeeps ==
  ASSUME IInv, NEW fps \in SUBSET FP, NEW written \in SUBSET fps,
         NEW segment \in [fps -> 0..Cardinality(Ids)], Segment(segment, written)
  PROVE  IInv'
<1> USE Bounds
<1> DEFINE new == Cardinality(Ids)
           n == Len(recipe[job]) + 1
           e == IF locality = "physical" THEN new ELSE <<job, n>>
           held == IF locality = "physical" THEN written ELSE fps
<1>0. TypeInv /\ IndexInv /\ YoungInv /\ SafeInv
  BY DEF IInv
<1>1. /\ main = "backup" /\ main' = "backup"
      /\ \A f \in fps : IF f \in written THEN segment[f] = new ELSE <<f, segment[f]>> \in known
      /\ recipe' = [recipe EXCEPT ![job] = Append(@, segment)]
      /\ containers' = IF written = {} THEN containers
                       ELSE [id \in 0..new |-> IF id = new THEN written ELSE containers[id]]
      /\ known' = known \cup {<<f, segment[f]>> : f \in fps}
      /\ \/ locality = "physical" /\ written = {} /\ UNCHANGED <<index, unsampled>>
         \/ Index(held, e) /\ (locality = "physical" => written # {})
      /\ UNCHANGED <<locality, key, similarity, job, revision, marked, htable, manifest,
                     invalid, reclaimed, deleted, fifo, killed, overwritten>>
  BY DEF Segment, Ids, config
<1>f. /\ unsampled' \in BOOLEAN /\ (unsampled => unsampled')
      /\ \/ locality = "physical" /\ written = {} /\ UNCHANGED index
         \/ \E features \in SUBSET Keys :
              /\ IndexUpdate(features, e) /\ (locality = "physical" => written # {})
              /\ \A k \in features : (k = DummyKey /\ unsampled') \/ \E f \in held : key[f] = k
  <2>1. unsampled \in BOOLEAN /\ \A f \in FP : key[f] \in Keys
    BY <1>0 DEF TypeInv
  <2>2. CASE locality = "physical" /\ written = {} /\ UNCHANGED <<index, unsampled>>
    BY <2>1, <2>2
  <2>3. CASE Index(held, e) /\ (locality = "physical" => written # {})
    <3>0. held \subseteq FP
      OBVIOUS
    <3> HIDE DEF held, e
    <3>1. PICK features \in Features(held) :
            /\ IndexUpdate(features, e)
            /\ unsampled' = (unsampled \/ ~(features \subseteq {key[f] : f \in held}))
      BY <2>3 DEF Index
    <3>2. features \subseteq {key[f] : f \in held} \cup {DummyKey}
      BY DEF Features, Sampled
    <3>3. features \subseteq Keys
      BY <2>1, <3>0, <3>2 DEF Keys
    <3>4. \A k \in features : (k = DummyKey /\ unsampled') \/ \E f \in held : key[f] = k
      BY <3>1, <3>2
    <3>5. unsampled' \in BOOLEAN /\ (unsampled => unsampled')
      BY <2>1, <3>1, Zenon
    <3> QED BY <2>3, <3>1, <3>3, <3>4, <3>5
  <2> QED BY <1>1, <2>2, <2>3
<1> HIDE DEF held
<1>k. /\ Asked' = Asked /\ Reclaimed' = Reclaimed /\ Swept' \subseteq Swept
      /\ Reclaimed \subseteq Ids
  <2>1. key' = key /\ similarity' = similarity /\ reclaimed' = reclaimed
    BY <1>1
  <2>2. \A f \in FP : key[f] \in Keys
    BY <1>0 DEF TypeInv
  <2> QED BY <1>0, <1>f, <2>1, <2>2, ReclaimedFacts DEF Asked, Reclaimed, Swept
<1>2. job \in 0..MaxJobs-1 /\ new \in Nat /\ Ids = 0..new-1 /\ new \notin Ids
  BY <1>0, <1>1, SMTT(30) DEF TypeInv
<1>3. /\ recipe' \in [0..MaxJobs-1 -> Seq(Segments)]
      /\ \A j \in 0..MaxJobs-1 : j # job => recipe'[j] = recipe[j]
      /\ DOMAIN recipe[job] = 1..n-1 /\ DOMAIN recipe'[job] = 1..n /\ n \in Nat \ {0}
      /\ recipe'[job][n] = segment
      /\ \A m \in 1..n-1 : recipe'[job][m] = recipe[job][m]
  <2>1. segment \in Segments
    <3>1. segment \in [fps -> Nat]
      BY <1>2
    <3> QED BY <3>1 DEF Segments
  <2>2. recipe \in [0..MaxJobs-1 -> Seq(Segments)] /\ recipe[job] \in Seq(Segments)
    BY <1>0, <1>2 DEF TypeInv
  <2>3. recipe'[job] = Append(recipe[job], segment)
    BY <1>1, <1>2, <2>2
  <2>4. /\ Append(recipe[job], segment) \in Seq(Segments)
        /\ Len(Append(recipe[job], segment)) = n
        /\ Append(recipe[job], segment)[n] = segment
        /\ \A m \in 1..n-1 : Append(recipe[job], segment)[m] = recipe[job][m]
    BY <2>1, <2>2
  <2>5. recipe' \in [0..MaxJobs-1 -> Seq(Segments)]
    BY <1>1, <1>2, <2>2, <2>3, <2>4
  <2> QED BY <1>1, <1>2, <2>2, <2>3, <2>4, <2>5
<1>4. /\ Cardinality(Ids)' \in Nat /\ Ids' = 0..(Cardinality(Ids)')-1
      /\ Ids \subseteq Ids'
      /\ \A id \in Ids' : id \in Ids \/ id = new
      /\ written # {} => new \in Ids' /\ containers'[new] = written
      /\ written = {} => Ids' = Ids
      /\ \A id \in Ids : containers'[id] = containers[id]
      /\ containers' \in [Ids' -> SUBSET FP]
  <2>1. CASE written = {}
    BY <1>0, <1>1, <1>2, <2>1 DEF TypeInv, Ids
  <2>2. CASE written # {}
    <3>1. Ids' = 0..new
      BY <1>1, <2>2 DEF Ids
    <3>2. Cardinality(0..new) = new + 1
      BY <1>2, FS_Interval
    <3>3. \A id \in 0..new : id \in Ids \/ id = new
      BY <1>2
    <3>4. /\ containers'[new] = written
          /\ \A id \in Ids : containers'[id] = containers[id]
      BY <1>1, <1>2, <2>2
    <3>5. containers' \in [0..new -> SUBSET FP]
      <4>1. \A id \in 0..new : (IF id = new THEN written ELSE containers[id]) \in SUBSET FP
        BY <1>0, <3>3 DEF TypeInv
      <4> QED BY <1>1, <2>2, <4>1
    <3> QED BY <1>2, <2>2, <3>1, <3>2, <3>3, <3>4, <3>5
  <2> QED BY <2>1, <2>2
<1>5. \A f \in fps : /\ segment[f] \in Ids'
                     /\ InOrder => segment[f] \notin Reclaimed
  <2> SUFFICES ASSUME NEW f \in fps
               PROVE  /\ segment[f] \in Ids'
                      /\ InOrder => segment[f] \notin Reclaimed
    OBVIOUS
  <2>1. CASE f \in written
    <3>1. segment[f] = new /\ new \in Ids'
      BY <2>1, <1>1, <1>4
    <3>2. Reclaimed \subseteq Ids
      BY <1>k
    <3> QED BY <1>2, <3>1, <3>2, Zenon
  <2>2. CASE f \notin written
    <3>1. <<f, segment[f]>> \in known
      BY <2>2, <1>1
    <3>2. segment[f] \in Ids
      BY <3>1, <1>0 DEF TypeInv
    <3>3. InOrder => segment[f] \notin Reclaimed
      BY <3>1, <1>0 DEF SafeInv
    <3> QED BY <3>2, <3>3, <1>4
  <2> QED BY <2>1, <2>2
<1>6. /\ Used(job)' = Used(job) \cup {segment[f] : f \in fps}
      /\ \A j \in 0..MaxJobs-1 : j # job => Used(j)' = Used(j)
  <2>1. \A j \in 0..MaxJobs-1 : j # job => Used(j)' = Used(j)
    BY <1>3 DEF Used
  <2>2. job' = job /\ DOMAIN segment = fps
    BY <1>1
  <2>3. ASSUME NEW id
        PROVE  id \in Used(job)' <=> id \in Used(job) \/ \E f \in fps : id = segment[f]
    <3>1. id \in Used(job)' <=> \E m \in 1..n : \E f \in DOMAIN recipe'[job][m] : id = recipe'[job][m][f]
      <4>1. DOMAIN recipe'[job] = 1..n
        BY <1>3
      <4> HIDE DEF n
      <4> QED BY <2>2, <4>1 DEF Used
    <3>2. id \in Used(job) <=> \E m \in 1..n-1 : \E f \in DOMAIN recipe[job][m] : id = recipe[job][m][f]
      <4>1. DOMAIN recipe[job] = 1..n-1
        BY <1>3
      <4> HIDE DEF n
      <4> QED BY <4>1 DEF Used
    <3>3. \A m \in 1..n : m = n \/ m \in 1..n-1
      BY <1>3
    <3>4. n \in 1..n /\ \A m \in 1..n-1 : m \in 1..n
      BY <1>3
    <3> HIDE DEF n
    <3> QED BY <3>1, <3>2, <3>3, <3>4, <2>2, <1>3
  <2> QED BY <2>1, <2>3
<1>7. e \in Entries /\ (locality = "logical" => e[1] = job)
  <2>1. n \in Nat /\ job \in Nat /\ new \in Nat
    BY <1>2, <1>3
  <2> HIDE DEF n, new
  <2> QED BY <2>1, <1>0 DEF Entries, TypeInv
<1>8. /\ index' \in [Keys -> Seq(Entries)]
      /\ \A k \in Keys : Len(index'[k]) <= ListMax
      /\ \A k \in Keys : \A i \in DOMAIN index'[k] :
           \/ /\ index'[k][i] = e /\ (locality = "physical" => written # {})
              /\ (k = DummyKey /\ unsampled') \/ \E f \in held : key[f] = k
           \/ \E j \in DOMAIN index[k] : index'[k][i] = index[k][j]
      /\ locality = "logical" =>
           \A k \in Keys : \A i \in DOMAIN index'[k] :
             \A j \in i..Len(index'[k]) : index'[k][j][1] <= index'[k][i][1]
  <2>1. CASE locality = "physical" /\ written = {} /\ UNCHANGED index
    BY <2>1, <1>0 DEF TypeInv
  <2>2. ASSUME NEW features \in SUBSET Keys, IndexUpdate(features, e),
               locality = "physical" => written # {},
               \A k \in features : (k = DummyKey /\ unsampled') \/ \E f \in held : key[f] = k
        PROVE  /\ index' \in [Keys -> Seq(Entries)]
               /\ \A k \in Keys : Len(index'[k]) <= ListMax
               /\ \A k \in Keys : \A i \in DOMAIN index'[k] :
                    \/ /\ index'[k][i] = e /\ (locality = "physical" => written # {})
                       /\ (k = DummyKey /\ unsampled') \/ \E f \in held : key[f] = k
                    \/ \E j \in DOMAIN index[k] : index'[k][i] = index[k][j]
               /\ locality = "logical" =>
                    \A k \in Keys : \A i \in DOMAIN index'[k] :
                      \A j \in i..Len(index'[k]) : index'[k][j][1] <= index'[k][i][1]
    <3>1. locality = "logical" => Sound(index, e[1])
      BY <1>0, <1>1, <1>7 DEF IndexInv
    <3> HIDE DEF e
    <3>2. /\ index' \in [Keys -> Seq(Entries)]
          /\ \A k \in Keys : Len(index'[k]) <= ListMax
          /\ \A k \in Keys : \A i \in DOMAIN index'[k] :
               \/ k \in features /\ index'[k][i] = e
               \/ \E j \in DOMAIN index[k] : index'[k][i] = index[k][j]
          /\ locality = "logical" =>
               \A k \in Keys : \A i \in DOMAIN index'[k] :
                 \A j \in i..Len(index'[k]) : index'[k][j][1] <= index'[k][i][1]
      BY <3>1, <2>2, <1>0, <1>7, IndexUpdateFacts
    <3> QED BY <3>2, <2>2
  <2> QED BY <1>f, <2>1, <2>2
\* The id that the index update adds, as a constant.
<1>e. PICK entry : entry = e
  OBVIOUS
<1>9. \A k, x : Contains(k, x) => Contains(k, x)'
  <2> SUFFICES ASSUME NEW k, NEW x, Contains(k, x)
               PROVE  Contains(k, x)'
    OBVIOUS
  <2>0. Unsampled(k) => Unsampled(k)'
    BY <1>f DEF Unsampled
  <2>1. CASE locality = "physical"
    BY <2>0, <2>1, <1>1, <1>4 DEF Contains
  <2>2. CASE locality # "physical"
    <3>1. /\ x[1] \in 0..MaxJobs-1 /\ x[2] \in DOMAIN recipe[x[1]]
          /\ Unsampled(k) \/ \E f \in DOMAIN recipe[x[1]][x[2]] : key[f] = k
      BY <2>2 DEF Contains
    <3>2. x[2] \in DOMAIN recipe'[x[1]] /\ recipe'[x[1]][x[2]] = recipe[x[1]][x[2]]
      <4>1. CASE x[1] # job
        BY <3>1, <4>1, <1>3
      <4>2. CASE x[1] = job
        <5>1. x[2] \in 1..n-1
          BY <3>1, <4>2, <1>3
        <5>2. x[2] \in 1..n
          BY <5>1, <1>3
        <5> QED BY <4>2, <5>1, <5>2, <1>3
      <4> QED BY <4>1, <4>2
    <3> QED BY <2>0, <2>2, <3>1, <3>2, <1>1 DEF Contains
  <2> QED BY <2>1, <2>2
<1>10. ASSUME NEW k, (k = DummyKey /\ unsampled') \/ \E f \in held : key[f] = k,
              locality = "physical" => written # {}
       PROVE  Contains(k, entry)'
  <2>0. Unsampled(k)' \/ \E f \in held : key'[f] = k
    BY <1>10, <1>1 DEF Unsampled
  <2>1. CASE locality = "physical"
    <3>1. entry \in Ids' /\ containers'[entry] = written
      BY <2>1, <1>4, <1>10, <1>e
    <3> QED BY <2>0, <2>1, <3>1, <1>1 DEF Contains, held
  <2>2. CASE locality # "physical"
    <3>1. entry[1] = job /\ entry[2] = n
      BY <2>2, <1>e
    <3>2. n \in DOMAIN recipe'[job] /\ DOMAIN recipe'[job][n] = fps
      BY <1>3
    <3> QED BY <2>0, <2>2, <3>1, <3>2, <1>1, <1>2 DEF Contains, held
  <2> QED BY <2>1, <2>2
<1> HIDE DEF new, n, e
<1>11. TypeInv'
  <2>1. \A j \in 0..MaxJobs-1 : Used(j)' \subseteq Ids'
    <3> SUFFICES ASSUME NEW j \in 0..MaxJobs-1 PROVE Used(j)' \subseteq Ids'
      OBVIOUS
    <3>1. Used(j) \subseteq Ids'
      BY <1>0, <1>4 DEF TypeInv
    <3>2. Used(job)' \subseteq Ids'
      <4>1. {segment[f] : f \in fps} \subseteq Ids'
        <5> SUFFICES ASSUME NEW f \in fps PROVE segment[f] \in Ids'
          OBVIOUS
        <5> QED BY <1>5
      <4>2. job \in 0..MaxJobs-1
        BY <1>2
      <4>3. Used(job) \subseteq Ids
        BY <1>0, <4>2 DEF TypeInv
      <4>4. Used(job) \subseteq Ids'
        BY <4>3, <1>4
      <4>5. Used(job)' = Used(job) \cup {segment[f] : f \in fps}
        BY <1>6
      <4> QED BY <4>1, <4>4, <4>5
    <3>3. CASE j = job
      BY <3>2, <3>3, <1>1
    <3>4. CASE j # job
      BY <3>1, <3>4, <1>6
    <3> QED BY <3>3, <3>4
  <2>2. known' \subseteq FP \X Ids'
    <3>1. known \subseteq FP \X Ids /\ Ids \subseteq Ids'
      BY <1>0, <1>4, Zenon DEF TypeInv
    <3>2. \A f \in fps : <<f, segment[f]>> \in FP \X Ids'
      <4>1. \A f \in fps : f \in FP /\ segment[f] \in Ids'
        BY <1>1, <1>5, Zenon
      <4> QED BY <4>1
    <3>3. known' = known \cup {<<f, segment[f]>> : f \in fps}
      BY <1>1, Zenon
    <3>4. known \subseteq FP \X Ids'
      BY <3>1
    <3> QED BY <3>2, <3>3, <3>4, Zenon
  <2>3. Entries' = Entries /\ ListMax' = ListMax
    BY <1>1 DEF Entries, ListMax
  <2>4. /\ DOMAIN manifest \subseteq Ids' /\ invalid \subseteq Ids'
        /\ reclaimed \in [0..MaxJobs-1 -> SUBSET Ids']
    BY <1>0, <1>4 DEF TypeInv
  <2> QED BY <1>0, <1>1, <1>f, <1>3, <1>4, <1>8, <2>1, <2>2, <2>3, <2>4 DEF TypeInv
<1>12. ManifestInv'
  <2>1. ASSUME NEW j \in Live
        PROVE  Used(j)' = Used(j)
    <3>1. j \in 0..MaxJobs-1 /\ j # job
      BY <1>0 DEF Live, TypeInv
    <3> QED BY <3>1, <1>6
  <2>2. Live' = Live
    BY <1>1 DEF Live
  <2> QED BY <2>1, <2>2, <1>1 DEF IInv, ManifestInv
<1>13. JobInv' /\ InvalidInv'
  BY <1>1 DEF IInv, JobInv, InvalidInv
<1>14. LeakInv'
  <2> SUFFICES ASSUME ~killed, ~overwritten, NEW id \in Ids'
               PROVE  id \in DOMAIN manifest \cup Reclaimed \cup invalid \cup Used(job)'
    BY <1>1, <1>k DEF LeakInv
  <2>1. CASE id \in Ids
    BY <2>1, <1>1, <1>6 DEF IInv, LeakInv
  <2>2. CASE id = new /\ id \notin Ids
    <3>1. PICK f \in written : TRUE
      BY <2>2, <1>4
    <3>2. segment[f] = new
      <4>1. \A g \in fps : IF g \in written THEN segment[g] = new ELSE <<g, segment[g]>> \in known
        BY <1>1
      <4> QED BY <3>1, <4>1
    <3> QED BY <2>2, <3>2, <1>6
  <2> QED BY <2>1, <2>2, <1>4
<1>15. IndexInv'
  <2>1. Sound(htable, job - 1)'
    BY <1>0, <1>1, <1>9 DEF IndexInv, Sound
  <2>2. Sound(index, job)'
    <3>1. ASSUME NEW k \in Keys, NEW i \in DOMAIN index'[k]
          PROVE  /\ Contains(k, index[k][i])'
                 /\ locality = "logical" => index'[k][i][1] <= job
      <4>0. PICK x : x = index'[k][i]
        OBVIOUS
      <4>1. CASE /\ x = entry /\ (locality = "physical" => written # {})
                 /\ (k = DummyKey /\ unsampled') \/ \E f \in held : key[f] = k
        <5>1. job <= job
          BY <1>2
        <5>2. Contains(k, x)'
          BY <4>1, <1>10
        <5> QED BY <4>0, <4>1, <5>1, <5>2, <1>7, <1>e
      <4>2. CASE \E j \in DOMAIN index[k] : x = index[k][j]
        <5>1. Contains(k, x) /\ (locality = "logical" => x[1] <= job)
          BY <4>2, <1>0, <1>1 DEF IndexInv, Sound
        <5>2. Contains(k, x)'
          BY <5>1, <1>9
        <5> QED BY <4>0, <5>1, <5>2
      <4> QED BY <4>0, <4>1, <4>2, <1>8, <1>e
    <3> QED BY <3>1, <1>1, <1>8 DEF Sound
  <2> QED BY <2>1, <2>2, <1>1 DEF IndexInv
<1>16. SafeInv'
  <2>0. InOrder' => InOrder
    BY <1>1, <1>f, <1>k DEF InOrder
  <2> SUFFICES ASSUME InOrder PROVE SafeInv'
    BY <2>0 DEF SafeInv
  <2>1. /\ DOMAIN manifest \cap Reclaimed = {} /\ Used(job) \cap Reclaimed = {}
        /\ \A p \in known : p[2] \notin Reclaimed
        /\ Avoids(htable, Reclaimed) /\ Avoids(index, Reclaimed)
    BY <1>0, <1>1 DEF SafeInv
  <2>2. Used(job)' \cap Reclaimed = {}
    BY <2>1, <1>5, <1>6
  <2>3. \A p \in known' : p[2] \notin Reclaimed
    BY <2>1, <1>1, <1>5
  <2>4. ASSUME NEW k, NEW x, Contains(k, x), LeadsTo(x) \cap Reclaimed = {}
        PROVE  LeadsTo(x)' \cap Reclaimed = {}
    <3>1. CASE locality = "physical"
      BY <2>4, <3>1, <1>1 DEF LeadsTo
    <3>2. CASE locality # "physical"
      <4>1. x[1] \in 0..MaxJobs-1
        BY <2>4, <3>2 DEF Contains
      <4>2. Used(x[1])' \cap Reclaimed = {}
        <5>1. Used(x[1]) \cap Reclaimed = {}
          BY <2>4, <3>2 DEF LeadsTo
        <5>2. CASE x[1] = job
          BY <2>2, <5>2, <1>1
        <5>3. CASE x[1] # job
          BY <4>1, <5>1, <5>3, <1>6
        <5> QED BY <5>2, <5>3
      <4> QED BY <3>2, <4>2, <1>1 DEF LeadsTo
    <3> QED BY <3>1, <3>2
  <2>5. LeadsTo(entry)' \cap Reclaimed = {}
    <3>1. CASE locality = "physical"
      BY <3>1, <1>k, <1>1, <1>2, <1>e DEF LeadsTo, e
    <3>2. CASE locality # "physical"
      <4>1. entry[1] = job
        BY <3>2, <1>0, <1>7, <1>e DEF TypeInv
      <4> QED BY <3>2, <4>1, <2>2, <1>1 DEF LeadsTo
    <3> QED BY <3>1, <3>2
  <2>6. Avoids(htable, Reclaimed)'
    BY <2>1, <2>4, <1>0, <1>1, <1>k, KeyFacts DEF Avoids, IndexInv, Sound
  <2>7. Avoids(index, Reclaimed)'
    <3> SUFFICES ASSUME NEW k \in Asked, NEW i \in DOMAIN index'[k]
                 PROVE  LeadsTo(index[k][i])' \cap Reclaimed = {}
      BY <1>k DEF Avoids
    <3>0. PICK x : x = index'[k][i]
      OBVIOUS
    <3>k. k \in Keys
      BY <1>0, KeyFacts
    <3>1. CASE x = entry
      BY <3>0, <3>1, <2>5
    <3>2. CASE \E j \in DOMAIN index[k] : x = index[k][j]
      <4>1. Contains(k, x) /\ LeadsTo(x) \cap Reclaimed = {}
        BY <2>1, <3>k, <3>2, <1>0 DEF Avoids, IndexInv, Sound
      <4>2. LeadsTo(x)' \cap Reclaimed = {}
        BY <4>1, <2>4
      <4> QED BY <4>2, <3>0
    <3> QED BY <3>0, <3>k, <3>1, <3>2, <1>8, <1>e
  <2> QED BY <2>1, <2>2, <2>3, <2>6, <2>7, <1>1, <1>k DEF SafeInv
<1>17. YoungInv'
  <2> SUFFICES ASSUME fifo, ~killed PROVE YoungInv'
    BY <1>1 DEF YoungInv
  <2>1. Young(htable, {"delete", "save"}) /\ Young(index, {"delete"})
    BY <1>0 DEF YoungInv
  <2>2. Young(htable, {"delete", "save"})'
    BY <2>1, <1>1, <1>k DEF Young
  <2>3. Young(index, {"delete"})'
    <3>1. deleted < job
      BY DEF IInv, JobInv
    <3>2. Swept \subseteq Keys
      BY <1>0, KeyFacts
    <3> QED BY <2>1, <3>1, <3>2, <1>1, <1>k, <1>7, <1>8 DEF Young
  <2> QED BY <2>2, <2>3 DEF YoungInv
<1> QED BY <1>11, <1>12, <1>13, <1>14, <1>15, <1>16, <1>17 DEF IInv

\* The containers that a backup used get its time in the manifest.
LEMMA EndKeeps ==
  ASSUME IInv, End
  PROVE  IInv'
<1> USE Bounds
<1>0. TypeInv /\ JobInv /\ IndexInv /\ YoungInv /\ SafeInv
  BY DEF IInv
<1>1. /\ main = "backup" /\ main' \in {"idle", "truncate"}
      /\ UpdateManifest
      /\ htable' = index /\ index' = NoIndex /\ known' = {} /\ job' = job + 1
      /\ UNCHANGED <<locality, key, similarity, containers, recipe, marked, invalid,
                     reclaimed, deleted, fifo, killed, unsampled, overwritten>>
  BY DEF End, config, stores, history
<1>r. Reclaimed' = Reclaimed
  BY <1>1 DEF Reclaimed
<1>2. job \in 0..MaxJobs-1 /\ deleted < job /\ deleted \in -1..MaxJobs-1
  BY <1>0, <1>1 DEF TypeInv, JobInv
<1>3. revision' \in 0..MaxJobs-1 /\ (main' = "truncate" => revision' < job')
  <2>1. PICK retention \in Retentions :
          IF retention >= 0 /\ job >= retention
          THEN main' = "truncate" /\ revision' = job - retention
          ELSE main' = "idle" /\ UNCHANGED revision
    BY DEF End
  <2>2. retention \in Int
    BY GCAssumption
  <2>3. revision \in 0..MaxJobs-1
    BY <1>0 DEF TypeInv
  <2> QED BY <1>1, <1>2, <2>1, <2>2, <2>3
<1>4. /\ Ids' = Ids /\ Entries' = Entries /\ ListMax' = ListMax
      /\ Asked' = Asked /\ Swept' = Swept
      /\ \A j : Used(j)' = Used(j)
      /\ \A e : LeadsTo(e)' = LeadsTo(e)
      /\ \A k, e : Contains(k, e)' = Contains(k, e)
  BY <1>1, SameStores
<1>5. /\ DOMAIN manifest' = DOMAIN manifest \cup Used(job)
      /\ \A id \in Used(job) : manifest'[id] = job
      /\ \A id \in DOMAIN manifest : id \notin Used(job) => manifest'[id] = manifest[id]
      /\ Used(job) \subseteq Ids
  BY <1>0, <1>1, <1>2 DEF UpdateManifest, TypeInv
<1>6. TypeInv'
  <2>1. job' \in 0..MaxJobs /\ main' # "backup"
    BY <1>1, <1>2
  <2>2. \A j \in 0..MaxJobs-1 : Used(j)' \subseteq Ids'
    BY <1>0, <1>4 DEF TypeInv
  <2>3. Cardinality(Ids)' = Cardinality(Ids)
    BY <1>4
  <2> QED BY <1>0, <1>1, <1>3, <1>4, <1>5, <2>1, <2>2, <2>3, NoIndexFacts DEF TypeInv
<1>7. JobInv'
  BY <1>1, <1>2, <1>3 DEF JobInv
<1>8. ManifestInv'
  <2>1. Live' = Live \cup {job}
    BY <1>1, <1>2 DEF Live
  <2>2. \A j \in Live : j \in Nat /\ j < job
    BY <1>2 DEF Live
  <2>3. ASSUME NEW id \in DOMAIN manifest'
        PROVE  manifest'[id] \in Live' /\ id \in Used(manifest'[id])
    BY <2>1, <1>5 DEF IInv, ManifestInv
  <2>4. ASSUME NEW j \in Live', NEW id \in Used(j)
        PROVE  id \in DOMAIN manifest' /\ j <= manifest'[id]
    <3>1. CASE j = job
      BY <3>1, <1>2, <1>5
    <3>2. CASE j \in Live
      <4>1. id \in DOMAIN manifest /\ j <= manifest[id]
        BY <3>2 DEF IInv, ManifestInv
      <4>2. CASE id \in Used(job)
        BY <4>1, <4>2, <3>2, <2>2, <1>2, <1>5
      <4>3. CASE id \notin Used(job)
        BY <4>1, <4>3, <1>5
      <4> QED BY <4>2, <4>3
    <3> QED BY <3>1, <3>2, <2>1
  <2>5. ASSUME NEW id \in DOMAIN manifest'
        PROVE  (manifest[id] \in Live)' /\ (id \in Used(manifest[id]))'
    <3>1. PICK j : j = manifest'[id]
      OBVIOUS
    <3>2. id \in Used(j)'
      BY <2>3, <3>1, <1>4
    <3> QED BY <2>3, <3>1, <3>2
  <2> QED BY <2>4, <2>5, <1>4 DEF ManifestInv
<1>9. InvalidInv' /\ LeakInv'
  <2>1. invalid' = {} /\ main' # "backup"
    BY <1>1 DEF IInv, InvalidInv
  <2>2. LeakInv'
    BY <2>1, <1>1, <1>r, <1>4, <1>5 DEF IInv, LeakInv
  <2> QED BY <2>1, <2>2, <1>1 DEF InvalidInv
<1>10. IndexInv'
  <2>1. Sound(index, job)
    BY <1>0, <1>1 DEF IndexInv
  <2>2. job' - 1 = job
    BY <1>1, <1>2
  <2>3. Sound(htable, job - 1)'
    BY <2>1, <2>2, <1>1, <1>4 DEF Sound
  <2>4. Sound(index, job - 1)'
    BY <1>1, NoIndexFacts DEF Sound
  <2> QED BY <2>3, <2>4, <1>1 DEF IndexInv
<1>11. SafeInv'
  <2> SUFFICES ASSUME InOrder PROVE SafeInv'
    BY <1>1, <1>4 DEF SafeInv, InOrder
  <2>1. /\ DOMAIN manifest \cap Reclaimed = {} /\ Used(job) \cap Reclaimed = {}
        /\ Avoids(index, Reclaimed)
    BY <1>0, <1>1 DEF SafeInv
  <2>2. DOMAIN manifest' \cap Reclaimed' = {}
    BY <2>1, <1>r, <1>5
  <2>3. Avoids(htable, Reclaimed)'
    BY <2>1, <1>1, <1>r, <1>4 DEF Avoids
  <2>4. Avoids(index, Reclaimed)'
    BY <1>0, <1>1, <1>4, KeyFacts, NoIndexFacts DEF Avoids
  <2> QED BY <2>2, <2>3, <2>4, <1>1 DEF SafeInv
<1>12. YoungInv'
  <2> SUFFICES ASSUME fifo, ~killed PROVE YoungInv'
    BY <1>1 DEF YoungInv
  <2>1. Young(index, {"delete"})
    BY <1>0 DEF YoungInv
  <2>2. Young(htable, {"delete", "save"})'
    BY <2>1, <1>1, <1>4 DEF Young
  <2>3. Young(index, {"delete"})'
    BY <1>0, <1>1, <1>4, KeyFacts, NoIndexFacts DEF Young
  <2> QED BY <2>2, <2>3 DEF YoungInv
<1> QED BY <1>6, <1>7, <1>8, <1>9, <1>10, <1>11, <1>12 DEF IInv

-----------------------------------------------------------------------------
(* Deletion. *)

\* What leaves the manifest was used by no job that stays.
LEMMA TruncateKeeps ==
  ASSUME IInv, Truncate
  PROVE  IInv'
<1> USE Bounds
<1>0. TypeInv /\ JobInv /\ IndexInv /\ YoungInv /\ SafeInv
  BY DEF IInv
<1>1. /\ main = "truncate" /\ main' = "delete"
      /\ invalid' = Expired
      /\ manifest' = [id \in DOMAIN manifest \ Expired |-> manifest[id]]
      /\ index' = htable
      /\ fifo' = (fifo /\ revision <= deleted + 1)
      /\ deleted' = IF revision > deleted THEN revision ELSE deleted
      /\ UNCHANGED <<locality, key, similarity, job, revision, containers, recipe,
                     marked, known, htable, reclaimed, killed, unsampled, overwritten>>
  BY DEF Truncate, config, stores
<1>r. Reclaimed' = Reclaimed
  BY <1>1 DEF Reclaimed
<1>2. /\ job \in 0..MaxJobs /\ revision \in 0..MaxJobs-1 /\ revision < job
      /\ deleted < job /\ deleted \in -1..MaxJobs-1
  BY <1>0, <1>1 DEF TypeInv, JobInv
<1>3. /\ deleted' \in -1..MaxJobs-1 /\ deleted' < job
      /\ deleted <= deleted' /\ revision <= deleted'
      /\ \A j \in Int : j > deleted /\ j > revision => j > deleted'
  BY <1>1, <1>2
<1>4. /\ Ids' = Ids /\ Entries' = Entries /\ ListMax' = ListMax
      /\ Asked' = Asked /\ Swept' = Swept
      /\ \A j : Used(j)' = Used(j)
      /\ \A e : LeadsTo(e)' = LeadsTo(e)
      /\ \A k, e : Contains(k, e)' = Contains(k, e)
  BY <1>1, SameStores
<1>5. /\ Expired \subseteq DOMAIN manifest
      /\ DOMAIN manifest' = DOMAIN manifest \ Expired
      /\ \A id \in DOMAIN manifest' : manifest'[id] = manifest[id] /\ ~(manifest[id] <= revision)
      /\ \A id \in Expired : manifest[id] <= revision
  BY <1>1 DEF Expired
<1>6. TypeInv'
  <2>1. \A j \in 0..MaxJobs-1 : Used(j)' \subseteq Ids'
    BY <1>0, <1>4 DEF TypeInv
  <2>2. Cardinality(Ids)' = Cardinality(Ids)
    BY <1>4
  <2>3. DOMAIN manifest' \subseteq Ids' /\ invalid' \subseteq Ids'
    BY <1>0, <1>1, <1>4, <1>5 DEF TypeInv
  <2>4. fifo' \in BOOLEAN
    BY <1>0, <1>1 DEF TypeInv
  <2> QED BY <1>0, <1>1, <1>3, <1>4, <2>1, <2>2, <2>3, <2>4 DEF TypeInv
<1>7. JobInv'
  BY <1>1, <1>3 DEF JobInv
<1>8. ManifestInv'
  <2>1. \A j \in Live' : j \in Live /\ j \in Int /\ j > deleted'
    BY <1>1, <1>2, <1>3 DEF Live
  <2>2. \A j \in Live : j > revision => j \in Live'
    BY <1>1, <1>2, <1>3 DEF Live
  <2>3. ASSUME NEW id \in DOMAIN manifest'
        PROVE  (manifest[id] \in Live)' /\ (id \in Used(manifest[id]))'
    <3>1. PICK j : j = manifest'[id]
      OBVIOUS
    <3>2. j \in Live /\ id \in Used(j) /\ j > revision
      <4>1. j \in Live /\ id \in Used(j) /\ ~(j <= revision)
        BY <3>1, <1>5 DEF IInv, ManifestInv
      <4> QED BY <4>1, <1>2 DEF Live
    <3>3. j \in Live' /\ id \in Used(j)'
      BY <3>2, <2>2, <1>4
    <3> QED BY <3>1, <3>3
  <2>4. ASSUME NEW j \in Live', NEW id \in Used(j)
        PROVE  id \in DOMAIN manifest' /\ j <= manifest'[id]
    <3>1. id \in DOMAIN manifest /\ j <= manifest[id] /\ manifest[id] \in Int
      BY <2>1, <1>2 DEF IInv, ManifestInv, Live
    <3>2. ~(manifest[id] <= revision)
      BY <3>1, <2>1, <1>2, <1>3
    <3> QED BY <3>1, <3>2, <1>5
  <2> QED BY <2>3, <2>4, <1>4 DEF ManifestInv
<1>9. InvalidInv' /\ LeakInv'
  <2>1. InvalidInv'
    BY <1>1, <1>5 DEF InvalidInv
  <2>2. LeakInv'
    BY <1>1, <1>r, <1>4, <1>5 DEF IInv, LeakInv, InvalidInv
  <2> QED BY <2>1, <2>2
<1>10. IndexInv'
  <2>1. Sound(htable, job - 1)
    BY <1>0 DEF IndexInv
  <2>2. Sound(htable, job - 1)' /\ Sound(index, job - 1)'
    BY <2>1, <1>1, <1>4 DEF Sound
  <2> QED BY <2>2, <1>0, <1>1 DEF IndexInv
<1>11. SafeInv'
  <2> SUFFICES ASSUME InOrder' PROVE SafeInv'
    BY DEF SafeInv
  <2>1. InOrder
    BY <1>1, <1>4 DEF InOrder
  <2>2. /\ DOMAIN manifest \cap Reclaimed = {}
        /\ \A p \in known : p[2] \notin Reclaimed
        /\ Avoids(htable, Reclaimed)
    BY <2>1, <1>0 DEF SafeInv
  <2>3. Avoids(htable, Reclaimed)' /\ Avoids(index, Reclaimed)'
    BY <2>2, <1>1, <1>r, <1>4 DEF Avoids
  <2> QED BY <2>2, <2>3, <1>1, <1>r, <1>5 DEF SafeInv
<1>12. YoungInv'
  <2> SUFFICES ASSUME fifo', ~killed' PROVE YoungInv'
    BY DEF YoungInv
  <2>1. fifo /\ ~killed /\ revision <= deleted + 1
    BY <1>0, <1>1 DEF TypeInv
  <2>2. Young(htable, {"delete", "save"})
    BY <2>1, <1>0 DEF YoungInv
  <2>4. ASSUME locality = "logical", NEW k \in Swept, NEW i \in DOMAIN htable[k]
        PROVE  htable[k][i][1] > deleted' \/ htable[k][i][1] = revision
    <3>1. htable[k][i][1] > deleted
      BY <2>2, <2>4, <1>1 DEF Young
    <3>2. htable[k][i][1] \in Nat
      BY <2>4, <1>0, KeyFacts DEF TypeInv, Entries
    <3> QED BY <2>1, <2>4, <3>1, <3>2, <1>1, <1>2
  <2>5. Young(htable, {"delete", "save"})' /\ Young(index, {"delete"})'
    BY <2>4, <1>1, <1>4 DEF Young
  <2> QED BY <2>5 DEF YoungInv
<1> QED BY <1>6, <1>7, <1>8, <1>9, <1>10, <1>11, <1>12 DEF IInv

\* What is doomed leaves the index: the rest leads to containers that stay.
LEMMA DeleteEntriesKeeps ==
  ASSUME IInv, DeleteEntries
  PROVE  IInv'
<1> USE Bounds
<1>0. TypeInv /\ JobInv /\ IndexInv /\ YoungInv /\ SafeInv /\ ManifestInv /\ InvalidInv
  BY DEF IInv
<1>1. /\ main = "delete" /\ main' = "save"
      /\ UNCHANGED <<locality, key, similarity, job, revision, containers, recipe,
                     marked, known, htable, manifest, invalid, reclaimed, deleted, fifo,
                     killed, unsampled, overwritten>>
  BY DEF DeleteEntries, config, stores, history
<1>r. Reclaimed' = Reclaimed
  BY <1>1 DEF Reclaimed
<1>2. PICK kept \in [Keys -> 0..ValueLength] :
        /\ \A k \in Keys :
             /\ kept[k] <= Len(index[k])
             /\ \A i \in DOMAIN index[k] : index[k][i] \in Doomed(k) <=> i > kept[k]
        /\ index' = [k \in Keys |-> SubSeq(index[k], 1, kept[k])]
  BY DEF DeleteEntries
<1>3. /\ index' \in [Keys -> Seq(Entries)]
      /\ \A k \in Keys : /\ Len(index'[k]) = kept[k]
                       /\ Len(index'[k]) <= ListMax
                       /\ \A i \in DOMAIN index'[k] : /\ i \in DOMAIN index[k]
                                                      /\ index'[k][i] = index[k][i]
                                                      /\ index[k][i] \notin Doomed(k)
  <2>1. ASSUME NEW k \in Keys
        PROVE  /\ index'[k] \in Seq(Entries)
               /\ Len(index'[k]) = kept[k]
               /\ Len(index'[k]) <= ListMax
               /\ \A i \in DOMAIN index'[k] : /\ i \in DOMAIN index[k]
                                              /\ index'[k][i] = index[k][i]
                                              /\ index[k][i] \notin Doomed(k)
    <3>1. /\ index[k] \in Seq(Entries) /\ kept[k] \in 0..ValueLength
          /\ kept[k] <= Len(index[k]) /\ Len(index[k]) <= ListMax
      BY <1>0, <1>2 DEF TypeInv
    <3>0. ListMax \in Int
      BY DEF ListMax
    <3>2. index'[k] = SubSeq(index[k], 1, kept[k])
      BY <1>2
    <3>3. /\ SubSeq(index[k], 1, kept[k]) \in Seq(Entries)
          /\ Len(SubSeq(index[k], 1, kept[k])) = kept[k]
          /\ \A i \in 1..kept[k] : SubSeq(index[k], 1, kept[k])[i] = index[k][i]
      BY <3>1
    <3>4. DOMAIN index'[k] = 1..kept[k] /\ \A i \in 1..kept[k] : i \in DOMAIN index[k]
      BY <3>1, <3>2, <3>3
    <3>5. \A i \in 1..kept[k] : index[k][i] \notin Doomed(k)
      BY <3>1, <3>4, <1>2
    <3> QED BY <3>0, <3>1, <3>2, <3>3, <3>4, <3>5
  <2>2. index' = [k \in Keys |-> index'[k]]
    BY <1>2
  <2> QED BY <2>1, <2>2
<1>4. /\ Ids' = Ids /\ Entries' = Entries /\ ListMax' = ListMax
      /\ Asked' = Asked /\ Swept' = Swept
      /\ \A v : Used(v)' = Used(v)
      /\ \A e : LeadsTo(e)' = LeadsTo(e)
      /\ \A k, e : Contains(k, e)' = Contains(k, e)
  BY <1>1, SameStores
<1>5. TypeInv'
  <2>1. \A v \in 0..MaxJobs-1 : Used(v)' \subseteq Ids'
    BY <1>0, <1>4 DEF TypeInv
  <2>2. Cardinality(Ids)' = Cardinality(Ids)
    BY <1>4
  <2> QED BY <1>0, <1>1, <1>3, <1>4, <2>1, <2>2 DEF TypeInv
<1>6. JobInv' /\ InvalidInv' /\ LeakInv'
  BY <1>1, <1>r, <1>4 DEF IInv, JobInv, InvalidInv, LeakInv
<1>7. ManifestInv'
  BY <1>0, <1>1, <1>4 DEF ManifestInv, Live
<1>8. IndexInv'
  <2>1. Sound(htable, job - 1)'
    BY <1>0, <1>1, <1>4 DEF IndexInv, Sound
  <2>2. Sound(index, job - 1)
    BY <1>0, <1>1 DEF IndexInv
  <2>3. \A k \in Keys : Len(index[k]) \in Nat /\ Len(index'[k]) \in Nat
                        /\ Len(index'[k]) <= Len(index[k])
                        /\ DOMAIN index'[k] = 1..Len(index'[k])
    BY <1>0, <1>2, <1>3 DEF TypeInv
  <2>4. ASSUME NEW k \in Keys, NEW i \in DOMAIN index'[k]
        PROVE  /\ Contains(k, index[k][i])'
               /\ locality = "logical" =>
                    /\ index'[k][i][1] <= job - 1
                    /\ \A j \in i..Len(index'[k]) : index'[k][j][1] <= index'[k][i][1]
    <3>1. i \in DOMAIN index[k] /\ index'[k][i] = index[k][i]
      BY <1>3
    <3>2. PICK x : x = index'[k][i]
      OBVIOUS
    <3>3. Contains(k, x)'
      BY <2>2, <3>1, <3>2, <1>4 DEF Sound
    <3>4. \A j \in i..Len(index'[k]) : j \in i..Len(index[k]) /\ index'[k][j] = index[k][j]
      BY <2>3, <1>3
    <3> QED BY <2>2, <3>1, <3>2, <3>3, <3>4 DEF Sound
  <2>5. Sound(index, job - 1)'
    BY <2>4, <1>1 DEF Sound
  <2> QED BY <2>1, <2>5, <1>0, <1>1 DEF IndexInv
\* At a key that is swept, nothing of what is deleted is left.
<1>9. ASSUME NEW k \in Swept, NEW i \in DOMAIN index'[k], NEW x, x = index'[k][i]
      PROVE  /\ locality = "physical" => x \notin invalid
             /\ locality = "logical" => x[1] # revision
  <2>1. k \in Keys /\ ~Unsampled(k)
    BY <1>0, KeyFacts
  <2>2. i \in DOMAIN index[k] /\ x = index[k][i] /\ x \notin Doomed(k) /\ x \in Entries
    BY <1>9, <2>1, <1>3
  <2>3. Contains(k, x)
    BY <2>1, <2>2, <1>0, <1>1 DEF IndexInv, Sound
  <2>4. CASE locality = "physical"
    BY <2>1, <2>2, <2>3, <2>4 DEF Contains, Doomed
  <2>5. ASSUME locality = "logical", x[1] = revision PROVE FALSE
    <3>1. PICK f \in DOMAIN recipe[revision][x[2]] : key[f] = k
      BY <2>1, <2>3, <2>5 DEF Contains
    <3>2. x[2] \in DOMAIN recipe[revision] /\ x = <<x[1], x[2]>>
      BY <2>2, <2>3, <2>5 DEF Contains, Entries
    <3>3. <<revision, x[2]>> \in Doomed(k)
      BY <3>1, <3>2, <2>5 DEF Doomed
    <3> QED BY <3>2, <3>3, <2>2, <2>5
  <2> QED BY <2>4, <2>5
<1>10. YoungInv'
  <2> SUFFICES ASSUME fifo, ~killed PROVE YoungInv'
    BY <1>1 DEF YoungInv
  <2>1. Young(htable, {"delete", "save"}) /\ Young(index, {"delete"})
    BY <1>0 DEF YoungInv
  <2>2. Young(htable, {"delete", "save"})'
    BY <2>1, <1>1, <1>4 DEF Young
  <2>3. ASSUME locality = "logical", NEW k \in Swept, NEW i \in DOMAIN index'[k]
        PROVE  index'[k][i][1] > deleted
    <3>1. k \in Keys
      BY <1>0, KeyFacts
    <3>2. i \in DOMAIN index[k] /\ index'[k][i] = index[k][i]
      BY <3>1, <1>3
    <3>3. index'[k][i][1] # revision
      BY <2>3, <1>9
    <3> QED BY <2>1, <2>3, <3>2, <3>3 DEF Young
  <2>4. Young(index, {"delete"})'
    BY <2>3, <1>1, <1>4 DEF Young
  <2> QED BY <2>2, <2>4 DEF YoungInv
<1>11. SafeInv'
  <2> SUFFICES ASSUME InOrder PROVE SafeInv'
    BY <1>1, <1>4 DEF SafeInv, InOrder
  <2>1. /\ DOMAIN manifest \cap Reclaimed = {}
        /\ \A p \in known : p[2] \notin Reclaimed
        /\ Avoids(htable, Reclaimed) /\ Avoids(index, Reclaimed)
    BY <1>0 DEF SafeInv
  <2>2. Avoids(htable, Reclaimed)'
    BY <2>1, <1>1, <1>r, <1>4 DEF Avoids
  <2>3. ASSUME NEW k \in Asked, NEW i \in DOMAIN index'[k], NEW x, x = index'[k][i]
        PROVE  LeadsTo(x) \cap Reclaimed = {} /\ LeadsTo(x) \cap invalid = {}
    <3>0. k \in Keys /\ k \in Swept
      BY <1>0, KeyFacts DEF InOrder
    <3>1. i \in DOMAIN index[k] /\ x = index[k][i] /\ x \in Entries
      BY <2>3, <3>0, <1>3
    <3>2. Contains(k, x) /\ (locality = "logical" => x[1] <= job - 1)
      BY <3>0, <3>1, <1>0, <1>1 DEF IndexInv, Sound
    <3>3. LeadsTo(x) \cap Reclaimed = {}
      BY <2>1, <3>1 DEF Avoids
    <3>4. CASE locality = "physical"
      <4>1. x \notin invalid
        BY <2>3, <3>0, <3>4, <1>9
      <4> QED BY <3>3, <3>4, <4>1 DEF LeadsTo
    <3>5. CASE locality = "logical"
      <4>1. x[1] \in Nat /\ x[1] \in 0..MaxJobs-1
        BY <3>1, <3>2, <3>5 DEF Entries, Contains
      <4>2. x[1] # revision
        BY <2>3, <3>0, <3>5, <1>9
      <4>3. x[1] > deleted
        BY <3>0, <3>1, <3>5, <4>2, <1>0 DEF YoungInv, Young, InOrder
      <4>4. x[1] \in Live
        BY <3>2, <3>5, <4>1, <4>3, <1>0 DEF Live, TypeInv
      <4>5. Used(x[1]) \subseteq DOMAIN manifest
        BY <4>4, <1>0 DEF ManifestInv
      <4>6. LeadsTo(x) \cap invalid = {}
        BY <3>5, <4>5, <1>0 DEF LeadsTo, InvalidInv
      <4> QED BY <3>3, <4>6
    <3> QED BY <3>4, <3>5, <1>0 DEF TypeInv
  <2>4. Avoids(index, Reclaimed)' /\ Avoids(index, invalid)'
    <3>1. ASSUME NEW k \in Asked, NEW i \in DOMAIN index'[k]
          PROVE  LeadsTo(index[k][i])' \cap Reclaimed = {} /\ LeadsTo(index[k][i])' \cap invalid = {}
      <4>1. PICK x : x = index'[k][i]
        OBVIOUS
      <4>2. LeadsTo(x)' \cap Reclaimed = {} /\ LeadsTo(x)' \cap invalid = {}
        BY <4>1, <2>3, <1>4
      <4> QED BY <4>1, <4>2
    <3> QED BY <3>1, <1>1, <1>r, <1>4 DEF Avoids
  <2> QED BY <2>1, <2>2, <2>4, <1>1, <1>r DEF SafeInv
<1> QED BY <1>5, <1>6, <1>7, <1>8, <1>10, <1>11 DEF IInv

\* When the process ends, nothing in memory is left to be wrong.
LEMMA ExitKeeps ==
  ASSUME IInv, Exit, main # "backup", UNCHANGED <<deleted, fifo, unsampled>>,
         reclaimed' \in [0..MaxJobs-1 -> SUBSET Ids], {killed', overwritten'} \subseteq BOOLEAN,
         ~killed' => ~killed,
         ~killed' /\ ~overwritten' =>
           ~overwritten /\ DOMAIN manifest \cup Reclaimed \cup invalid \subseteq DOMAIN manifest \cup Reclaimed',
         ~killed' /\ fifo => main \notin {"delete", "save"} \/ locality = "physical",
         InOrder' => /\ InOrder
                     /\ DOMAIN manifest \cap Reclaimed' = {}
                     /\ Avoids(htable, Reclaimed')
  PROVE  IInv'
<1> USE Bounds
<1>0. TypeInv /\ JobInv /\ IndexInv /\ YoungInv /\ SafeInv /\ ManifestInv /\ InvalidInv
  BY DEF IInv
<1>1. /\ main' = "idle" /\ revision' = 0 /\ index' = NoIndex /\ invalid' = {}
      /\ UNCHANGED <<locality, key, similarity, job, containers, recipe, marked, known,
                     htable, manifest>>
  BY DEF Exit, config, stores
<1>4. /\ Ids' = Ids /\ Entries' = Entries /\ ListMax' = ListMax
      /\ Asked' = Asked /\ Swept' = Swept
      /\ \A j : Used(j)' = Used(j)
      /\ \A e : LeadsTo(e)' = LeadsTo(e)
      /\ \A k, e : Contains(k, e)' = Contains(k, e)
  BY <1>1, SameStores
<1>5. TypeInv'
  <2>1. \A j \in 0..MaxJobs-1 : Used(j)' \subseteq Ids'
    BY <1>0, <1>4 DEF TypeInv
  <2>2. Cardinality(Ids)' = Cardinality(Ids)
    BY <1>4
  <2>3. /\ index' \in [Keys -> Seq(Entries')] /\ htable' \in [Keys -> Seq(Entries')]
        /\ \A k \in Keys : Len(index'[k]) <= ListMax' /\ Len(htable'[k]) <= ListMax'
    BY <1>0, <1>1, <1>4, NoIndexFacts DEF TypeInv
  <2>4. /\ reclaimed' \in [0..MaxJobs-1 -> SUBSET Ids'] /\ DOMAIN manifest' \subseteq Ids'
        /\ known' \subseteq FP \X Ids' /\ containers' \in [Ids' -> SUBSET FP]
        /\ Cardinality(Ids)' \in Nat /\ Ids' = 0..Cardinality(Ids)'-1
    BY <1>0, <1>1, <1>4, <2>2 DEF TypeInv
  <2>5. revision' \in 0..MaxJobs-1
    BY <1>1
  <2> QED BY <1>0, <1>1, <2>1, <2>3, <2>4, <2>5 DEF TypeInv
<1>6. JobInv' /\ InvalidInv'
  BY <1>0, <1>1 DEF JobInv, InvalidInv
<1>7. LeakInv'
  BY <1>1, <1>4 DEF IInv, LeakInv
<1>8. ManifestInv'
  BY <1>0, <1>1, <1>4 DEF ManifestInv, Live
<1>9. IndexInv'
  <2>1. Sound(htable, job - 1)'
    BY <1>0, <1>1, <1>4 DEF IndexInv, Sound
  <2>2. Sound(index, job - 1)'
    BY <1>1, NoIndexFacts DEF Sound
  <2> QED BY <2>1, <2>2, <1>0, <1>1 DEF IndexInv
<1>10. SafeInv'
  <2> SUFFICES ASSUME InOrder' PROVE SafeInv'
    BY DEF SafeInv
  <2>1. known' = {}
    BY <1>0, <1>1 DEF IndexInv
  <2>2. Avoids(htable, Reclaimed)'
    BY <1>1, <1>4 DEF Avoids
  <2>4. Avoids(index, Reclaimed)'
    BY <1>0, <1>1, <1>4, KeyFacts, NoIndexFacts DEF Avoids
  <2> QED BY <2>1, <2>2, <2>4, <1>1 DEF SafeInv
<1>11. YoungInv'
  <2> SUFFICES ASSUME fifo, ~killed' PROVE YoungInv'
    BY DEF YoungInv
  <2>1. Young(htable, {"delete", "save"})
    BY <1>0 DEF YoungInv
  <2>2. Young(htable, {"delete", "save"})'
    BY <2>1, <1>1, <1>4 DEF Young
  <2>3. Young(index, {"delete"})'
    BY <1>0, <1>1, <1>4, KeyFacts, NoIndexFacts DEF Young
  <2> QED BY <2>2, <2>3 DEF YoungInv
<1> QED BY <1>5, <1>6, <1>7, <1>8, <1>9, <1>10, <1>11 DEF IInv

\* A list of reclaimed ids is replaced by some of the ids being reclaimed.
LEMMA RewriteFacts ==
  ASSUME IInv, NEW ids \in SUBSET invalid, Rewrite(ids)
  PROVE  /\ reclaimed' \in [0..MaxJobs-1 -> SUBSET Ids] /\ overwritten' \in BOOLEAN
         /\ UNCHANGED <<deleted, fifo, unsampled>>
         /\ Reclaimed' \subseteq Reclaimed \cup ids
         /\ ~overwritten' => ~overwritten /\ Reclaimed \cup ids \subseteq Reclaimed'
<1>1. /\ reclaimed \in [0..MaxJobs-1 -> SUBSET Ids] /\ ids \subseteq Ids
      /\ revision \in 0..MaxJobs-1 /\ overwritten \in BOOLEAN
  BY DEF IInv, TypeInv
<1>2. /\ reclaimed' = [reclaimed EXCEPT ![revision] = ids]
      /\ overwritten' = (overwritten \/ reclaimed[revision] # {})
      /\ UNCHANGED <<deleted, fifo, unsampled>>
  BY DEF Rewrite
<1>3. /\ reclaimed'[revision] = ids
      /\ \A j \in 0..MaxJobs-1 : j # revision => reclaimed'[j] = reclaimed[j]
  BY <1>1, <1>2
<1>4. reclaimed' \in [0..MaxJobs-1 -> SUBSET Ids]
  BY <1>1, <1>2
<1>5. overwritten' \in BOOLEAN /\ (~overwritten' => ~overwritten /\ reclaimed[revision] = {})
  BY <1>1, <1>2, Zenon
<1>6. Reclaimed' \subseteq Reclaimed \cup ids
  BY <1>3 DEF Reclaimed
<1>7. ASSUME reclaimed[revision] = {} PROVE Reclaimed \cup ids \subseteq Reclaimed'
  BY <1>1, <1>3, <1>7 DEF Reclaimed
<1> QED BY <1>2, <1>4, <1>5, <1>6, <1>7

\* A deletion that does not get through leaves only a physical index safe.
LEMMA KillKeeps ==
  ASSUME IInv, Kill \/ Abort
  PROVE  IInv'
<1>1. /\ Exit /\ main # "backup" /\ killed' = TRUE
      /\ \/ UNCHANGED <<reclaimed, deleted, fifo, unsampled, overwritten>>
         \/ main = "record" /\ \E ids \in SUBSET invalid : Rewrite(ids)
      /\ UNCHANGED <<locality, key, similarity, htable, manifest>>
  BY DEF Kill, Abort, Exit, config
<1>2. /\ reclaimed' \in [0..MaxJobs-1 -> SUBSET Ids] /\ overwritten' \in BOOLEAN
      /\ UNCHANGED <<deleted, fifo, unsampled>>
      /\ main = "record" \/ Reclaimed' = Reclaimed
      /\ Reclaimed' \subseteq Reclaimed \cup invalid
  <2>1. CASE UNCHANGED <<reclaimed, deleted, fifo, unsampled, overwritten>>
    BY <2>1 DEF IInv, TypeInv, Reclaimed
  <2>2. ASSUME main = "record", NEW ids \in SUBSET invalid, Rewrite(ids)
        PROVE  /\ reclaimed' \in [0..MaxJobs-1 -> SUBSET Ids] /\ overwritten' \in BOOLEAN
               /\ UNCHANGED <<deleted, fifo, unsampled>>
               /\ Reclaimed' \subseteq Reclaimed \cup invalid
    BY <2>2, RewriteFacts
  <2> QED BY <1>1, <2>1, <2>2
<1>3. ASSUME InOrder'
      PROVE  InOrder /\ DOMAIN manifest \cap Reclaimed' = {} /\ Avoids(htable, Reclaimed')
  <2>1. InOrder
    BY <1>1, <1>2, <1>3 DEF InOrder, Asked
  <2>2. /\ DOMAIN manifest \cap Reclaimed = {} /\ Avoids(htable, Reclaimed)
        /\ main = "record" => Avoids(htable, invalid)
        /\ DOMAIN manifest \cap invalid = {}
    BY <2>1 DEF IInv, SafeInv, InvalidInv
  <2>3. Avoids(htable, Reclaimed')
    BY <2>2, <1>2 DEF Avoids
  <2> QED BY <2>1, <2>2, <2>3, <1>2
<1> QED BY <1>1, <1>2, <1>3, ExitKeeps

\* The index is saved without what leads to containers being reclaimed.
LEMMA SaveIndexKeeps ==
  ASSUME IInv, SaveIndex
  PROVE  IInv'
<1>0. TypeInv /\ JobInv /\ IndexInv /\ YoungInv /\ SafeInv /\ ManifestInv /\ InvalidInv
  BY DEF IInv
<1>1. /\ main = "save" /\ main' = "record" /\ htable' = index /\ index' = NoIndex
      /\ UNCHANGED <<locality, key, similarity, job, revision, containers, recipe,
                     marked, known, manifest, invalid, reclaimed, deleted, fifo, killed,
                     unsampled, overwritten>>
  BY DEF SaveIndex, config, stores, history
<1>r. Reclaimed' = Reclaimed
  BY <1>1 DEF Reclaimed
<1>4. /\ Ids' = Ids /\ Entries' = Entries /\ ListMax' = ListMax
      /\ Asked' = Asked /\ Swept' = Swept
      /\ \A j : Used(j)' = Used(j)
      /\ \A e : LeadsTo(e)' = LeadsTo(e)
      /\ \A k, e : Contains(k, e)' = Contains(k, e)
  BY <1>1, SameStores
<1>5. TypeInv'
  <2>1. \A j \in 0..MaxJobs-1 : Used(j)' \subseteq Ids'
    BY <1>0, <1>4 DEF TypeInv
  <2>2. Cardinality(Ids)' = Cardinality(Ids)
    BY <1>4
  <2> QED BY <1>0, <1>1, <1>4, <2>1, <2>2, NoIndexFacts, Bounds DEF TypeInv
<1>6. JobInv' /\ InvalidInv' /\ LeakInv'
  BY <1>1, <1>r, <1>4 DEF IInv, JobInv, InvalidInv, LeakInv
<1>7. ManifestInv'
  BY <1>0, <1>1, <1>4 DEF ManifestInv, Live
<1>8. IndexInv'
  <2>1. Sound(htable, job - 1)'
    BY <1>0, <1>1, <1>4 DEF IndexInv, Sound
  <2>2. Sound(index, job - 1)'
    BY <1>1, NoIndexFacts DEF Sound
  <2> QED BY <2>1, <2>2, <1>0, <1>1 DEF IndexInv
<1>9. SafeInv'
  <2> SUFFICES ASSUME InOrder PROVE SafeInv'
    BY <1>1, <1>4 DEF SafeInv, InOrder
  <2>1. /\ Avoids(index, Reclaimed) /\ Avoids(index, invalid)
        /\ DOMAIN manifest \cap Reclaimed = {} /\ known = {}
    BY <1>0, <1>1 DEF SafeInv, IndexInv
  <2>2. Avoids(htable, Reclaimed)' /\ Avoids(htable, invalid)'
    BY <2>1, <1>1, <1>r, <1>4 DEF Avoids
  <2>3. Avoids(index, Reclaimed)'
    BY <1>0, <1>1, <1>4, KeyFacts, NoIndexFacts DEF Avoids
  <2> QED BY <2>1, <2>2, <2>3, <1>1, <1>r DEF SafeInv
<1>10. YoungInv'
  <2> SUFFICES ASSUME fifo, ~killed PROVE YoungInv'
    BY <1>1 DEF YoungInv
  <2>1. Young(index, {"delete"})
    BY <1>0 DEF YoungInv
  <2>2. Young(htable, {"delete", "save"})'
    BY <2>1, <1>1, <1>4 DEF Young
  <2>3. Young(index, {"delete"})'
    BY <1>0, <1>1, <1>4, KeyFacts, NoIndexFacts DEF Young
  <2> QED BY <2>2, <2>3 DEF YoungInv
<1> QED BY <1>5, <1>6, <1>7, <1>8, <1>9, <1>10 DEF IInv

\* What is given out is in no manifest, and the saved index does not lead to it.
LEMMA RecordKeeps ==
  ASSUME IInv, Record
  PROVE  IInv'
<1>1. /\ main = "record" /\ Exit /\ Rewrite(invalid)
      /\ UNCHANGED <<locality, key, similarity, htable, manifest, killed>>
  BY DEF Record, Exit, config
<1>2. /\ reclaimed' \in [0..MaxJobs-1 -> SUBSET Ids] /\ {killed', overwritten'} \subseteq BOOLEAN
      /\ UNCHANGED <<deleted, fifo, unsampled>>
      /\ Reclaimed' \subseteq Reclaimed \cup invalid
      /\ ~overwritten' => ~overwritten /\ Reclaimed \cup invalid \subseteq Reclaimed'
  BY <1>1, RewriteFacts DEF IInv, TypeInv
<1>3. ASSUME InOrder
      PROVE  DOMAIN manifest \cap Reclaimed' = {} /\ Avoids(htable, Reclaimed')
  <2>1. /\ DOMAIN manifest \cap Reclaimed = {} /\ DOMAIN manifest \cap invalid = {}
        /\ Avoids(htable, Reclaimed) /\ Avoids(htable, invalid)
    BY <1>1, <1>3 DEF IInv, SafeInv, InvalidInv
  <2> QED BY <2>1, <1>2 DEF Avoids
<1>4. InOrder' => InOrder
  BY <1>1, <1>2 DEF InOrder, Asked
<1> QED BY <1>1, <1>2, <1>3, <1>4, ExitKeeps

-----------------------------------------------------------------------------
(* Restore. *)

\* A restore changes nothing here.
LEMMA RestoreKeeps ==
  ASSUME IInv, NEW j \in 0..MaxJobs-1, Restore(j)
  PROVE  IInv'
<1>0. TypeInv /\ JobInv /\ IndexInv /\ YoungInv /\ SafeInv /\ ManifestInv /\ InvalidInv
  BY DEF IInv
<1>1. /\ main = "idle" /\ main' = "restore" /\ revision' = j
      /\ UNCHANGED <<locality, key, similarity, job, containers, recipe, marked, known,
                     index, htable, manifest, invalid, reclaimed, deleted, fifo, killed,
                     unsampled, overwritten>>
  BY DEF Restore, config, stores, history
<1>r. Reclaimed' = Reclaimed
  BY <1>1 DEF Reclaimed
<1>4. /\ Ids' = Ids /\ Entries' = Entries /\ ListMax' = ListMax
      /\ Asked' = Asked /\ Swept' = Swept
      /\ \A n : Used(n)' = Used(n)
      /\ \A e : LeadsTo(e)' = LeadsTo(e)
      /\ \A k, e : Contains(k, e)' = Contains(k, e)
  BY <1>1, SameStores
<1>5. TypeInv'
  <2>1. \A n \in 0..MaxJobs-1 : Used(n)' \subseteq Ids'
    BY <1>0, <1>4 DEF TypeInv
  <2>2. Cardinality(Ids)' = Cardinality(Ids)
    BY <1>4
  <2> QED BY <1>0, <1>1, <1>4, <2>1, <2>2 DEF TypeInv
<1>6. JobInv' /\ InvalidInv' /\ LeakInv'
  BY <1>1, <1>r, <1>4 DEF IInv, JobInv, InvalidInv, LeakInv
<1>7. ManifestInv'
  BY <1>0, <1>1, <1>4 DEF ManifestInv, Live
<1>8. IndexInv'
  BY <1>0, <1>1, <1>4 DEF IndexInv, Sound
<1>9. SafeInv'
  <2> SUFFICES ASSUME InOrder PROVE SafeInv'
    BY <1>1, <1>4 DEF SafeInv, InOrder
  <2> QED BY <1>0, <1>1, <1>r, <1>4 DEF SafeInv, Avoids
<1>10. YoungInv'
  BY <1>0, <1>1, <1>4 DEF YoungInv, Young
<1> QED BY <1>5, <1>6, <1>7, <1>8, <1>9, <1>10 DEF IInv

\* The end of a restore.
LEMMA RestoredKeeps ==
  ASSUME IInv, Restored
  PROVE  IInv'
<1>1. /\ main = "restore" /\ Exit
      /\ UNCHANGED <<locality, key, similarity, reclaimed, deleted, fifo, killed,
                     unsampled, overwritten>>
  BY DEF Restored, config, history, Exit
<1>2. /\ reclaimed' \in [0..MaxJobs-1 -> SUBSET Ids] /\ {killed', overwritten'} \subseteq BOOLEAN
      /\ invalid = {} /\ Reclaimed' = Reclaimed
  BY <1>1 DEF IInv, TypeInv, InvalidInv, Reclaimed
<1>3. ASSUME InOrder
      PROVE  DOMAIN manifest \cap Reclaimed' = {} /\ Avoids(htable, Reclaimed')
  BY <1>1, <1>2, <1>3 DEF IInv, SafeInv
<1>4. InOrder' => InOrder
  BY <1>1 DEF InOrder, Asked
<1> QED BY <1>1, <1>2, <1>3, <1>4, ExitKeeps

-----------------------------------------------------------------------------
(* The theorems. *)

\* Every step keeps the inductive invariant.
LEMMA NextKeeps == IInv /\ [Next]_vars => IInv'
<1> SUFFICES ASSUME IInv, [Next]_vars PROVE IInv'
  OBVIOUS
<1>1. CASE Begin
  BY <1>1, BeginKeeps
<1>2. CASE End
  BY <1>2, EndKeeps
<1>3. ASSUME NEW fps \in SUBSET FP, NEW written \in SUBSET fps,
             NEW segment \in [fps -> 0..Cardinality(DOMAIN containers)], Segment(segment, written)
      PROVE  IInv'
  BY <1>3, SegmentKeeps DEF Ids
<1>4. CASE Truncate
  BY <1>4, TruncateKeeps
<1>5. CASE DeleteEntries
  BY <1>5, DeleteEntriesKeeps
<1>6. CASE SaveIndex
  BY <1>6, SaveIndexKeeps
<1>7. CASE Record
  BY <1>7, RecordKeeps
<1>8. CASE Kill \/ Abort
  BY <1>8, KillKeeps
<1>9. CASE Restored
  BY <1>9, RestoredKeeps
<1>10. ASSUME NEW j \in 0..MaxJobs-1, Restore(j)
       PROVE  IInv'
  BY <1>10, RestoreKeeps
<1>11. CASE UNCHANGED vars
  <2>1. UNCHANGED <<locality, key, similarity, main, job, revision, containers, recipe,
                    marked, known, index, htable, manifest, invalid, reclaimed, deleted,
                    fifo, killed, unsampled, overwritten>>
    BY <1>11 DEF vars, config, stores, history
  <2>r. Reclaimed' = Reclaimed
    BY <2>1 DEF Reclaimed
  <2>2. /\ Ids' = Ids /\ Entries' = Entries /\ ListMax' = ListMax
        /\ Asked' = Asked /\ Swept' = Swept
        /\ \A j : Used(j)' = Used(j)
        /\ \A e : LeadsTo(e)' = LeadsTo(e)
        /\ \A k, e : Contains(k, e)' = Contains(k, e)
    BY <2>1, SameStores
  <2>3. Cardinality(Ids)' = Cardinality(Ids)
    BY <2>2
  <2>4. TypeInv' /\ JobInv' /\ InvalidInv' /\ LeakInv'
    BY <2>1, <2>r, <2>2, <2>3 DEF IInv, TypeInv, JobInv, InvalidInv, LeakInv
  <2>5. ManifestInv' /\ IndexInv'
    BY <2>1, <2>2 DEF IInv, ManifestInv, Live, IndexInv, Sound
  <2>6. YoungInv' /\ SafeInv'
    BY <2>1, <2>r, <2>2 DEF IInv, YoungInv, SafeInv, InOrder, Avoids, Young
  <2> QED BY <2>4, <2>5, <2>6 DEF IInv
<1> QED BY <1>1, <1>2, <1>3, <1>4, <1>5, <1>6, <1>7, <1>8, <1>9, <1>10, <1>11
        DEF Next, Backup, Delete

\* The inductive invariant holds in every reachable state.
LEMMA Invariance == Spec => []IInv
  BY InitIInv, NextKeeps, PTL DEF Spec

\* Every reachable state is well typed: the containers that recipes, index and
\* manifest name exist, and no list of ids is longer than index_value_length.
THEOREM TypeCorrect == Spec => []TypeOK
<1>1. IInv => TypeOK
  <2> SUFFICES ASSUME IInv PROVE TypeOK
    OBVIOUS
  <2>1. TypeInv /\ JobInv /\ ManifestInv
    BY DEF IInv
  <2>2. \A id \in Ids : id \in Nat /\ containers[id] \subseteq FP
    BY <2>1 DEF TypeInv
  <2>3. \A id \in DOMAIN manifest : manifest[id] \in 0..MaxJobs-1
    BY <2>1, Bounds DEF ManifestInv, Live, TypeInv
  <2>4. locality \in Localities
    BY <2>1 DEF TypeInv
  <2>5. \A k \in Keys : Len(index[k]) <= ValueLength /\ Len(htable[k]) <= ValueLength
    BY <2>1, Bounds DEF TypeInv, ListMax
  <2> QED BY <2>1, <2>2, <2>3, <2>4, <2>5 DEF TypeOK, TypeInv
<1> QED BY <1>1, Invariance, PTL

\* The manifest of backup times is exactly the set of containers that backups
\* not deleted name (update_manifest, trunc_manifest).
THEOREM ManifestIsExact == Spec => []ManifestExact
<1>1. IInv => ManifestExact
  <2> SUFFICES ASSUME ManifestInv PROVE ManifestExact
    BY DEF IInv
  <2> QED BY DEF ManifestInv, ManifestExact
<1> QED BY <1>1, Invariance, PTL

\* A container that was given out as reclaimed is used by no backup that is not
\* deleted, and the saved index leads to none (do_delete), for every index_key_size;
\* nobody asks for the dummy key, or nothing went there for want of a fingerprint.
THEOREM ReclaimedIsUnused == Spec => []ReclaimedUnused
<1>1. IInv => ReclaimedUnused
  <2> SUFFICES ASSUME IInv, InOrder
               PROVE  /\ \A j \in Live \cup (IF main = "backup" THEN {job} ELSE {}) :
                           Used(j) \cap Reclaimed = {}
                      /\ \A p \in Reach(htable) : p[2] \notin Reclaimed
    BY DEF ReclaimedUnused, InOrder
  <2>1. \A j \in Live : Used(j) \cap Reclaimed = {}
    BY DEF IInv, ManifestInv, SafeInv
  <2>2. main = "backup" => Used(job) \cap Reclaimed = {}
    BY DEF IInv, SafeInv
  <2>3. ASSUME NEW p \in Reach(htable)
        PROVE  p[2] \notin Reclaimed
    <3>1. \E k \in Asked : \E i \in DOMAIN htable[k] : p[2] \in LeadsTo(htable[k][i])
      BY ReachFacts DEF IInv, IndexInv
    <3> QED BY <3>1 DEF IInv, SafeInv, Avoids
  <2> QED BY <2>1, <2>2, <2>3
<1> QED BY <1>1, Invariance, PTL

\* Between jobs each container is in use or in the list of a deleted job, unless a
\* deletion was killed or a second deletion of a job overwrote its list.
THEOREM NothingIsLeaked == Spec => []NothingLeaks
<1>1. IInv => NothingLeaks
  <2> SUFFICES ASSUME IInv, main = "idle", ~killed, ~overwritten
               PROVE  Ids = DOMAIN manifest \cup Reclaimed
    BY DEF NothingLeaks
  <2>1. invalid = {} /\ Reclaimed \subseteq Ids
    BY ReclaimedFacts DEF IInv, InvalidInv
  <2> QED BY <2>1 DEF IInv, LeakInv, TypeInv
<1> QED BY <1>1, Invariance, PTL

\* While jobs are deleted in order the assertion of kvstore_htable_delete holds:
\* what is deleted is at the end of its list, for every index_value_length and
\* index_key_size, unless the dummy key is that of a fingerprint and used for want
\* of one.
THEOREM DeletesAreAtTheEnd == Spec => []DeletesFromEnd
<1>1. IInv => DeletesFromEnd
  <2> SUFFICES ASSUME IInv, main = "delete", fifo, ~killed,
                      unsampled => \A f \in FP : key[f] # DummyKey,
                      NEW k \in Keys, NEW i \in DOMAIN index[k], index[k][i] \in Doomed(k),
                      NEW j \in i..Len(index[k])
               PROVE  index[k][j] \in Doomed(k)
    BY DEF DeletesFromEnd, DoomedAtEnd
  <2>1. /\ TypeInv /\ JobInv /\ Sound(index, job - 1) /\ Young(index, {"delete"})
    BY DEF IInv, IndexInv, YoungInv
  <2>2. j \in DOMAIN index[k] /\ i \in 1..Len(index[k]) /\ j \in 1..Len(index[k]) /\ i <= j
    BY <2>1 DEF TypeInv
  <2>3. Contains(k, index[k][j])
    BY <2>1, <2>2 DEF Sound
  <2>4. CASE locality = "logical"
    <3>0. PICK f \in FP : key[f] = k
      <4>1. PICK m \in DOMAIN recipe[revision] : \E f \in DOMAIN recipe[revision][m] : key[f] = k
        BY <2>4 DEF Doomed
      <4>2. DOMAIN recipe[revision][m] \subseteq FP
        BY <2>1, SegmentFacts DEF TypeInv
      <4> QED BY <4>1, <4>2
    <3>s. k \in Swept /\ ~Unsampled(k)
      BY <3>0 DEF Swept, Unsampled
    <3>1. /\ index[k][i][1] = revision
          /\ index[k][j] \in Nat \X Nat
      BY <2>1, <2>2, <2>4 DEF Doomed, TypeInv, Entries
    <3>2. index[k][j][1] <= revision
      BY <2>1, <2>2, <2>4, <3>1 DEF Sound
    <3>3. revision <= deleted /\ revision \in Int /\ deleted \in Int
      BY <2>1 DEF JobInv, TypeInv
    <3>4. index[k][j][1] = revision
      BY <2>1, <2>2, <2>4, <3>s, <3>1, <3>2, <3>3 DEF Young
    <3>5. index[k][j] = <<revision, index[k][j][2]>>
      BY <3>1, <3>4
    <3> QED BY <2>3, <2>4, <3>s, <3>4, <3>5 DEF Contains, Doomed
  <2>5. CASE locality = "physical"
    <3>1. Len(index[k]) <= 1
      BY <2>1, <2>5 DEF TypeInv, ListMax
    <3> QED BY <2>2, <3>1
  <2> QED BY <2>1, <2>4, <2>5 DEF TypeInv
<1> QED BY <1>1, Invariance, PTL
=============================================================================
