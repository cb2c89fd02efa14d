------------------------- MODULE GarbageCollection -------------------------
(***************************************************************************)
(* Which containers a sequence of jobs keeps.  A backup notes in a         *)
(* manifest, for every container its recipe names, that it was used now    *)
(* (update_manifest).  After a backup the job that has expired is deleted  *)
(* (do_delete): containers that no later backup used leave the manifest    *)
(* (trunc_manifest), the index must forget what leads to them, and their   *)
(* ids are written to delete_<job>.id, when they may be freed.             *)
(*                                                                         *)
(* The index maps a key, the beginning of a fingerprint, to containers     *)
(* (physical locality) or to segments of recipes, which name containers    *)
(* (logical locality); a sample without fingerprints goes to a key of its  *)
(* own.  Jobs do not overlap; backups end (BackupPipeline), deletions may  *)
(* be killed.                                                              *)
(***************************************************************************)
EXTENDS Integers, Sequences, FiniteSets

CONSTANTS
  FP,           \* the fingerprints
  DummyKey,     \* the key of a sample without fingerprints, zeros or ones only
  KeyMaps,      \* what index_key_size makes of fingerprints, see key
  Localities,   \* index_category[1]
  Retentions,   \* backup_retention_time, read anew by each job; -1 for never
  ValueLength,  \* index_value_length, for logical locality
  SegmentsMax,  \* bound of the model: segments of all backups
  MaxJobs,      \* bound of the model: backups
  Kills         \* TRUE if a deletion may be killed

\* A key is another fingerprint that has it, or the dummy.
Keys == FP \cup {DummyKey}

ASSUME GCAssumption ==
  /\ KeyMaps \subseteq [FP -> Keys]
  /\ Localities \subseteq {"physical", "logical"}
  /\ Retentions \subseteq Nat \cup {-1}
  /\ {ValueLength, SegmentsMax, MaxJobs} \subseteq Nat \ {0}
  /\ Kills \in BOOLEAN

VARIABLES
  locality,    \* index_category[1]
  key,         \* the key of a fingerprint
  similarity,  \* TRUE if segments are looked up by their samples, which may be empty
  main,        \* what the main thread is doing
  job,         \* backup_version_count: the next job, or the one in main
  revision,    \* the job that is deleted or restored
  containers,  \* the containers written, by id
  recipe,      \* recipe[j]: the segments of job j, each mapping fps to containers
  known,       \* the fingerprints and containers a lookup in this backup can return
  index,       \* the index in memory
  htable,      \* and as it was saved
  manifest,    \* the manifest: the job that used a container last
  invalid,     \* the containers being reclaimed
  reclaimed,   \* the ids in delete_<job>.id
  marked,      \* the jobs whose .meta file says that they are deleted
  deleted,     \* history: the latest job deleted, -1 at first
  fifo,        \* history: no deletion has passed over a job
  killed,      \* history: a deletion did not get through
  unsampled,   \* history: an id went to the dummy key for want of a fingerprint
  overwritten  \* history: a list of reclaimed ids was overwritten

config == <<locality, key, similarity>>
stores == <<containers, recipe, marked>>
history == <<deleted, fifo, killed, unsampled, overwritten>>
vars == <<config, main, job, revision, stores, known, index, htable, manifest, invalid,
          reclaimed, history>>

Nothing == [id \in {} |-> 0]
NoIndex == [k \in Keys |-> <<>>]
NoLists == [j \in 0..MaxJobs-1 |-> {}]

Init ==
  /\ locality \in Localities /\ key \in KeyMaps
  /\ similarity \in {FALSE, locality = "logical"}
  /\ main = "idle" /\ job = 0 /\ revision = 0
  /\ containers = Nothing /\ recipe = [j \in 0..MaxJobs-1 |-> <<>>] /\ marked = {}
  /\ known = {} /\ index = NoIndex /\ htable = NoIndex
  /\ manifest = Nothing /\ invalid = {} /\ reclaimed = NoLists
  /\ deleted = -1 /\ fifo = TRUE /\ killed = FALSE /\ unsampled = FALSE /\ overwritten = FALSE

-----------------------------------------------------------------------------
(* Backup. *)

\* What the prefetch of an id puts into the fingerprint cache: the metadata of a
\* container, or a segment and those after it in its recipe (prefetch_segments).
Leads(id) ==
  IF locality = "physical"
  THEN {<<f, id>> : f \in containers[id]}
  ELSE LET segments == recipe[id[1]] IN
       UNION {{<<f, segments[n][f]>> : f \in DOMAIN segments[n]} : n \in id[2]..Len(segments)}

\* The keys that lookups ask for.
Asked == {key[f] : f \in FP} \cup (IF similarity THEN {DummyKey} ELSE {})

Reach(ix) == UNION {UNION {Leads(ix[k][i]) : i \in DOMAIN ix[k]} : k \in Asked}

Begin ==
  /\ main = "idle" /\ job < MaxJobs
  /\ main' = "backup"
  /\ index' = htable /\ known' = Reach(htable)
  /\ recipe' = [recipe EXCEPT ![job] = <<>>] /\ marked' = marked \ {job}
  /\ UNCHANGED <<config, job, revision, containers, htable, manifest, invalid, reclaimed, history>>

\* Mutant of Update: the latest id last.
UpdateLast(ids, id) ==
  IF locality = "physical" THEN <<id>>
  ELSE SubSeq(ids, 1, IF Len(ids) < ValueLength THEN Len(ids) ELSE ValueLength - 1) \o <<id>>

\* Mutant of Update: nothing drops out.
UpdateUnbounded(ids, id) == <<id>> \o ids

\* kv_update: the latest id first, the last one drops out.
Update(ids, id) ==
  IF locality = "physical" THEN <<id>>
  ELSE <<id>> \o SubSeq(ids, 1, IF Len(ids) < ValueLength THEN Len(ids) ELSE ValueLength - 1)

IndexUpdate(features, id) ==
  index' = [k \in Keys |-> IF k \in features THEN Update(index[k], id) ELSE index[k]]

\* sampling: the keys of some fingerprints, the dummy if there are none.  Uniform
\* sampling also takes file marks of a segment, whose fingerprints are zeros.
Sampled(fps) == IF fps = {} THEN {DummyKey} ELSE {key[f] : f \in fps}
Features(fps) == {Sampled(s) : s \in SUBSET fps}
                 \cup (IF locality = "logical" THEN {Sampled(s) \cup {DummyKey} : s \in SUBSET fps}
                                              ELSE {})

\* The sample of these fingerprints goes to the index.
Index(fps, id) ==
  \E features \in Features(fps) :
    /\ IndexUpdate(features, id)
    /\ unsampled' = (unsampled \/ ~(features \subseteq {key[f] : f \in fps}))

\* A segment goes through the pipeline: its chunks are written, if they are
\* unknown or rewritten, and lie in a container that a lookup returned otherwise.
Segment(segment, written) ==
  LET new == Cardinality(DOMAIN containers)
      n == Len(recipe[job]) + 1
  IN
  /\ main = "backup"
  /\ Cardinality(UNION {{j} \X DOMAIN recipe[j] : j \in DOMAIN recipe}) < SegmentsMax
  /\ \A f \in DOMAIN segment : IF f \in written THEN segment[f] = new
                                                ELSE <<f, segment[f]>> \in known
  /\ recipe' = [recipe EXCEPT ![job] = Append(@, segment)]
  /\ containers' = IF written = {} THEN containers
                   ELSE [id \in 0..new |-> IF id = new THEN written ELSE containers[id]]
  /\ known' = known \cup {<<f, segment[f]>> : f \in DOMAIN segment}
  /\ IF locality = "physical"
     THEN IF written = {} THEN UNCHANGED <<index, unsampled>> ELSE Index(written, new)
     ELSE Index(DOMAIN segment, <<job, n>>)
  /\ UNCHANGED <<config, main, job, revision, marked, htable, manifest, invalid, reclaimed,
                 deleted, fifo, killed, overwritten>>

\* The containers that a job's recipe names: what har_monitor_update has seen.
Used(j) == UNION {{recipe[j][n][f] : f \in DOMAIN recipe[j][n]} : n \in DOMAIN recipe[j]}

\* Mutant of UpdateManifest: a container keeps the job that wrote it.
UpdateManifestOnce ==
  manifest' = [id \in DOMAIN manifest \cup Used(job) |->
                 IF id \in DOMAIN manifest THEN manifest[id] ELSE job]

UpdateManifest ==
  manifest' = [id \in DOMAIN manifest \cup Used(job) |->
                 IF id \in Used(job) THEN job ELSE manifest[id]]

\* The backup is closed.  GC runs for the job that has expired.
End ==
  /\ main = "backup" /\ recipe[job] # <<>>
  /\ UpdateManifest
  /\ htable' = index /\ index' = NoIndex /\ known' = {}
  /\ job' = job + 1
  /\ \E retention \in Retentions :
       IF retention >= 0 /\ job >= retention
       THEN main' = "truncate" /\ revision' = job - retention
       ELSE main' = "idle" /\ UNCHANGED revision
  /\ UNCHANGED <<config, stores, invalid, reclaimed, history>>

-----------------------------------------------------------------------------
(* Deletion. *)

\* The containers that no job after the expired one used.
Expired == {id \in DOMAIN manifest : manifest[id] <= revision}

\* trunc_manifest; then the index is loaded.
Truncate ==
  /\ main = "truncate"
  /\ invalid' = Expired
  /\ manifest' = [id \in DOMAIN manifest \ Expired |-> manifest[id]]
  /\ index' = htable
  /\ main' = "delete"
  /\ fifo' = (fifo /\ revision <= deleted + 1)
  /\ deleted' = IF revision > deleted THEN revision ELSE deleted
  /\ UNCHANGED <<config, job, revision, stores, known, htable, reclaimed, killed,
                 unsampled, overwritten>>

\* What delete_an_entry is called for: the containers reclaimed with their
\* fingerprints, or the segments of just the job that expired.  An id that is at
\* the dummy key for want of a fingerprint is not among them.
Doomed(k) ==
  IF locality = "physical" THEN {id \in invalid : \E f \in containers[id] : key[f] = k}
  ELSE {<<revision, n>> :
          n \in {m \in DOMAIN recipe[revision] : \E f \in DOMAIN recipe[revision][m] : key[f] = k}}

\* "the deleted one should be in the end" (kvstore_htable_delete asserts it)
DoomedAtEnd ==
  \A k \in Keys : \A i \in DOMAIN index[k] :
    index[k][i] \in Doomed(k) => \A j \in i..Len(index[k]) : index[k][j] \in Doomed(k)

\* What is doomed leaves the end of each list.  The bv->deleted that is set here
\* stays in memory: open_backup_version has opened the .meta file for reading.
DeleteEntries ==
  /\ main = "delete"
  /\ \E kept \in [Keys -> 0..ValueLength] :
       /\ \A k \in Keys :
            /\ kept[k] <= Len(index[k])
            /\ \A i \in DOMAIN index[k] : index[k][i] \in Doomed(k) <=> i > kept[k]
       /\ index' = [k \in Keys |-> SubSeq(index[k], 1, kept[k])]
  /\ main' = "save"
  /\ UNCHANGED <<config, job, revision, stores, known, htable, manifest, invalid, reclaimed,
                 history>>

\* The process ends; what it had in memory is gone.
Exit ==
  /\ main' = "idle" /\ revision' = 0
  /\ index' = NoIndex /\ invalid' = {}
  /\ UNCHANGED <<config, job, stores, known, htable, manifest>>

\* The assertion of kvstore_htable_delete fails.
Abort ==
  /\ main = "delete" /\ ~DoomedAtEnd
  /\ Exit /\ killed' = TRUE
  /\ UNCHANGED <<reclaimed, deleted, fifo, unsampled, overwritten>>

\* Mutant of SaveIndex: close_index is not called.
SaveIndexNot ==
  /\ main = "save"
  /\ index' = NoIndex
  /\ main' = "record"
  /\ UNCHANGED <<config, job, revision, stores, known, htable, manifest, invalid, reclaimed, history>>

\* close_index
SaveIndex ==
  /\ main = "save"
  /\ htable' = index /\ index' = NoIndex
  /\ main' = "record"
  /\ UNCHANGED <<config, job, revision, stores, known, manifest, invalid, reclaimed, history>>

\* delete_<job>.id is opened for writing, so what it said of an earlier deletion of
\* the job goes.
Rewrite(ids) ==
  /\ reclaimed' = [reclaimed EXCEPT ![revision] = ids]
  /\ overwritten' = (overwritten \/ reclaimed[revision] # {})
  /\ UNCHANGED <<deleted, fifo, unsampled>>

\* Mutant of Record: there is one list for all jobs.
RecordLatest ==
  /\ main = "record"
  /\ reclaimed' = [NoLists EXCEPT ![revision] = invalid]
  /\ overwritten' = (overwritten \/ reclaimed[revision] # {})
  /\ UNCHANGED <<deleted, fifo, unsampled>>
  /\ Exit /\ UNCHANGED killed

\* The ids of the containers reclaimed are written.
Record ==
  /\ main = "record"
  /\ Rewrite(invalid)
  /\ Exit /\ UNCHANGED killed

\* A kill may leave some of the ids.
Kill ==
  /\ Kills
  /\ main \in {"truncate", "delete", "save", "record"}
  /\ \/ UNCHANGED <<reclaimed, deleted, fifo, unsampled, overwritten>>
     \/ main = "record" /\ \E ids \in SUBSET invalid : Rewrite(ids)
  /\ Exit /\ killed' = TRUE
-----------------------------------------------------------------------------
(* Restore: its steps change nothing here. *)

Restore(j) ==
  /\ main = "idle"
  /\ j < job /\ j \notin marked
  /\ main' = "restore" /\ revision' = j
  /\ UNCHANGED <<config, job, stores, known, index, htable, manifest, invalid, reclaimed, history>>

Restored ==
  /\ main = "restore"
  /\ Exit
  /\ UNCHANGED <<reclaimed, history>>

Backup ==
  \/ Begin \/ End
  \/ \E fps \in SUBSET FP : \E written \in SUBSET fps :
       \E segment \in [fps -> 0..Cardinality(DOMAIN containers)] : Segment(segment, written)

Delete == Truncate \/ DeleteEntries \/ Abort \/ SaveIndex \/ Record \/ Kill

Next == Backup \/ Delete \/ Restored \/ \E j \in 0..MaxJobs-1 : Restore(j)

Spec == Init /\ [][Next]_vars
-----------------------------------------------------------------------------
(* Properties. *)

Ids == DOMAIN containers
Reclaimed == UNION {reclaimed[j] : j \in 0..MaxJobs-1}
Live == {j \in 0..job-1 : j > deleted}

\* Every variable has its type.
TypeOK ==
  /\ locality \in Localities /\ key \in KeyMaps /\ similarity \in BOOLEAN
  /\ main \in {"idle", "backup", "truncate", "delete", "save", "record", "restore"}
  /\ job \in 0..MaxJobs /\ revision \in 0..MaxJobs-1
  /\ main = "backup" => job < MaxJobs
  /\ \A id \in Ids : id \in Nat /\ containers[id] \subseteq FP
  /\ known \subseteq FP \X Ids
  /\ \A j \in 0..MaxJobs-1 : Used(j) \subseteq Ids
  /\ \A k \in Keys : Len(index[k]) <= ValueLength /\ Len(htable[k]) <= ValueLength
  /\ DOMAIN manifest \subseteq Ids /\ \A id \in DOMAIN manifest : manifest[id] \in 0..MaxJobs-1
  /\ invalid \subseteq Ids /\ \A j \in 0..MaxJobs-1 : reclaimed[j] \subseteq Ids
  /\ marked \subseteq 0..MaxJobs-1
  /\ deleted \in -1..MaxJobs-1 /\ fifo \in BOOLEAN /\ killed \in BOOLEAN
  /\ unsampled \in BOOLEAN /\ overwritten \in BOOLEAN

\* The manifest keeps exactly the containers that backups not deleted name:
\* the backup times alone do the work of reference counts, also after kills
\* and when jobs are passed over.
ManifestExact == DOMAIN manifest = UNION {Used(j) : j \in Live}

\* No backup that is not deleted, nor the one being made, names a container
\* whose id was given out as reclaimed, and the saved index leads to none, so
\* the next backup will not.  With logical locality this needs "a FIFO order of
\* deleting backup" (do_delete), without gaps; with physical locality it does not.
\* Both need that nobody asks for the dummy key, or that nothing went there for
\* want of a fingerprint: a deletion does not find it there.
ReclaimedUnused ==
  /\ locality = "physical" \/ (fifo /\ ~killed)
  /\ unsampled => DummyKey \notin Asked
  => /\ \A j \in Live \cup (IF main = "backup" THEN {job} ELSE {}) : Used(j) \cap Reclaimed = {}
     /\ \A p \in Reach(htable) : p[2] \notin Reclaimed

\* Nothing leaks: what no backup uses any more is in the list of some job, unless
\* a deletion did not get through or a job was deleted twice, by a shorter
\* retention time first, and the second time emptied its list.
NothingLeaks ==
  main = "idle" /\ ~killed /\ ~overwritten => Ids = DOMAIN manifest \cup Reclaimed

\* The assertion of kvstore_htable_delete holds when jobs are deleted in order,
\* unless the key of a fingerprint is the dummy key and that was used as such.
DeletesFromEnd ==
  /\ main = "delete" /\ fifo /\ ~killed
  /\ unsampled => \A f \in FP : key[f] # DummyKey
  => DoomedAtEnd

\* "The backup has been deleted!" (init_restore_jcr): a deleted backup is not
\* restored.
DeletedIsRefused == main = "restore" => revision > deleted
=============================================================================
