---------------------------- MODULE DedupArchive ----------------------------
(***************************************************************************)
(* What a user expects of a deduplicating backup: each backup records the  *)
(* chunks of its input stream in the order they came, every chunk that is  *)
(* recorded is stored, and a backup is over only when all of its stream is *)
(* recorded.  With storeOnce no chunk is stored a second time, in no later *)
(* backup either.  BackupPipeline implements this module.                  *)
(***************************************************************************)
EXTENDS Naturals, Sequences

CONSTANTS
  FP,         \* the fingerprints
  MaxRead     \* bound: how many chunks are read at once

VARIABLES
  storeOnce,  \* whether it deduplicates exactly and rewrites nothing
  input,      \* the fingerprints read from the stream of this backup
  recorded,   \* those in its recipe
  copies      \* copies[f]: how many containers hold the chunk f

DAInit ==
  /\ storeOnce \in BOOLEAN
  /\ input = <<>> /\ recorded = <<>>
  /\ copies = [f \in FP |-> 0]

Read(fps) ==
  /\ input' = input \o fps
  /\ UNCHANGED <<storeOnce, recorded, copies>>

\* Only a chunk that was read and is not yet recorded is written.
Store(f) ==
  /\ \E i \in Len(recorded)+1..Len(input) : input[i] = f
  /\ storeOnce => copies[f] = 0
  /\ copies' = [copies EXCEPT ![f] = @ + 1]
  /\ UNCHANGED <<storeOnce, input, recorded>>

Record(n) ==
  /\ \A i \in 1..n : copies[input[i]] > 0
  /\ recorded' = SubSeq(input, 1, n)
  /\ UNCHANGED <<storeOnce, input, copies>>

NextBackup ==
  /\ recorded = input
  /\ input' = <<>> /\ recorded' = <<>>
  /\ UNCHANGED <<storeOnce, copies>>

DANext ==
  \/ \E m \in 1..MaxRead : \E fps \in [1..m -> FP] : Read(fps)
  \/ \E f \in FP : Store(f)
  \/ \E n \in Len(recorded)..Len(input) : Record(n)
  \/ NextBackup

DASpec == DAInit /\ [][DANext]_<<storeOnce, input, recorded, copies>>
=============================================================================
