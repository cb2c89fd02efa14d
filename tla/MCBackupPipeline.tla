-------------------------- MODULE MCBackupPipeline --------------------------
(* Small instances of BackupPipeline.                                      *)
EXTENDS BackupPipeline

CONSTANTS f1, f2, f3, zero

\* An exact index without rewriting ("DDFS"), and a sampled index with whatever
\* the rewrite algorithms and HAR can mark.
Exact == [exact |-> TRUE, rewriting |-> "no", capacity |-> 2, key |-> FullKey,
          fps |-> {f1, f2, f3}, length |-> 4]
Fragments == [exact |-> FALSE, rewriting |-> "capping", capacity |-> 1, key |-> FullKey,
              fps |-> {f1, f2}, length |-> 3]
OneChunk == [exact |-> TRUE, rewriting |-> "capping", capacity |-> 1, key |-> FullKey,
             fps |-> {f1}, length |-> 5]

\* CFL or CBR, with short keys: two fingerprints share one, or both have that of a
\* sample without fingerprints.
Partial == [exact |-> FALSE, rewriting |-> "selective", capacity |-> 1,
            key |-> [f \in FP |-> f1], fps |-> {f1, f2}, length |-> 3]
Zeros == [Partial EXCEPT !.key = [f \in FP |-> ZeroKey], !.length = 2]

ExactOrPartial == {Exact, Fragments, OneChunk, Partial, Zeros}

\* CFL or CBR, three chunks.
Selective == {[exact |-> FALSE, rewriting |-> "selective", capacity |-> 1, key |-> FullKey,
               fps |-> {f1, f2}, length |-> 3]}
=============================================================================
