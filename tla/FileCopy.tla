------------------------------ MODULE FileCopy ------------------------------
(***************************************************************************)
(* What a user expects of a restore: the files of the backup are written   *)
(* in order, each from its first chunk to its last, and all of them in the *)
(* end.  No containers, caches or threads in sight.  Restore implements    *)
(* this module.                                                            *)
(***************************************************************************)
EXTENDS Naturals, Sequences

VARIABLES
  source,   \* the beginnings, chunks and ends of the files of the backup
  written   \* those that have been restored

fcVars == <<source, written>>

FCInit == written = <<>>

Copy ==
  /\ Len(written) < Len(source)
  /\ written' = Append(written, source[Len(written) + 1])
  /\ UNCHANGED source

FCSpec == FCInit /\ [][Copy]_fcVars /\ WF_fcVars(Copy)
=============================================================================
