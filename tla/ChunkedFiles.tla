---------------------------- MODULE ChunkedFiles ----------------------------
(***************************************************************************)
(* The stream a backup is meant to see: the files in order, and each file  *)
(* cut into chunks by the chunking algorithm alone.  Where a chunk ends    *)
(* depends on what follows in the file and on nothing else, so the same    *)
(* content gives the same chunks.  Only AE looks at all that happens to be *)
(* in the buffer and may cut anywhere.  FrontEnd implements this module.   *)
(***************************************************************************)
EXTENDS Chunking

VARIABLES
  geometry,   \* of the chunking algorithm
  files,      \* still to come
  open,       \* whether one is being cut
  rest,       \* what is left of it
  stream

CFInit ==
  /\ geometry \in Geometry
  /\ open = FALSE /\ rest = <<>> /\ stream = <<>>

Start ==
  /\ ~open /\ files # <<>>
  /\ stream' = Append(stream, <<"FILE_START", Head(files).name>>)
  /\ open' = TRUE
  /\ rest' = Head(files).bytes
  /\ files' = Tail(files)
  /\ UNCHANGED geometry

Piece ==
  /\ open /\ rest # <<>>
  /\ \E n \in IF geometry.algorithm = "ae" THEN 1..Len(rest) ELSE {chunking(geometry, rest)} :
       /\ stream' = Append(stream, <<"chunk", SubSeq(rest, 1, n), n>>)
       /\ rest' = SubSeq(rest, n+1, Len(rest))
  /\ UNCHANGED <<geometry, files, open>>

End ==
  /\ open /\ rest = <<>>
  /\ stream' = Append(stream, <<"FILE_END">>)
  /\ open' = FALSE
  /\ UNCHANGED <<geometry, files, rest>>

CFNext == Start \/ Piece \/ End

CFSpec == CFInit /\ [][CFNext]_<<geometry, files, open, rest, stream>>
=============================================================================
