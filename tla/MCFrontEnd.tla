----------------------------- MODULE MCFrontEnd -----------------------------
(* Small trees and configurations for FrontEnd.                            *)
EXTENDS FrontEnd

\* 10 matches only the loosest mask, 171 all of them.
MCMatched ==
  [b \in Byte |-> CASE b = 0 -> {} [] b = 10 -> {Loose} [] OTHER -> {Loose, Middle, Strict}]

File(depth, name, bytes) == [depth |-> depth, kind |-> "file", name |-> name, bytes |-> bytes]
Gone(depth) == [depth |-> depth, kind |-> "gone", name |-> <<>>, bytes |-> <<>>]

\* Every file of at most four bytes, some longer ones, and some trees: an empty
\* file between two others, and entries that vanish in a directory and above one.
OneFile == {<<File(0, <<102>>, bytes)>> : bytes \in BoundedSeq(Byte, 4)}
LongFile == {<<File(0, <<102>>, <<b, 0, c, 171, 0, d, b>>)>> : b, c, d \in Byte}
Tree == { <<File(1, <<97>>, <<0, 171, 10>>), File(1, <<98>>, <<>>), File(1, <<99>>, <<10, 10, 0>>)>>,
          <<File(2, <<97, 47>>, <<0, 10>>), Gone(2), File(2, <<98>>, <<0>>), File(3, <<>>, <<0>>),
            File(1, <<99>>, <<171, 0>>), Gone(1), Gone(2), File(0, <<100>>, <<0>>)>>,
          <<>> }
Trees == OneFile \cup LongFile \cup Tree

With(algorithm, min, avg, max, block, traced, segmenting, every, segmin, segmax) ==
  [geometry |-> [algorithm |-> algorithm, min |-> min, avg |-> avg, max |-> max],
   block |-> block, trace |-> traced, segmenting |-> segmenting, every |-> every,
   segmin |-> segmin, segmax |-> segmax]

\* The last of them is AE, whose chunks may exceed the maximum.
Configurations ==
  { With("fixed",            1, 2, 3, 3, TRUE,  "fixed",           2, 1, 1),
    With("file",             1, 2, 3, 2, FALSE, "file_defined",    1, 1, 1),
    With("rabin",            1, 3, 3, 2, FALSE, "content_defined", 3, 1, 2),
    With("normalized rabin", 1, 2, 4, 2, FALSE, "content_defined", 2, 2, 3),
    With("tttd",             1, 2, 4, 3, FALSE, "file_defined",    1, 1, 1),
    With("tttd",             2, 2, 3, 1, TRUE,  "content_defined", 2, 1, 3),
    With("fastcdc",          1, 2, 4, 2, FALSE, "fixed",           3, 1, 1),
    With("ae",               1, 2, 3, 4, FALSE, "fixed",           2, 1, 1) }
=============================================================================
