------------------------------ MODULE Chunking ------------------------------
(***************************************************************************)
(* The chunking algorithms (src/chunking): how many of the bytes in the    *)
(* buffer make the next chunk.  A geometry g holds what a run of destor is *)
(* configured with: algorithm, chunk_min_size, chunk_avg_size and          *)
(* chunk_max_size.                                                         *)
(*                                                                         *)
(* A rolling fingerprint is compared with masks of more or fewer bits; the *)
(* fingerprint is abstracted to the last byte that went into it, and a     *)
(* byte to the masks it satisfies.  AE compares the eight bytes at a       *)
(* position as one number; here they are one byte.                         *)
(***************************************************************************)
EXTENDS Naturals, Sequences

CONSTANTS
  Byte,             \* the bytes a file is made of, unsigned
  Matched,          \* the masks that a fingerprint ending in a byte matches
  ContainerRoom     \* CONTAINER_SIZE - CONTAINER_META_SIZE

Algorithm == {"fixed", "file", "rabin", "normalized rabin", "tttd", "fastcdc", "ae"}

Geometry == [algorithm : Algorithm, min : Nat \ {0}, avg : Nat \ {0}, max : Nat \ {0}]

ASSUME ChunkingAssumption ==
  /\ Byte \subseteq 0..255 /\ Byte # {}
  /\ Matched \in [Byte -> SUBSET {"loose", "middle", "strict"}]
  /\ ContainerRoom \in Nat \ {0}

Smaller(a, b) == IF a < b THEN a ELSE b
Larger(a, b) == IF a < b THEN b ELSE a

\* The three masks, from the one with fewest bits to the one with most.
Loose == "loose"
Middle == "middle"
Strict == "strict"
Matches(b, mask) == mask \in Matched[b]

Earliest(S, otherwise) ==
  IF S = {} THEN otherwise ELSE CHOOSE i \in S : \A j \in S : i <= j
Latest(S, otherwise) ==
  IF S = {} THEN otherwise ELSE CHOOSE i \in S : \A j \in S : i >= j

fixed_chunk_data(g, p) == Smaller(g.avg, Len(p))

\* The cut points a scan from chunk_min_size tests, each after the byte p[i].
Scanned(g, p) == g.min .. Smaller(g.max, Len(p)) - 1

rabin_chunk_data(g, p) ==
  Earliest({i \in Scanned(g, p) : Matches(p[i], Middle)}, Smaller(g.max, Len(p)))

normalized_rabin_chunk_data(g, p) ==
  Earliest({i \in Scanned(g, p) : Matches(p[i], IF i < g.avg THEN Strict ELSE Loose)},
           Smaller(g.max, Len(p)))

\* A match of both masks, or else the last match of the back-up mask.
tttd_chunk_data(g, p) ==
  Earliest({i \in Scanned(g, p) : Matches(p[i], Loose) /\ Matches(p[i], Middle)},
           Latest({i \in Scanned(g, p) : Matches(p[i], Loose)}, Smaller(g.max, Len(p))))

\* Tests the byte after the cut point; nothing says that chunk_min_size is the
\* smaller one.
fastcdc_chunk_data(g, p) ==
  Earliest({i \in Scanned(g, p) : Matches(p[i+1], IF i < g.avg THEN Strict ELSE Loose)},
           Larger(g.min, Smaller(g.max, Len(p))))

\* The width of the words AE compares.
Word == 1

ae_window(g) == (g.avg * 1000) \div 1718

\* What max points to when curr is at offset k: the last of the smallest words
\* before it.
Extreme(p, k) ==
  CHOOSE i \in 0..k-1 : \A j \in 0..k-1 :
    /\ p[i+1] <= p[j+1]
    /\ p[i+1] = p[j+1] => j <= i

\* A word that is not larger moves max, and the other tests are skipped.
ae_chunk_data(g, p) ==
  Earliest({k \in 1..Len(p)-Word : /\ p[k+1] > p[Extreme(p, k)+1]
                                   /\ \/ k = Extreme(p, k) + ae_window(g)
                                      \/ k = g.max},
           Len(p))

\* The scanning algorithms and AE take a buffer that is too short as it is.
TooShort(g, p) ==
  /\ g.algorithm \notin {"fixed", "file"}
  /\ Len(p) <= IF g.algorithm = "ae" THEN ae_window(g) + Word ELSE g.min

\* How long the next chunk is.
chunking(g, p) ==
  IF TooShort(g, p) THEN Len(p)
  ELSE CASE g.algorithm \in {"fixed", "file"} -> fixed_chunk_data(g, p)
         [] g.algorithm = "ae" -> ae_chunk_data(g, p)
         [] g.algorithm = "rabin" -> rabin_chunk_data(g, p)
         [] g.algorithm = "normalized rabin" -> normalized_rabin_chunk_data(g, p)
         [] g.algorithm = "tttd" -> tttd_chunk_data(g, p)
         [] g.algorithm = "fastcdc" -> fastcdc_chunk_data(g, p)

-----------------------------------------------------------------------------
(* start_chunk_phase prepares the geometry and refuses some.               *)

\* The average size with all but its highest bit cleared.
PowerOfTwo(n) ==
  LET power[k \in 0..n] == IF k = 0 THEN 1 ELSE 2 * power[k-1]
  IN CHOOSE p \in {power[k] : k \in 0..n} : p <= n /\ n < 2 * p

Prepared(g) ==
  CASE g.algorithm \in {"rabin", "normalized rabin", "tttd"} ->
         [g EXCEPT !.avg = PowerOfTwo(@)]
    [] g.algorithm = "fixed" -> [g EXCEPT !.max = g.avg]
    [] g.algorithm = "file" -> [g EXCEPT !.avg = ContainerRoom, !.max = ContainerRoom]
    [] OTHER -> g

\* Its assertions, on the prepared geometry.  fastcdc_init also wants an average of
\* 2^7 to 2^16 bytes; the sizes here are smaller than real ones throughout.
Accepted(g) ==
  /\ g.avg <= g.max /\ g.max <= ContainerRoom
  /\ g.algorithm \in {"rabin", "normalized rabin", "tttd"} => g.min <= g.avg
=============================================================================
