------------------------- MODULE MCLogicalLocality -------------------------
(* Small configurations for LogicalLocality.                               *)
EXTENDS LogicalLocality

\* Two fingerprints, which share a key where keys stand for two of them.
Two == {2, 3}

\* Block Locality Caching, and an exact index with similarity detection.
BLC == [exact |-> TRUE, selection |-> "base", top |-> 1, prefetch |-> 2,
        sampling |-> "uniform", ratio |-> 1, values |-> 1, cache |-> 1, keys |-> 1,
        files |-> FALSE, capacity |-> 2, fps |-> FP, segment |-> 2, length |-> 3]
ExactTop == [BLC EXCEPT !.fps = Two, !.selection = "top", !.sampling = "optmin", !.ratio = 0,
                        !.prefetch = 1, !.cache = 2]

\* Sparse Indexing, SiLo and Extreme Binning.
Sparse == [exact |-> FALSE, selection |-> "top", top |-> 2, prefetch |-> 1,
           sampling |-> "random", ratio |-> 2, values |-> 2, cache |-> 2, keys |-> 1,
           files |-> FALSE, capacity |-> 1, fps |-> FP, segment |-> 2, length |-> 3]
SiLo == [Sparse EXCEPT !.fps = Two, !.top = 1, !.prefetch = 2, !.sampling = "min", !.ratio = 0,
                       !.values = 1, !.capacity = 2, !.cache = 1]
ExtremeBinning == [SiLo EXCEPT !.files = TRUE, !.prefetch = 1]

\* A mixed selection, and keys that several fingerprints share.
Mixed == [Sparse EXCEPT !.fps = Two, !.selection = "mix", !.sampling = "uniform", !.keys = 2, !.cache = 1]

\* An exact index set up by its parts, with what index_segment_prefech is by default.
NoPrefetch == [BLC EXCEPT !.fps = Two, !.prefetch = 0]

Presets == {BLC, NoPrefetch, ExactTop, Sparse, SiLo, ExtremeBinning, Mixed}

\* Files of more chunks than the size of a segment id can tell.
LargeFiles == {[ExtremeBinning EXCEPT !.segment = 4, !.length = 5]}
=============================================================================
