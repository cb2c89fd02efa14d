------------------------ MODULE MCGarbageCollection ------------------------
(* Small instances of GarbageCollection.                                   *)
EXTENDS GarbageCollection, TLC

CONSTANT dummy

FullKeys == [f \in FP |-> f]

\* All fingerprints may have the same key, which is the dummy key as well.
SomeKeys == {FullKeys, [f \in FP |-> DummyKey]}

Expiry == {-1, 0, 1}

\* Fingerprints are only compared (safety only).
Symmetry == Permutations(FP)
=============================================================================
