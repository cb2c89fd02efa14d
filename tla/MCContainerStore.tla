-------------------------- MODULE MCContainerStore --------------------------
(* Small instances of ContainerStore.                                      *)
EXTENDS ContainerStore, TLC

\* Fingerprints are only compared (safety only).
Symmetry == Permutations(FP)
=============================================================================
