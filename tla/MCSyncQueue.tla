---------------------------- MODULE MCSyncQueue ----------------------------
(* An instance of SyncQueue: two producers, and one consumer that looks at *)
(* the head before it pops it, as the append phase does.                   *)
EXTENDS SyncQueue

CONSTANTS p1, p2, c1

TwoProducers == {p1, p2}
OneConsumer == {c1}
=============================================================================
