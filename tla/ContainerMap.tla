---------------------------- MODULE ContainerMap ----------------------------
(***************************************************************************)
(* What the rest of destor expects of the container store                  *)
(* (storage/containerstore.h): a write-once map from container ids to the  *)
(* fingerprints of the container.  A container that was handed over can be *)
(* retrieved from then on, with the contents it was handed over with, and  *)
(* once the store was closed also after a kill.  ContainerStore implements *)
(* this module.                                                            *)
(***************************************************************************)
EXTENDS Naturals

CONSTANTS
  Ids,     \* the container ids
  FP,      \* the fingerprints
  Crashes  \* TRUE if destor may be killed

VARIABLES
  stored,    \* the containers that can be retrieved
  committed  \* those below this id survive a kill

CMInit == stored = [id \in {} |-> {}] /\ committed = 0

Store(id, fps) ==
  /\ id \notin DOMAIN stored /\ id >= committed
  /\ stored' = [i \in DOMAIN stored \cup {id} |-> IF i = id THEN fps ELSE stored[i]]
  /\ UNCHANGED committed

Commit(n) ==
  /\ n >= committed /\ \A id \in DOMAIN stored : id < n
  /\ committed' = n
  /\ UNCHANGED stored

Lose ==
  /\ Crashes
  /\ stored' = [id \in {i \in DOMAIN stored : i < committed} |-> stored[id]]
  /\ UNCHANGED committed

CMNext == Lose \/ \E id \in Ids : Commit(id + 1) \/ \E fps \in SUBSET FP : Store(id, fps)

CMSpec == CMInit /\ [][CMNext]_<<stored, committed>>
=============================================================================
