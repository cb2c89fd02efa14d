----------------------------- MODULE MCRestore -----------------------------
(* A small instance of Restore: a chunk in two containers, a large chunk.   *)
EXTENDS Restore

MCSize == [f \in {"a", "b", "c"} |-> IF f = "c" THEN 2 ELSE 1]
MCContents == [id \in 0..2 |-> CASE id = 0 -> {"a"} [] id = 1 -> {"a", "b"} [] id = 2 -> {"c"}]
MCConfigs == {[cache |-> "lru", window |-> 1], [cache |-> "asm", window |-> 1],
              [cache |-> "opt", window |-> 2], [cache |-> "opt", window |-> 5]}
=============================================================================
