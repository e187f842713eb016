----------------------------- MODULE MCVectorMemory -----------------------------
(* Small instances of VectorMemory.                                           *)
EXTENDS VectorMemory, TLC

\* An ordinary memory is weak after one tick, an emotional one after two.
OneOrTwoTicks == (0 :> 1) @@ (1 :> 2)

Alike == Permutations(Task) \cup Permutations(Id) \cup Permutations(Topic)
================================================================================
