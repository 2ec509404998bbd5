-------------------------------- MODULE MCTree --------------------------------
(* ArtifactTree for TLC: generations of a shard are told apart, and nothing else. *)
EXTENDS ArtifactTree, TLC

Takes == Permutations(Take)
===============================================================================
