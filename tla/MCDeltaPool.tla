---------------------------- MODULE MCDeltaPool ----------------------------
(* The objects of a pool are alike, and so are the viewports. *)
EXTENDS DeltaPool, TLC

Alike == Permutations(Deltas) \cup Permutations(Buffers) \cup Permutations(Views)
=============================================================================
