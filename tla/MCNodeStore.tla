---------------------------- MODULE MCNodeStore ----------------------------
(* Small instances of NodeStore for TLC. *)
EXTENDS NodeStore, TLC

Symmetry == Permutations(Handlers)
=============================================================================
