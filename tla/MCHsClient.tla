----------------------------- MODULE MCHsClient -----------------------------
(* Small instances of HsClient for TLC. *)
EXTENDS HsClient, TLC

Symmetry == Permutations(Procs)
=============================================================================
