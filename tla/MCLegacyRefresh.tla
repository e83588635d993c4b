-------------------------- MODULE MCLegacyRefresh --------------------------
(* The credential unit on a small instance. *)
EXTENDS LegacyRefresh, TLC

Symmetry == Permutations(Gens \ Malformed) \cup Permutations(Receipts)
=============================================================================
