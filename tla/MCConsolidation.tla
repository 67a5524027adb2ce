--------------------------- MODULE MCConsolidation ---------------------------
(* Small instances of Consolidation for TLC. *)
EXTENDS Consolidation, TLC

IdSymmetry == Permutations(Ids)
=============================================================================
