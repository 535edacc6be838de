-------------------------- MODULE MCCatalogCommit --------------------------
(* CatalogCommit on a small file. *)
EXTENDS CatalogCommit, TLC

Symmetry == Permutations(Values)
=============================================================================
