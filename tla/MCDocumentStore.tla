-------------------------- MODULE MCDocumentStore --------------------------
(* DocumentStore on small instances, symmetric in the files. *)
EXTENDS DocumentStore, TLC

Symmetry == Permutations(Paths)
=============================================================================
