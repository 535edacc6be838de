------------------------- MODULE MCCatalogSessions -------------------------
(* CatalogSessions with two sessions and few names, columns and rows. *)
EXTENDS CatalogSessions, TLC

(* A column that moves when the table is defined anew. *)
MCLayouts == {<<"a">>, <<"b", "a">>}

Symmetry == Permutations(Sessions) \cup Permutations(Names)
=============================================================================
