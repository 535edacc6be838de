----------------------------- MODULE MCViewLock -----------------------------
(* ViewLock with two names: views over views and over tables, alone and    *)
(* joined with another relation.                                           *)
EXTENDS ViewLock

CONSTANTS v, w

MCQueries == {<<Builtin>>, <<v>>, <<w>>, <<v, w>>}
=============================================================================
