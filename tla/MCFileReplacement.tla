------------------------- MODULE MCFileReplacement -------------------------
(* FileReplacement with two processes, a file and a second name, which is  *)
(* a hard link, a symbolic link or free.                                   *)
EXTENDS FileReplacement, TLC

CONSTANTS db, alias

MCLayouts ==
  {(db :> 1 @@ alias :> 1), (db :> 1 @@ alias :> db),
   (db :> 1 @@ alias :> Absent)}

Symmetry == Permutations(Procs)
=============================================================================
