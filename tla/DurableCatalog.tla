--------------------------- MODULE DurableCatalog ---------------------------
(***************************************************************************)
(* What a store promises of its catalog: a register that survives crashes. *)
(* base is the catalog the store is committed to, possible the catalogs a  *)
(* power failure may leave.  Only a proposed catalog that was neither      *)
(* acknowledged nor ruled out can make possible larger than {base}.        *)
(***************************************************************************)
EXTENDS Integers

CONSTANT Catalogs \* records with a field gen, the order of the commits

VARIABLES base, possible

Init ==
  /\ base \in Catalogs
  /\ possible = {base}

(* A commit begins: from now on it may be found after a power failure.  If *)
(* it overwrites a commit in doubt, base may be found again too.           *)
Propose == \E c \in possible' :
  /\ c \in Catalogs
  /\ c.gen > base.gen
  /\ possible' = possible \cup {c, base}
  /\ UNCHANGED base

(* A commit is reported as a success: it alone can be found. *)
Acknowledge ==
  /\ base' \in possible
  /\ base'.gen > base.gen
  /\ possible' = {base'}

(* Something rules out some of the catalogs in doubt, without telling. *)
Settle ==
  /\ possible' \subseteq possible
  /\ possible' # {}
  /\ UNCHANGED base

(* A power failure: one of the catalogs in doubt is there to stay. *)
Recover ==
  /\ base' \in possible
  /\ possible' = {base'}

Next == Propose \/ Acknowledge \/ Settle \/ Recover

Spec == Init /\ [][Next]_<<base, possible>>
=============================================================================
