--------------------------- MODULE SerialCatalog ---------------------------
(***************************************************************************)
(* What a shared store promises its sessions: custom tables and views form *)
(* one catalog, a statement that a session asks for is executed on it at   *)
(* one instant, alone and as a whole, or not at all, what a statement has  *)
(* changed survives a restart, and one transaction at a time can be rolled *)
(* back to the catalog it began with.                                      *)
(***************************************************************************)
EXTENDS Sequences

CONSTANTS
  Sessions,
  Cells,
  Valid(_),  \* the catalogs the store may hold
  Stored(_), \* what a restart brings back of a catalog
  NoView, NoTx

VARIABLES
  catalog, \* the catalog that statements are executed on
  durable, \* the catalog a restart finds
  asked,   \* asked[s]: the statement session s has asked for, if any
  tx       \* NoTx, or the open transaction: its owner, the catalog it began
           \* with and the sessions that changed the catalog since

vars == <<catalog, durable, asked, tx>>

NoStatement == [op |-> "none"]
Table(cols, unique, rows) == [cols |-> cols, unique |-> unique, rows |-> rows]
NoTable == Table(<<>>, FALSE, <<>>)

Exists(c, n) == c.tables[n].cols # <<>>

(* The rows of a table with cell in column i of those in hit. *)
Assigned(rows, hit, i, cell) == [k \in DOMAIN rows |->
  IF rows[k] \in hit THEN [rows[k] EXCEPT ![i] = cell] ELSE rows[k]]

(* The rows of a table without those in hit. *)
Without(rows, hit) == SelectSeq(rows, LAMBDA r : r \notin hit)

WithTable(c, n, t) == [c EXCEPT !.tables[n] = t]
WithRows(c, n, rows) == WithTable(c, n, [c.tables[n] EXCEPT !.rows = rows])
WithView(c, n, q) == [c EXCEPT !.views[n] = q]
WithoutTables(c, ns) == [c EXCEPT !.tables =
  [n \in DOMAIN c.tables |-> IF n \in ns THEN NoTable ELSE c.tables[n]]]
WithoutViews(c, ns) == [c EXCEPT !.views =
  [n \in DOMAIN c.views |-> IF n \in ns THEN NoView ELSE c.views[n]]]

(* A statement is refused when a name is taken, or a table, a view or a    *)
(* position is missing.                                                    *)
Allowed(stmt, c) ==
  /\ stmt.op = "create table" => ~Exists(c, stmt.name)
  /\ stmt.op \in {"insert", "delete"} => Exists(c, stmt.name)
  /\ stmt.op = "update" => stmt.at \in DOMAIN c.tables[stmt.name].cols
  /\ stmt.op = "drop tables" =>
       stmt.ifExists \/ \A n \in stmt.names : Exists(c, n)
  /\ stmt.op = "drop views" =>
       stmt.ifExists \/ \A n \in stmt.names : c.views[n] # NoView

(* The catalogs that an UPDATE of column i may make: the rows it meets and  *)
(* the cell it computes depend on the rows of that instant.                *)
Updates(c, n, i) ==
  LET rows == c.tables[n].rows
  IN {WithRows(c, n, Assigned(rows, hit, i, cell)) :
        hit \in SUBSET {rows[k] : k \in DOMAIN rows}, cell \in Cells}

(* The catalogs that a statement may make of the catalog c.  The position  *)
(* an UPDATE assigns is the one its column had when it was asked for.      *)
Results(stmt, c) ==
  CASE stmt.op = "create table" ->
         {WithTable(c, stmt.name, Table(stmt.cols, stmt.unique, <<>>))}
    [] stmt.op = "create table as" ->
         {WithTable(c, stmt.name, Table(stmt.cols, FALSE, stmt.rows))}
    [] stmt.op = "create view" -> {WithView(c, stmt.name, stmt.query)}
    [] stmt.op = "drop tables" -> {WithoutTables(c, stmt.names)}
    [] stmt.op = "drop views" -> {WithoutViews(c, stmt.names)}
    [] stmt.op = "insert" ->
         {WithRows(c, stmt.name, c.tables[stmt.name].rows \o stmt.rows)}
    [] stmt.op = "delete" ->
         {WithRows(c, stmt.name, Without(c.tables[stmt.name].rows, stmt.hit))}
    [] stmt.op = "update" -> Updates(c, stmt.name, stmt.at)

Executions(stmt, c) ==
  IF Allowed(stmt, c) THEN {d \in Results(stmt, c) : Valid(d)} ELSE {}

-----------------------------------------------------------------------------
(* Session s asks for a statement. *)
Ask(s) ==
  /\ asked[s] = NoStatement
  /\ asked'[s] # NoStatement
  /\ asked' = [asked EXCEPT ![s] = asked'[s]]
  /\ UNCHANGED <<catalog, durable, tx>>

(* The statement of session s is executed. *)
Execute(s) ==
  /\ asked[s] # NoStatement
  /\ catalog' \in Executions(asked[s], catalog)
  /\ durable' = Stored(catalog')
  /\ asked' = [asked EXCEPT ![s] = NoStatement]
  /\ \/ tx' = IF tx = NoTx THEN NoTx ELSE [tx EXCEPT !.writers = @ \cup {s}]
     \/ catalog' = catalog /\ tx' = tx

(* The statement of session s fails.  It leaves the catalog as it was, but *)
(* the file may hold what it attempted.                                    *)
Fail(s) ==
  /\ asked[s] # NoStatement
  /\ durable' \in {durable} \cup {Stored(d) : d \in Executions(asked[s], catalog)}
  /\ asked' = [asked EXCEPT ![s] = NoStatement]
  /\ UNCHANGED <<catalog, tx>>

(* The catalog is written once more, as after a rollback. *)
Resave ==
  /\ durable' = Stored(catalog)
  /\ UNCHANGED <<catalog, asked, tx>>

Begin(s) ==
  /\ tx = NoTx
  /\ tx' = [owner |-> s, base |-> catalog, writers |-> {}]
  /\ UNCHANGED <<catalog, durable, asked>>

Commit ==
  /\ tx' = NoTx
  /\ UNCHANGED <<catalog, durable, asked>>

(* The transaction is undone, unless a session other than its owner has    *)
(* changed the catalog meanwhile.                                          *)
Rollback ==
  /\ tx # NoTx
  /\ catalog' = IF tx.writers \subseteq {tx.owner} THEN tx.base ELSE catalog
  /\ tx' = NoTx
  /\ UNCHANGED <<durable, asked>>

Restart ==
  /\ catalog' = durable
  /\ asked' = [s \in Sessions |-> NoStatement]
  /\ tx' = NoTx
  /\ UNCHANGED durable

Init ==
  /\ Valid(catalog)
  /\ durable = Stored(catalog)
  /\ asked = [s \in Sessions |-> NoStatement]
  /\ tx = NoTx

Next ==
  \/ \E s \in Sessions : Ask(s) \/ Execute(s) \/ Fail(s) \/ Begin(s)
  \/ Resave \/ Commit \/ Rollback \/ Restart

Spec == Init /\ [][Next]_vars
=============================================================================
