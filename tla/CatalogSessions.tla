-------------------------- MODULE CatalogSessions --------------------------
(***************************************************************************)
(* SQL sessions that share one DocumentStore opened on a file: the DDL and *)
(* DML statements on custom tables and views, the catalog_commit lock that *)
(* serialises them, the flush each of them ends with, and BEGIN, COMMIT    *)
(* and ROLLBACK (src/store.rs, src/sql/ddl.rs, src/sql/dml.rs).            *)
(*                                                                         *)
(* Whatever a statement does between taking catalog_commit and changing    *)
(* the catalog is one step with the change: only a holder of the lock      *)
(* changes the catalog.  The rows an INSERT or a CREATE TABLE AS selects   *)
(* are arbitrary.  Statements that are refused change nothing and are not  *)
(* steps.  Flushing the catalog is the atomic commit of CatalogCommit: it  *)
(* publishes, or fails, or fails and has published nevertheless.           *)
(***************************************************************************)
EXTENDS Integers, Sequences, FiniteSets, Functions

CONSTANTS
  Sessions,     \* SqlEngines, each with a session id of its own
  Names,        \* names of tables and views
  Columns,      \* names of columns
  Layouts,      \* the column lists of tables
  Cells,        \* contents of a cell
  ViewDefs,     \* SELECTs that views stand for
  MaxRows,      \* rows a table can grow to
  MaxSelected,  \* rows that INSERT and CREATE TABLE AS select
  MaxStatements \* statements that are executed

CONSTANTS NoView, NoTx \* no view of that name, no open transaction

ASSUME LayoutsAssumption ==
  \A cols \in Layouts : cols \in Seq(Columns) /\ cols # <<>> /\ IsInjective(cols)

ASSUME BoundsAssumption ==
  MaxRows \in Nat /\ MaxSelected \in 0 .. MaxRows /\ MaxStatements \in Nat

(* The row sequences of a table of w columns, up to n rows. *)
RowSeqs(w, n) == UNION {[1 .. k -> [1 .. w -> Cells]] : k \in 0 .. n}

(* A CustomTableState: its rows, and what the row pages it points to hold  *)
(* (<<>> for page 0).  unique: the first column is UNIQUE.                 *)
Contents(cols) == RowSeqs(Len(cols), MaxRows)
NoTable == [cols |-> <<>>, unique |-> FALSE, rows |-> <<>>, chain |-> <<>>]
TablesOf(cols) == [cols : {cols}, unique : BOOLEAN, rows : Contents(cols),
                   chain : Contents(cols)]
Table == {NoTable} \cup UNION {TablesOf(cols) : cols \in Layouts}

(* A CustomTableEntry of the published catalog. *)
Entry == [cols : Layouts \cup {<<>>}, num : 0 .. MaxRows,
          chain : UNION {Contents(cols) : cols \in Layouts \cup {<<>>}}]

(* A TxSnapshot, and what a transaction is of one catalog. *)
Views == [Names -> ViewDefs \cup {NoView}]
Snapshots == [owner : Sessions, external : BOOLEAN, tables : [Names -> Table],
              views : Views]
Catalogs ==
  [tables : [Names -> [cols : Layouts \cup {<<>>}, unique : BOOLEAN,
                      rows : UNION {Contents(cols) : cols \in Layouts \cup {<<>>}}]],
   views : Views]

ASSUME NoTxAssumption ==
  /\ NoTx \notin Snapshots
  /\ NoTx \notin [owner : Sessions, base : Catalogs, writers : SUBSET Sessions]

VARIABLES
  tables,   \* DocumentStore.custom_tables
  views,    \* DocumentStore.views
  disk,     \* the catalog a process that opens the file gets
  tx,       \* DocumentStore.tx_snapshot
  poisoned, \* catalog_commit: a holder of the lock panicked
  sess,     \* sess[s]: the statement session s is executing
  begun,    \* statements begun so far
  writers,  \* history: whose changes were published since BEGIN
  doubt     \* history: a flush failed and none has succeeded since

vars == <<tables, views, disk, tx, poisoned, sess, begun, writers, doubt>>

(* The statements that change the catalog.  DELETE: the rows its predicate *)
(* holds of.  UPDATE: the column it sets, and the position it found for it.*)
Selected == UNION {RowSeqs(Len(cols), MaxSelected) : cols \in Layouts}
NoStatement == [op |-> "none"]
Statements ==
  {NoStatement}
  \cup [op : {"create table"}, name : Names, cols : Layouts, unique : BOOLEAN]
  \cup [op : {"create table as"}, name : Names, cols : Layouts, rows : Selected]
  \cup [op : {"create view"}, name : Names, query : ViewDefs]
  \cup [op : {"drop tables", "drop views"}, names : SUBSET Names,
        ifExists : BOOLEAN]
  \cup [op : {"insert"}, name : Names, rows : Selected]
  \cup [op : {"delete"}, name : Names,
        hit : SUBSET UNION {[1 .. Len(cols) -> Cells] : cols \in Layouts}]
  \cup [op : {"update"}, name : Names, col : Columns, at : Nat \ {0}]

(* A statement in progress, and what it restores when its flush fails. *)
Session ==
  [pc : {"idle", "updating", "applied", "published", "restoring"},
   stmt : Statements,       \* NoStatement: the flush of a rollback
   rewrites : SUBSET Names, \* tables whose row pages the flush rewrites
   ns : SUBSET Names,       \* names whose former definitions are restored
   tables : [Names -> Table],
   views : Views,
   count : 0 .. MaxRows,    \* INSERT: rows to truncate
   changes : BOOLEAN]       \* something changed: to be noted

NoTables == [n \in Names |-> NoTable]
NoViews  == [n \in Names |-> NoView]
Idle == [pc |-> "idle", stmt |-> NoStatement, rewrites |-> {}, ns |-> {},
         tables |-> NoTables, views |-> NoViews, count |-> 0, changes |-> FALSE]

-----------------------------------------------------------------------------
(* Helpers *)

(* catalog_commit can be taken, and does not panic. *)
Lockable ==
  /\ ~poisoned
  /\ \A s \in Sessions : sess[s].pc \in {"idle", "updating"}

Distinct(rows) == \A i, j \in DOMAIN rows : i # j => rows[i][1] # rows[j][1]

(* Mutated form: the constraints are not checked. *)
ConstraintsUnchecked(t) == TRUE

(* check_constraints, and the same checks in exec_insert. *)
ConstraintsHold(t) == t.unique => Distinct(t.rows)

(* What the failing statement of s leaves of tables ts. *)
Undone(s, ts) == [n \in Names |->
  IF n \in sess[s].ns THEN sess[s].tables[n]
  ELSE IF n \in sess[s].rewrites
    THEN [ts[n] EXCEPT !.rows = SubSeq(@, 1, Len(@) - sess[s].count)]
  ELSE ts[n]]

(* Mutated form: INSERT, UPDATE and DELETE leave it to                     *)
(* persist_unsaved_table_rows to store the rows.                           *)
StoredUnsavedOnly(s) == [n \in Names |->
  IF tables[n].chain = <<>> THEN [tables[n] EXCEPT !.chain = tables[n].rows]
  ELSE tables[n]]

(* The tables once their rows are written: append_table_rows_to_storage    *)
(* for INSERT, UPDATE and DELETE, persist_unsaved_table_rows for the rest. *)
Stored(s) == [n \in Names |->
  IF \/ n \in sess[s].rewrites
     \/ sess[s].rewrites = {} /\ tables[n].chain = <<>>
  THEN [tables[n] EXCEPT !.chain = tables[n].rows]
  ELSE tables[n]]

(* The catalog that names tables ts and views vs. *)
Image(ts, vs) ==
  [tables |-> [n \in Names |-> [cols |-> ts[n].cols, num |-> Len(ts[n].rows),
                                chain |-> ts[n].chain]],
   views |-> vs]

(* read_table_rows decodes num rows, or none at page 0. *)
Loads(e) == e.chain # <<>> => e.num <= Len(e.chain)

(* A table as DocumentStore::open builds it, without its constraints. *)
Loaded(e) ==
  LET rows == {i \in DOMAIN e.chain : i <= e.num}
  IN [cols |-> e.cols, unique |-> FALSE, rows |-> Restrict(e.chain, rows),
      chain |-> e.chain]

(* Statement stmt changes the catalog under the lock.  It touches the      *)
(* names ns, to be restored as they are now, and the row pages of rewrites.*)
Apply(s, stmt, ns, rewrites, count, changes, ts, vs) ==
  /\ tables' = ts
  /\ views' = vs
  /\ sess' = [sess EXCEPT ![s] = [Idle EXCEPT !.pc = "applied", !.stmt = stmt,
                 !.ns = ns, !.rewrites = rewrites, !.tables = tables,
                 !.views = views, !.count = count, !.changes = changes]]
  /\ UNCHANGED <<disk, tx, poisoned, writers, doubt>>

(* Session s begins a statement that takes the lock. *)
Start(s) ==
  /\ sess[s].pc = "idle"
  /\ begun < MaxStatements
  /\ begun' = begun + 1

-----------------------------------------------------------------------------
(* DDL *)

(* exec_create_table with a column list. *)
CreateTable(s, n, cols, unique) ==
  /\ Start(s) /\ Lockable
  /\ views[n] = NoView
  /\ tables[n] = NoTable
  /\ Apply(s, [op |-> "create table", name |-> n, cols |-> cols, unique |-> unique],
       {n}, {}, 0, TRUE,
       [tables EXCEPT ![n] = [NoTable EXCEPT !.cols = cols, !.unique = unique]],
       views)

(* exec_create_table AS SELECT; an existing table needs OR REPLACE. *)
CreateTableAs(s, n, cols, rows) ==
  /\ Start(s) /\ Lockable
  /\ views[n] = NoView
  /\ Apply(s, [op |-> "create table as", name |-> n, cols |-> cols, rows |-> rows],
       {n}, {}, 0, TRUE,
       [tables EXCEPT ![n] = [NoTable EXCEPT !.cols = cols, !.rows = rows]],
       views)

(* exec_create_view; an existing view needs OR REPLACE. *)
CreateView(s, n, q) ==
  /\ Start(s) /\ Lockable
  /\ tables[n] = NoTable
  /\ Apply(s, [op |-> "create view", name |-> n, query |-> q],
       {n}, {}, 0, TRUE, tables, [views EXCEPT ![n] = q])

(* exec_drop_tables: all of the names exist, or IF EXISTS is given. *)
DropTables(s, ns, ifExists) ==
  /\ Start(s) /\ Lockable
  /\ ifExists \/ \A n \in ns : tables[n] # NoTable
  /\ LET dropped == {n \in ns : tables[n] # NoTable}
     IN Apply(s, [op |-> "drop tables", names |-> ns, ifExists |-> ifExists],
          dropped, {}, 0, dropped # {},
          [n \in Names |-> IF n \in ns THEN NoTable ELSE tables[n]], views)

(* exec_drop_views *)
DropViews(s, ns, ifExists) ==
  /\ Start(s) /\ Lockable
  /\ ifExists \/ \A n \in ns : views[n] # NoView
  /\ LET dropped == {n \in ns : views[n] # NoView}
     IN Apply(s, [op |-> "drop views", names |-> ns, ifExists |-> ifExists],
          dropped, {}, 0, dropped # {}, tables,
          [n \in Names |-> IF n \in ns THEN NoView ELSE views[n]])

-----------------------------------------------------------------------------
(* DML *)

(* exec_insert: the rows have the table's columns and keep its constraints. *)
Insert(s, n, rows) ==
  /\ Start(s) /\ Lockable
  /\ tables[n] # NoTable
  /\ \A i \in DOMAIN rows : Len(rows[i]) = Len(tables[n].cols)
  /\ Len(tables[n].rows) + Len(rows) <= MaxRows
  /\ LET t == [tables[n] EXCEPT !.rows = @ \o rows]
     IN /\ ConstraintsHold(t)
        /\ Apply(s, [op |-> "insert", name |-> n, rows |-> rows],
             {}, {n}, Len(rows), rows # <<>>, [tables EXCEPT ![n] = t], views)

(* Mutated form: the rows that the predicate holds of are kept. *)
DeleteInverted(s, n, hit) ==
  /\ Start(s) /\ Lockable
  /\ hit \cap Range(tables[n].rows) # {}
  /\ \E kept \in {SelectSeq(tables[n].rows, LAMBDA r : r \in hit)}
                   \cap Contents(tables[n].cols) :
       LET t == [tables[n] EXCEPT !.rows = kept]
       IN /\ ConstraintsHold(t)
          /\ Apply(s, [op |-> "delete", name |-> n, hit |-> hit],
               {n}, {n}, 0, TRUE, [tables EXCEPT ![n] = t], views)

(* exec_delete: the predicate holds of the rows in hit. *)
Delete(s, n, hit) ==
  /\ Start(s) /\ Lockable
  /\ hit \cap Range(tables[n].rows) # {}
  /\ \E kept \in {SelectSeq(tables[n].rows, LAMBDA r : r \notin hit)}
                   \cap Contents(tables[n].cols) :
       LET t == [tables[n] EXCEPT !.rows = kept]
       IN /\ ConstraintsHold(t)
          /\ Apply(s, [op |-> "delete", name |-> n, hit |-> hit],
               {n}, {n}, 0, TRUE, [tables EXCEPT ![n] = t], views)

(* exec_update first resolves the assigned column, without the lock. *)
UpdateResolve(s, n, i) ==
  /\ Start(s)
  /\ i \in DOMAIN tables[n].cols
  /\ sess' = [sess EXCEPT ![s] = [Idle EXCEPT !.pc = "updating", !.stmt =
                 [op |-> "update", name |-> n, col |-> tables[n].cols[i], at |-> i]]]
  /\ UNCHANGED <<tables, views, disk, tx, poisoned, writers, doubt>>

(* Then it rewrites the rows in hit under the lock, at that position. *)
UpdateApply(s, n, hit, cell) ==
  /\ sess[s].pc = "updating" /\ Lockable
  /\ sess[s].stmt.name = n
  /\ LET i == sess[s].stmt.at
         old == tables[n].rows
         t == [tables[n] EXCEPT !.rows = [k \in DOMAIN old |->
                 IF old[k] \in hit THEN [old[k] EXCEPT ![i] = cell] ELSE old[k]]]
     IN /\ hit \cap Range(old) # {}
        /\ i <= Len(tables[n].cols)
        /\ ConstraintsHold(t)
        /\ Apply(s, sess[s].stmt, {n}, {n}, 0, TRUE,
             [tables EXCEPT ![n] = t], views)
  /\ UNCHANGED begun

(* The rows have lost that position: an index out of bounds panics, which  *)
(* poisons catalog_commit.                                                 *)
UpdatePanics(s) ==
  /\ sess[s].pc = "updating" /\ Lockable
  /\ LET stmt == sess[s].stmt
     IN /\ tables[stmt.name].rows # <<>>
        /\ stmt.at > Len(tables[stmt.name].cols)
  /\ poisoned' = TRUE
  /\ sess' = [sess EXCEPT ![s] = Idle]
  /\ UNCHANGED <<tables, views, disk, tx, begun, writers, doubt>>

(* The table is gone, no row matched, a constraint failed, or the lock is  *)
(* poisoned.                                                               *)
UpdateRefused(s) ==
  /\ sess[s].pc = "updating"
  /\ Lockable \/ poisoned
  /\ sess' = [sess EXCEPT ![s] = Idle]
  /\ UNCHANGED <<tables, views, disk, tx, poisoned, begun, writers, doubt>>

-----------------------------------------------------------------------------
(* The flush every statement ends with *)

(* The flush succeeds. *)
Publish(s) ==
  /\ sess[s].pc = "applied"
  /\ tables' = Stored(s)
  /\ disk' = Image(Stored(s), views)
  /\ writers' = IF tx # NoTx /\ sess[s].changes THEN writers \cup {s} ELSE writers
  /\ doubt' = FALSE
  /\ sess' = [sess EXCEPT ![s].pc = "published"]
  /\ UNCHANGED <<views, tx, poisoned, begun>>

(* The flush fails, before or after the rows were written and perhaps      *)
(* after the catalog became visible, and the statement is undone.          *)
FlushFails(s) ==
  /\ sess[s].pc = "applied"
  /\ \/ tables' = Undone(s, tables) /\ disk' = disk
     \/ tables' = Undone(s, Stored(s)) /\ disk' \in {disk, Image(Stored(s), views)}
  /\ views' = [n \in Names |-> IF n \in sess[s].ns THEN sess[s].views[n]
                               ELSE views[n]]
  /\ doubt' = TRUE
  /\ sess' = [sess EXCEPT ![s] = Idle]
  /\ UNCHANGED <<tx, poisoned, begun, writers>>

(* Mutated form: the lock is released without noting the mutation. *)
AcknowledgeUnnoted(s) ==
  /\ sess[s].pc = "published"
  /\ sess' = [sess EXCEPT ![s] = Idle]
  /\ UNCHANGED <<tables, views, disk, tx, poisoned, begun, writers, doubt>>

(* note_catalog_mutation, then the lock is released. *)
Acknowledge(s) ==
  /\ sess[s].pc = "published"
  /\ tx' = IF tx # NoTx /\ sess[s].changes /\ tx.owner # s
           THEN [tx EXCEPT !.external = TRUE] ELSE tx
  /\ sess' = [sess EXCEPT ![s] = Idle]
  /\ UNCHANGED <<tables, views, disk, poisoned, begun, writers, doubt>>

-----------------------------------------------------------------------------
(* Transactions *)

(* Mutated form: the snapshot is taken without catalog_commit. *)
BeginUnlocked(s) ==
  /\ Start(s)
  /\ tx = NoTx
  /\ tx' = [owner |-> s, external |-> FALSE, tables |-> tables, views |-> views]
  /\ writers' = {}
  /\ UNCHANGED <<tables, views, disk, poisoned, sess, doubt>>

(* begin_transaction *)
Begin(s) ==
  /\ Start(s) /\ Lockable
  /\ tx = NoTx
  /\ tx' = [owner |-> s, external |-> FALSE, tables |-> tables, views |-> views]
  /\ writers' = {}
  /\ UNCHANGED <<tables, views, disk, poisoned, sess, doubt>>

(* commit_transaction: by any session, without catalog_commit. *)
Commit(s) ==
  /\ Start(s)
  /\ tx # NoTx
  /\ tx' = NoTx
  /\ UNCHANGED <<tables, views, disk, poisoned, sess, writers, doubt>>

(* rollback_transaction_tables_only, by any session: the tables first. *)
Rollback(s) ==
  /\ Start(s) /\ Lockable
  /\ tx # NoTx /\ ~tx.external
  /\ tx' = NoTx
  /\ tables' = tx.tables
  /\ sess' = [sess EXCEPT ![s] = [Idle EXCEPT !.pc = "restoring",
                                    !.views = tx.views]]
  /\ UNCHANGED <<views, disk, poisoned, writers, doubt>>

(* Then the views.  A flush follows that restores nothing when it fails. *)
RestoreViews(s) ==
  /\ sess[s].pc = "restoring"
  /\ views' = sess[s].views
  /\ sess' = [sess EXCEPT ![s].pc = "applied"]
  /\ UNCHANGED <<tables, disk, tx, poisoned, begun, writers, doubt>>

(* Another session changed the catalog: the transaction is closed as it is. *)
RollbackRefused(s) ==
  /\ Start(s) /\ Lockable
  /\ tx # NoTx /\ tx.external
  /\ tx' = NoTx
  /\ UNCHANGED <<tables, views, disk, poisoned, sess, writers, doubt>>

(* The process ends, at any moment, and another opens the file. *)
Reopen ==
  /\ \A n \in Names : Loads(disk.tables[n])
  /\ tables' = [n \in Names |-> Loaded(disk.tables[n])]
  /\ views' = disk.views
  /\ tx' = NoTx
  /\ poisoned' = FALSE
  /\ sess' = [s \in Sessions |-> Idle]
  /\ doubt' = FALSE
  /\ UNCHANGED <<disk, begun, writers>>

Init ==
  /\ tables = NoTables
  /\ views = NoViews
  /\ disk = Image(NoTables, NoViews)
  /\ tx = NoTx
  /\ poisoned = FALSE
  /\ sess = [s \in Sessions |-> Idle]
  /\ begun = 0
  /\ writers = {}
  /\ doubt = FALSE

Define(s) == \E n \in Names :
  \/ \E cols \in Layouts :
       \/ \E unique \in BOOLEAN : CreateTable(s, n, cols, unique)
       \/ \E rows \in RowSeqs(Len(cols), MaxSelected) : CreateTableAs(s, n, cols, rows)
  \/ \E q \in ViewDefs : CreateView(s, n, q)

Drop(s) == \E ns \in SUBSET Names \ {{}}, ifExists \in BOOLEAN :
  DropTables(s, ns, ifExists) \/ DropViews(s, ns, ifExists)

Rewrite(s) ==
  \/ \E n \in Names :
       \/ \E cols \in Layouts : \E rows \in RowSeqs(Len(cols), MaxSelected) :
            Insert(s, n, rows)
       \/ \E hit \in SUBSET Range(tables[n].rows) : Delete(s, n, hit)
       \/ \E i \in DOMAIN tables[n].cols : UpdateResolve(s, n, i)
       \/ \E cell \in Cells : \E hit \in SUBSET Range(tables[n].rows) :
            UpdateApply(s, n, hit, cell)
  \/ UpdatePanics(s) \/ UpdateRefused(s)

Flush(s) == Publish(s) \/ FlushFails(s) \/ Acknowledge(s)

Transaction(s) ==
  Begin(s) \/ Commit(s) \/ Rollback(s) \/ RestoreViews(s) \/ RollbackRefused(s)

Next ==
  \/ \E s \in Sessions :
       Define(s) \/ Drop(s) \/ Rewrite(s) \/ Flush(s) \/ Transaction(s)
  \/ Reopen

Spec == Init /\ [][Next]_vars
-----------------------------------------------------------------------------
(* Properties *)

(* Every variable holds a value of its declared range. *)
TypeOK ==
  /\ tables \in [Names -> Table]
  /\ views \in Views
  /\ disk \in [tables : [Names -> Entry], views : Views]
  /\ tx = NoTx \/ tx \in Snapshots
  /\ poisoned \in BOOLEAN
  /\ sess \in [Sessions -> Session]
  /\ begun \in 0 .. MaxStatements
  /\ writers \subseteq Sessions
  /\ doubt \in BOOLEAN

(* The published catalog always opens: it never counts more rows than the  *)
(* pages it points to hold (append_table_rows_to_storage).                 *)
DiskLoads == \A n \in Names : Loads(disk.tables[n])

(* Once the flush of a statement has succeeded, a process that opens the   *)
(* file sees the tables and views that the sessions see, although failed   *)
(* statements and rollbacks have moved rows and pages apart meanwhile.     *)
DiskIsMemory ==
  ~doubt /\ (\A s \in Sessions : sess[s].pc \in {"idle", "updating"}) =>
    /\ views = disk.views
    /\ \A n \in Names : /\ tables[n].cols = disk.tables[n].cols
                        /\ tables[n].rows = Loaded(disk.tables[n]).rows

(* No session ever sees a UNIQUE column with a value twice, whatever was   *)
(* resolved before the lock was taken (exec_insert, check_constraints).    *)
UniqueHolds == \A n \in Names : tables[n].unique => Distinct(tables[n].rows)

(* The step that begins to restore the snapshot of a transaction. *)
Reverts(s) == sess[s].pc # "restoring" /\ sess'[s].pc = "restoring"

(* A rollback never takes back what a session other than the owner of the  *)
(* transaction has changed since BEGIN (note_catalog_mutation,             *)
(* rollback_transaction_tables_only).                                      *)
ForeignChangesSurvive ==
  [][\A s \in Sessions : Reverts(s) => writers \subseteq {tx.owner}]_vars

(* The abstract catalog. *)
CatalogOf(ts, vs) ==
  [tables |-> [n \in Names |-> [cols |-> ts[n].cols, unique |-> ts[n].unique,
                               rows |-> ts[n].rows]],
   views |-> vs]

(* What the sessions have been told: a statement whose flush is pending    *)
(* has not happened yet, a rollback has happened when it begins.           *)
Told ==
  IF \E s \in Sessions : sess[s].pc \in {"applied", "restoring"} THEN
    LET s == CHOOSE x \in Sessions : sess[x].pc \in {"applied", "restoring"}
    IN CatalogOf(Undone(s, tables),
         [n \in Names |-> IF n \in sess[s].ns \/ sess[s].pc = "restoring"
                         THEN sess[s].views[n] ELSE views[n]])
  ELSE CatalogOf(tables, views)

ValidCatalog(c) == \A n \in Names :
  /\ c.tables[n].cols = <<>> \/ c.views[n] = NoView
  /\ c.tables[n].unique => Distinct(c.tables[n].rows)

Unconstrained(c) ==
  [c EXCEPT !.tables = [n \in Names |-> [c.tables[n] EXCEPT !.unique = FALSE]]]

(* The statement session s has asked for and has had no answer to. *)
Asked(s) == IF sess[s].pc \in {"updating", "applied"} THEN sess[s].stmt
            ELSE NoStatement

Serial == INSTANCE SerialCatalog WITH
  Valid <- ValidCatalog,
  Stored <- Unconstrained,
  catalog <- Told,
  durable <- CatalogOf([n \in Names |-> Loaded(disk.tables[n])], disk.views),
  asked <- [s \in Sessions |-> Asked(s)],
  tx <- IF tx = NoTx THEN NoTx
        ELSE [owner |-> tx.owner, base |-> CatalogOf(tx.tables, tx.views),
              writers |-> writers]

(* Each statement of the concurrent sessions does to tables and views what *)
(* it was asked to, at one instant of its execution and on the catalog of  *)
(* that instant, completely and durably, or it fails and does nothing,     *)
(* except that the file may then hold what it attempted.  An UPDATE        *)
(* assigns the position its column had before it took the lock             *)
(* (src/sql/dml.rs:64), which may be another column by then.  The claim is *)
(* about what statements do: a SELECT may read a change whose flush is     *)
(* pending, or the tables of a rollback with the views before it.          *)
ImplementsSerial == Serial!Spec
=============================================================================
